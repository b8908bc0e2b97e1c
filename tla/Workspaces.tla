----------------------------- MODULE Workspaces -----------------------------
(***************************************************************************)
(* The MCP server's workspaces: `serve` sets one up for the directory it   *)
(* was started in, the client names its roots after `initialized`, and a   *)
(* tool call that finds no workspace sets up all known roots.  Each of the *)
(* three calls try_init_workspace, which starts a watcher, a worker and a  *)
(* catch-up of its own, so one root may have several of them.              *)
(*                                                                         *)
(* Messages of the client go through one loop.  A request is a task; the   *)
(* handler of `initialized` asks the client a question in turn.            *)
(*                                                                         *)
(* A root has one file, and a version of it one chunk; AutoSync and        *)
(* Indexer have the details of a sync, of many files and chunks.  Here     *)
(* several syncs work on one index, each with a connection of its own,     *)
(* and their transactions fall between each other's.                       *)
(***************************************************************************)
EXTENDS Naturals, Sequences, FiniteSets

CONSTANTS
  Root,       \* directories
  Cwd,        \* where `serve` was started
  Named,      \* the roots the client names, a sequence
  Call,       \* tool calls
  Path,       \* relative paths a tool call may name
  FilesOf,    \* [Root -> SUBSET Path]: what is there
  Order,      \* the order of BTreeMap<PathBuf, _>: a sequence of all roots
  SpotOf,     \* [1 .. MaxVersion -> Nat]: where a version has its chunk, its id
  Edited,     \* bound: the roots whose files are edited
  MaxVersion, \* bound: versions of a file
  MaxWorkers, \* bound: workers of a root that is edited
  Hitches     \* what may go wrong: "sync", "load"; "late": the user runs init while the server runs

ASSUME WorkspacesAssumption ==
  /\ Cwd \in Root /\ Named \in Seq(Root) /\ Order \in Seq(Root)
  /\ FilesOf \in [Root -> SUBSET Path]
  /\ Edited \subseteq Root /\ MaxVersion \in Nat /\ MaxWorkers \in Nat
  /\ SpotOf \in [1 .. MaxVersion -> Nat]
  /\ Hitches \subseteq {"sync", "load", "late"}

VARIABLES
  has,      \* roots with a .vectorcode directory
  broken,   \* roots whose try_init_workspace fails
  disk,     \* version of each root's file
  record,   \* version each root's row of `files` has, 0 if there is none
  chunks,   \* versions whose chunk is stored, at most one for an id
  hit,      \* roots a sync has failed for
  known,    \* AppState.known_roots
  map,      \* AppState.workspaces: [Root -> worker or 0]
  worker,   \* what the calls of try_init_workspace have started, in that order
  inbox,    \* the client's messages
  fetch,    \* the task of on_initialized
  call      \* the tool calls

index == <<record, chunks>>
files == <<disk, index, hit>>
server == <<known, map, inbox, fetch, call>>
vars == <<has, broken, files, server, worker>>

-----------------------------------------------------------------------------
Workers == DOMAIN worker

Task == {"watch", "late"}   \* run_watcher_background, run_connect_time_catchup

(* ev: the debouncer holds an event back; q and noted: batches in the two  *)
(* channels; listed: the file is on the pending list; at, read: where the  *)
(* two tasks are, and the version they have read.  The catch-up has        *)
(* nothing to do where nobody edits.                                       *)
NewWorker(r) ==
  [root |-> r, ev |-> FALSE, q |-> 0, noted |-> 0, listed |-> FALSE,
   at |-> [t \in Task |-> CASE t = "watch" -> "wait"
                            [] t = "late" -> IF r \in Edited THEN "list" ELSE "idle"],
   read |-> [t \in Task |-> 0]]

NewCall == [at |-> "new", todo |-> <<>>, got |-> <<>>, owed |-> {}]

Mapped == {r \in Root : map[r] # 0}

\* the map's values in the order of its keys
MappedWorkers ==
  LET keys == SelectSeq(Order, LAMBDA r : map[r] # 0)
  IN [i \in DOMAIN keys |-> map[keys[i]]]

Loads(r) == r \in has /\ r \notin broken

Init ==
  /\ has \in SUBSET Root
  /\ broken \in (IF "load" \in Hitches THEN SUBSET (Root \ {Cwd}) ELSE {{}})
  /\ disk = [r \in Root |-> 2]   \* 1 before the server was started
  /\ record \in [Root -> {0, 1, 2}]
  /\ \A r \in Root : IF r \in has THEN record[r] # 1 \/ r \in Edited ELSE record[r] = 0
  /\ chunks \in [Root -> SUBSET {1, 2}]
  /\ \A r \in Root :   \* a sync of version 2 may have been killed after its deletions
       IF record[r] = 1 THEN chunks[r] \subseteq {1}
       ELSE chunks[r] = {record[r]} \ {0}
  /\ hit = {}
  /\ known = <<Cwd>>
  /\ worker = IF Cwd \in has THEN <<NewWorker(Cwd)>> ELSE <<>>
  /\ map = [r \in Root |-> IF r = Cwd /\ Cwd \in has THEN 1 ELSE 0]
  /\ inbox = <<"initialized">>
  /\ fetch = [at |-> "idle", todo |-> <<>>, add |-> <<>>]
  /\ call = [c \in Call |-> NewCall]

-----------------------------------------------------------------------------
(* The message loop. *)

ReceiveInOrder ==
  /\ inbox # <<>> /\ fetch.at # "asked"
  /\ inbox' = Tail(inbox)
  /\ CASE Head(inbox) = "initialized" ->
            fetch' = [fetch EXCEPT !.at = "asked"] /\ UNCHANGED call
       [] Head(inbox) = "roots" ->
            fetch' = [fetch EXCEPT !.at = "init", !.todo = Named] /\ UNCHANGED call
       [] Head(inbox) = "error" ->
            fetch' = [fetch EXCEPT !.at = "idle"] /\ UNCHANGED call
       [] Head(inbox) \in Call ->
            call' = [call EXCEPT ![Head(inbox)].at = "begin"] /\ UNCHANGED fetch
  /\ UNCHANGED <<has, broken, files, known, map, worker>>

(* The handler of `initialized` leaves its question to a task, so that the *)
(* loop can take the answer.                                               *)
Receive ==
  /\ inbox # <<>>
  /\ inbox' = Tail(inbox)
  /\ CASE Head(inbox) = "initialized" ->
            fetch' = [fetch EXCEPT !.at = "asked"] /\ UNCHANGED call
       [] Head(inbox) = "roots" ->
            fetch' = [fetch EXCEPT !.at = "init", !.todo = Named] /\ UNCHANGED call
       [] Head(inbox) = "error" ->
            fetch' = [fetch EXCEPT !.at = "idle"] /\ UNCHANGED call
       [] Head(inbox) \in Call ->
            call' = [call EXCEPT ![Head(inbox)].at = "begin"] /\ UNCHANGED fetch
  /\ UNCHANGED <<has, broken, files, known, map, worker>>

Answering == \E i \in DOMAIN inbox : inbox[i] \in {"roots", "error"}

\* the client's answer to list_roots: its roots, or an error if it has none
AnswerRoots ==
  /\ fetch.at = "asked" /\ ~Answering
  /\ \E m \in {"roots", "error"} : inbox' = Append(inbox, m)
  /\ UNCHANGED <<has, broken, files, known, map, worker, fetch, call>>

SendCall(c) ==
  /\ call[c].at = "new"
  /\ call' = [call EXCEPT ![c].at = "sent"]
  /\ inbox' = Append(inbox, c)
  /\ UNCHANGED <<has, broken, files, known, map, worker, fetch>>

-----------------------------------------------------------------------------
(* on_initialized: the roots that have an index are set up one by one and  *)
(* put into the map at the end, over what is there.                        *)

FetchRoot ==
  /\ fetch.at = "init" /\ fetch.todo # <<>>
  /\ LET r == Head(fetch.todo)
     IN IF Loads(r)
        THEN /\ worker' = Append(worker, NewWorker(r))
             /\ fetch' = [fetch EXCEPT !.todo = Tail(@),
                                       !.add = Append(@, Len(worker) + 1)]
        ELSE /\ UNCHANGED worker
             /\ fetch' = [fetch EXCEPT !.todo = Tail(@)]
  /\ UNCHANGED <<has, broken, files, known, map, inbox, call>>

KnowRoots ==
  /\ fetch.at = "init" /\ fetch.todo = <<>>
  /\ known' = IF Named = <<>> THEN known ELSE Named
  /\ fetch' = [fetch EXCEPT !.at = "insert"]
  /\ UNCHANGED <<has, broken, files, map, worker, inbox, call>>

InsertRoots ==
  /\ fetch.at = "insert"
  /\ map' = [r \in Root |->
       LET mine == {i \in DOMAIN fetch.add : worker[fetch.add[i]].root = r}
       IN IF mine = {} THEN map[r] ELSE fetch.add[CHOOSE i \in mine : \A j \in mine : j <= i]]
  /\ fetch' = [fetch EXCEPT !.at = "idle", !.add = <<>>]
  /\ UNCHANGED <<has, broken, files, known, worker, inbox, call>>

-----------------------------------------------------------------------------
(* get_all_inner_states, and what the tools do with the result. *)

BeginCall(c) ==
  /\ call[c].at = "begin"
  /\ call' = [call EXCEPT ![c] =
       [@ EXCEPT !.owed = {known[i] : i \in {j \in DOMAIN known : Loads(known[j])}},
                 !.at = IF Mapped # {} THEN "answered" ELSE "lazy",
                 !.got = MappedWorkers,
                 !.todo = IF Mapped # {} THEN <<>> ELSE known]]
  /\ UNCHANGED <<has, broken, files, known, map, worker, inbox, fetch>>

(* One root of the snapshot of known_roots; the first that cannot be set   *)
(* up fails the call.                                                      *)
LazyInit(c) ==
  /\ call[c].at = "lazy" /\ call[c].todo # <<>>
  /\ LET r == Head(call[c].todo)
     IN \/ /\ r \notin has
           /\ call' = [call EXCEPT ![c].todo = Tail(@)]
           /\ UNCHANGED <<map, worker>>
        \/ /\ r \in has /\ r \in broken
           /\ call' = [call EXCEPT ![c].at = "failed"]
           /\ UNCHANGED <<map, worker>>
        \/ /\ Loads(r)
           /\ worker' = Append(worker, NewWorker(r))
           /\ map' = [map EXCEPT ![r] = Len(worker) + 1]
           /\ call' = [call EXCEPT ![c].todo = Tail(@),
                                   ![c].got = Append(@, Len(worker) + 1)]
  /\ UNCHANGED <<has, broken, files, known, inbox, fetch>>

EndLazy(c) ==
  /\ call[c].at = "lazy" /\ call[c].todo = <<>>
  /\ call' = [call EXCEPT ![c].at = IF call[c].got = <<>> THEN "failed" ELSE "answered"]
  /\ UNCHANGED <<has, broken, files, known, map, worker, inbox, fetch>>

\* the tool's text goes back to the client
Return(c) ==
  /\ call[c].at \in {"answered", "failed"}
  /\ call' = [call EXCEPT ![c] = [NewCall EXCEPT !.at = "returned"]]
  /\ UNCHANGED <<has, broken, files, known, map, worker, inbox, fetch>>

CallStep(c) == BeginCall(c) \/ LazyInit(c) \/ EndLazy(c) \/ Return(c)

(* resolve_within_workspace, for a relative path and the map's roots in    *)
(* order: a path that is not there is taken for one of the first root.     *)
Resolve(p, roots) == IF roots = <<>> THEN <<>> ELSE <<Head(roots), p \in FilesOf[Head(roots)]>>

Served(c) == {worker[call[c].got[i]].root : i \in DOMAIN call[c].got}

-----------------------------------------------------------------------------
(* The tasks of try_init_workspace. *)

FlushUnlessBusy(w) ==
  /\ worker[w].ev
  /\ worker' = [worker EXCEPT ![w].ev = FALSE, ![w].noted = @ + 1,
                              ![w].q = IF worker[w].at["watch"] = "wait" THEN @ + 1 ELSE @]
  /\ UNCHANGED <<has, broken, files, server>>

Flush(w) ==
  /\ worker[w].ev
  /\ worker' = [worker EXCEPT ![w].ev = FALSE, ![w].q = @ + 1, ![w].noted = @ + 1]
  /\ UNCHANGED <<has, broken, files, server>>

\* the task that keeps the pending list
NotePending(w) ==
  /\ worker[w].noted > 0
  /\ worker' = [worker EXCEPT ![w].noted = @ - 1, ![w].listed = TRUE]
  /\ UNCHANGED <<has, broken, files, server>>

(* index_files, called with a batch or by the catch-up.  It reads the file *)
(* and then asks for the record; a transaction deletes what is in the way; *)
(* the lock is released while the text is embedded; a transaction stores   *)
(* the chunk; another the record.                                          *)

TakeBatch(w) ==
  /\ worker[w].at["watch"] = "wait" /\ worker[w].q > 0
  /\ worker' = [worker EXCEPT ![w].q = @ - 1, ![w].at["watch"] = "check",
                              ![w].read["watch"] = disk[worker[w].root]]
  /\ UNCHANGED <<has, broken, files, server>>

(* run_connect_time_catchup looks at files that have a record. *)
ListChanged(w) ==
  LET r == worker[w].root
  IN /\ worker[w].at["late"] = "list"
     /\ worker' = [worker EXCEPT ![w].read["late"] = disk[r],
                     ![w].at["late"] = IF record[r] \in {0, disk[r]} THEN "idle" ELSE "check"]
     /\ UNCHANGED <<has, broken, files, server>>

\* where a task is after a sync that succeeded: the worker clears its list
Done(t) == IF t = "watch" THEN "clear" ELSE "idle"

CheckFile(w, t) ==
  LET current == record[worker[w].root] = worker[w].read[t]
  IN /\ worker[w].at[t] = "check"
     /\ worker' = [worker EXCEPT ![w].at[t] = IF current THEN Done(t) ELSE "sync"]
     /\ UNCHANGED <<has, broken, files, server>>

\* old chunks with another id are deleted; one that is there is not embedded
CommitFile(w, t) ==
  LET r == worker[w].root  v == worker[w].read[t]
  IN /\ worker[w].at[t] = "sync"
     /\ chunks' = [chunks EXCEPT ![r] = {u \in @ : SpotOf[u] = SpotOf[v]}]
     /\ worker' = [worker EXCEPT ![w].at[t] = IF v \in chunks[r] THEN "record" ELSE "embed"]
     /\ UNCHANGED <<has, broken, disk, record, hit, server>>

\* INSERT OR REPLACE, in the transaction of the batch
StoreChunks(w, t) ==
  LET r == worker[w].root  v == worker[w].read[t]
  IN /\ worker[w].at[t] = "embed"
     /\ chunks' = [chunks EXCEPT ![r] = {u \in @ : SpotOf[u] # SpotOf[v]} \cup {v}]
     /\ worker' = [worker EXCEPT ![w].at[t] = "record"]
     /\ UNCHANGED <<has, broken, disk, record, hit, server>>

UpsertRecord(w, t) ==
  /\ worker[w].at[t] = "record"
  /\ record' = [record EXCEPT ![worker[w].root] = worker[w].read[t]]
  /\ worker' = [worker EXCEPT ![w].at[t] = Done(t)]
  /\ UNCHANGED <<has, broken, disk, chunks, hit, server>>

Busy(w, t) == worker[w].at[t] \in {"check", "sync", "embed", "record"}

FailSyncCleared(w, t) ==
  /\ "sync" \in Hitches /\ Busy(w, t)
  /\ worker' = [worker EXCEPT ![w].at[t] = IF t = "watch" THEN "wait" ELSE "idle",
                              ![w].listed = FALSE]
  /\ hit' = hit \cup {worker[w].root}
  /\ UNCHANGED <<has, broken, disk, index, server>>

(* The embedder fails, or the database is locked for too long: what was    *)
(* committed stays.                                                        *)
FailSync(w, t) ==
  /\ "sync" \in Hitches /\ Busy(w, t)
  /\ worker' = [worker EXCEPT ![w].at[t] = IF t = "watch" THEN "wait" ELSE "idle"]
  /\ hit' = hit \cup {worker[w].root}
  /\ UNCHANGED <<has, broken, disk, index, server>>

ClearPending(w) ==
  /\ worker[w].at["watch"] = "clear"
  /\ worker' = [worker EXCEPT ![w].at["watch"] = "wait", ![w].listed = FALSE]
  /\ UNCHANGED <<has, broken, files, server>>

SyncStep(w, t) == CheckFile(w, t) \/ CommitFile(w, t) \/ StoreChunks(w, t) \/ UpsertRecord(w, t)

WorkerStep(w) ==
  \/ Flush(w) \/ NotePending(w) \/ TakeBatch(w) \/ ClearPending(w) \/ ListChanged(w)
  \/ \E t \in Task : SyncStep(w, t)

-----------------------------------------------------------------------------
(* The user.  Bound: the first edit comes when all calls have returned and *)
(* nothing is left to repair, and `vectorcode init` before it; nobody      *)
(* edits while workspaces are being set up, nor while a catch-up is under  *)
(* way.                                                                    *)

Untouched == \A r \in Root : disk[r] = 2

WorkersOf(r) == {w \in Workers : worker[w].root = r}

Calm(r) ==
  /\ disk[r] < MaxVersion /\ Cardinality(WorkersOf(r)) <= MaxWorkers
  /\ inbox = <<>> /\ fetch.at = "idle" /\ broken = {}
  /\ \A c \in Call : call[c].at = "returned"
  /\ \A w \in WorkersOf(r) : worker[w].at["late"] = "idle"

(* Every watcher of the root is told, also those of workspaces that are no *)
(* longer in the map: their workers hold them.                             *)
Edit(r) ==
  /\ r \in Edited /\ Calm(r)
  /\ disk' = [disk EXCEPT ![r] = @ + 1]
  /\ worker' = [w \in Workers |->
       IF worker[w].root = r THEN [worker[w] EXCEPT !.ev = TRUE] ELSE worker[w]]
  /\ UNCHANGED <<has, broken, index, hit, server>>

\* vectorcode init and index
UserInit(r) ==
  /\ "late" \in Hitches /\ r \notin has /\ Untouched
  /\ has' = has \cup {r}
  /\ record' = [record EXCEPT ![r] = disk[r]]
  /\ chunks' = [chunks EXCEPT ![r] = {disk[r]}]
  /\ UNCHANGED <<broken, disk, hit, server, worker>>

Repair(r) ==
  /\ r \in broken /\ Untouched
  /\ broken' = broken \ {r}
  /\ UNCHANGED <<has, files, server, worker>>

UserStep == \E r \in Root : Edit(r) \/ UserInit(r) \/ Repair(r)

FetchStep == FetchRoot \/ KnowRoots \/ InsertRoots

Next ==
  \/ Receive \/ AnswerRoots \/ FetchStep
  \/ \E c \in Call : SendCall(c) \/ CallStep(c)
  \/ \E w \in Workers : WorkerStep(w) \/ \E t \in Task : FailSync(w, t)
  \/ UserStep

(* The loop and its tasks are polled.  The client need not answer the      *)
(* question, and the user need not do anything.                            *)
Fairness ==
  /\ WF_vars(Receive)
  /\ \A c \in Call : WF_vars(CallStep(c))

Spec == Init /\ [][Next]_vars
FairSpec == Spec /\ Fairness

-----------------------------------------------------------------------------
(* Properties. *)

\* A sync that has read the file as it is, or that is still to read it.
OnItsWay(w) ==
  \/ worker[w].ev \/ worker[w].q > 0 \/ worker[w].at["late"] = "list"
  \/ \E t \in Task : Busy(w, t) /\ worker[w].read[t] = disk[worker[w].root]

Alone(w) == WorkersOf(worker[w].root) = {w}

Recorded(r) == record[r] = disk[r]
UpToDate(r) == Recorded(r) /\ chunks[r] = {disk[r]}

(* The syncs of several workers of one root fall between each other, and   *)
(* one may store an old version after another one stored the new one: an   *)
(* indexed file whose record is out of date will be synced again, by a     *)
(* worker of its root, if no sync of the root has failed; and where the    *)
(* root has but one worker no old chunk is left beside a current record.   *)
(* (With two it may be, and stay.)                                         *)
StaleIsBeingSynced ==
  \A r \in Root \ hit :
    LET mine == WorkersOf(r)
    IN mine # {} /\ record[r] # 0 =>
         \/ Recorded(r) /\ ((\A w \in mine : Alone(w)) => UpToDate(r))
         \/ \E w \in mine : OnItsWay(w)

(* A file leaves the list behind the staleness banner only when it is up   *)
(* to date or its next sync is under way, also when syncs fail, if its     *)
(* root has but one worker.                                                *)
UnlistedIsHandled ==
  [][\A w \in Workers :
       worker[w].listed /\ ~worker'[w].listed /\ Alone(w) =>
         (UpToDate(worker[w].root) \/ OnItsWay(w))']_vars

(* A tool call is answered, although the server asks the client a question *)
(* over the same connection and may never hear back.                       *)
EveryCallAnswered ==
  \A c \in Call : call[c].at = "sent" ~> call[c].at = "returned"

(* on_initialized awaits that the user runs init in a root that has no     *)
(* index: a later call serves every known root that can be set up.         *)
InitializedRootsAreServed ==
  \A c \in Call : call[c].at = "answered" => call[c].owed \subseteq Served(c)

(* vec_read_lines is for what vec_search has found: a path of a served     *)
(* root can be read.                                                       *)
FoundIsReadable ==
  \A r \in Mapped : \A p \in FilesOf[r] :
    Resolve(p, SelectSeq(Order, LAMBDA x : x \in Mapped))[2]
=============================================================================
