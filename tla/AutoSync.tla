------------------------------ MODULE AutoSync ------------------------------
(***************************************************************************)
(* The MCP server keeps the index up to date while the user edits:         *)
(*                                                                         *)
(*   watcher/mod.rs  the debouncer's callback sorts the events into        *)
(*                   modifications and removals and sends the batch to the *)
(*                   worker (and to the task that keeps the list behind    *)
(*                   the staleness banner, which nothing here reads)       *)
(*   cli/serve.rs    the worker takes one batch after the other: removals  *)
(*                   first, then index_files; the catch-up, a task of its  *)
(*                   own, syncs once what changed while no server ran      *)
(*                                                                         *)
(* Indexer has the runs; the worker and the catch-up are two of its        *)
(* runners.  The debouncer is a library: it holds the events of a path     *)
(* back and hands over any of the paths whose time has come.               *)
(***************************************************************************)
EXTENDS Indexer, Sequences

CONSTANTS
  Watch,        \* the runner of run_watcher_background
  Catchup,      \* the runner of run_connect_time_catchup
  CanStop,      \* is the server stopped and started again?
  Offline,      \* what the user does while it is down, of "write", "create",
                \* "remove" and "move"
  Online,       \* and while it is up
  CanRace,      \* does the user edit before the catch-up is done?
  MaxBacklog    \* bound: batches in a channel when a file is moved

ASSUME AutoSyncAssumption ==
  /\ Watch \in Runner /\ Catchup \in Runner /\ Watch # Catchup
  /\ Offline \cup Online \subseteq {"write", "create", "remove", "move"}
  /\ {CanStop, CanRace} \subseteq BOOLEAN
  /\ MaxBacklog \in Nat

VARIABLES
  server,       \* "down"; "starting": the catch-up has not listed; "up"
  ev,           \* per path, the kinds of events the debouncer holds back
  queue,        \* the worker's channel
  worker,       \* run_watcher_background
  moved         \* history: the paths from which a file was moved away

watchVars == <<server, ev, queue, worker, moved>>
allVars   == <<vars, watchVars>>

Batch == [mods : SUBSET File, rems : SUBSET File]

\* at: what it does next; cur: the removed file it is at
Worker ==
  [at : {"wait", "remove", "drop", "forget", "begin", "sync"},
   mods : SUBSET File, rems : SUBSET File, cur : SUBSET File]

IdleWorker == [at |-> "wait", mods |-> {}, rems |-> {}, cur |-> {}]

\* The project was indexed and nobody serves it yet.
AutoSyncInit ==
  /\ \E d \in [File -> [listed : BOOLEAN, ver : Version]] :
       /\ disk = [f \in File |-> [listed |-> d[f].listed, ver |-> d[f].ver,
                                  mtime |-> 0]]
       /\ rows = UNION {ChunksOf(f, d[f].ver) : f \in {g \in File : d[g].listed}}
       /\ rec = {[file |-> f, mtime |-> 0, size |-> Size[d[f].ver],
                  hash |-> d[f].ver] : f \in {g \in File : d[g].listed}}
  /\ vecs = Ids(rows)
  /\ run = [r \in Runner |-> IdleRun]
  /\ cut = {}
  /\ server = "down"
  /\ ev = [f \in File |-> {}]
  /\ queue = <<>>
  /\ worker = IdleWorker
  /\ moved = {}

-----------------------------------------------------------------------------
(* The user, and the operating system's events. *)

MayDo(kind) ==
  IF server = "down" THEN kind \in Offline
  ELSE /\ kind \in Online
       /\ CanRace \/ (server = "up" /\ run[Catchup].phase = "idle")

\* The debouncer forgets the earlier events of a path that is removed.
Notify(mods, rems) ==
  ev' = [f \in File |-> IF server = "down" THEN {}
                        ELSE IF f \in rems THEN {"rem"}
                        ELSE IF f \in mods THEN ev[f] \cup {"mod"}
                        ELSE ev[f]]

Edit(f, v) ==
  /\ MayDo(IF disk[f].listed THEN "write" ELSE "create")
  /\ Write(f, v)
  /\ Notify({f}, {})
  /\ moved' = moved \ {f}
  /\ UNCHANGED <<server, queue, worker>>

Remove(f) ==
  /\ MayDo("remove")
  /\ Unlist(f)
  /\ Notify({}, {f})
  /\ UNCHANGED <<server, queue, worker, moved>>

\* mv: one event of kind Modify(Name) with both paths.  The mtime is kept, and
\* so is the last one of g, in the entry of f, for the clock.
Rename(f, g) ==
  /\ MayDo("move")
  /\ Len(queue) < MaxBacklog
  /\ disk[f].listed
  /\ ~disk[g].listed
  /\ disk' = [disk EXCEPT ![f] = disk[g], ![g] = disk[f]]
  /\ Notify({f, g}, {})
  /\ moved' = (moved \cup {f}) \ {g}
  /\ UNCHANGED <<rows, vecs, rec, run, cut, server, queue, worker>>

-----------------------------------------------------------------------------
(* The callback of the debouncer. *)

Held == {f \in File : ev[f] # {}}

\* filter_paths keeps a modified path if it is a file now; a removed one is
\* kept whatever is there now.
BatchOf(fs) ==
  [mods |-> {f \in fs : "mod" \in ev[f] /\ disk[f].listed},
   rems |-> {f \in fs : "rem" \in ev[f]}]

\* The time of some paths has come.
Flush(fs) ==
  LET batch == BatchOf(fs)
      sent  == IF batch.mods = {} /\ batch.rems = {} THEN <<>> ELSE <<batch>>
  IN /\ fs # {}
     /\ ev' = [f \in File |-> IF f \in fs THEN {} ELSE ev[f]]
     /\ queue' = queue \o sent
     /\ UNCHANGED <<vars, server, worker, moved>>

-----------------------------------------------------------------------------
(* run_watcher_background *)

\* Where the loop goes with what is left of a batch.
Continue(w) ==
  [w EXCEPT !.cur = {},
            !.at = IF w.rems # {} THEN "remove"
                   ELSE IF w.mods # {} THEN "begin" ELSE "wait"]

\* Mutant: a batch is taken for all that came before it.
TakeLatestBatch ==
  /\ worker.at = "wait"
  /\ queue # <<>>
  /\ worker' = Continue([IdleWorker EXCEPT !.mods = queue[Len(queue)].mods,
                                           !.rems = queue[Len(queue)].rems])
  /\ queue' = <<>>
  /\ UNCHANGED <<vars, server, ev, moved>>

TakeBatch ==
  /\ worker.at = "wait"
  /\ queue # <<>>
  /\ worker' = Continue([IdleWorker EXCEPT !.mods = Head(queue).mods,
                                           !.rems = Head(queue).rems])
  /\ queue' = Tail(queue)
  /\ UNCHANGED <<vars, server, ev, moved>>

\* delete_chunks_for_file: first the vectors.  An error is dropped, and the
\* rest of the function is left out.
RemoveVectors ==
  /\ worker.at = "remove"
  /\ \E f \in worker.rems :
       \/ /\ vecs' = vecs \ Ids(RowsOf(f))
          /\ cut' = cut \cup {f}
          /\ worker' = [worker EXCEPT !.at = "drop", !.cur = {f}]
       \/ /\ CanFail
          /\ worker' = [worker EXCEPT !.at = "forget", !.cur = {f}]
          /\ UNCHANGED <<vecs, cut>>
  /\ UNCHANGED <<disk, rows, rec, run, server, ev, queue, moved>>

\* Then the chunks.
RemoveChunks ==
  /\ worker.at = "drop"
  /\ \/ /\ rows' = {c \in rows : c.file \notin worker.cur}
        /\ cut' = cut \ worker.cur
     \/ CanFail /\ UNCHANGED <<rows, cut>>
  /\ worker' = [worker EXCEPT !.at = "forget"]
  /\ UNCHANGED <<disk, vecs, rec, run, server, ev, queue, moved>>

\* Mutant: the first removal of a batch is taken for all of them.
ForgetFileOnly ==
  /\ worker.at = "forget"
  /\ \/ rec' = {x \in rec : x.file \notin worker.cur}
     \/ CanFail /\ rec' = rec
  /\ worker' = Continue([worker EXCEPT !.rems = {}])
  /\ UNCHANGED <<disk, rows, vecs, run, cut, server, ev, queue, moved>>

\* remove_file, whatever became of the chunks; its error is dropped too.
ForgetFile ==
  /\ worker.at = "forget"
  /\ \/ rec' = {x \in rec : x.file \notin worker.cur}
     \/ CanFail /\ rec' = rec
  /\ worker' = Continue([worker EXCEPT !.rems = @ \ worker.cur])
  /\ UNCHANGED <<disk, rows, vecs, run, cut, server, ev, queue, moved>>

BeginSync ==
  /\ worker.at = "begin"
  /\ StartFiles(Watch, worker.mods)
  /\ worker' = [worker EXCEPT !.at = "sync"]
  /\ UNCHANGED <<server, ev, queue, moved>>

SyncStep ==
  /\ worker.at = "sync"
  /\ RunStep(Watch)
  /\ worker' = IF run'[Watch].phase = "idle" THEN IdleWorker ELSE worker
  /\ UNCHANGED <<server, ev, queue, moved>>

\* The error is logged and the batch is forgotten.
SyncFails ==
  /\ worker.at = "sync"
  /\ Fail(Watch)
  /\ worker' = IdleWorker
  /\ UNCHANGED <<server, ev, queue, moved>>

WorkerStep ==
  \/ TakeBatch
  \/ RemoveVectors
  \/ RemoveChunks
  \/ ForgetFile
  \/ BeginSync
  \/ SyncStep

-----------------------------------------------------------------------------
(* try_init_workspace and run_connect_time_catchup *)

\* The watcher is started before the catch-up is spawned.
StartServer ==
  /\ server = "down"
  /\ server' = "starting"
  /\ UNCHANGED <<vars, ev, queue, worker, moved>>

\* The records whose file is there with another mtime or size.
Outdated ==
  {x \in rec : /\ disk[x.file].listed
               /\ \/ disk[x.file].mtime # x.mtime
                  \/ Size[disk[x.file].ver] # x.size}

ListOutdated ==
  LET changed == Files(Outdated)
  IN /\ server = "starting"
     /\ server' = "up"
     /\ IF changed = {} THEN UNCHANGED vars ELSE StartFiles(Catchup, changed)
     /\ UNCHANGED <<ev, queue, worker, moved>>

CatchUpStep == RunStep(Catchup) /\ UNCHANGED watchVars
CatchUpFails == Fail(Catchup) /\ UNCHANGED watchVars

\* The client goes away, or the process is killed.
StopServer ==
  /\ CanStop
  /\ server # "down"
  /\ server' = "down"
  /\ ev' = [f \in File |-> {}]
  /\ queue' = <<>>
  /\ worker' = IdleWorker
  /\ run' = [r \in Runner |-> IdleRun]
  /\ UNCHANGED <<disk, rows, vecs, rec, cut, moved>>

-----------------------------------------------------------------------------

UserStep ==
  \E f \in File :
    \/ \E v \in Version : Edit(f, v)
    \/ Remove(f)
    \/ \E g \in File : Rename(f, g)

AutoSyncNext ==
  \/ UserStep
  \/ \E fs \in SUBSET Held : Flush(fs)
  \/ WorkerStep
  \/ SyncFails
  \/ StartServer
  \/ ListOutdated
  \/ CatchUpStep
  \/ CatchUpFails
  \/ StopServer

\* The debouncer's timer fires and the runtime polls its tasks.  The user
\* need not edit, the server need not start or stop, and nothing need fail.
Fairness ==
  /\ WF_allVars(\E fs \in SUBSET Held : Flush(fs))
  /\ WF_allVars(WorkerStep)
  /\ WF_allVars(ListOutdated)
  /\ WF_allVars(CatchUpStep)

AutoSyncSpec == AutoSyncInit /\ [][AutoSyncNext]_allVars

FairAutoSync == AutoSyncSpec /\ Fairness

-----------------------------------------------------------------------------
(* Properties. *)

\* Search tells the truth about f; dense search also finds it, unless a
\* deletion was cut short (Indexed).
Synced(f) ==
  IF disk[f].listed THEN Indexed(f, disk[f].ver) ELSE RowsOf(f) = {}

\* A batch that, when it is worked off now, brings f up to date.
Covers(batch, f) ==
  IF disk[f].listed THEN f \in batch.mods ELSE f \in batch.rems

\* A run that has not read f yet, or has read what is there now.
WillIndex(r, f) ==
  \/ f \in run[r].todo
  \/ f \in Files(run[r].stats)
  \/ \E x \in run[r].reads \cup run[r].tocommit \cup run[r].recs :
       x.file = f /\ x.hash = disk[f].ver

\* Something is under way that will sync f.
OnItsWay(f) ==
  \/ (IF disk[f].listed THEN "mod" ELSE "rem") \in ev[f]
  \/ \E i \in DOMAIN queue : Covers(queue[i], f)
  \/ worker.at \in {"remove", "drop", "forget", "begin"} /\ Covers(worker, f)
  \/ WillIndex(Watch, f)
  \/ WillIndex(Catchup, f)
  \/ server = "starting" /\ f \in Files(Outdated)

\* While the server is up no change of a file that is there is ever lost
\* between the debouncer, the channel, the worker and the catch-up: if the
\* index is wrong about it, a sync that will see its present state is under
\* way.  Also when it was moved there from elsewhere in the project.  (Nothing
\* fails, nobody edits during the catch-up, and while the server is down files
\* are only written.)
StaleIsOnItsWay ==
  server # "down" => \A f \in File : disk[f].listed => Synced(f) \/ OnItsWay(f)

\* A file that was removed has no chunks or they are about to be deleted, while
\* the server is up.
RemovedIsOnItsWay ==
  server # "down" =>
    \A f \in File \ moved : ~disk[f].listed => Synced(f) \/ OnItsWay(f)

\* mod.rs separates "removals from other events" to "handle deletions": while
\* the server is up, a file that is gone has no chunks or they are about to be
\* deleted.
GoneIsOnItsWay ==
  server # "down" => \A f \in File : ~disk[f].listed => Synced(f) \/ OnItsWay(f)

\* Search does not go on showing old chunks of a file: whatever batches
\* failed, wherever the server was killed and whatever files were removed and
\* created again, what is wrong about an indexed file (and is not just missing)
\* is being synced or will be found by the next catch-up.
StaleIsOutdated ==
  \A f \in Files(rec) :
    disk[f].listed /\ RowsOf(f) # {} =>
      Synced(f) \/ OnItsWay(f) \/ f \in Files(Outdated)

\* If the server stays up and the user rests, every edit reaches the index in
\* the end, and no deletion stays half done: all but the chunks of a path a
\* file was moved away from, see GoneIsOnItsWay.
EventuallySynced ==
  <>[](server # "down") /\ <>[][~UserStep]_allVars
    => <>[](cut = {} /\ \A f \in File \ moved : Synced(f))

=============================================================================
