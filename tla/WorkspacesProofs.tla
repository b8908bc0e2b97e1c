-------------------------- MODULE WorkspacesProofs --------------------------
(***************************************************************************)
(* Proofs about Workspaces.  Every worker of a root hears of every edit,   *)
(* so a worker that is storing an old version has an event or a batch of   *)
(* its own before it, whatever the others do; and nobody edits while a     *)
(* catch-up reads.  That is IInv, about the records.  ChunksInv, beside    *)
(* it, follows the chunks of a root that has one worker.                   *)
(***************************************************************************)
EXTENDS Workspaces, TLAPS

At == {"wait", "clear", "list", "idle", "check", "sync", "embed", "record"}

WorkerRec ==
  [root : Root, ev : BOOLEAN, q : Nat, noted : Nat, listed : BOOLEAN,
   at : [Task -> At], read : [Task -> Nat]]

WorkspacesTypeOK ==
  /\ has \subseteq Root
  /\ disk \in [Root -> Nat] /\ record \in [Root -> Nat] /\ \A r \in Root : disk[r] # 0
  /\ worker \in Seq(WorkerRec)

\* Busy and OnItsWay, of what a worker is rather than of the worker.
Doing(x, t) == x.at[t] \in {"check", "sync", "embed", "record"}

Coming(x) ==
  \/ x.ev \/ x.q > 0 \/ x.at["late"] = "list"
  \/ \E t \in Task : Doing(x, t) /\ x.read[t] = disk[x.root]

\* Whatever a worker stores is up to date, or another sync of its own follows;
\* the first batch comes after the catch-up.
Follows(x) ==
  /\ Doing(x, "watch") =>
       x.read["watch"] # 0 /\ (x.read["watch"] = disk[x.root] \/ x.ev \/ x.q > 0)
  /\ Doing(x, "late") => x.read["late"] = disk[x.root]
  /\ x.at["late"] # "idle" => x.at["watch"] = "wait" /\ ~x.ev /\ x.q = 0
  /\ x.root \notin Edited =>
       /\ Doing(x, "watch") => x.read["watch"] = disk[x.root]
       /\ x.at["late"] = "idle"

Current(r) == record[r] \in {0, disk[r]}

Attended(r) == WorkersOf(r) # {} /\ ~Current(r) => \E w \in WorkersOf(r) : Coming(worker[w])

\* What a worker that is alone is about to take off the list is up to date, or
\* something is coming still.
Handled(w) ==
  worker[w].at["watch"] = "clear" =>
    /\ record[worker[w].root] # 0
    /\ Alone(w) => record[worker[w].root] = disk[worker[w].root] \/ Coming(worker[w])

IInv ==
  /\ WorkspacesTypeOK
  /\ \A w \in Workers : Follows(worker[w]) /\ Handled(w)
  /\ \A r \in Root \ Edited : Current(r)
  /\ \A r \in Root \ hit : Attended(r)

-----------------------------------------------------------------------------
\* What is put in the place of a worker.
LEMMA Replaced ==
  ASSUME worker \in Seq(WorkerRec), NEW w \in Workers, NEW x \in WorkerRec
  PROVE  LET new == [worker EXCEPT ![w] = x]
         IN /\ new \in Seq(WorkerRec) /\ DOMAIN new = Workers
            /\ new[w] = x /\ \A v \in Workers : v # w => new[v] = worker[v]
BY DEF Workers

\* What the invariant says of one worker.
LEMMA WorkerIs ==
  ASSUME IInv, NEW w \in Workers
  PROVE  /\ worker[w] \in WorkerRec /\ worker[w].root \in Root /\ Follows(worker[w])
         /\ Handled(w) /\ disk[worker[w].root] # 0
         /\ record \in [Root -> Nat] /\ disk \in [Root -> Nat] /\ worker \in Seq(WorkerRec)
         /\ worker[w].root \notin Edited => record[worker[w].root] \in {0, disk[worker[w].root]}
<1>1. worker \in Seq(WorkerRec) /\ record \in [Root -> Nat] /\ disk \in [Root -> Nat]
  BY DEF IInv, WorkspacesTypeOK
<1>2. worker[w] \in WorkerRec
  BY <1>1 DEF Workers
<1>3. worker[w].root \in Root
  BY <1>2 DEF WorkerRec
<1> QED
  BY <1>1, <1>2, <1>3 DEF IInv, WorkspacesTypeOK, Current

LEMMA NewWorkerIs ==
  ASSUME NEW r \in Root
  PROVE  /\ NewWorker(r) \in WorkerRec /\ NewWorker(r).root = r /\ Follows(NewWorker(r))
         /\ NewWorker(r).at["watch"] = "wait"
         /\ r \in Edited => NewWorker(r).at["late"] = "list"
BY DEF NewWorker, WorkerRec, Follows, Doing, Task, At

\* A worker is started: for a root that is edited its catch-up is still to come.
LEMMA AppendKeeps ==
  ASSUME IInv, NEW r \in Root, worker' = Append(worker, NewWorker(r)),
         UNCHANGED <<has, files>>
  PROVE  IInv'
<1> PICK n : n = Len(worker) + 1
  OBVIOUS
<1>1. /\ worker' \in Seq(WorkerRec) /\ DOMAIN worker' = Workers \cup {n} /\ n \notin Workers
      /\ worker'[n] = NewWorker(r) /\ \A v \in Workers : worker'[v] = worker[v]
  BY NewWorkerIs DEF IInv, WorkspacesTypeOK, Workers
<1>2. /\ has' = has /\ disk' = disk /\ record' = record /\ hit' = hit
  BY DEF files, index
<1>3. WorkspacesTypeOK'
  BY <1>1, <1>2 DEF IInv, WorkspacesTypeOK
<1>4. ASSUME NEW w \in Workers' PROVE Follows(worker[w])'
  <2>1. CASE w = n
    BY <1>1, <1>2, <2>1, NewWorkerIs DEF Follows, Doing
  <2>2. CASE w \in Workers
    BY <1>1, <1>2, <2>2 DEF IInv, Follows, Doing
  <2> QED
    BY <1>1, <2>1, <2>2 DEF Workers
<1>7. ASSUME NEW w \in Workers' PROVE Handled(w)'
  <2>1. CASE w = n
    BY <1>1, <2>1 DEF Handled, NewWorker, Task
  <2>2. CASE w \in Workers
    <3>1. Handled(w) /\ worker'[w] = worker[w]
      BY <1>1, <2>2 DEF IInv
    <3>2. Alone(w)' => Alone(w)
      BY <1>1, <2>2 DEF Alone, WorkersOf, Workers
    <3>3. Coming(worker[w])' <=> Coming(worker[w])
      BY <1>2, <3>1 DEF Coming, Doing
    <3> QED
      BY <1>2, <3>1, <3>2, <3>3 DEF Handled
  <2> QED
    BY <1>1, <2>1, <2>2 DEF Workers
<1>5. \A s \in Root \ Edited : Current(s)'
  BY <1>2 DEF IInv, Current
<1>6. ASSUME NEW s \in Root \ hit' PROVE Attended(s)'
  <2>1. CASE s = r /\ r \in Edited
    <3>1. n \in WorkersOf(s)' /\ Coming(worker[n])'
      BY <1>1, <2>1, NewWorkerIs DEF WorkersOf, Workers, Coming
    <3> QED
      BY <3>1 DEF Attended
  <2>2. CASE s \notin Edited
    BY <1>5, <2>2 DEF Attended
  <2>3. CASE s # r
    <3>1. WorkersOf(s)' = WorkersOf(s)
      BY <1>1, <2>3, NewWorkerIs DEF WorkersOf, Workers
    <3>2. \A w \in WorkersOf(s) : Coming(worker[w])' <=> Coming(worker[w])
      BY <1>1, <1>2 DEF Coming, Doing, WorkersOf
    <3>3. Attended(s)
      BY <1>2, <1>6 DEF IInv
    <3> QED
      BY <1>2, <3>1, <3>2, <3>3 DEF Attended, Current
  <2> QED
    BY <2>1, <2>2, <2>3
<1> QED
  BY <1>3, <1>4, <1>5, <1>6, <1>7 DEF IInv

\* A step of one worker, which may store a version: it is up to date, or
\* something is coming still, or nothing was coming of this worker.
LEMMA WorkerKeeps ==
  ASSUME IInv, NEW w \in Workers, NEW x \in WorkerRec, NEW n \in Nat,
         worker' = [worker EXCEPT ![w] = x], x.root = worker[w].root,
         record' = [record EXCEPT ![x.root] = n], UNCHANGED <<has, disk>>, hit \subseteq hit',
         Follows(x), x.root \notin Edited => n \in {0, disk[x.root]},
         \/ x.root \in hit' \/ n \in {0, disk[x.root]} \/ Coming(x)
         \/ n = record[x.root] /\ ~Coming(worker[w]),
         n # 0 \/ n = record[x.root],
         x.at["watch"] = "clear" => n # 0 /\ (Alone(w) => n = disk[x.root] \/ Coming(x))
  PROVE  IInv'
<1> PICK r : r = x.root
  OBVIOUS
<1>1. /\ worker' \in Seq(WorkerRec) /\ Workers' = Workers
      /\ worker'[w] = x /\ \A v \in Workers : v # w => worker'[v] = worker[v]
  BY Replaced DEF IInv, WorkspacesTypeOK, Workers
<1>2. /\ r \in Root /\ record' \in [Root -> Nat] /\ record'[r] = n
      /\ \A s \in Root : s # r => record'[s] = record[s]
  BY DEF IInv, WorkspacesTypeOK, WorkerRec
<1>3. \A s : WorkersOf(s)' = WorkersOf(s)
  BY <1>1 DEF WorkersOf
<1>4. WorkspacesTypeOK'
  BY <1>1, <1>2 DEF IInv, WorkspacesTypeOK
<1>5. \A v \in Workers : Follows(worker[v])'
  BY <1>1 DEF IInv, Follows, Doing
<1>6. \A s \in Root \ Edited : Current(s)'
  BY <1>2 DEF IInv, Current
<1>7. \A v \in Workers : v # w => (Coming(worker[v])' <=> Coming(worker[v]))
  BY <1>1 DEF Coming, Doing
<1>8. Coming(worker[w])' <=> Coming(x)
  BY <1>1 DEF Coming, Doing
<1>9. w \in WorkersOf(r) /\ \A s : WorkersOf(s) \subseteq Workers
  BY DEF WorkersOf
<1>10. ASSUME NEW s \in Root \ hit' PROVE Attended(s)'
  <2>1. Attended(s)
    BY <1>10 DEF IInv
  <2>2. CASE s # r
    <3>1. w \notin WorkersOf(s)
      BY <2>2 DEF WorkersOf
    <3>2. \A v \in WorkersOf(s) : Coming(worker[v])' <=> Coming(worker[v])
      BY <1>7, <1>9, <3>1
    <3>3. Current(s)' <=> Current(s)
      BY <1>2, <1>10, <2>2 DEF Current
    <3> QED
      BY <1>3, <2>1, <3>2, <3>3 DEF Attended
  <2>3. CASE s = r /\ n \in {0, disk[r]}
    BY <1>2, <2>3 DEF Attended, Current
  <2>4. CASE s = r /\ Coming(x)
    BY <1>3, <1>8, <1>9, <2>4 DEF Attended
  <2>5. CASE s = r /\ n = record[r] /\ ~Coming(worker[w])
    <3>1. Current(s)' <=> Current(s)
      BY <1>2, <2>5 DEF Current
    <3>2. \A v \in WorkersOf(s) : Coming(worker[v]) => v # w /\ Coming(worker[v])'
      BY <1>7, <1>9, <2>5
    <3> QED
      BY <1>3, <2>1, <3>1, <3>2 DEF Attended
  <2> QED
    BY <1>10, <2>2, <2>3, <2>4, <2>5
<1>11. ASSUME NEW v \in Workers PROVE Handled(v)'
  <2>1. Alone(v)' <=> Alone(v)
    BY <1>1, <1>3 DEF Alone
  <2>2. CASE v = w
    BY <1>1, <1>2, <1>8, <2>1, <2>2 DEF Handled
  <2>3. CASE v # w
    <3>1. Handled(v) /\ worker'[v] = worker[v] /\ (Coming(worker[v])' <=> Coming(worker[v]))
      BY <1>1, <1>7, <2>3 DEF IInv
    <3>2. worker[v].root \in Root
      BY WorkerIs
    <3>3. CASE worker[v].root = r
      <4>1. ~Alone(v)
        BY <1>9, <2>3, <3>3 DEF Alone
      <4> QED
        BY <1>2, <2>1, <3>1, <3>3, <4>1 DEF Handled
    <3>4. CASE worker[v].root # r
      BY <1>2, <2>1, <3>1, <3>2, <3>4 DEF Handled
    <3> QED
      BY <3>3, <3>4
  <2> QED
    BY <2>2, <2>3
<1> QED
  BY <1>1, <1>4, <1>5, <1>6, <1>10, <1>11 DEF IInv

-----------------------------------------------------------------------------
(* One lemma for the steps of each kind. *)

\* What the invariant says of one worker and of the version a task stores.
LEMMA ReadIs ==
  ASSUME IInv, NEW w \in Workers, NEW t \in Task, Doing(worker[w], t)
  PROVE  LET y == worker[w]
         IN /\ y.read[t] \in Nat /\ y.read[t] # 0
            /\ y.read[t] = disk[y.root] \/ (t = "watch" /\ (y.ev \/ y.q > 0))
            /\ y.root \notin Edited => y.read[t] = disk[y.root]
BY WorkerIs DEF Task, WorkerRec, Follows, Doing

\* A task of a worker moves on and nothing else: what it may move to.
LEMMA MoveKeeps ==
  ASSUME IInv, NEW w \in Workers, NEW t \in Task, NEW e \in At, NEW n \in Nat,
         worker' = [worker EXCEPT ![w].at[t] = e],
         record' = [record EXCEPT ![worker[w].root] = n],
         UNCHANGED <<has, disk>>, hit \subseteq hit',
         Doing(worker[w], t),
         e \in (IF t = "watch" THEN {"wait", "clear"} ELSE {"idle"}) \cup
               {"sync", "embed", "record"},
         \/ n = record[worker[w].root]
         \/ n = worker[w].read[t],
         \/ worker[w].root \in hit' /\ e # "clear"
         \/ n = worker[w].read[t] /\ e \notin {"wait"}
         \/ n = record[worker[w].root] /\ e \in {"sync", "embed", "record"}
  PROVE  IInv'
<1> PICK y : y = worker[w]
  OBVIOUS
<1>1. /\ y \in WorkerRec /\ y.root \in Root /\ Follows(y) /\ disk[y.root] # 0
      /\ record \in [Root -> Nat] /\ disk \in [Root -> Nat] /\ worker \in Seq(WorkerRec)
      /\ y.root \notin Edited => record[y.root] \in {0, disk[y.root]}
  BY WorkerIs
<1>2. /\ y.read[t] \in Nat /\ y.read[t] # 0
      /\ y.read[t] = disk[y.root] \/ (t = "watch" /\ (y.ev \/ y.q > 0))
      /\ y.root \notin Edited => y.read[t] = disk[y.root]
  BY ReadIs
<1> DEFINE x == [y EXCEPT !.at[t] = e]
<1>3. /\ x \in WorkerRec /\ x.root = y.root /\ x.ev = y.ev /\ x.q = y.q /\ x.read = y.read
      /\ x.at = [y.at EXCEPT ![t] = e]
  BY <1>1 DEF WorkerRec
<1>4. y.at \in [Task -> At] /\ x.at \in [Task -> At]
  BY <1>1, <1>3 DEF WorkerRec
<1>5. worker' = [worker EXCEPT ![w] = x]
  BY <1>1 DEF Workers
<1>6. x.at[t] = e /\ \A u \in Task : u # t => x.at[u] = y.at[u]
  BY <1>3, <1>4
<1> HIDE DEF x
<1>7. Doing(x, "watch") => Doing(y, "watch")
  BY <1>6 DEF Doing, Task
<1>8. Doing(x, "late") => Doing(y, "late")
  BY <1>6 DEF Doing, Task
<1>9. y.root \notin Edited => x.at["late"] = "idle"
  <2>1. CASE t = "late"
    BY <1>1, <2>1 DEF Follows, Doing
  <2>2. CASE t # "late"
    BY <1>1, <1>6, <2>2 DEF Follows, Task
  <2> QED
    BY <2>1, <2>2
<1>17. x.at["late"] # "idle" => x.at["watch"] = "wait" /\ ~x.ev /\ x.q = 0
  BY <1>1, <1>3, <1>6 DEF Follows, Doing, Task
<1>10. Follows(x)
  BY <1>1, <1>3, <1>7, <1>8, <1>9, <1>17 DEF Follows
<1>11. e \in {"sync", "embed", "record"} => (Coming(x) <=> Coming(y))
  BY <1>3, <1>6 DEF Coming, Doing, Task
<1>12. y.read[t] = disk[y.root] \/ Coming(x)
  BY <1>2, <1>3 DEF Coming
<1>13. y.root \notin Edited => n \in {0, disk[y.root]}
  BY <1>1, <1>2
<1>14. \/ y.root \in hit' \/ n \in {0, disk[y.root]} \/ Coming(x)
       \/ n = record[y.root] /\ ~Coming(y)
  BY <1>11, <1>12
<1>15. n # 0 \/ n = record[y.root]
  BY <1>2
<1>16. x.at["watch"] = "clear" => n # 0 /\ (Alone(w) => n = disk[y.root] \/ Coming(x))
  <2>1. CASE t = "watch"
    BY <1>2, <1>6, <1>12, <2>1
  <2>2. CASE t = "late"
    BY <1>1, <1>6, <2>2 DEF Follows, Doing, Task
  <2> QED
    BY <2>1, <2>2 DEF Task
<1> QED
  BY <1>3, <1>5, <1>10, <1>13, <1>14, <1>15, <1>16, WorkerKeeps

\* A step of one worker that stores nothing.
LEMMA StillKeeps ==
  ASSUME IInv, NEW w \in Workers, NEW x \in WorkerRec,
         worker' = [worker EXCEPT ![w] = x], x.root = worker[w].root,
         UNCHANGED <<has, disk, record, hit>>, Follows(x),
         \/ record[x.root] \in {0, disk[x.root]} \/ Coming(x) \/ ~Coming(worker[w]),
         x.at["watch"] = "clear" => worker[w].at["watch"] = "clear" /\ (Coming(worker[w]) => Coming(x))
  PROVE  IInv'
<1> PICK n : n = record[x.root]
  OBVIOUS
<1>1. /\ worker[w].at["watch"] = "clear" =>
           /\ record[x.root] # 0
           /\ Alone(w) => record[x.root] = disk[x.root] \/ Coming(worker[w])
      /\ record \in [Root -> Nat] /\ x.root \in Root
      /\ x.root \notin Edited => record[x.root] \in {0, disk[x.root]}
  BY WorkerIs DEF Handled
<1>2. n \in Nat /\ record' = [record EXCEPT ![x.root] = n]
  BY <1>1
<1> QED
  BY <1>1, <1>2, WorkerKeeps

\* The debouncer and the pending list; a batch is taken; the catch-up has found
\* its file changed, or not.
LEMMA QuietKeeps ==
  ASSUME IInv, NEW w \in Workers,
         Flush(w) \/ NotePending(w) \/ TakeBatch(w) \/ ClearPending(w) \/ ListChanged(w)
  PROVE  IInv'
<1> PICK y : y = worker[w]
  OBVIOUS
<1>1. /\ y \in WorkerRec /\ y.root \in Root /\ Follows(y) /\ disk[y.root] # 0
      /\ record \in [Root -> Nat] /\ disk \in [Root -> Nat] /\ worker \in Seq(WorkerRec)
  BY WorkerIs
<1>2. /\ disk[y.root] \in Nat /\ y.at \in [Task -> At] /\ y.read \in [Task -> Nat]
      /\ y.q \in Nat /\ y.noted \in Nat
  BY <1>1 DEF WorkerRec
<1>7. Task = {"watch", "late"}
  BY DEF Task
<1>3. CASE Flush(w)
  <2> PICK q, noted : q = y.q + 1 /\ noted = y.noted + 1
    OBVIOUS
  <2>0. q \in Nat /\ noted \in Nat /\ q > 0
    BY <1>2
  <2> DEFINE x == [y EXCEPT !.ev = FALSE, !.q = q, !.noted = noted]
  <2>1. /\ x \in WorkerRec /\ x.root = y.root /\ x.at = y.at /\ x.read = y.read
        /\ x.q = q /\ x.ev = FALSE
    BY <1>1, <2>0 DEF WorkerRec
  <2>2. worker' = [worker EXCEPT ![w] = x]
    BY <1>1, <1>3 DEF Flush, Workers
  <2>3. UNCHANGED <<has, disk, record, hit>> /\ y.ev
    BY <1>3 DEF Flush, files, index
  <2> HIDE DEF x
  <2>4. Follows(x) /\ Coming(x)
    BY <1>1, <2>0, <2>1, <2>3 DEF Follows, Coming, Doing
  <2> QED
    BY <2>1, <2>2, <2>3, <2>4, StillKeeps
<1>4. CASE NotePending(w)
  <2> PICK noted : noted = y.noted - 1
    OBVIOUS
  <2>0. noted \in Nat
    BY <1>2, <1>4 DEF NotePending
  <2> DEFINE x == [y EXCEPT !.noted = noted, !.listed = TRUE]
  <2>1. /\ x \in WorkerRec /\ x.root = y.root /\ x.at = y.at /\ x.read = y.read
        /\ x.q = y.q /\ x.ev = y.ev
    BY <1>1, <2>0 DEF WorkerRec
  <2>2. worker' = [worker EXCEPT ![w] = x]
    BY <1>1, <1>4 DEF NotePending, Workers
  <2>3. UNCHANGED <<has, disk, record, hit>>
    BY <1>4 DEF NotePending, files, index
  <2> HIDE DEF x
  <2>4. Follows(x) /\ (Coming(x) <=> Coming(y))
    BY <1>1, <2>1 DEF Follows, Coming, Doing
  <2> QED
    BY <2>1, <2>2, <2>3, <2>4, StillKeeps
<1>5. CASE TakeBatch(w)
  <2> PICK q : q = y.q - 1
    OBVIOUS
  <2>0. q \in Nat /\ y.q > 0
    BY <1>2, <1>5 DEF TakeBatch
  <2> DEFINE x == [y EXCEPT !.q = q, !.at["watch"] = "check", !.read["watch"] = disk[y.root]]
  <2>1. /\ x.root = y.root /\ x.at = [y.at EXCEPT !["watch"] = "check"] /\ x.q = q /\ x.ev = y.ev
        /\ x.read = [y.read EXCEPT !["watch"] = disk[y.root]]
    BY <1>1 DEF WorkerRec
  <2>2. x \in WorkerRec
    <3>1. /\ [y.at EXCEPT !["watch"] = "check"] \in [Task -> At]
          /\ [y.read EXCEPT !["watch"] = disk[y.root]] \in [Task -> Nat]
      BY <1>2 DEF At
    <3> QED
      BY <1>1, <2>0, <3>1 DEF WorkerRec
  <2>3. worker' = [worker EXCEPT ![w] = x]
    BY <1>1, <1>5 DEF TakeBatch, Workers
  <2>4. UNCHANGED <<has, disk, record, hit>> /\ y.q > 0
    BY <1>5 DEF TakeBatch, files, index
  <2> HIDE DEF x
  <2>5. /\ x.at["watch"] = "check" /\ x.read["watch"] = disk[y.root]
        /\ x.at["late"] = y.at["late"] /\ x.read["late"] = y.read["late"]
    BY <1>2, <1>7, <2>1
  <2>6. y.at["late"] = "idle"
    BY <1>1, <2>4 DEF Follows
  <2>7. Follows(x) /\ Coming(x)
    BY <1>1, <2>1, <2>5, <2>6 DEF Follows, Coming, Doing, Task
  <2> QED
    BY <2>1, <2>2, <2>3, <2>4, <2>5, <2>7, StillKeeps
<1>6. CASE ClearPending(w)
  <2> DEFINE x == [y EXCEPT !.at["watch"] = "wait", !.listed = FALSE]
  <2>1. /\ x.root = y.root /\ x.at = [y.at EXCEPT !["watch"] = "wait"] /\ x.read = y.read
        /\ x.q = y.q /\ x.ev = y.ev
    BY <1>1 DEF WorkerRec
  <2>2. x \in WorkerRec
    <3>1. [y.at EXCEPT !["watch"] = "wait"] \in [Task -> At]
      BY <1>2 DEF At
    <3> QED
      BY <1>1, <3>1 DEF WorkerRec
  <2>3. worker' = [worker EXCEPT ![w] = x]
    BY <1>1, <1>6 DEF ClearPending, Workers
  <2>4. UNCHANGED <<has, disk, record, hit>> /\ y.at["watch"] = "clear"
    BY <1>6 DEF ClearPending, files, index
  <2> HIDE DEF x
  <2>5. x.at["watch"] = "wait" /\ x.at["late"] = y.at["late"]
    BY <1>2, <1>7, <2>1
  <2>6. Follows(x) /\ (Coming(x) <=> Coming(y))
    BY <1>1, <1>7, <2>1, <2>4, <2>5 DEF Follows, Coming, Doing
  <2> QED
    BY <2>1, <2>2, <2>3, <2>4, <2>5, <2>6, StillKeeps
<1>8. CASE ListChanged(w)
  <2> PICK e : e = IF record[y.root] \in {0, disk[y.root]} THEN "idle" ELSE "check"
    OBVIOUS
  <2> DEFINE x == [y EXCEPT !.read["late"] = disk[y.root], !.at["late"] = e]
  <2>1. /\ x.root = y.root /\ x.at = [y.at EXCEPT !["late"] = e] /\ x.q = y.q /\ x.ev = y.ev
        /\ x.read = [y.read EXCEPT !["late"] = disk[y.root]]
    BY <1>1 DEF WorkerRec
  <2>2. x \in WorkerRec
    <3>1. /\ [y.at EXCEPT !["late"] = e] \in [Task -> At]
          /\ [y.read EXCEPT !["late"] = disk[y.root]] \in [Task -> Nat]
      BY <1>2 DEF At
    <3> QED
      BY <1>1, <3>1 DEF WorkerRec
  <2>3. worker' = [worker EXCEPT ![w] = x]
    BY <1>1, <1>8 DEF ListChanged, Workers
  <2>4. UNCHANGED <<has, disk, record, hit>> /\ y.at["late"] = "list"
    BY <1>8 DEF ListChanged, files, index
  <2> HIDE DEF x
  <2>5. /\ x.at["watch"] = y.at["watch"] /\ x.read["watch"] = y.read["watch"]
        /\ x.at["late"] = e /\ x.read["late"] = disk[y.root]
    BY <1>2, <1>7, <2>1
  <2>6. y.at["watch"] = "wait" /\ ~y.ev /\ y.q = 0 /\ y.root \in Edited
    BY <1>1, <2>4 DEF Follows
  <2>7. Follows(x)
    BY <1>1, <2>1, <2>5, <2>6 DEF Follows, Doing
  <2>8. record[y.root] \in {0, disk[y.root]} \/ Coming(x)
    BY <1>7, <2>1, <2>5 DEF Coming, Doing
  <2> QED
    BY <2>1, <2>2, <2>3, <2>4, <2>5, <2>6, <2>7, <2>8, StillKeeps
<1> QED
  BY <1>3, <1>4, <1>5, <1>6, <1>8

\* A sync stores what it has read, or fails.
LEMMA SyncKeeps ==
  ASSUME IInv, NEW w \in Workers, NEW t \in Task, SyncStep(w, t) \/ FailSync(w, t) PROVE IInv'
<1> PICK r, v : r = worker[w].root /\ v = worker[w].read[t]
  OBVIOUS
<1>1. record \in [Root -> Nat] /\ r \in Root /\ worker \in Seq(WorkerRec)
  BY WorkerIs
<1>2. record[r] \in Nat /\ record = [record EXCEPT ![r] = record[r]]
  BY <1>1
<1>3. CASE CheckFile(w, t)
  <2> PICK e : e = IF record[r] = v THEN Done(t) ELSE "sync"
    OBVIOUS
  <2>1. /\ Doing(worker[w], t) /\ worker' = [worker EXCEPT ![w].at[t] = e]
        /\ UNCHANGED <<has, disk, record, hit>>
    BY <1>3 DEF CheckFile, Doing, files, index
  <2>2. /\ e \in (IF t = "watch" THEN {"wait", "clear"} ELSE {"idle"}) \cup {"sync"}
        /\ e \in At /\ e # "wait" /\ (record[r] = v \/ e = "sync")
    BY DEF Done, At, Task
  <2> QED
    BY <1>2, <2>1, <2>2, MoveKeeps
<1>4. CASE CommitFile(w, t) \/ StoreChunks(w, t)
  <2> PICK e : e \in {"record", "embed"} /\ worker' = [worker EXCEPT ![w].at[t] = e]
    BY <1>4 DEF CommitFile, StoreChunks
  <2>1. Doing(worker[w], t) /\ UNCHANGED <<has, disk, record, hit>> /\ e \in At
    BY <1>4 DEF CommitFile, StoreChunks, Doing, At
  <2> QED
    BY <1>2, <2>1, MoveKeeps
<1>5. CASE UpsertRecord(w, t)
  <2> PICK e : e = Done(t)
    OBVIOUS
  <2>1. /\ Doing(worker[w], t) /\ worker' = [worker EXCEPT ![w].at[t] = e]
        /\ record' = [record EXCEPT ![r] = v] /\ UNCHANGED <<has, disk, hit>>
    BY <1>5 DEF UpsertRecord, Doing
  <2>2. /\ e \in (IF t = "watch" THEN {"wait", "clear"} ELSE {"idle"}) /\ e \in At /\ e # "wait"
        /\ v \in Nat
    BY <2>1, ReadIs DEF Done, At, Task
  <2> QED
    BY <2>1, <2>2, MoveKeeps
<1>6. CASE FailSync(w, t)
  <2> PICK e : e = IF t = "watch" THEN "wait" ELSE "idle"
    OBVIOUS
  <2>1. /\ Doing(worker[w], t) /\ worker' = [worker EXCEPT ![w].at[t] = e]
        /\ UNCHANGED <<has, disk, record>> /\ hit' = hit \cup {r}
    BY <1>6 DEF FailSync, Busy, Doing, index
  <2>2. /\ e \in (IF t = "watch" THEN {"wait", "clear"} ELSE {"idle"}) /\ e \in At /\ e # "clear"
    BY DEF At
  <2> QED
    BY <1>2, <2>1, <2>2, MoveKeeps
<1> QED
  BY <1>3, <1>4, <1>5, <1>6 DEF SyncStep

\* Every worker of the root is told of the edit, and no catch-up has read.
LEMMA EditKeeps == ASSUME IInv, NEW r \in Root, Edit(r) PROVE IInv'
<1>1. /\ r \in Edited /\ \A w \in WorkersOf(r) : worker[w].at["late"] = "idle"
      /\ disk' = [disk EXCEPT ![r] = @ + 1]
      /\ worker' = [w \in Workers |->
           IF worker[w].root = r THEN [worker[w] EXCEPT !.ev = TRUE] ELSE worker[w]]
      /\ UNCHANGED <<has, record, hit>>
  BY DEF Edit, Calm, index
<1>2. /\ disk' \in [Root -> Nat] /\ \A s \in Root : s # r => disk'[s] = disk[s]
      /\ \A s \in Root : disk'[s] # 0
  BY <1>1 DEF IInv, WorkspacesTypeOK
<1>3. \A w \in Workers : worker[w] \in WorkerRec
  BY DEF IInv, WorkspacesTypeOK, Workers
<1>4. /\ worker' \in Seq(WorkerRec) /\ Workers' = Workers
  <2>1. ASSUME NEW x \in WorkerRec PROVE [x EXCEPT !.ev = TRUE] \in WorkerRec
    BY DEF WorkerRec
  <2>2. \A w \in Workers : worker'[w] \in WorkerRec
    BY <1>1, <1>3, <2>1
  <2>3. worker \in Seq(WorkerRec)
    BY DEF IInv, WorkspacesTypeOK
  <2>4. PICK n \in Nat : Workers = 1 .. n
    BY <2>3 DEF Workers
  <2>5. worker' \in [1 .. n -> WorkerRec]
    BY <1>1, <2>2, <2>4
  <2> QED
    BY <2>4, <2>5 DEF Workers
<1>5. ASSUME NEW w \in Workers, worker[w].root = r
      PROVE  /\ worker'[w].root = r /\ worker'[w].ev
             /\ worker'[w].at["late"] = "idle"
             /\ worker'[w].at = worker[w].at /\ worker'[w].read = worker[w].read
  BY <1>1, <1>3, <1>5 DEF WorkerRec, WorkersOf
<1>6. ASSUME NEW w \in Workers, worker[w].root # r PROVE worker'[w] = worker[w]
  BY <1>1, <1>6
<1>7. \A s : WorkersOf(s)' = WorkersOf(s)
  BY <1>4, <1>5, <1>6 DEF WorkersOf
<1>11. ASSUME NEW w \in Workers PROVE Handled(w)'
  <2>1. Handled(w) /\ worker[w].root \in Root /\ (Alone(w)' <=> Alone(w))
    <3>1. worker'[w].root = worker[w].root
      BY <1>5, <1>6
    <3> QED
      BY <1>7, <3>1, WorkerIs DEF Alone
  <2>2. CASE worker[w].root = r
    <3>1. worker'[w].at = worker[w].at /\ worker'[w].root = r /\ Coming(worker[w])'
      BY <1>5, <2>2 DEF Coming
    <3> QED
      BY <1>1, <2>1, <2>2, <3>1 DEF Handled
  <2>3. CASE worker[w].root # r
    <3>1. Coming(worker[w])' <=> Coming(worker[w])
      BY <1>2, <1>6, <2>1, <2>3 DEF Coming, Doing
    <3> QED
      BY <1>1, <1>2, <1>6, <2>1, <2>3, <3>1 DEF Handled
  <2> QED
    BY <2>2, <2>3
<1>8. ASSUME NEW w \in Workers PROVE Follows(worker[w])'
  <2>1. CASE worker[w].root = r
    <3>1. Follows(worker[w])
      BY WorkerIs
    <3> QED
      BY <1>1, <1>5, <2>1, <3>1 DEF Follows, Doing
  <2>2. CASE worker[w].root # r
    BY <1>2, <1>3, <1>6, <2>2 DEF IInv, Follows, Doing, WorkerRec
  <2> QED
    BY <2>1, <2>2
<1>9. \A s \in Root \ Edited : Current(s)'
  BY <1>1, <1>2 DEF IInv, Current
<1>10. ASSUME NEW s \in Root \ hit' PROVE Attended(s)'
  <2>1. CASE s = r
    <3>1. \A w \in WorkersOf(r) : worker'[w].ev
      BY <1>5 DEF WorkersOf
    <3>2. \A w \in WorkersOf(r) : Coming(worker[w])'
      BY <3>1 DEF Coming
    <3> QED
      BY <1>7, <2>1, <3>2 DEF Attended
  <2>2. CASE s # r
    <3>1. \A w \in WorkersOf(s) : Coming(worker[w])' <=> Coming(worker[w])
    <4> SUFFICES ASSUME NEW w \in WorkersOf(s) PROVE Coming(worker[w])' <=> Coming(worker[w])
      OBVIOUS
    <4>1. worker'[w] = worker[w] /\ worker[w].root = s
      BY <1>6, <2>2 DEF WorkersOf
    <4> QED
      BY <1>2, <2>2, <1>10, <4>1 DEF Coming, Doing
    <3>2. Attended(s) /\ (Current(s)' <=> Current(s))
      BY <1>1, <1>2, <1>10, <2>2 DEF IInv, Current
    <3> QED
      BY <1>7, <3>1, <3>2 DEF Attended
  <2> QED
    BY <2>1, <2>2
<1> QED
  BY <1>1, <1>2, <1>4, <1>8, <1>9, <1>10, <1>11 DEF IInv, WorkspacesTypeOK

\* vectorcode init, run by the user, brings an index up to date.
LEMMA UserInitKeeps == ASSUME IInv, NEW r \in Root, UserInit(r) PROVE IInv'
<1>1. /\ has' = has \cup {r} /\ record' = [record EXCEPT ![r] = disk[r]]
      /\ UNCHANGED <<disk, hit, worker>>
  BY DEF UserInit
<1>2. /\ record' \in [Root -> Nat] /\ record'[r] = disk[r]
      /\ \A s \in Root : s # r => record'[s] = record[s]
  BY <1>1 DEF IInv, WorkspacesTypeOK
<1>3. WorkspacesTypeOK'
  BY <1>1, <1>2 DEF IInv, WorkspacesTypeOK
<1>4. /\ \A w \in Workers' : Follows(worker[w])'
      /\ \A s : WorkersOf(s)' = WorkersOf(s)
      /\ \A w : Coming(worker[w])' <=> Coming(worker[w])
  BY <1>1 DEF IInv, Follows, Doing, Workers, WorkersOf, Coming
<1>7. ASSUME NEW w \in Workers' PROVE Handled(w)'
  <2>1. w \in Workers /\ Handled(w) /\ disk[worker[w].root] # 0 /\ (Alone(w)' <=> Alone(w))
    BY <1>1, <1>4, WorkerIs DEF Alone, Workers
  <2>2. worker[w].root \in Root
    BY <2>1, WorkerIs
  <2> QED
    BY <1>1, <1>2, <1>4, <2>1, <2>2 DEF Handled
<1>5. \A s \in Root : Current(s) => Current(s)'
  BY <1>1, <1>2 DEF Current
<1>6. \A s \in Root \ hit' : Attended(s)'
  BY <1>1, <1>4, <1>5 DEF IInv, Attended
<1> QED
  BY <1>3, <1>4, <1>5, <1>6, <1>7 DEF IInv

\* Messages, calls and the map are not part of the invariant.
LEMMA RestKeeps == ASSUME IInv, UNCHANGED <<has, files, worker>> PROVE IInv'
BY DEF IInv, files, index, WorkspacesTypeOK, Workers, WorkersOf, Follows, Handled, Alone, Coming,
       Doing, Current, Attended

LEMMA InitHolds == Init => IInv
<1> SUFFICES ASSUME Init PROVE IInv
  OBVIOUS
<1>1. /\ has \subseteq Root /\ disk = [r \in Root |-> 2] /\ record \in [Root -> {0, 1, 2}]
      /\ \A r \in Root : record[r] = 1 => r \in Edited
      /\ worker = <<>> \/ worker = <<NewWorker(Cwd)>>
      /\ Cwd \in Root
  BY WorkspacesAssumption DEF Init
<1>2. worker \in Seq(WorkerRec) /\ \A w \in Workers : worker[w] = NewWorker(Cwd)
  <2>1. CASE worker = <<>>
    BY <2>1 DEF Workers
  <2>2. CASE worker = <<NewWorker(Cwd)>>
    <3>1. NewWorker(Cwd) \in WorkerRec
      BY <1>1, NewWorkerIs
    <3> QED
      BY <2>2, <3>1 DEF Workers
  <2> QED
    BY <1>1, <2>1, <2>2
<1>3. WorkspacesTypeOK
  BY <1>1, <1>2 DEF WorkspacesTypeOK
<1>4. \A w \in Workers : Follows(worker[w]) /\ Handled(w)
  <2> SUFFICES ASSUME NEW w \in Workers PROVE Follows(worker[w]) /\ Handled(w)
    OBVIOUS
  <2>1. worker[w] = NewWorker(Cwd)
    BY <1>2
  <2>2. worker[w].at["watch"] = "wait" /\ Follows(worker[w])
    BY <1>1, <2>1, NewWorkerIs
  <2> QED
    BY <2>2 DEF Handled
<1>5. \A r \in Root \ Edited : Current(r)
  BY <1>1 DEF Current
<1>6. ASSUME NEW r \in Root PROVE Attended(r)
  <2>1. CASE r \in Edited
    BY <1>1, <1>2, <2>1, NewWorkerIs DEF Attended, WorkersOf, Coming
  <2> QED
    BY <1>5, <2>1 DEF Attended
<1> QED
  BY <1>3, <1>4, <1>5, <1>6 DEF IInv

LEMMA NextKeeps == IInv /\ [Next]_vars => IInv'
<1> SUFFICES ASSUME IInv, [Next]_vars PROVE IInv'
  OBVIOUS
<1>1. CASE Receive \/ AnswerRoots \/ KnowRoots \/ InsertRoots \/ UNCHANGED vars
  BY <1>1, RestKeeps DEF Receive, AnswerRoots, KnowRoots, InsertRoots, vars
<1>2. CASE FetchRoot
  <2>1. CASE Loads(Head(fetch.todo))
    <3>1. Head(fetch.todo) \in Root
      BY <2>1 DEF Loads, IInv, WorkspacesTypeOK
    <3> QED
      BY <1>2, <2>1, <3>1, AppendKeeps DEF FetchRoot
  <2>2. CASE ~Loads(Head(fetch.todo))
    BY <1>2, <2>2, RestKeeps DEF FetchRoot
  <2> QED
    BY <2>1, <2>2
<1>3. ASSUME NEW c \in Call, SendCall(c) \/ BeginCall(c) \/ EndLazy(c) \/ Return(c) PROVE IInv'
  BY <1>3, RestKeeps DEF SendCall, BeginCall, EndLazy, Return
<1>4. ASSUME NEW c \in Call, LazyInit(c) PROVE IInv'
  <2>1. CASE UNCHANGED worker
    BY <1>4, <2>1, RestKeeps DEF LazyInit
  <2>2. CASE /\ Loads(Head(call[c].todo))
             /\ worker' = Append(worker, NewWorker(Head(call[c].todo)))
    <3>1. Head(call[c].todo) \in Root
      BY <2>2 DEF Loads, IInv, WorkspacesTypeOK
    <3> QED
      BY <1>4, <2>2, <3>1, AppendKeeps DEF LazyInit
  <2> QED
    BY <1>4, <2>1, <2>2 DEF LazyInit
<1>5. ASSUME NEW w \in Workers, WorkerStep(w) \/ \E t \in Task : FailSync(w, t) PROVE IInv'
  BY <1>5, QuietKeeps, SyncKeeps DEF WorkerStep
<1>6. ASSUME NEW r \in Root, Edit(r) \/ UserInit(r) PROVE IInv'
  BY <1>6, EditKeeps, UserInitKeeps
<1>7. ASSUME NEW r \in Root, Repair(r) PROVE IInv'
  BY <1>7, RestKeeps DEF Repair
<1> QED
  BY <1>1, <1>2, <1>3, <1>4, <1>5, <1>6, <1>7 DEF Next, FetchStep, CallStep, UserStep

-----------------------------------------------------------------------------
(* The chunks of a root that has but one worker: its tasks take turns, a   *)
(* sync raises the record, and before it does, the chunk is in its place.  *)

Few(r) == \A v, w \in WorkersOf(r) : v = w

OneForSpot(C) == \A u, v \in C : SpotOf[u] = SpotOf[v] => u = v

\* n and C: the record and the chunks of the worker's root
Lone(x, t, n, C) ==
  /\ x.at[t] = "check" => n <= x.read[t]
  /\ x.at[t] \in {"sync", "embed", "record"} => n < x.read[t]
  /\ x.at[t] = "embed" => \A u \in C : SpotOf[u] = SpotOf[x.read[t]]
  /\ x.at[t] = "record" => C = {x.read[t]}

ChunksInv ==
  /\ chunks \in [Root -> SUBSET Nat]
  /\ \A r \in Root :
       /\ record[r] <= disk[r] /\ OneForSpot(chunks[r])
       /\ Few(r) /\ record[r] = disk[r] => chunks[r] = {disk[r]}
       /\ WorkersOf(r) # {} => r \in has
       /\ \A w \in WorkersOf(r), t \in Task :
            /\ Doing(worker[w], t) => worker[w].read[t] <= disk[r]
            /\ Few(r) => Lone(worker[w], t, record[r], chunks[r])

LEMMA ChunksOfRoot ==
  ASSUME IInv, ChunksInv, NEW r \in Root
  PROVE  /\ chunks[r] \subseteq Nat /\ record[r] \in Nat /\ disk[r] \in Nat
         /\ record[r] <= disk[r] /\ OneForSpot(chunks[r])
         /\ Few(r) /\ record[r] = disk[r] => chunks[r] = {disk[r]}
BY DEF IInv, WorkspacesTypeOK, ChunksInv

\* A step of one worker, which leaves n and C.
LEMMA ChunksKept ==
  ASSUME IInv, ChunksInv, NEW w \in Workers, NEW x \in WorkerRec, NEW n \in Nat,
         NEW C \in SUBSET Nat, NEW r \in Root, r = worker[w].root, x.root = r,
         worker' = [worker EXCEPT ![w] = x],
         record' = [record EXCEPT ![r] = n], chunks' = [chunks EXCEPT ![r] = C],
         UNCHANGED <<has, disk>>,
         n <= disk[r], OneForSpot(C),
         \A t \in Task : Doing(x, t) => x.read[t] <= disk[r],
         Few(r) => /\ n = disk[r] => C = {disk[r]}
                   /\ \A t \in Task : Lone(x, t, n, C)
  PROVE  ChunksInv'
<1>1. /\ worker' \in Seq(WorkerRec) /\ Workers' = Workers
      /\ worker'[w] = x /\ \A v \in Workers : v # w => worker'[v] = worker[v]
  BY Replaced DEF IInv, WorkspacesTypeOK, Workers
<1>2. record \in [Root -> Nat] /\ chunks \in [Root -> SUBSET Nat]
  BY DEF IInv, WorkspacesTypeOK, ChunksInv
<1>3. /\ chunks' \in [Root -> SUBSET Nat] /\ record'[r] = n /\ chunks'[r] = C
      /\ \A s \in Root : s # r => record'[s] = record[s] /\ chunks'[s] = chunks[s]
  BY <1>2
<1>4. \A s : WorkersOf(s)' = WorkersOf(s)
  BY <1>1 DEF WorkersOf
<1>5. \A s : Few(s)' <=> Few(s)
  BY <1>4 DEF Few
<1>6. ASSUME NEW s \in Root
      PROVE  /\ record'[s] <= disk'[s] /\ OneForSpot(chunks'[s])
             /\ Few(s)' /\ record'[s] = disk'[s] => chunks'[s] = {disk'[s]}
  <2>1. CASE s = r
    BY <1>3, <1>5, <2>1
  <2>2. CASE s # r
    BY <1>3, <1>5, <2>2, ChunksOfRoot
  <2> QED
    BY <2>1, <2>2
<1>7. ASSUME NEW s \in Root, NEW v \in WorkersOf(s), NEW t \in Task
      PROVE  /\ Doing(worker'[v], t) => worker'[v].read[t] <= disk'[s]
             /\ Few(s) => Lone(worker'[v], t, record'[s], chunks'[s])
  <2>1. CASE v = w
    <3>1. s = r
      BY <1>7, <2>1 DEF WorkersOf
    <3> QED
      BY <1>1, <1>3, <1>7, <2>1, <3>1
  <2>2. CASE v # w
    <3>1. /\ worker'[v] = worker[v]
          /\ Doing(worker[v], t) => worker[v].read[t] <= disk[s]
          /\ Few(s) => Lone(worker[v], t, record[s], chunks[s])
      BY <1>1, <1>7, <2>2 DEF ChunksInv, WorkersOf
    <3>2. CASE s = r
      <4>1. ~Few(r)
        BY <1>7, <2>2, <3>2 DEF Few, WorkersOf
      <4> QED
        BY <3>1, <3>2, <4>1
    <3>3. CASE s # r
      BY <1>3, <1>7, <3>1, <3>3
    <3> QED
      BY <3>2, <3>3
  <2> QED
    BY <2>1, <2>2
<1>8. ASSUME NEW s \in Root
      PROVE  /\ record[s]' <= disk[s]' /\ OneForSpot(chunks[s])'
             /\ Few(s)' /\ record[s]' = disk[s]' => chunks[s]' = {disk[s]'}
  BY <1>6 DEF OneForSpot
<1>9. ASSUME NEW s \in Root
      PROVE  /\ (WorkersOf(s) # {})' => s \in has'
             /\ \A v \in WorkersOf(s)', t \in Task :
                  /\ Doing(worker[v], t)' => worker[v]'.read[t] <= disk[s]'
                  /\ Few(s)' => Lone(worker[v], t, record[s], chunks[s])'
  <2>1. (WorkersOf(s) # {})' => s \in has'
    BY <1>4 DEF ChunksInv
  <2>2. ASSUME NEW v \in WorkersOf(s)', NEW t \in Task
        PROVE  /\ Doing(worker[v], t)' => worker[v]'.read[t] <= disk[s]'
               /\ Few(s)' => Lone(worker[v], t, record[s], chunks[s])'
    <3>1. v \in WorkersOf(s)
      BY <1>4
    <3>2. /\ Doing(worker'[v], t) => worker'[v].read[t] <= disk'[s]
          /\ Few(s) => Lone(worker'[v], t, record'[s], chunks'[s])
      BY <1>7, <3>1
    <3> QED
      BY <1>5, <3>2 DEF Lone, Doing
  <2> QED
    BY <2>1, <2>2
<1> QED
  BY <1>3, <1>8, <1>9 DEF ChunksInv

\* A worker's step that stores nothing.
LEMMA QuietChunks ==
  ASSUME IInv, ChunksInv, NEW w \in Workers,
         Flush(w) \/ NotePending(w) \/ TakeBatch(w) \/ ClearPending(w) \/ ListChanged(w)
  PROVE  ChunksInv'
<1> PICK y, r : y = worker[w] /\ r = y.root
  OBVIOUS
<1>1. /\ y \in WorkerRec /\ r \in Root /\ worker \in Seq(WorkerRec)
      /\ y.at \in [Task -> At] /\ y.read \in [Task -> Nat] /\ y.q \in Nat /\ y.noted \in Nat
      /\ disk \in [Root -> Nat] /\ record \in [Root -> Nat]
  BY WorkerIs DEF WorkerRec
<1>2. /\ chunks[r] \subseteq Nat /\ record[r] \in Nat /\ disk[r] \in Nat
      /\ record[r] <= disk[r] /\ OneForSpot(chunks[r])
      /\ Few(r) /\ record[r] = disk[r] => chunks[r] = {disk[r]}
  BY <1>1, ChunksOfRoot
<1>3. /\ \A t \in Task : Doing(y, t) => y.read[t] <= disk[r]
      /\ Few(r) => \A t \in Task : Lone(y, t, record[r], chunks[r])
  BY <1>1 DEF ChunksInv, WorkersOf
<1>4. Task = {"watch", "late"}
  BY DEF Task
<1>5. UNCHANGED <<has, disk, record, chunks>>
  BY DEF Flush, NotePending, TakeBatch, ClearPending, ListChanged, files, index
<1>6. record = [record EXCEPT ![r] = record[r]] /\ chunks = [chunks EXCEPT ![r] = chunks[r]]
  BY <1>1 DEF ChunksInv
<1>7. SUFFICES ASSUME NEW x \in WorkerRec, worker' = [worker EXCEPT ![w] = x], x.root = r,
                     \A t \in Task :
                       \/ x.at[t] \in {"wait", "clear", "list", "idle"}
                       \/ x.at[t] = y.at[t] /\ x.read[t] = y.read[t]
                       \/ x.at[t] = "check" /\ x.read[t] = disk[r]
               PROVE  ChunksInv'
  <2>1. CASE Flush(w)
    <3> PICK q, noted : q = y.q + 1 /\ noted = y.noted + 1
      OBVIOUS
    <3>1. q \in Nat /\ noted \in Nat
      BY <1>1
    <3> DEFINE x == [y EXCEPT !.ev = FALSE, !.q = q, !.noted = noted]
    <3>2. x \in WorkerRec /\ x.root = r /\ x.at = y.at /\ x.read = y.read
      BY <1>1, <3>1 DEF WorkerRec
    <3>3. worker' = [worker EXCEPT ![w] = x]
      BY <1>1, <2>1 DEF Flush, Workers
    <3> HIDE DEF x
    <3> QED
      BY <1>7, <3>2, <3>3
  <2>2. CASE NotePending(w)
    <3> PICK noted : noted = y.noted - 1
      OBVIOUS
    <3>1. noted \in Nat
      BY <1>1, <2>2 DEF NotePending
    <3> DEFINE x == [y EXCEPT !.noted = noted, !.listed = TRUE]
    <3>2. x \in WorkerRec /\ x.root = r /\ x.at = y.at /\ x.read = y.read
      BY <1>1, <3>1 DEF WorkerRec
    <3>3. worker' = [worker EXCEPT ![w] = x]
      BY <1>1, <2>2 DEF NotePending, Workers
    <3> HIDE DEF x
    <3> QED
      BY <1>7, <3>2, <3>3
  <2>3. CASE TakeBatch(w)
    <3> PICK q : q = y.q - 1
      OBVIOUS
    <3>1. q \in Nat
      BY <1>1, <2>3 DEF TakeBatch
    <3> PICK at, read : /\ at = [y.at EXCEPT !["watch"] = "check"]
                        /\ read = [y.read EXCEPT !["watch"] = disk[r]]
      OBVIOUS
    <3>2. /\ at \in [Task -> At] /\ read \in [Task -> Nat]
          /\ at["watch"] = "check" /\ read["watch"] = disk[r]
          /\ at["late"] = y.at["late"] /\ read["late"] = y.read["late"]
      BY <1>1, <1>2, <1>4 DEF At
    <3> DEFINE x == [y EXCEPT !.q = q, !.at = at, !.read = read]
    <3>3. x \in WorkerRec /\ x.root = r /\ x.at = at /\ x.read = read
      BY <1>1, <3>1, <3>2 DEF WorkerRec
    <3>4. worker' = [worker EXCEPT ![w] = x]
      BY <1>1, <2>3 DEF TakeBatch, Workers
    <3> HIDE DEF x
    <3>5. \A t \in Task :
            \/ x.at[t] \in {"wait", "clear", "list", "idle"}
            \/ x.at[t] = y.at[t] /\ x.read[t] = y.read[t]
            \/ x.at[t] = "check" /\ x.read[t] = disk[r]
      BY <1>4, <3>2, <3>3
    <3> QED
      BY <1>7, <3>3, <3>4, <3>5
  <2>4. CASE ClearPending(w)
    <3> PICK at : at = [y.at EXCEPT !["watch"] = "wait"]
      OBVIOUS
    <3>2. at \in [Task -> At] /\ at["watch"] = "wait" /\ at["late"] = y.at["late"]
      BY <1>1, <1>4 DEF At
    <3> DEFINE x == [y EXCEPT !.at = at, !.listed = FALSE]
    <3>3. x \in WorkerRec /\ x.root = r /\ x.at = at /\ x.read = y.read
      BY <1>1, <3>2 DEF WorkerRec
    <3>4. worker' = [worker EXCEPT ![w] = x]
      BY <1>1, <2>4 DEF ClearPending, Workers
    <3> HIDE DEF x
    <3>5. \A t \in Task :
            \/ x.at[t] \in {"wait", "clear", "list", "idle"}
            \/ x.at[t] = y.at[t] /\ x.read[t] = y.read[t]
            \/ x.at[t] = "check" /\ x.read[t] = disk[r]
      BY <1>4, <3>2, <3>3
    <3> QED
      BY <1>7, <3>3, <3>4, <3>5
  <2>5. CASE ListChanged(w)
    <3> PICK e : e = IF record[r] \in {0, disk[r]} THEN "idle" ELSE "check"
      OBVIOUS
    <3> PICK at, read : /\ at = [y.at EXCEPT !["late"] = e]
                        /\ read = [y.read EXCEPT !["late"] = disk[r]]
      OBVIOUS
    <3>2. /\ at \in [Task -> At] /\ read \in [Task -> Nat]
          /\ at["late"] = e /\ e \in {"idle", "check"} /\ read["late"] = disk[r]
          /\ at["watch"] = y.at["watch"] /\ read["watch"] = y.read["watch"]
      BY <1>1, <1>2, <1>4 DEF At
    <3> DEFINE x == [y EXCEPT !.at = at, !.read = read]
    <3>3. x \in WorkerRec /\ x.root = r /\ x.at = at /\ x.read = read
      BY <1>1, <3>2 DEF WorkerRec
    <3>4. worker' = [worker EXCEPT ![w] = x]
      BY <1>1, <2>5 DEF ListChanged, Workers
    <3> HIDE DEF x
    <3>5. \A t \in Task :
            \/ x.at[t] \in {"wait", "clear", "list", "idle"}
            \/ x.at[t] = y.at[t] /\ x.read[t] = y.read[t]
            \/ x.at[t] = "check" /\ x.read[t] = disk[r]
      BY <1>4, <3>2, <3>3
    <3> QED
      BY <1>7, <3>3, <3>4, <3>5
  <2> QED
    BY <2>1, <2>2, <2>3, <2>4, <2>5
<1>8. \A t \in Task : Doing(x, t) => x.read[t] <= disk[r]
  BY <1>2, <1>3, <1>7 DEF Doing
<1>9. Few(r) => \A t \in Task : Lone(x, t, record[r], chunks[r])
  BY <1>2, <1>3, <1>7 DEF Lone
<1> QED
  BY <1>1, <1>2, <1>5, <1>6, <1>7, <1>8, <1>9, ChunksKept

\* One task of a worker: the other one has nothing to do.
LEMMA OneTask ==
  ASSUME IInv, NEW w \in Workers, NEW t \in Task, NEW u \in Task,
         Doing(worker[w], t), Doing(worker[w], u)
  PROVE  u = t
BY WorkerIs DEF Follows, Doing, Task

\* A step of a sync, of the transaction it is.
LEMMA SyncChunks ==
  ASSUME IInv, ChunksInv, NEW w \in Workers, NEW t \in Task, SyncStep(w, t) \/ FailSync(w, t)
  PROVE  ChunksInv'
<1> PICK y, r, v : y = worker[w] /\ r = y.root /\ v = y.read[t]
  OBVIOUS
<1>1. /\ y \in WorkerRec /\ r \in Root /\ worker \in Seq(WorkerRec)
      /\ y.at \in [Task -> At] /\ y.read \in [Task -> Nat] /\ v \in Nat
      /\ disk \in [Root -> Nat] /\ record \in [Root -> Nat] /\ chunks \in [Root -> SUBSET Nat]
  BY WorkerIs DEF WorkerRec, ChunksInv
<1>2. /\ chunks[r] \subseteq Nat /\ record[r] \in Nat /\ disk[r] \in Nat
      /\ record[r] <= disk[r] /\ OneForSpot(chunks[r])
      /\ Few(r) /\ record[r] = disk[r] => chunks[r] = {disk[r]}
  BY <1>1, ChunksOfRoot
<1>3. Doing(y, t)
  BY DEF SyncStep, CheckFile, CommitFile, StoreChunks, UpsertRecord, FailSync, Busy, Doing
<1>4. /\ v <= disk[r]
      /\ Few(r) => Lone(y, t, record[r], chunks[r])
  BY <1>1, <1>3 DEF ChunksInv, WorkersOf
<1>5. \A u \in Task : u # t => ~Doing(y, u)
  BY <1>3, OneTask
<1>6. record = [record EXCEPT ![r] = record[r]] /\ chunks = [chunks EXCEPT ![r] = chunks[r]]
  BY <1>1
<1>7. ASSUME NEW e \in At, NEW n \in Nat, NEW C \in SUBSET Nat,
             worker' = [worker EXCEPT ![w].at[t] = e],
             record' = [record EXCEPT ![r] = n], chunks' = [chunks EXCEPT ![r] = C],
             UNCHANGED <<has, disk>>, n <= disk[r], OneForSpot(C),
             Few(r) => /\ n = disk[r] => C = {disk[r]}
                       /\ e # "check"
                       /\ e \in {"sync", "embed", "record"} => n < v
                       /\ e = "embed" => \A u \in C : SpotOf[u] = SpotOf[v]
                       /\ e = "record" => C = {v}
      PROVE  ChunksInv'
  <2> PICK at : at = [y.at EXCEPT ![t] = e]
    OBVIOUS
  <2>1. at \in [Task -> At] /\ at[t] = e /\ \A u \in Task : u # t => at[u] = y.at[u]
    BY <1>1
  <2> DEFINE x == [y EXCEPT !.at = at]
  <2>2. x \in WorkerRec /\ x.root = r /\ x.at = at /\ x.read = y.read
    BY <1>1, <2>1 DEF WorkerRec
  <2>3. worker' = [worker EXCEPT ![w] = x]
    BY <1>1, <1>7 DEF Workers
  <2> HIDE DEF x
  <2>4. \A u \in Task : Doing(x, u) => x.read[u] <= disk[r]
    BY <1>4, <1>5, <2>1, <2>2 DEF Doing
  <2>5. Few(r) => \A u \in Task : Lone(x, u, n, C)
    BY <1>5, <1>7, <2>1, <2>2 DEF Lone, Doing
  <2> QED
    BY <1>1, <1>7, <2>2, <2>3, <2>4, <2>5, ChunksKept
<1>8. CASE CheckFile(w, t)
  <2> PICK e : e = IF record[r] = v THEN Done(t) ELSE "sync"
    OBVIOUS
  <2>1. /\ worker' = [worker EXCEPT ![w].at[t] = e] /\ y.at[t] = "check"
        /\ UNCHANGED <<has, disk, record, chunks>>
    BY <1>8 DEF CheckFile, files, index
  <2>2. e \in At /\ (record[r] = v => e \in {"clear", "idle"}) /\ (record[r] # v => e = "sync")
    BY DEF Done, At
  <2>3. Few(r) => record[r] <= v
    BY <1>4, <2>1 DEF Lone
  <2>4. Few(r) => /\ e \in {"sync", "embed", "record"} => record[r] < v
                  /\ e \notin {"check", "embed", "record"}
    BY <1>1, <1>2, <2>2, <2>3
  <2> QED
    BY <1>2, <1>6, <1>7, <2>1, <2>2, <2>4
<1>9. CASE CommitFile(w, t)
  <2> PICK C : C = {u \in chunks[r] : SpotOf[u] = SpotOf[v]}
    OBVIOUS
  <2> PICK e : e = IF v \in chunks[r] THEN "record" ELSE "embed"
    OBVIOUS
  <2>1. /\ worker' = [worker EXCEPT ![w].at[t] = e] /\ y.at[t] = "sync"
        /\ chunks' = [chunks EXCEPT ![r] = C]
        /\ UNCHANGED <<has, disk, record>>
    BY <1>1, <1>9 DEF CommitFile
  <2>2. e \in At /\ C \in SUBSET Nat /\ OneForSpot(C)
    BY <1>2 DEF At, OneForSpot
  <2>3. e = "record" => C = {v}
    BY <1>2 DEF OneForSpot
  <2>4. Few(r) => record[r] < v
    BY <1>4, <2>1 DEF Lone
  <2>5. Few(r) => record[r] # disk[r]
    BY <1>1, <1>2, <1>4, <2>4
  <2> QED
    BY <1>2, <1>6, <1>7, <2>1, <2>2, <2>3, <2>4, <2>5
<1>10. CASE StoreChunks(w, t)
  <2> PICK C : C = {u \in chunks[r] : SpotOf[u] # SpotOf[v]} \cup {v}
    OBVIOUS
  <2>1. /\ worker' = [worker EXCEPT ![w].at[t] = "record"] /\ y.at[t] = "embed"
        /\ chunks' = [chunks EXCEPT ![r] = C]
        /\ UNCHANGED <<has, disk, record>>
    BY <1>1, <1>10 DEF StoreChunks
  <2>2. "record" \in At /\ C \in SUBSET Nat /\ OneForSpot(C)
    BY <1>1, <1>2 DEF At, OneForSpot
  <2>3. Few(r) => C = {v}
    BY <1>4, <2>1 DEF Lone
  <2>4. Few(r) => record[r] < v
    BY <1>4, <2>1 DEF Lone
  <2>5. Few(r) => record[r] # disk[r]
    BY <1>1, <1>2, <1>4, <2>4
  <2> QED
    BY <1>2, <1>6, <1>7, <2>1, <2>2, <2>3, <2>4, <2>5
<1>11. CASE UpsertRecord(w, t)
  <2> PICK e : e = Done(t)
    OBVIOUS
  <2>1. /\ worker' = [worker EXCEPT ![w].at[t] = e] /\ y.at[t] = "record"
        /\ record' = [record EXCEPT ![r] = v]
        /\ UNCHANGED <<has, disk, chunks>>
    BY <1>11 DEF UpsertRecord
  <2>2. e \in At /\ e \notin {"check", "sync", "embed", "record"}
    BY DEF Done, At
  <2>3. Few(r) => chunks[r] = {v}
    BY <1>4, <2>1 DEF Lone
  <2> QED
    BY <1>1, <1>2, <1>4, <1>6, <1>7, <2>1, <2>2, <2>3
<1>12. CASE FailSync(w, t)
  <2> PICK e : e = IF t = "watch" THEN "wait" ELSE "idle"
    OBVIOUS
  <2>1. /\ worker' = [worker EXCEPT ![w].at[t] = e]
        /\ UNCHANGED <<has, disk, record, chunks>>
    BY <1>12 DEF FailSync, index
  <2>2. e \in At /\ e \notin {"check", "sync", "embed", "record"}
    BY DEF At
  <2> QED
    BY <1>2, <1>6, <1>7, <2>1, <2>2
<1> QED
  BY <1>8, <1>9, <1>10, <1>11, <1>12 DEF SyncStep

\* A worker is started, in a root that has an index: where it is the first one
\* its catch-up is still to read.
LEMMA AppendChunks ==
  ASSUME IInv, ChunksInv, NEW r \in Root, r \in has, worker' = Append(worker, NewWorker(r)),
         UNCHANGED <<has, files>>
  PROVE  ChunksInv'
<1> PICK n : n = Len(worker) + 1
  OBVIOUS
<1>1. /\ DOMAIN worker' = Workers \cup {n} /\ n \notin Workers
      /\ worker'[n] = NewWorker(r) /\ \A v \in Workers : worker'[v] = worker[v]
  BY DEF IInv, WorkspacesTypeOK, Workers
<1>2. UNCHANGED <<has, disk, record, chunks>>
  BY DEF files, index
<1>3. \A s \in Root : WorkersOf(s) \subseteq WorkersOf(s)'
  BY <1>1 DEF WorkersOf, Workers
<1>4. \A s \in Root : Few(s)' => Few(s)
  BY <1>3 DEF Few
<1>5. ASSUME NEW t \in Task, NEW m, NEW C
      PROVE  ~Doing(NewWorker(r), t) /\ Lone(NewWorker(r), t, m, C)
  BY DEF NewWorker, Doing, Lone, Task
<1>6. ASSUME NEW s \in Root
      PROVE  /\ record[s]' <= disk[s]' /\ OneForSpot(chunks[s])'
             /\ Few(s)' /\ record[s]' = disk[s]' => chunks[s]' = {disk[s]'}
  BY <1>2, <1>4, ChunksOfRoot DEF OneForSpot
<1>7. ASSUME NEW s \in Root
      PROVE  /\ (WorkersOf(s) # {})' => s \in has'
             /\ \A v \in WorkersOf(s)', t \in Task :
                  /\ Doing(worker[v], t)' => worker[v]'.read[t] <= disk[s]'
                  /\ Few(s)' => Lone(worker[v], t, record[s], chunks[s])'
  <2>1. ASSUME NEW v \in WorkersOf(s)', v \in Workers PROVE v \in WorkersOf(s)
    BY <1>1, <2>1 DEF WorkersOf, Workers
  <2>2. ASSUME NEW v \in WorkersOf(s)', v \notin Workers PROVE v = n /\ s = r
    BY <1>1, <2>2, NewWorkerIs DEF WorkersOf, Workers
  <2>3. (WorkersOf(s) # {})' => s \in has'
    BY <1>2, <2>1, <2>2 DEF ChunksInv
  <2>4. ASSUME NEW v \in WorkersOf(s)', NEW t \in Task
        PROVE  /\ Doing(worker[v], t)' => worker[v]'.read[t] <= disk[s]'
               /\ Few(s)' => Lone(worker[v], t, record[s], chunks[s])'
    <3>1. CASE v \in Workers
      <4>1. /\ v \in WorkersOf(s) /\ worker'[v] = worker[v]
        BY <1>1, <2>1, <3>1
      <4>2. /\ Doing(worker[v], t) => worker[v].read[t] <= disk[s]
            /\ Few(s) => Lone(worker[v], t, record[s], chunks[s])
        BY <4>1 DEF ChunksInv
      <4> QED
        BY <1>2, <1>4, <4>1, <4>2 DEF Lone, Doing
    <3>2. CASE v \notin Workers
      <4>1. worker'[v] = NewWorker(r)
        BY <1>1, <2>2, <3>2
      <4>2. ~Doing(worker'[v], t) /\ Lone(worker'[v], t, record'[s], chunks'[s])
        BY <1>5, <4>1
      <4> QED
        BY <4>2 DEF Lone, Doing
    <3> QED
      BY <3>1, <3>2
  <2> QED
    BY <2>3, <2>4
<1> QED
  BY <1>2, <1>6, <1>7 DEF ChunksInv

\* What changes neither the tasks nor what they have read, and takes no record
\* to the version of the file but with its chunk.
LEMMA OutsideChunks ==
  ASSUME IInv, ChunksInv,
         Workers' = Workers, has \subseteq has',
         \A w \in Workers : /\ worker'[w].root = worker[w].root
                            /\ worker'[w].at = worker[w].at /\ worker'[w].read = worker[w].read,
         chunks' \in [Root -> SUBSET Nat],
         \A s \in Root :
           \/ disk'[s] = disk[s] /\ record'[s] = record[s] /\ chunks'[s] = chunks[s]
           \/ disk'[s] = disk[s] + 1 /\ record'[s] = record[s] /\ chunks'[s] = chunks[s]
           \/ /\ WorkersOf(s) = {} /\ disk'[s] = disk[s] /\ record'[s] = disk[s]
              /\ chunks'[s] = {disk[s]}
  PROVE  ChunksInv'
<1>1. \A s : WorkersOf(s)' = WorkersOf(s)
  BY DEF WorkersOf
<1>2. \A s : Few(s)' <=> Few(s)
  BY <1>1 DEF Few
<1>3. ASSUME NEW s \in Root
      PROVE  /\ record[s]' <= disk[s]' /\ OneForSpot(chunks[s])'
             /\ Few(s)' /\ record[s]' = disk[s]' => chunks[s]' = {disk[s]'}
  <2>1. /\ chunks[s] \subseteq Nat /\ record[s] \in Nat /\ disk[s] \in Nat
        /\ record[s] <= disk[s] /\ OneForSpot(chunks[s])
        /\ Few(s) /\ record[s] = disk[s] => chunks[s] = {disk[s]}
    BY ChunksOfRoot
  <2> QED
    BY <1>2, <2>1 DEF OneForSpot
<1>4. ASSUME NEW s \in Root
      PROVE  /\ (WorkersOf(s) # {})' => s \in has'
             /\ \A v \in WorkersOf(s)', t \in Task :
                  /\ Doing(worker[v], t)' => worker[v]'.read[t] <= disk[s]'
                  /\ Few(s)' => Lone(worker[v], t, record[s], chunks[s])'
  <2>1. (WorkersOf(s) # {})' => s \in has'
    BY <1>1 DEF ChunksInv
  <2>2. ASSUME NEW v \in WorkersOf(s)', NEW t \in Task
        PROVE  /\ Doing(worker[v], t)' => worker[v]'.read[t] <= disk[s]'
               /\ Few(s)' => Lone(worker[v], t, record[s], chunks[s])'
    <3>1. /\ v \in WorkersOf(s) /\ v \in Workers
          /\ Doing(worker[v], t) => worker[v].read[t] <= disk[s]
          /\ Few(s) => Lone(worker[v], t, record[s], chunks[s])
          /\ worker[v].read[t] \in Nat /\ disk[s] \in Nat
      BY <1>1, WorkerIs DEF ChunksInv, WorkersOf, WorkerRec
    <3>2. /\ record'[s] = record[s] /\ chunks'[s] = chunks[s]
          /\ disk'[s] = disk[s] \/ disk'[s] = disk[s] + 1
          /\ worker'[v].at = worker[v].at /\ worker'[v].read = worker[v].read
      BY <3>1
    <3> QED
      BY <1>2, <3>1, <3>2 DEF Lone, Doing
  <2> QED
    BY <2>1, <2>2
<1> QED
  BY <1>3, <1>4 DEF ChunksInv

LEMMA ChunksInit == Init => ChunksInv
<1> SUFFICES ASSUME Init PROVE ChunksInv
  OBVIOUS
<1>1. IInv
  BY InitHolds
<1>2. /\ disk = [r \in Root |-> 2] /\ record \in [Root -> {0, 1, 2}]
      /\ chunks \in [Root -> SUBSET {1, 2}]
      /\ \A r \in Root : IF record[r] = 1 THEN chunks[r] \subseteq {1}
                        ELSE chunks[r] = {record[r]} \ {0}
      /\ worker = IF Cwd \in has THEN <<NewWorker(Cwd)>> ELSE <<>>
      /\ Cwd \in Root
  BY WorkspacesAssumption DEF Init
<1>3. \A r \in Root : /\ record[r] <= disk[r] /\ OneForSpot(chunks[r])
                      /\ record[r] = disk[r] => chunks[r] = {disk[r]}
  BY <1>2 DEF OneForSpot
<1>4. chunks \in [Root -> SUBSET Nat]
  BY <1>2
<1>5. ASSUME NEW w \in Workers
      PROVE  /\ Cwd \in has /\ worker[w].root = Cwd
             /\ \A t \in Task : ~Doing(worker[w], t)
  <2>1. Cwd \in has /\ worker[w] = NewWorker(Cwd)
    BY <1>2 DEF Workers
  <2> QED
    BY <2>1 DEF NewWorker, Doing, Task
<1>6. \A r \in Root : WorkersOf(r) # {} => r \in has
  BY <1>5 DEF WorkersOf
<1>7. \A r \in Root : \A w \in WorkersOf(r), t \in Task :
        ~Doing(worker[w], t) /\ Lone(worker[w], t, record[r], chunks[r])
  BY <1>5 DEF WorkersOf, Lone, Doing
<1>8. ASSUME NEW r \in Root
      PROVE  /\ record[r] <= disk[r] /\ OneForSpot(chunks[r])
             /\ Few(r) /\ record[r] = disk[r] => chunks[r] = {disk[r]}
             /\ WorkersOf(r) # {} => r \in has
             /\ \A w \in WorkersOf(r), t \in Task :
                  /\ Doing(worker[w], t) => worker[w].read[t] <= disk[r]
                  /\ Few(r) => Lone(worker[w], t, record[r], chunks[r])
  <2>1. /\ record[r] <= disk[r] /\ OneForSpot(chunks[r])
        /\ record[r] = disk[r] => chunks[r] = {disk[r]}
    BY <1>3
  <2>2. WorkersOf(r) # {} => r \in has
    BY <1>6
  <2>3. ASSUME NEW w \in WorkersOf(r), NEW t \in Task
        PROVE  /\ Doing(worker[w], t) => worker[w].read[t] <= disk[r]
               /\ Few(r) => Lone(worker[w], t, record[r], chunks[r])
    BY <1>7
  <2> QED
    BY <2>1, <2>2, <2>3
<1> QED
  BY <1>4, <1>8 DEF ChunksInv

LEMMA ChunksNext == IInv /\ ChunksInv /\ [Next]_vars => ChunksInv'
<1> SUFFICES ASSUME IInv, ChunksInv, [Next]_vars PROVE ChunksInv'
  OBVIOUS
<1>1. ASSUME UNCHANGED <<files, worker>>, has \subseteq has' PROVE ChunksInv'
  <2>1. Workers' = Workers /\ UNCHANGED <<disk, record, chunks, worker>>
    BY <1>1 DEF files, index, Workers
  <2>2. chunks' \in [Root -> SUBSET Nat]
    BY <2>1 DEF ChunksInv
  <2> QED
    BY <1>1, <2>1, <2>2, OutsideChunks
<1>2. CASE Receive \/ AnswerRoots \/ KnowRoots \/ InsertRoots \/ UNCHANGED vars
  BY <1>1, <1>2 DEF Receive, AnswerRoots, KnowRoots, InsertRoots, vars
<1>3. CASE FetchRoot
  <2>1. CASE Loads(Head(fetch.todo))
    <3>1. Head(fetch.todo) \in Root /\ Head(fetch.todo) \in has
      BY <2>1 DEF Loads, IInv, WorkspacesTypeOK
    <3> QED
      BY <1>3, <2>1, <3>1, AppendChunks DEF FetchRoot
  <2>2. CASE ~Loads(Head(fetch.todo))
    BY <1>1, <1>3, <2>2 DEF FetchRoot
  <2> QED
    BY <2>1, <2>2
<1>4. ASSUME NEW c \in Call, SendCall(c) \/ BeginCall(c) \/ EndLazy(c) \/ Return(c) PROVE ChunksInv'
  BY <1>1, <1>4 DEF SendCall, BeginCall, EndLazy, Return
<1>5. ASSUME NEW c \in Call, LazyInit(c) PROVE ChunksInv'
  <2>1. CASE UNCHANGED worker
    BY <1>1, <1>5, <2>1 DEF LazyInit
  <2>2. CASE /\ Loads(Head(call[c].todo))
             /\ worker' = Append(worker, NewWorker(Head(call[c].todo)))
    <3>1. Head(call[c].todo) \in Root /\ Head(call[c].todo) \in has
      BY <2>2 DEF Loads, IInv, WorkspacesTypeOK
    <3> QED
      BY <1>5, <2>2, <3>1, AppendChunks DEF LazyInit
  <2> QED
    BY <1>5, <2>1, <2>2 DEF LazyInit
<1>6. ASSUME NEW w \in Workers, WorkerStep(w) \/ \E t \in Task : FailSync(w, t) PROVE ChunksInv'
  BY <1>6, QuietChunks, SyncChunks DEF WorkerStep
<1>7. ASSUME NEW r \in Root, Edit(r) PROVE ChunksInv'
  <2>1. /\ disk' = [disk EXCEPT ![r] = @ + 1] /\ UNCHANGED <<has, record, chunks>>
        /\ worker' = [w \in Workers |->
             IF worker[w].root = r THEN [worker[w] EXCEPT !.ev = TRUE] ELSE worker[w]]
    BY <1>7 DEF Edit, index
  <2>2. \A w \in Workers : worker[w] \in WorkerRec
    BY WorkerIs
  <2>3. Workers' = Workers
    BY <2>1 DEF Workers
  <2>4. ASSUME NEW w \in Workers
        PROVE  /\ worker'[w].root = worker[w].root
               /\ worker'[w].at = worker[w].at /\ worker'[w].read = worker[w].read
    BY <2>1, <2>2 DEF WorkerRec
  <2>5. \A s \in Root : /\ disk'[s] = disk[s] \/ disk'[s] = disk[s] + 1
                       /\ record'[s] = record[s] /\ chunks'[s] = chunks[s]
    BY <2>1 DEF IInv, WorkspacesTypeOK
  <2>6. has \subseteq has' /\ chunks' \in [Root -> SUBSET Nat]
    BY <2>1 DEF ChunksInv
  <2> QED
    BY <2>3, <2>4, <2>5, <2>6, OutsideChunks
<1>8. ASSUME NEW r \in Root, UserInit(r) PROVE ChunksInv'
  <2>1. /\ r \notin has /\ has' = has \cup {r} /\ UNCHANGED <<disk, worker>>
        /\ record' = [record EXCEPT ![r] = disk[r]]
        /\ chunks' = [chunks EXCEPT ![r] = {disk[r]}]
    BY <1>8 DEF UserInit
  <2>2. WorkersOf(r) = {}
    BY <2>1 DEF ChunksInv
  <2>3. /\ record \in [Root -> Nat] /\ chunks \in [Root -> SUBSET Nat] /\ disk[r] \in Nat
    BY DEF IInv, WorkspacesTypeOK, ChunksInv
  <2>4. chunks' \in [Root -> SUBSET Nat] /\ has \subseteq has' /\ Workers' = Workers
    BY <2>1, <2>3 DEF Workers
  <2>5. \A s \in Root :
           \/ disk'[s] = disk[s] /\ record'[s] = record[s] /\ chunks'[s] = chunks[s]
           \/ /\ WorkersOf(s) = {} /\ disk'[s] = disk[s] /\ record'[s] = disk[s]
              /\ chunks'[s] = {disk[s]}
    BY <2>1, <2>2, <2>3
  <2> QED
    BY <2>1, <2>4, <2>5, OutsideChunks
<1>9. ASSUME NEW r \in Root, Repair(r) PROVE ChunksInv'
  BY <1>1, <1>9 DEF Repair
<1> QED
  BY <1>2, <1>3, <1>4, <1>5, <1>6, <1>7, <1>8, <1>9 DEF Next, FetchStep, CallStep, UserStep

\* Both parts together.
LEMMA BothHold == Spec => [](IInv /\ ChunksInv)
BY InitHolds, NextKeeps, ChunksInit, ChunksNext, PTL DEF Spec

-----------------------------------------------------------------------------
\* However many workers a root has got, from however many roots and calls, and
\* in whatever order their transactions fall, an indexed file whose record is
\* out of date will be synced again by one of them, if no sync of the root has
\* failed; and a root that has one worker keeps no old chunk beside a current
\* record.
THEOREM StaleGetsSynced == Spec => []StaleIsBeingSynced
<1>1. ASSUME IInv, ChunksInv PROVE StaleIsBeingSynced
  <2> SUFFICES ASSUME NEW r \in Root \ hit, WorkersOf(r) # {}, record[r] # 0
               PROVE  \/ /\ Recorded(r)
                         /\ (\A w \in WorkersOf(r) : Alone(w)) => UpToDate(r)
                      \/ \E w \in WorkersOf(r) : OnItsWay(w)
    BY DEF StaleIsBeingSynced
  <2>1. CASE record[r] = disk[r]
    <3>1. (\A w \in WorkersOf(r) : Alone(w)) => Few(r)
      BY DEF Alone, Few, WorkersOf
    <3> QED
      BY <1>1, <2>1, <3>1, ChunksOfRoot DEF Recorded, UpToDate
  <2>2. CASE record[r] # disk[r]
    <3>1. PICK w \in WorkersOf(r) : Coming(worker[w])
      BY <1>1, <2>2 DEF IInv, Attended, Current
    <3> QED
      BY <3>1 DEF Coming, Doing, OnItsWay, Busy
  <2> QED
    BY <2>1, <2>2
<1> QED
  BY <1>1, BothHold, PTL

-----------------------------------------------------------------------------
\* Nothing but ClearPending takes a file off a worker's list.
LEMMA StaysListed ==
  ASSUME IInv, NEW v \in Workers, worker[v].listed, [Next]_vars,
         ~ClearPending(v)
  PROVE  worker'[v].listed
<1>1. worker \in Seq(WorkerRec) /\ worker[v] \in WorkerRec
  BY WorkerIs
<1>2. CASE UNCHANGED worker
  BY <1>2
<1>3. ASSUME NEW x, worker' = Append(worker, x) PROVE worker'[v].listed
  BY <1>1, <1>3 DEF Workers
<1>4. ASSUME NEW w \in Workers, WorkerStep(w) \/ \E t \in Task : FailSync(w, t)
      PROVE  worker'[v].listed
  <2>1. CASE v = w
    <3>1. ASSUME NEW t \in Task, NEW e, worker' = [worker EXCEPT ![v].at[t] = e]
          PROVE  worker'[v].listed
      BY <1>1, <3>1 DEF WorkerRec, Workers
    <3>5. CASE Flush(v) \/ NotePending(v)
      BY <1>1, <3>5 DEF Flush, NotePending, WorkerRec, Workers
    <3>6. CASE TakeBatch(v)
      BY <1>1, <3>6 DEF TakeBatch, WorkerRec, Workers
    <3>2. CASE ListChanged(v)
      <4> PICK e : worker' = [worker EXCEPT ![v].read["late"] = disk[worker[v].root],
                                            ![v].at["late"] = e]
        BY <3>2 DEF ListChanged
      <4> QED
        BY <1>1 DEF WorkerRec, Workers
    <3>3. ASSUME NEW t \in Task, SyncStep(v, t) \/ FailSync(v, t)
          PROVE  \E e : worker' = [worker EXCEPT ![v].at[t] = e]
      BY <3>3 DEF SyncStep, CheckFile, CommitFile, StoreChunks, UpsertRecord, FailSync
    <3>4. ASSUME NEW t \in Task, SyncStep(v, t) \/ FailSync(v, t) PROVE worker'[v].listed
      BY <3>1, <3>3, <3>4
    <3> QED
      BY <1>4, <2>1, <3>2, <3>4, <3>5, <3>6 DEF WorkerStep
  <2>2. CASE v # w
    BY <1>1, <1>4, <2>2 DEF WorkerStep, SyncStep, Flush, NotePending, TakeBatch, CheckFile,
       CommitFile, StoreChunks, UpsertRecord, FailSync, ClearPending, ListChanged, Workers
  <2> QED
    BY <2>1, <2>2
<1>5. ASSUME NEW r \in Root, Edit(r) PROVE worker'[v].listed
  BY <1>1, <1>5 DEF Edit, WorkerRec
<1>6. CASE FetchRoot
  BY <1>2, <1>3, <1>6 DEF FetchRoot
<1>7. ASSUME NEW c \in Call, LazyInit(c) PROVE worker'[v].listed
  BY <1>2, <1>3, <1>7 DEF LazyInit
<1> QED
  BY <1>2, <1>4, <1>5, <1>6, <1>7 DEF Next, FetchStep, CallStep, UserStep, Receive, AnswerRoots,
     KnowRoots, InsertRoots, SendCall, BeginCall, EndLazy, Return, UserInit, Repair, vars

\* A file leaves the pending list of a worker that its root has alone only when
\* record and chunks are up to date or another sync of it is coming, also when
\* syncs have failed: for any roots and edits.
THEOREM UnlistedWasHandled == Spec => UnlistedIsHandled
<1>1. ASSUME IInv, ChunksInv, [Next]_vars, NEW v \in Workers,
             worker[v].listed, ~worker'[v].listed, Alone(v)
      PROVE  (UpToDate(worker[v].root) \/ OnItsWay(v))'
  <2>1. ClearPending(v)
    BY <1>1, StaysListed
  <2> PICK r, y : r = worker[v].root /\ y = worker[v]
    OBVIOUS
  <2>2. /\ y.at["watch"] = "clear" /\ y \in WorkerRec /\ worker \in Seq(WorkerRec)
        /\ worker' = [worker EXCEPT ![v] = [y EXCEPT !.at["watch"] = "wait", !.listed = FALSE]]
        /\ UNCHANGED <<disk, record, chunks>> /\ r \in Root
    BY <1>1, <2>1, WorkerIs DEF ClearPending, files, index, Workers
  <2>3. record[r] = disk[r] \/ Coming(y)
    BY <1>1, <2>2 DEF IInv, Handled
  <2>4. /\ worker'[v].root = r /\ worker'[v].ev = y.ev /\ worker'[v].q = y.q
        /\ worker'[v].at = [y.at EXCEPT !["watch"] = "wait"] /\ worker'[v].read = y.read
    BY <2>2 DEF WorkerRec, Workers
  <2>5. /\ y.at \in [Task -> At] /\ Task = {"watch", "late"}
    BY <2>2 DEF WorkerRec, Task
  <2>6. worker'[v].at["late"] = y.at["late"]
    BY <2>4, <2>5
  <2>7. CASE record[r] = disk[r]
    <3>1. Few(r)
      BY <1>1 DEF Alone, Few
    <3>2. chunks[r] = {disk[r]}
      BY <1>1, <2>2, <2>7, <3>1, ChunksOfRoot
    <3>3. record'[r] = disk'[r] /\ chunks'[r] = {disk'[r]}
      BY <2>2, <2>7, <3>2
    <3>4. /\ record'[worker'[v].root] = disk'[worker'[v].root]
          /\ chunks'[worker'[v].root] = {disk'[worker'[v].root]}
      BY <2>4, <3>3
    <3> QED
      BY <3>4 DEF UpToDate, Recorded
  <2>8. CASE Coming(y)
    <3>1. \/ y.ev \/ y.q > 0 \/ y.at["late"] = "list"
          \/ Doing(y, "late") /\ y.read["late"] = disk[r]
      BY <2>2, <2>5, <2>8 DEF Coming, Doing
    <3>2. \/ worker'[v].ev \/ worker'[v].q > 0 \/ worker'[v].at["late"] = "list"
          \/ /\ worker'[v].at["late"] \in {"check", "sync", "embed", "record"}
             /\ worker'[v].read["late"] = disk'[worker'[v].root]
      BY <2>2, <2>4, <2>6, <3>1 DEF Doing
    <3> QED
      BY <2>5, <3>2 DEF OnItsWay, Busy
  <2> QED
    BY <2>3, <2>7, <2>8
<1> DEFINE Step == \A w \in Workers :
             worker[w].listed /\ ~worker'[w].listed /\ Alone(w) =>
               (UpToDate(worker[w].root) \/ OnItsWay(w))'
<1>2. IInv /\ ChunksInv /\ [Next]_vars => Step
  BY <1>1
<1>3. IInv /\ ChunksInv /\ [Next]_vars => [Step]_vars
  BY <1>2
<1>4. Spec => [][Step]_vars
  <2> HIDE DEF Step
  <2> QED
    BY <1>3, BothHold, PTL DEF Spec
<1> QED
  BY <1>4 DEF UnlistedIsHandled
=============================================================================
