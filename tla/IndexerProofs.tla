---------------------------- MODULE IndexerProofs ----------------------------
(***************************************************************************)
(* Proofs about Indexer for one runner at a time, any number of files,     *)
(* versions, chunks and failures, and about AutoSync.                      *)
(*                                                                         *)
(* The argument for Indexer: a record with the mtime of the file on disk   *)
(* is of the version on disk, because every write has a new mtime.  So a   *)
(* task that finds its file changed knows that the record is older than    *)
(* the disk, and while it replaces the chunks of the file nobody will      *)
(* trust that record (Behind).  When the records are upserted, what the    *)
(* tasks committed and the batches stored add up to the chunks of the file *)
(* (Built).  That chunks have their vectors needs none of this: it is an   *)
(* invariant of its own (VectorsOK).                                       *)
(*                                                                         *)
(* AutoSync has two runners, the worker and the catch-up.  If nobody edits *)
(* before the catch-up is done they take turns (Calm), and each step of a  *)
(* run is a step of Indexer, so that its invariant holds here too.  The    *)
(* rest is about where the news of an edit is: with the debouncer, in the  *)
(* channel, with the worker, in a run, or in the mtime of the file         *)
(* (NothingLost).                                                          *)
(***************************************************************************)
EXTENDS AutoSync, TLAPS

OneRunner == \A r, q \in Runner : r = q

\* Nobody but r is in a run.
Alone(r) == \A s \in Runner : s # r => run[s] = IdleRun

-----------------------------------------------------------------------------
(* The inductive invariant. *)

\* What a task or a record saw is what the disk has, if the mtime still is.
SawSize(x) ==
  /\ x.mtime <= disk[x.file].mtime
  /\ x.mtime = disk[x.file].mtime => x.size = Size[disk[x.file].ver]

SawHash(x) ==
  /\ SawSize(x)
  /\ x.mtime = disk[x.file].mtime => x.hash = disk[x.file].ver

\* The record of f, if any, is older than the file.
Behind(f) == \A x \in rec : x.file = f => x.mtime < disk[f].mtime

\* The chunks of f are gone, and it is not listed unless it returned.
Hidden(f, H) == RowsOf(f) = {} /\ (f \in H \/ ~disk[f].listed)

Records(H) ==
  \A x \in rec :
    /\ SawHash(x)
    /\ x.mtime = disk[x.file].mtime => Mirrors(x.file, x.hash) \/ Hidden(x.file, H)

\* A file is at one stage of its task.
Stages(q) ==
  /\ \A x, y \in q.stats : x.file = y.file => x = y
  /\ \A x, y \in q.reads : x.file = y.file => x = y
  /\ \A x, y \in q.tocommit : x.file = y.file => x = y
  /\ \A x, y \in q.recs : x.file = y.file => x = y
  /\ \A x \in q.stats : \A y \in q.reads \cup q.tocommit \cup q.skipped \cup q.recs :
       x.file # y.file
  /\ \A x \in q.reads : \A y \in q.tocommit \cup q.skipped \cup q.recs : x.file # y.file
  /\ \A x \in q.tocommit : \A y \in q.skipped \cup q.recs : x.file # y.file
  /\ \A x \in q.skipped : \A y \in q.recs : x.file # y.file
  /\ \A x \in q.stats \cup q.reads \cup q.tocommit \cup q.skipped \cup q.recs :
       x.file \in q.valid \ q.todo
  /\ q.todo \subseteq q.valid

\* The chunks of f are those of version v, once those in `new` are stored.
Adds(f, v, new) ==
  /\ \A d \in ChunksOf(f, v) : Key(d) \in Keys(rows) \/ d \in new
  /\ \A c \in rows : c.file = f =>
       \/ Key(c) \in Keys(ChunksOf(f, v))
       \/ \E d \in new : d.file = f /\ d.slot = c.slot

Built(q) ==
  q.phase = "work" =>
    /\ \A x \in q.recs : Adds(x.file, x.hash, q.new)
    /\ \A c \in q.new :
         /\ \E x \in q.recs : c \in ChunksOf(x.file, x.hash)
         /\ Key(c) \notin Keys(rows)

\* A run is sound whatever the user does.
Sound(q) == Stages(q) /\ Built(q) /\ (q.phase = "idle" => q = IdleRun)

Seen(q) ==
  /\ \A x \in q.stats : SawSize(x)
  /\ \A x \in q.reads \cup q.tocommit \cup q.recs : SawHash(x)
  /\ \A x \in q.stats \cup q.reads, y \in rec : y.file = x.file => y.mtime <= x.mtime
  /\ q.skipped \subseteq rec
  /\ \A x \in q.tocommit : Behind(x.file)
  /\ q.phase = "work" => \A x \in q.recs : Behind(x.file)

\* After the records are written.
Phases(q) ==
  q.phase \in {"stale", "delete"} =>
    /\ q.full
    /\ q.recs \subseteq rec
    /\ q.todo = {} /\ q.stats = {} /\ q.reads = {} /\ q.tocommit = {}
    /\ q.new = {}

\* What the cleanup may delete.  (H: the files that may have no chunks though
\* their record is current.)
Cleanup(q, H) ==
  /\ q.phase # "idle" /\ q.full =>
       \A f \in File \ q.valid : Behind(f) \/ ~disk[f].listed \/ f \in H
  /\ q.phase = "delete" => Files(rows) \subseteq q.valid \cup q.stale
  /\ q.stale \cap q.valid = {}

RunInv(q, H) == Sound(q) /\ Seen(q) /\ Phases(q) /\ Cleanup(q, H)

IInv(H) == TypeOK /\ Records(H) /\ \A r \in Runner : RunInv(run[r], H)

-----------------------------------------------------------------------------
(* Lemmas. *)

\* The chunks of a version have their types, and no two the same slot.
LEMMA ChunksOfType ==
  ASSUME NEW f \in File, NEW v \in Version
  PROVE  /\ ChunksOf(f, v) \subseteq Chunk
         /\ \A c \in ChunksOf(f, v) : c.file = f
         /\ \A c, d \in ChunksOf(f, v) : c.slot = d.slot => c = d
<1>1. /\ Layout[v] \subseteq Part
      /\ \A p, q \in Layout[v] : p.slot = q.slot => p = q
  BY IndexerAssumption
<1> QED BY <1>1 DEF ChunksOf, Chunk, Part

\* Two chunks have the same key when file, slot and text are the same.
LEMMA KeyIn ==
  ASSUME NEW C, NEW c
  PROVE  Key(c) \in Keys(C) <=>
           \E d \in C : d.file = c.file /\ d.slot = c.slot /\ d.text = c.text
BY DEF Key, Keys

\* A type invariant about one runner's run.
LEMMA RunType ==
  ASSUME TypeOK, NEW r \in Runner
  PROVE  /\ run[r] \in Run
         /\ run[r].todo \subseteq File
         /\ run[r].valid \subseteq File
         /\ run[r].stats \subseteq Stat
         /\ run[r].reads \subseteq FileRecord
         /\ run[r].tocommit \subseteq FileRecord
         /\ run[r].skipped \subseteq FileRecord
         /\ run[r].recs \subseteq FileRecord
         /\ run[r].new \subseteq Chunk
         /\ run[r].stale \subseteq File
BY DEF TypeOK, Run

LEMMA DiskType ==
  ASSUME TypeOK, NEW f \in File
  PROVE  disk[f].mtime \in Nat /\ disk[f].ver \in Version /\ disk[f].listed \in BOOLEAN
BY DEF TypeOK, DiskFile

-----------------------------------------------------------------------------
(* The user's steps. *)

LEMMA WriteKeeps ==
  ASSUME NEW H, IInv(H), NEW f \in File, NEW v \in Version, Write(f, v)
  PROVE  IInv(H)'
<1>1. PICK n \in 1..MaxMtime :
        /\ IsNow(n)
        /\ disk' = [disk EXCEPT ![f] = [listed |-> TRUE, ver |-> v, mtime |-> n]]
  BY DEF Write
<1>2. /\ rows' = rows /\ vecs' = vecs /\ rec' = rec /\ run' = run /\ cut' = cut
      /\ n \in Nat
      /\ \A g \in File : disk[g].mtime < n
  BY <1>1, IndexerAssumption DEF Write, IsNow
<1>3. disk \in [File -> DiskFile] /\ rec \subseteq FileRecord
  BY DEF IInv, TypeOK
<1>4. /\ disk'[f] = [listed |-> TRUE, ver |-> v, mtime |-> n]
      /\ \A g \in File : g # f => disk'[g] = disk[g]
      /\ disk' \in [File -> DiskFile]
  BY <1>1, <1>2, <1>3 DEF DiskFile
<1>5. TypeOK'
  BY <1>2, <1>4 DEF IInv, TypeOK
<1>6. /\ \A g \in File : disk[g].mtime \in Nat
      /\ \A x \in rec : x.file \in File /\ x.mtime \in Nat
  BY <1>3 DEF DiskFile, FileRecord
<1>7. ASSUME NEW x, x.file \in File, x.mtime \in Nat
      PROVE  /\ SawSize(x) => SawSize(x)'
             /\ SawHash(x) => SawHash(x)'
             /\ x.mtime <= disk[x.file].mtime /\ x.mtime = disk'[x.file].mtime
                  => x.file # f
  BY <1>2, <1>4, <1>6, <1>7 DEF SawSize, SawHash
<1>8. Records(H)'
  <2> SUFFICES ASSUME NEW x \in rec
               PROVE  /\ SawHash(x)'
                      /\ x.mtime = disk'[x.file].mtime
                           => Mirrors(x.file, x.hash)' \/ Hidden(x.file, H)'
    BY <1>2 DEF Records
  <2>1. /\ SawHash(x)
        /\ x.mtime = disk[x.file].mtime => Mirrors(x.file, x.hash) \/ Hidden(x.file, H)
    BY DEF IInv, Records
  <2>2. SawHash(x)'
    BY <1>6, <1>7, <2>1
  <2>3. ASSUME x.mtime = disk'[x.file].mtime
        PROVE  Mirrors(x.file, x.hash)' \/ Hidden(x.file, H)'
    <3>1. x.file # f
      BY <1>6, <1>7, <2>1, <2>3 DEF SawHash, SawSize
    <3>2. disk'[x.file] = disk[x.file]
      BY <1>4, <1>6, <3>1
    <3> QED BY <1>2, <2>1, <2>3, <3>2 DEF Mirrors, Hidden, RowsOf
  <2> QED BY <2>2, <2>3
<1>9. \A g \in File : Behind(g) => Behind(g)'
  BY <1>2, <1>4, <1>6 DEF Behind
<1>10. Behind(f)'
  <2> SUFFICES ASSUME NEW x \in rec, x.file = f
               PROVE  x.mtime < n
    BY <1>2, <1>4 DEF Behind
  <2>1. x.mtime <= disk[f].mtime
    BY DEF IInv, Records, SawHash, SawSize
  <2> QED BY <1>2, <1>6, <2>1
<1>11. ASSUME NEW r \in Runner
       PROVE  RunInv(run[r], H)'
  <2> DEFINE q == run[r]
  <2>1. /\ RunInv(q, H) /\ q' = q
        /\ q.stats \subseteq Stat
        /\ q.reads \cup q.tocommit \cup q.recs \subseteq FileRecord
    BY <1>2, RunType DEF IInv
  <2>2. /\ \A x \in q.stats \cup q.reads \cup q.tocommit \cup q.recs :
             x.file \in File /\ x.mtime \in Nat
    BY <2>1 DEF Stat, FileRecord
  <2> HIDE DEF q
  <2>3. Phases(q)'
    BY <1>2, <2>1 DEF RunInv, Phases
  <2>4. Seen(q)'
    BY <1>2, <1>7, <1>9, <2>1, <2>2 DEF RunInv, Seen
  <2>5. Sound(q)'
    BY <1>2, <2>1 DEF RunInv, Sound, Stages, Built, Adds
  <2>6. Cleanup(q, H)'
    <3>1. \A g \in File : ~disk[g].listed => ~disk'[g].listed \/ g = f
      BY <1>4
    <3> QED BY <1>2, <1>9, <1>10, <2>1, <3>1 DEF RunInv, Cleanup
  <2> QED BY <2>3, <2>4, <2>5, <2>6 DEF RunInv, q
<1> QED BY <1>2, <1>5, <1>8, <1>11 DEF IInv

\* Unlist and Return change no mtime and no version.
LEMMA ListingKeeps ==
  ASSUME NEW H, Returning \subseteq H, IInv(H), NEW f \in File, Unlist(f) \/ Return(f)
  PROVE  IInv(H)'
<1>1. /\ rows' = rows /\ vecs' = vecs /\ rec' = rec /\ run' = run /\ cut' = cut
      /\ disk' \in [File -> DiskFile]
      /\ \A g \in File : disk'[g].mtime = disk[g].mtime /\ disk'[g].ver = disk[g].ver
      /\ \A g \in File : g \notin H /\ disk'[g].listed => disk[g].listed
  <2>1. disk \in [File -> DiskFile]
    BY DEF IInv, TypeOK
  <2>2. CASE Unlist(f)
    BY <2>1, <2>2 DEF Unlist, DiskFile
  <2>3. CASE Return(f)
    BY <2>1, <2>3 DEF Return, DiskFile
  <2> QED BY <2>2, <2>3
<1>2. TypeOK'
  BY <1>1 DEF IInv, TypeOK
<1>3. \A x \in rec : x.file \in File
  BY DEF IInv, TypeOK, FileRecord
<1>4. Records(H)'
  BY <1>1, <1>3 DEF IInv, Records, SawHash, SawSize, Mirrors, Hidden, RowsOf
<1>5. \A g \in File : Behind(g) => Behind(g)'
  BY <1>1 DEF Behind
<1>6. ASSUME NEW r \in Runner
      PROVE  RunInv(run[r], H)'
  <2> DEFINE q == run[r]
  <2>1. /\ RunInv(q, H) /\ q' = q
        /\ q.stats \subseteq Stat
        /\ q.reads \cup q.tocommit \cup q.recs \subseteq FileRecord
    BY <1>1, RunType DEF IInv
  <2>2. \A x \in q.stats \cup q.reads \cup q.tocommit \cup q.recs : x.file \in File
    BY <2>1 DEF Stat, FileRecord
  <2> HIDE DEF q
  <2>3. Phases(q)'
    BY <1>1, <2>1 DEF RunInv, Phases
  <2>4. Seen(q)'
    BY <1>1, <1>5, <2>1, <2>2 DEF RunInv, Seen, SawHash, SawSize
  <2>5. Sound(q)'
    BY <1>1, <2>1 DEF RunInv, Sound, Stages, Built, Adds
  <2>6. Cleanup(q, H)'
    BY <1>1, <1>5, <2>1 DEF RunInv, Cleanup
  <2> QED BY <2>3, <2>4, <2>5, <2>6 DEF RunInv, q
<1> QED BY <1>1, <1>2, <1>4, <1>6 DEF IInv

-----------------------------------------------------------------------------
(* What the steps of a run do to it, whatever the user does meanwhile. *)

SameRun(q, p) == p.phase = q.phase /\ p.full = q.full /\ p.valid = q.valid /\ p.stale = q.stale

LEMMA IdleIsSound == IdleRun \in Run /\ Sound(IdleRun) /\ Sound(IdleRun)'
<1>1. Stages(IdleRun)
  BY DEF Stages, IdleRun
<1>2. Built(IdleRun) /\ Built(IdleRun)'
  BY DEF Built, IdleRun
<1> QED BY <1>1, <1>2 DEF Sound, IdleRun, Run

\* A run with a task, or one that could be joined, is at work.
LEMMA Working ==
  ASSUME NEW q, Sound(q), q.todo # {} \/ q.stats # {} \/ q.reads # {} \/ q.tocommit # {}
  PROVE  q.phase # "idle"
BY DEF Sound, IdleRun

LEMMA BeginIs ==
  ASSUME TypeOK, NEW r \in Runner, NEW full \in BOOLEAN, NEW fs \in SUBSET File,
         Begin(r, full, fs)
  PROVE  /\ UNCHANGED <<disk, rows, vecs, rec, cut>> /\ TypeOK'
         /\ run' = [run EXCEPT ![r] = run'[r]]
         /\ run[r].phase = "idle" /\ run'[r].phase = "work" /\ run'[r].full = full
         /\ run'[r].valid = fs /\ run'[r].todo = fs
         /\ run'[r].stats = {} /\ run'[r].reads = {} /\ run'[r].tocommit = {}
         /\ run'[r].skipped = {} /\ run'[r].recs = {} /\ run'[r].new = {}
         /\ run'[r].stale = {}
         /\ Sound(run[r])'
<1> DEFINE p == run'[r]
           n == [IdleRun EXCEPT !.phase = "work", !.full = full, !.valid = fs, !.todo = fs]
<1>1. UNCHANGED <<disk, rows, vecs, rec, cut>> /\ run' = [run EXCEPT ![r] = n]
  BY DEF Begin
<1>2. n \in Run
  BY DEF IdleRun, Run
<1>3. p = n /\ run' \in [Runner -> Run] /\ run' = [run EXCEPT ![r] = p]
  BY <1>1, <1>2 DEF TypeOK
<1>4. /\ p.phase = "work" /\ p.full = full /\ p.valid = fs /\ p.todo = fs
      /\ p.stats = {} /\ p.reads = {} /\ p.tocommit = {} /\ p.skipped = {}
      /\ p.recs = {} /\ p.new = {} /\ p.stale = {}
  BY <1>3 DEF IdleRun
<1>5. TypeOK'
  BY <1>1, <1>3 DEF TypeOK
<1> HIDE DEF p, n
<1>6. Stages(p)
  BY <1>4 DEF Stages
<1>7. Sound(run[r])'
  BY <1>4, <1>6 DEF Sound, Stages, Built, p
<1> QED BY <1>1, <1>3, <1>4, <1>5, <1>7 DEF Begin, p

LEMMA StatFileIs ==
  ASSUME TypeOK, NEW r \in Runner, Sound(run[r]), NEW f \in run[r].todo, StatFile(r, f),
         NEW s, s = [file |-> f, mtime |-> disk[f].mtime, size |-> Size[disk[f].ver]]
  PROVE  /\ UNCHANGED <<disk, rows, vecs, rec, cut>> /\ TypeOK'
         /\ s \in Stat /\ f \in File
         /\ run' = [run EXCEPT ![r] = run'[r]]
         /\ SameRun(run[r], run'[r])
         /\ run'[r].todo = run[r].todo \ {f}
         /\ run'[r].stats = IF disk[f].listed THEN run[r].stats \cup {s} ELSE run[r].stats
         /\ run'[r].reads = run[r].reads /\ run'[r].tocommit = run[r].tocommit
         /\ run'[r].skipped = run[r].skipped /\ run'[r].recs = run[r].recs
         /\ run'[r].new = run[r].new
         /\ Sound(run[r])'
<1> DEFINE q == run[r]
           p == run'[r]
           n == [q EXCEPT !.todo = @ \ {f}, !.stats = IF disk[f].listed THEN @ \cup {s} ELSE @]
<1>1. UNCHANGED <<disk, rows, vecs, rec, cut>>
  BY DEF StatFile
<1>2. q \in Run /\ f \in q.todo /\ f \in File
  BY RunType
<1>3. s \in Stat
  BY <1>2, DiskType, IndexerAssumption DEF Stat
<1>4. n \in Run /\ run' = [run EXCEPT ![r] = n]
  BY <1>2, <1>3 DEF StatFile, TypeOK, Run
<1>5. p = n /\ run' \in [Runner -> Run] /\ run' = [run EXCEPT ![r] = p]
  BY <1>4 DEF TypeOK
<1>6. /\ SameRun(q, p) /\ p.todo = q.todo \ {f}
      /\ p.stats = IF disk[f].listed THEN q.stats \cup {s} ELSE q.stats
      /\ p.reads = q.reads /\ p.tocommit = q.tocommit /\ p.skipped = q.skipped
      /\ p.recs = q.recs /\ p.new = q.new
  BY <1>2, <1>5 DEF Run, SameRun
<1>7. TypeOK'
  BY <1>1, <1>5 DEF TypeOK
<1> HIDE DEF p, q, n
<1>8. Stages(p)
  <2>1. Stages(q) /\ s.file = f
    BY DEF Sound, q
  <2> QED BY <1>2, <1>6, <2>1 DEF Stages, SameRun
<1>9. Built(run[r])'
  BY <1>1, <1>6 DEF Sound, Built, Adds, SameRun, p, q
<1>10. q.phase # "idle"
  BY <1>2, Working DEF q
<1> QED BY <1>1, <1>2, <1>3, <1>5, <1>6, <1>7, <1>8, <1>9, <1>10 DEF Sound, SameRun, p, q

LEMMA ReadFileIs ==
  ASSUME TypeOK, NEW r \in Runner, Sound(run[r]), NEW s \in run[r].stats, ReadFile(r, s),
         NEW x, x = [file |-> s.file, mtime |-> s.mtime, size |-> s.size, hash |-> disk[s.file].ver]
  PROVE  /\ UNCHANGED <<disk, rows, vecs, rec, cut>> /\ TypeOK'
         /\ s \in Stat /\ x \in FileRecord /\ x.file \in File
         /\ run' = [run EXCEPT ![r] = run'[r]]
         /\ SameRun(run[r], run'[r])
         /\ run'[r].stats = run[r].stats \ {s}
         /\ run'[r].reads = IF disk[s.file].listed /\ disk[s.file].ver \in Readable
                            THEN run[r].reads \cup {x} ELSE run[r].reads
         /\ run'[r].todo = run[r].todo /\ run'[r].tocommit = run[r].tocommit
         /\ run'[r].skipped = run[r].skipped /\ run'[r].recs = run[r].recs
         /\ run'[r].new = run[r].new
         /\ Sound(run[r])'
<1> DEFINE q == run[r]
           p == run'[r]
           f == s.file
           isRead == disk[f].listed /\ disk[f].ver \in Readable
           n == [q EXCEPT !.stats = @ \ {s}, !.reads = IF isRead THEN @ \cup {x} ELSE @]
<1>1. UNCHANGED <<disk, rows, vecs, rec, cut>>
  BY DEF ReadFile
<1>2. q \in Run /\ s \in q.stats /\ s \in Stat /\ f \in File
  BY RunType DEF Stat
<1>3. x \in FileRecord
  BY <1>2, DiskType DEF Stat, FileRecord
<1>4. n \in Run /\ run' = [run EXCEPT ![r] = n]
  BY <1>2, <1>3 DEF ReadFile, TypeOK, Run
<1>5. p = n /\ run' \in [Runner -> Run] /\ run' = [run EXCEPT ![r] = p]
  BY <1>4 DEF TypeOK
<1>6. /\ SameRun(q, p) /\ p.stats = q.stats \ {s}
      /\ p.reads = IF isRead THEN q.reads \cup {x} ELSE q.reads
      /\ p.todo = q.todo /\ p.tocommit = q.tocommit /\ p.skipped = q.skipped
      /\ p.recs = q.recs /\ p.new = q.new
  BY <1>2, <1>5 DEF Run, SameRun
<1>7. TypeOK'
  BY <1>1, <1>5 DEF TypeOK
<1> HIDE DEF p, q, n, f
<1>8. Stages(p)
  <2>1. Stages(q) /\ x.file = s.file
    BY DEF Sound, q
  <2> QED BY <1>2, <1>6, <2>1 DEF Stages, SameRun
<1>9. Built(run[r])'
  BY <1>1, <1>6 DEF Sound, Built, Adds, SameRun, p, q
<1>10. q.phase # "idle"
  BY <1>2, Working DEF q
<1> QED BY <1>1, <1>2, <1>3, <1>5, <1>6, <1>7, <1>8, <1>9, <1>10 DEF Sound, SameRun, p, q, f

LEMMA CheckFileIs ==
  ASSUME TypeOK, NEW r \in Runner, Sound(run[r]), NEW x \in run[r].reads, CheckFile(r, x)
  PROVE  /\ UNCHANGED <<disk, rows, vecs, rec, cut>> /\ TypeOK'
         /\ x \in FileRecord
         /\ run' = [run EXCEPT ![r] = run'[r]]
         /\ SameRun(run[r], run'[r])
         /\ run'[r].reads = run[r].reads \ {x}
         /\ \/ /\ x \in rec /\ run'[r].skipped = run[r].skipped \cup {x}
               /\ run'[r].tocommit = run[r].tocommit
            \/ /\ x \notin rec /\ run'[r].skipped = run[r].skipped
               /\ run'[r].tocommit = run[r].tocommit \cup {x}
         /\ run'[r].todo = run[r].todo /\ run'[r].stats = run[r].stats
         /\ run'[r].recs = run[r].recs /\ run'[r].new = run[r].new
         /\ Sound(run[r])'
<1> DEFINE q == run[r]
           p == run'[r]
<1>1. UNCHANGED <<disk, rows, vecs, rec, cut>>
  BY DEF CheckFile
<1>2. q \in Run /\ x \in q.reads /\ x \in FileRecord
  BY RunType
<1>3. PICK n \in Run :
        /\ run' = [run EXCEPT ![r] = n]
        /\ SameRun(q, n) /\ n.reads = q.reads \ {x}
        /\ \/ x \in rec /\ n.skipped = q.skipped \cup {x} /\ n.tocommit = q.tocommit
           \/ x \notin rec /\ n.skipped = q.skipped /\ n.tocommit = q.tocommit \cup {x}
        /\ n.todo = q.todo /\ n.stats = q.stats /\ n.recs = q.recs /\ n.new = q.new
  <2>1. CASE x \in rec
    <3> DEFINE m == [q EXCEPT !.reads = @ \ {x}, !.skipped = @ \cup {x}]
    <3>1. m \in Run
      BY <1>2 DEF Run
    <3>2. run' = [run EXCEPT ![r] = m]
      BY <1>2, <2>1 DEF CheckFile, TypeOK, Run
    <3> QED BY <1>2, <2>1, <3>1, <3>2 DEF Run, SameRun
  <2>2. CASE x \notin rec
    <3> DEFINE m == [q EXCEPT !.reads = @ \ {x}, !.tocommit = @ \cup {x}]
    <3>1. m \in Run
      BY <1>2 DEF Run
    <3>2. run' = [run EXCEPT ![r] = m]
      BY <1>2, <2>2 DEF CheckFile, TypeOK, Run
    <3> QED BY <1>2, <2>2, <3>1, <3>2 DEF Run, SameRun
  <2> QED BY <2>1, <2>2
<1>4. p = n /\ run' \in [Runner -> Run] /\ run' = [run EXCEPT ![r] = p]
  BY <1>3 DEF TypeOK
<1>5. TypeOK'
  BY <1>1, <1>4 DEF TypeOK
<1> HIDE DEF p, q
<1>6. Stages(p)
  <2>1. Stages(q)
    BY DEF Sound, q
  <2>2. CASE x \in rec
    BY <1>2, <1>3, <1>4, <2>1, <2>2 DEF Stages, SameRun
  <2>3. CASE x \notin rec
    BY <1>2, <1>3, <1>4, <2>1, <2>3 DEF Stages, SameRun
  <2> QED BY <2>2, <2>3
<1>7. Built(run[r])'
  BY <1>1, <1>3, <1>4 DEF Sound, Built, Adds, SameRun, p, q
<1>8. q.phase # "idle"
  BY <1>2, Working DEF q
<1> QED BY <1>1, <1>2, <1>3, <1>4, <1>5, <1>6, <1>7, <1>8 DEF Sound, SameRun, p, q

\* A commit stores nothing new: rows go, and what is missing is left to be embedded.
LEMMA CommitFileIs ==
  ASSUME TypeOK, NEW r \in Runner, Sound(run[r]), NEW x \in run[r].tocommit, CommitFile(r, x)
  PROVE  /\ disk' = disk /\ rec' = rec /\ TypeOK'
         /\ x \in FileRecord /\ x.file \in File
         /\ run' = [run EXCEPT ![r] = run'[r]]
         /\ SameRun(run[r], run'[r])
         /\ run'[r].tocommit = run[r].tocommit \ {x}
         /\ run'[r].recs = run[r].recs \cup {x}
         /\ run'[r].todo = run[r].todo /\ run'[r].stats = run[r].stats
         /\ run'[r].reads = run[r].reads /\ run'[r].skipped = run[r].skipped
         /\ \A g \in File : g # x.file => RowsOf(g)' = RowsOf(g)
         /\ run[r].phase # "idle" /\ Sound(run[r])'
<1> DEFINE q    == run[r]
           p    == run'[r]
           f    == x.file
           mine == ChunksOf(f, x.hash)
           fresh == {c \in mine : Key(c) \notin Keys(rows)}
           n == [q EXCEPT !.tocommit = @ \ {x}, !.recs = @ \cup {x}, !.new = @ \cup fresh]
<1>1. q \in Run /\ x \in q.tocommit /\ x \in FileRecord /\ f \in File /\ x.hash \in Version
  BY RunType DEF FileRecord
<1>2. /\ mine \subseteq Chunk
      /\ \A c \in mine : c.file = f
      /\ \A c, d \in mine : c.slot = d.slot => c = d
  BY <1>1, ChunksOfType
<1>3. /\ disk' = disk /\ rec' = rec
      /\ rows' = {c \in rows : c.file = f => \E d \in mine : d.slot = c.slot}
      /\ vecs' \subseteq vecs /\ cut' = cut
  BY DEF CommitFile, RowsOf
<1>4. n \in Run /\ run' = [run EXCEPT ![r] = n]
  BY <1>1, <1>2 DEF CommitFile, TypeOK, Run
<1>5. p = n /\ run' \in [Runner -> Run] /\ run' = [run EXCEPT ![r] = p]
  BY <1>4 DEF TypeOK
<1>6. /\ SameRun(q, p) /\ p.tocommit = q.tocommit \ {x} /\ p.recs = q.recs \cup {x}
      /\ p.new = q.new \cup fresh
      /\ p.todo = q.todo /\ p.stats = q.stats /\ p.reads = q.reads /\ p.skipped = q.skipped
  BY <1>1, <1>5 DEF Run, SameRun
<1>8. TypeOK'
  BY <1>1, <1>3, <1>5 DEF TypeOK
<1>9. rows' \subseteq rows /\ \A c \in rows : c.file # f => c \in rows'
  BY <1>3
<1>10. \A g \in File : g # f => RowsOf(g)' = RowsOf(g)
  BY <1>9 DEF RowsOf
<1> HIDE DEF p, q, f, mine, fresh, n
<1>11. Stages(p)
  <2>1. Stages(q)
    BY DEF Sound, q
  <2> QED BY <1>1, <1>6, <2>1 DEF Stages, SameRun
<1>12. /\ \A c \in mine : Key(c) \in Keys(rows') \/ c \in fresh
       /\ \A c \in rows' : c.file = f =>
            Key(c) \in Keys(mine) \/ \E d \in fresh : d.file = f /\ d.slot = c.slot
  <2>1. ASSUME NEW c \in mine, c \notin fresh
        PROVE  Key(c) \in Keys(rows')
    <3>1. PICK e \in rows : e.file = c.file /\ e.slot = c.slot /\ e.text = c.text
      BY <2>1, KeyIn DEF fresh
    <3>2. e \in rows'
      BY <1>2, <1>3, <3>1
    <3> QED BY <3>1, <3>2, KeyIn
  <2>2. ASSUME NEW c \in rows', c.file = f,
               \A d \in fresh : d.file = f => d.slot # c.slot
        PROVE  Key(c) \in Keys(mine)
    <3>1. PICK d \in mine : d.slot = c.slot
      BY <1>3, <2>2
    <3>2. d.file = f /\ d \notin fresh
      BY <1>2, <2>2, <3>1
    <3>3. PICK e \in rows : e.file = d.file /\ e.slot = d.slot /\ e.text = d.text
      BY <3>2, KeyIn DEF fresh
    <3>4. e = c
      BY <1>9, <2>2, <3>1, <3>2, <3>3 DEF TypeOK
    <3> QED BY <2>2, <3>1, <3>2, <3>3, <3>4, KeyIn
  <2> QED BY <2>1, <2>2
<1>13. q.phase # "idle"
  BY <1>1, Working DEF q
<1>14. Built(run[r])'
  <2> SUFFICES ASSUME p.phase = "work"
               PROVE  /\ \A y \in p.recs : Adds(y.file, y.hash, run[r].new)'
                      /\ \A c \in p.new :
                           /\ \E y \in p.recs : c \in ChunksOf(y.file, y.hash)
                           /\ Key(c) \notin Keys(rows')
    BY DEF Built, p
  <2>1. q.phase = "work" /\ Built(q) /\ Stages(q)
    BY <1>6 DEF Sound, SameRun, q
  <2>2. ASSUME NEW y \in p.recs
        PROVE  Adds(y.file, y.hash, run[r].new)'
    <3>1. CASE y = x
      BY <1>6, <1>12, <3>1 DEF Adds, mine, f, p
    <3>2. CASE y \in q.recs
      <4>1. y.file # f /\ y.file \in File /\ y.hash \in Version
        BY <1>1, <2>1, <3>2 DEF Run, FileRecord, Stages, f
      <4>2. Adds(y.file, y.hash, q.new)
        BY <2>1, <3>2 DEF Built
      <4>3. \A d \in ChunksOf(y.file, y.hash) : d.file = y.file
        BY <4>1, ChunksOfType
      <4>4. ASSUME NEW d \in ChunksOf(y.file, y.hash), Key(d) \in Keys(rows)
            PROVE  Key(d) \in Keys(rows')
        BY <1>9, <4>1, <4>3, <4>4, KeyIn
      <4> QED BY <1>6, <1>9, <4>1, <4>2, <4>4 DEF Adds, p
    <3> QED BY <1>6, <2>2, <3>1, <3>2
  <2>3. ASSUME NEW c \in p.new
        PROVE  /\ \E y \in p.recs : c \in ChunksOf(y.file, y.hash)
               /\ Key(c) \notin Keys(rows')
    <3>1. Key(c) \notin Keys(rows) => Key(c) \notin Keys(rows')
      BY <1>9, KeyIn
    <3>2. CASE c \in fresh
      BY <1>6, <3>1, <3>2 DEF fresh, mine, f
    <3>3. CASE c \in q.new
      BY <1>6, <2>1, <3>1, <3>3 DEF Built
    <3> QED BY <1>6, <2>3, <3>2, <3>3
  <2> QED BY <2>2, <2>3
<1>15. Sound(run[r])'
  BY <1>6, <1>11, <1>13, <1>14 DEF Sound, Stages, SameRun, p
<1> QED BY <1>1, <1>3, <1>5, <1>6, <1>8, <1>10, <1>13, <1>15 DEF p, q, f

\* A batch stores chunks of files that are committed, and no other changes.
LEMMA EmbedBatchIs ==
  ASSUME TypeOK, NEW r \in Runner, Sound(run[r]), EmbedBatch(r)
  PROVE  /\ disk' = disk /\ rec' = rec /\ TypeOK'
         /\ run[r].phase = "work"
         /\ run' = [run EXCEPT ![r] = run'[r]]
         /\ SameRun(run[r], run'[r])
         /\ run'[r].recs = run[r].recs /\ run'[r].tocommit = run[r].tocommit
         /\ run'[r].todo = run[r].todo /\ run'[r].stats = run[r].stats
         /\ run'[r].reads = run[r].reads /\ run'[r].skipped = run[r].skipped
         /\ run'[r].new \subseteq run[r].new
         /\ \A g : (\A x \in run[r].recs : x.file # g) => RowsOf(g)' = RowsOf(g)
         /\ Sound(run[r])'
<1> DEFINE q == run[r]
           p == run'[r]
<1>1. /\ q \in Run /\ Stages(q) /\ Built(q)
      /\ q.phase = "work" /\ q.new \subseteq Chunk /\ q.recs \subseteq FileRecord
  BY RunType DEF EmbedBatch, Joined, Sound
<1>2. PICK batch \in SUBSET q.new :
        /\ rows' = Replace(rows, batch)
        /\ vecs' = vecs \cup Ids(batch)
        /\ run' = [run EXCEPT ![r].new = @ \ batch]
  BY DEF EmbedBatch
<1>3. disk' = disk /\ rec' = rec /\ cut' = cut
  BY DEF EmbedBatch
<1>19. vecs' \subseteq File \X Slot
  <2>1. \A c \in batch : c.file \in File /\ c.slot \in Slot
    BY <1>1 DEF Chunk
  <2> QED BY <1>2, <2>1 DEF TypeOK, Ids
<1>4. rows' = {c \in rows : \A d \in batch : c.file # d.file \/ c.slot # d.slot}
                \cup batch
  BY <1>2 DEF Replace
<1>5. /\ run' \in [Runner -> Run] /\ run' = [run EXCEPT ![r] = p]
      /\ SameRun(q, p) /\ p.new = q.new \ batch
      /\ p.recs = q.recs /\ p.tocommit = q.tocommit
      /\ p.todo = q.todo /\ p.stats = q.stats /\ p.reads = q.reads
      /\ p.skipped = q.skipped
  <2> DEFINE n == [q EXCEPT !.new = @ \ batch]
  <2>1. n \in Run /\ run' = [run EXCEPT ![r] = n]
    BY <1>1, <1>2 DEF TypeOK, Run
  <2>2. p = n
    BY <2>1 DEF TypeOK
  <2> QED BY <1>1, <2>1, <2>2 DEF TypeOK, Run, SameRun
<1> HIDE DEF p, q
<1>6. \A c \in q.new : \E x \in q.recs :
        c \in ChunksOf(x.file, x.hash) /\ c.file = x.file
  <2> SUFFICES ASSUME NEW c \in q.new
               PROVE  \E x \in q.recs : c \in ChunksOf(x.file, x.hash) /\ c.file = x.file
    OBVIOUS
  <2>1. PICK x \in q.recs : c \in ChunksOf(x.file, x.hash)
    BY <1>1 DEF Built
  <2>2. x.file \in File /\ x.hash \in Version
    BY <1>1 DEF FileRecord
  <2> QED BY <2>1, <2>2, ChunksOfType
<1>7. \A x \in q.recs, c \in q.new : c.file = x.file => c \in ChunksOf(x.file, x.hash)
  BY <1>1, <1>6 DEF Stages
<1>8. \A c, d \in q.new : c.file = d.file /\ c.slot = d.slot => c = d
  <2> SUFFICES ASSUME NEW c \in q.new, NEW d \in q.new, c.file = d.file, c.slot = d.slot
               PROVE  c = d
    OBVIOUS
  <2>1. PICK x \in q.recs : c \in ChunksOf(x.file, x.hash) /\ c.file = x.file
    BY <1>6
  <2>2. d \in ChunksOf(x.file, x.hash) /\ x.file \in File /\ x.hash \in Version
    BY <1>1, <1>7, <2>1 DEF FileRecord
  <2> QED BY <2>1, <2>2, ChunksOfType
<1>9. TypeOK'
  BY <1>1, <1>3, <1>4, <1>5, <1>8, <1>19 DEF TypeOK
<1>10. \A g : (\A x \in q.recs : x.file # g) => RowsOf(g)' = RowsOf(g)
  BY <1>4, <1>6 DEF RowsOf
<1>11. ASSUME NEW x \in q.recs
       PROVE  Adds(x.file, x.hash, run[r].new)'
  <2>1. x.file \in File /\ x.hash \in Version
    BY <1>1 DEF FileRecord
  <2>2. Adds(x.file, x.hash, q.new)
    BY <1>1 DEF Built
  <2>3. ASSUME NEW d \in ChunksOf(x.file, x.hash)
        PROVE  Key(d) \in Keys(rows') \/ d \in p.new
    <3>1. d.file = x.file
      BY <2>1, ChunksOfType
    <3>2. CASE d \in q.new
      <4>1. d \in batch => d \in rows'
        BY <1>4
      <4> QED BY <1>5, <3>2, <4>1, KeyIn
    <3>3. CASE Key(d) \in Keys(rows)
      <4>1. PICK e \in rows : e.file = d.file /\ e.slot = d.slot /\ e.text = d.text
        BY <3>3, KeyIn
      <4>2. CASE e \in rows'
        BY <4>1, <4>2, KeyIn
      <4>3. CASE e \notin rows'
        <5>1. PICK b \in batch : b.file = e.file /\ b.slot = e.slot
          BY <1>4, <4>3
        <5>2. b \in ChunksOf(x.file, x.hash)
          BY <1>7, <3>1, <4>1, <5>1
        <5>3. b = d
          BY <2>1, <4>1, <5>1, <5>2, ChunksOfType
        <5>4. d \in rows'
          BY <1>4, <5>1, <5>3
        <5> QED BY <5>4, KeyIn
      <4> QED BY <4>2, <4>3
    <3> QED BY <2>2, <3>2, <3>3 DEF Adds
  <2>4. ASSUME NEW c \in rows', c.file = x.file
        PROVE  \/ Key(c) \in Keys(ChunksOf(x.file, x.hash))
               \/ \E d \in p.new : d.file = x.file /\ d.slot = c.slot
    <3>1. CASE c \in batch
      <4>1. c \in ChunksOf(x.file, x.hash)
        BY <1>7, <2>4, <3>1
      <4> QED BY <4>1, KeyIn
    <3>2. CASE c \notin batch
      <4>1. c \in rows /\ \A d \in batch : c.file # d.file \/ c.slot # d.slot
        BY <1>4, <3>2
      <4> QED BY <1>5, <2>2, <2>4, <4>1 DEF Adds
    <3> QED BY <3>1, <3>2
  <2> QED BY <1>3, <2>2, <2>3, <2>4 DEF Adds, p
<1>12. ASSUME NEW c \in p.new
       PROVE  Key(c) \notin Keys(rows')
  <2> SUFFICES ASSUME NEW e \in rows', e.file = c.file, e.slot = c.slot, e.text = c.text
               PROVE  FALSE
    BY KeyIn
  <2>1. Key(c) \notin Keys(rows) /\ c \in q.new /\ c \notin batch
    BY <1>1, <1>5, <1>12 DEF Built
  <2>2. e \notin rows
    BY <2>1, KeyIn
  <2>3. e \in batch
    BY <1>4, <2>2
  <2> QED BY <1>8, <2>1, <2>3
<1>13. Built(run[r])'
  <2>1. \A c \in p.new : \E x \in p.recs : c \in ChunksOf(x.file, x.hash)
    BY <1>5, <1>6
  <2> QED BY <1>5, <1>11, <1>12, <2>1 DEF Built, p
<1>14. Sound(run[r])'
  <2>1. Stages(p)
    BY <1>1, <1>5 DEF Stages, SameRun
  <2> QED BY <1>1, <1>5, <1>13, <2>1 DEF Sound, Stages, SameRun, p
<1> QED BY <1>1, <1>3, <1>5, <1>9, <1>10, <1>14 DEF p, q
\* When nothing is left to be stored, the chunks of f are those of v.
LEMMA AddsNothing ==
  ASSUME NEW f \in File, NEW v \in Version, Adds(f, v, {})
  PROVE  Mirrors(f, v)
<1>1. \A c \in ChunksOf(f, v) : c.file = f
  BY ChunksOfType
<1>2. ASSUME NEW c \in RowsOf(f)
      PROVE  Key(c) \in Keys(ChunksOf(f, v))
  BY <1>2 DEF Adds, RowsOf
<1>3. ASSUME NEW d \in ChunksOf(f, v)
      PROVE  Key(d) \in Keys(RowsOf(f))
  <2>1. Key(d) \in Keys(rows)
    BY DEF Adds
  <2>2. PICK e \in rows : e.file = d.file /\ e.slot = d.slot /\ e.text = d.text
    BY <2>1, KeyIn
  <2>3. e \in RowsOf(f)
    BY <1>1, <2>2 DEF RowsOf
  <2> QED BY <2>2, <2>3, KeyIn
<1>4. Keys(RowsOf(f)) = Keys(ChunksOf(f, v))
  BY <1>2, <1>3 DEF Keys
<1> QED BY <1>4 DEF Adds, Mirrors


\* The records of the run replace those of the same files, whose chunks are
\* complete by now.
LEMMA UpsertRecordsIs ==
  ASSUME TypeOK, NEW r \in Runner, Sound(run[r]), UpsertRecords(r)
  PROVE  /\ disk' = disk /\ rows' = rows /\ vecs' = vecs /\ cut' = cut /\ TypeOK'
         /\ run[r].phase = "work"
         /\ run[r].todo = {} /\ run[r].stats = {} /\ run[r].reads = {}
         /\ run[r].tocommit = {} /\ run[r].new = {}
         /\ rec' = {x \in rec : \A y \in run[r].recs : y.file # x.file} \cup run[r].recs
         /\ \A x \in run[r].recs : Mirrors(x.file, x.hash)
         /\ run' = [run EXCEPT ![r] = run'[r]]
         /\ run'[r] = IF run[r].full THEN [run[r] EXCEPT !.phase = "stale"] ELSE IdleRun
         /\ Sound(run[r])'
<1> DEFINE q == run[r]
           p == run'[r]
           n == IF q.full THEN [q EXCEPT !.phase = "stale"] ELSE IdleRun
<1>1. /\ q \in Run /\ Stages(q) /\ Built(q)
      /\ q.phase = "work" /\ q.todo = {} /\ q.stats = {} /\ q.reads = {}
      /\ q.tocommit = {} /\ q.new = {} /\ q.recs \subseteq FileRecord
  BY RunType DEF UpsertRecords, Joined, Sound
<1>2. /\ disk' = disk /\ rows' = rows /\ vecs' = vecs /\ cut' = cut
      /\ rec' = {x \in rec : \A y \in q.recs : y.file # x.file} \cup q.recs
  BY DEF UpsertRecords, Files
<1>3. n \in Run /\ run' = [run EXCEPT ![r] = n]
  BY <1>1, IdleIsSound DEF UpsertRecords, Run
<1>4. p = n /\ run' \in [Runner -> Run] /\ run' = [run EXCEPT ![r] = p]
  BY <1>3 DEF TypeOK
<1>5. TypeOK'
  <2>1. rec' \in SUBSET FileRecord /\ Functional(rec')
    BY <1>1, <1>2 DEF TypeOK, Functional, Stages
  <2> QED BY <1>2, <1>4, <2>1 DEF TypeOK, Functional
<1>6. ASSUME NEW x \in q.recs
      PROVE  Mirrors(x.file, x.hash)
  <2>1. Adds(x.file, x.hash, {}) /\ x.file \in File /\ x.hash \in Version
    BY <1>1 DEF Built, FileRecord
  <2> QED BY <2>1, AddsNothing
<1>7. Sound(run[r])'
  <2>1. CASE q.full
    <3>1. n.phase = "stale"
      BY <1>1, <2>1 DEF Run
    <3>2. Stages(n)
      BY <1>1, <2>1 DEF Stages, Run
    <3> QED BY <1>4, <3>1, <3>2 DEF Sound, Stages, Built
  <2>2. CASE ~q.full
    BY <1>4, <2>2, IdleIsSound
  <2> QED BY <2>1, <2>2
<1> QED BY <1>1, <1>2, <1>4, <1>5, <1>6, <1>7

-----------------------------------------------------------------------------
(* The steps of a run, one runner at a time. *)

\* The idle run satisfies its invariant, in any state.
LEMMA IdleRunInv ==
  ASSUME NEW H
  PROVE  RunInv(IdleRun, H) /\ RunInv(IdleRun, H)'
<1>1. Seen(IdleRun) /\ Seen(IdleRun)'
  BY DEF Seen, IdleRun
<1>2. Phases(IdleRun) /\ Cleanup(IdleRun, H) /\ Phases(IdleRun)' /\ Cleanup(IdleRun, H)'
  BY DEF Phases, Cleanup, IdleRun
<1> QED BY <1>1, <1>2, IdleIsSound DEF RunInv

\* The others are idle, so a step is right when the run that takes it is.
LEMMA StepOf ==
  ASSUME NEW H, IInv(H), NEW r \in Runner, Alone(r), run' = [run EXCEPT ![r] = run'[r]],
         TypeOK', Records(H)', RunInv(run[r], H)'
  PROVE  IInv(H)'
<1>1. ASSUME NEW s \in Runner, s # r
      PROVE  RunInv(run[s], H)'
  <2>1. run'[s] = IdleRun
    BY <1>1 DEF Alone, IInv, TypeOK
  <2> QED BY <2>1, IdleRunInv
<1> QED BY <1>1 DEF IInv

\* The same for a step that leaves the tables alone.
LEMMA RunOnly ==
  ASSUME NEW H, IInv(H), NEW r \in Runner, Alone(r), run' = [run EXCEPT ![r] = run'[r]],
         UNCHANGED <<disk, rows, vecs, rec, cut>>, TypeOK', Sound(run[r])',
         Seen(run'[r]), Phases(run'[r]), Cleanup(run'[r], H)
  PROVE  IInv(H)'
<1>1. Records(H)'
  BY DEF IInv, Records, SawHash, SawSize, Mirrors, Hidden, RowsOf
<1>2. Phases(run[r])' /\ Cleanup(run[r], H)'
  BY DEF Phases, Cleanup, Behind
<1>3. Seen(run[r])'
  BY DEF Seen, SawHash, SawSize, Behind
<1> QED BY <1>1, <1>2, <1>3, StepOf DEF RunInv

\* The records stay right when only files with an older record, or with none,
\* change.
LEMMA BehindKeeps ==
  ASSUME NEW H, TypeOK, Records(H), disk' = disk, rec' = rec,
         \A f \in File : Behind(f) \/ (RowsOf(f)' = RowsOf(f))
  PROVE  Records(H)'
<1> SUFFICES ASSUME NEW y \in rec
             PROVE  /\ SawHash(y)'
                    /\ y.mtime = disk[y.file].mtime
                         => Mirrors(y.file, y.hash)' \/ Hidden(y.file, H)'
  BY DEF Records
<1>1. SawHash(y)' /\ y.file \in File /\ y.mtime \in Nat /\ disk[y.file].mtime \in Nat
  BY DiskType DEF Records, SawHash, SawSize, TypeOK, FileRecord
<1>2. CASE Behind(y.file)
  BY <1>1, <1>2 DEF Behind
<1>3. CASE ~Behind(y.file)
  BY <1>1, <1>3 DEF Records, Mirrors, Hidden
<1> QED BY <1>1, <1>2, <1>3

\* And when all chunks of a file are deleted that may be without.
LEMMA HiddenKeeps ==
  ASSUME NEW H, TypeOK, Records(H), disk' = disk, rec' = rec,
         NEW f \in File, Behind(f) \/ ~disk[f].listed \/ f \in H, RowsOf(f)' = {},
         \A g \in File : g # f => RowsOf(g)' = RowsOf(g)
  PROVE  Records(H)'
<1> SUFFICES ASSUME NEW y \in rec
             PROVE  /\ SawHash(y)'
                    /\ y.mtime = disk[y.file].mtime
                         => Mirrors(y.file, y.hash)' \/ Hidden(y.file, H)'
  BY DEF Records
<1>1. SawHash(y)' /\ y.file \in File /\ y.mtime \in Nat /\ disk[y.file].mtime \in Nat
  BY DiskType DEF Records, SawHash, SawSize, TypeOK, FileRecord
<1>2. CASE y.file = f
  BY <1>1, <1>2 DEF Behind, Hidden
<1>3. CASE y.file # f
  BY <1>1, <1>3 DEF Records, Mirrors, Hidden
<1> QED BY <1>1, <1>2, <1>3

LEMMA BeginKeeps ==
  ASSUME NEW H, IInv(H), NEW r \in Runner, Alone(r), NEW full \in BOOLEAN,
         NEW fs \in SUBSET File, Begin(r, full, fs),
         full => fs = {f \in File : disk[f].listed}
  PROVE  IInv(H)'
<1> DEFINE p == run'[r]
<1>1. /\ UNCHANGED <<disk, rows, vecs, rec, cut>> /\ TypeOK'
      /\ run' = [run EXCEPT ![r] = p]
      /\ p.phase = "work" /\ p.full = full /\ p.valid = fs
      /\ p.stats = {} /\ p.reads = {} /\ p.tocommit = {} /\ p.skipped = {}
      /\ p.recs = {} /\ p.stale = {}
      /\ Sound(run[r])'
  BY BeginIs DEF IInv
<1> HIDE DEF p
<1>2. Seen(p) /\ Phases(p) /\ Cleanup(p, H)
  BY <1>1 DEF Seen, Phases, Cleanup
<1> QED BY <1>1, <1>2, RunOnly DEF p

LEMMA StatFileKeeps ==
  ASSUME NEW H, IInv(H), NEW r \in Runner, Alone(r), NEW f \in run[r].todo, StatFile(r, f)
  PROVE  IInv(H)'
<1> DEFINE q == run[r]
           p == run'[r]
           s == [file |-> f, mtime |-> disk[f].mtime, size |-> Size[disk[f].ver]]
<1>1. TypeOK /\ RunInv(q, H) /\ Records(H)
  BY DEF IInv
<1>2. /\ UNCHANGED <<disk, rows, vecs, rec, cut>> /\ TypeOK' /\ f \in File
      /\ run' = [run EXCEPT ![r] = p]
      /\ SameRun(q, p)
      /\ p.stats \subseteq q.stats \cup {s}
      /\ p.reads = q.reads /\ p.tocommit = q.tocommit /\ p.skipped = q.skipped
      /\ p.recs = q.recs
      /\ Sound(run[r])'
  BY <1>1, StatFileIs DEF RunInv
<1>3. SawSize(s) /\ s.file = f /\ \A y \in rec : y.file = f => y.mtime <= s.mtime
  BY <1>1, <1>2, DiskType DEF SawSize, Records, SawHash
<1>4. f \in q.todo
  OBVIOUS
<1> HIDE DEF p, q, s
<1>5. Seen(p)
  BY <1>1, <1>2, <1>3 DEF RunInv, Seen, SameRun
<1>6. Phases(p) /\ Cleanup(p, H)
  BY <1>1, <1>2, <1>4 DEF RunInv, Phases, Cleanup, SameRun
<1> QED BY <1>2, <1>5, <1>6, RunOnly DEF p

LEMMA ReadFileKeeps ==
  ASSUME NEW H, IInv(H), NEW r \in Runner, Alone(r), NEW s \in run[r].stats, ReadFile(r, s)
  PROVE  IInv(H)'
<1> DEFINE q == run[r]
           p == run'[r]
           x == [file |-> s.file, mtime |-> s.mtime, size |-> s.size,
                 hash |-> disk[s.file].ver]
<1>1. TypeOK /\ RunInv(q, H) /\ s \in q.stats
  BY DEF IInv
<1>2. /\ UNCHANGED <<disk, rows, vecs, rec, cut>> /\ TypeOK'
      /\ run' = [run EXCEPT ![r] = p]
      /\ SameRun(q, p)
      /\ p.stats \subseteq q.stats
      /\ p.reads \subseteq q.reads \cup {x}
      /\ p.tocommit = q.tocommit /\ p.skipped = q.skipped /\ p.recs = q.recs
      /\ Sound(run[r])'
  BY <1>1, ReadFileIs DEF RunInv
<1>3. /\ x.file = s.file
      /\ SawHash(x)
      /\ \A y \in rec : y.file = x.file => y.mtime <= x.mtime
  BY <1>1 DEF RunInv, Seen, SawHash, SawSize
<1> HIDE DEF p, q, x
<1>4. Seen(p)
  BY <1>1, <1>2, <1>3 DEF RunInv, Seen, SameRun
<1>5. Phases(p) /\ Cleanup(p, H)
  BY <1>1, <1>2 DEF RunInv, Phases, Cleanup, SameRun
<1> QED BY <1>2, <1>4, <1>5, RunOnly DEF p
\* A file that is not skipped has an older record or none.
LEMMA ChangedIsBehind ==
  ASSUME NEW H, IInv(H), NEW x \in FileRecord, SawHash(x), x \notin rec,
         \A y \in rec : y.file = x.file => y.mtime <= x.mtime
  PROVE  Behind(x.file)
<1> SUFFICES ASSUME NEW y \in rec, y.file = x.file
             PROVE  y.mtime < disk[x.file].mtime
  BY DEF Behind
<1>1. y \in FileRecord /\ SawHash(y) /\ y.mtime <= x.mtime
  BY DEF IInv, TypeOK, Records
<1>2. /\ x.mtime \in Nat /\ y.mtime \in Nat /\ disk[x.file].mtime \in Nat
      /\ x.mtime <= disk[x.file].mtime
  BY <1>1, DiskType DEF IInv, FileRecord, SawHash, SawSize
<1>3. CASE y.mtime = disk[x.file].mtime
  <2>1. x.mtime = disk[x.file].mtime
    BY <1>1, <1>2, <1>3
  <2>2. x.size = y.size /\ x.hash = y.hash /\ x.mtime = y.mtime
    BY <1>1, <1>3, <2>1 DEF SawHash, SawSize
  <2>3. x = y
    BY <1>1, <2>2 DEF FileRecord
  <2> QED BY <2>3
<1> QED BY <1>1, <1>2, <1>3

LEMMA CheckFileKeeps ==
  ASSUME NEW H, IInv(H), NEW r \in Runner, Alone(r), NEW x \in run[r].reads, CheckFile(r, x)
  PROVE  IInv(H)'
<1> DEFINE q == run[r]
           p == run'[r]
<1>1. TypeOK /\ RunInv(q, H) /\ x \in q.reads
  BY DEF IInv
<1>2. /\ UNCHANGED <<disk, rows, vecs, rec, cut>> /\ TypeOK' /\ x \in FileRecord
      /\ run' = [run EXCEPT ![r] = p]
      /\ SameRun(q, p)
      /\ p.reads \subseteq q.reads
      /\ \/ /\ x \in rec /\ p.skipped = q.skipped \cup {x} /\ p.tocommit = q.tocommit
         \/ /\ x \notin rec /\ p.skipped = q.skipped /\ p.tocommit = q.tocommit \cup {x}
      /\ p.stats = q.stats /\ p.recs = q.recs
      /\ Sound(run[r])'
  BY <1>1, CheckFileIs DEF RunInv
<1>3. SawHash(x) /\ \A y \in rec : y.file = x.file => y.mtime <= x.mtime
  BY <1>1 DEF RunInv, Seen
<1>4. x \notin rec => Behind(x.file)
  BY <1>2, <1>3, ChangedIsBehind
<1> HIDE DEF p, q
<1>5. Seen(p)
  BY <1>1, <1>2, <1>3, <1>4 DEF RunInv, Seen, SameRun
<1>6. Phases(p) /\ Cleanup(p, H)
  BY <1>1, <1>2 DEF RunInv, Phases, Cleanup, SameRun
<1> QED BY <1>2, <1>5, <1>6, RunOnly DEF p

LEMMA ListStaleKeeps ==
  ASSUME NEW H, IInv(H), NEW r \in Runner, Alone(r), ListStale(r)
  PROVE  IInv(H)'
<1> DEFINE q == run[r]
           p == run'[r]
           stale == Files(rows) \ q.valid
<1>1. q \in Run /\ RunInv(q, H) /\ TypeOK /\ q.phase = "stale"
  BY RunType DEF IInv, ListStale
<1>2. stale \subseteq File
  BY <1>1 DEF TypeOK, Files, Chunk
<1>3. PICK n \in Run :
        /\ run' = [run EXCEPT ![r] = n]
        /\ \/ n = IdleRun
           \/ /\ n.phase = "delete" /\ n.stale = stale
              /\ n.full = q.full /\ n.valid = q.valid /\ n.todo = q.todo
              /\ n.stats = q.stats /\ n.reads = q.reads /\ n.tocommit = q.tocommit
              /\ n.skipped = q.skipped /\ n.recs = q.recs /\ n.new = q.new
  <2>1. CASE stale = {}
    BY <2>1, IdleIsSound DEF ListStale
  <2>2. CASE stale # {}
    <3> DEFINE n == [q EXCEPT !.phase = "delete", !.stale = stale]
    <3>1. n \in Run /\ run' = [run EXCEPT ![r] = n]
      BY <1>1, <1>2, <2>2 DEF ListStale, Run
    <3> QED BY <1>1, <3>1 DEF Run
  <2> QED BY <2>1, <2>2
<1>4. p = n /\ UNCHANGED <<disk, rows, vecs, rec, cut>> /\ TypeOK'
  BY <1>3 DEF ListStale, IInv, TypeOK
<1>5. CASE n = IdleRun
  BY <1>3, <1>4, <1>5, IdleIsSound, IdleRunInv, RunOnly DEF RunInv
<1>6. CASE n # IdleRun
  <2>1. stale \cap q.valid = {} /\ Files(rows) \subseteq q.valid \cup stale
    OBVIOUS
  <2> HIDE DEF p, q, stale
  <2>2. Seen(p)
    BY <1>1, <1>3, <1>4, <1>6 DEF RunInv, Seen
  <2>3. Phases(p) /\ Cleanup(p, H)
    BY <1>1, <1>3, <1>4, <1>6, <2>1 DEF RunInv, Phases, Cleanup
  <2>4. Stages(p)
    BY <1>1, <1>3, <1>4, <1>6 DEF RunInv, Sound, Stages
  <2>5. Sound(run[r])'
    BY <1>3, <1>4, <1>6, <2>4 DEF Sound, Stages, Built, p
  <2> QED BY <1>3, <1>4, <2>2, <2>3, <2>5, RunOnly DEF p
<1> QED BY <1>5, <1>6

LEMMA FailKeeps ==
  ASSUME NEW H, IInv(H), NEW r \in Runner, Alone(r), Fail(r)
  PROVE  IInv(H)'
<1>1. /\ UNCHANGED <<disk, rows, vecs, rec, cut>> /\ TypeOK'
      /\ run' = [run EXCEPT ![r] = run'[r]] /\ run'[r] = IdleRun
  BY IdleIsSound DEF Fail, IInv, TypeOK
<1> QED BY <1>1, IdleIsSound, IdleRunInv, RunOnly DEF RunInv

LEMMA CommitFileKeeps ==
  ASSUME NEW H, IInv(H), NEW r \in Runner, Alone(r), NEW x \in run[r].tocommit, CommitFile(r, x)
  PROVE  IInv(H)'
<1> DEFINE q == run[r]
           p == run'[r]
<1>1. RunInv(q, H) /\ TypeOK /\ Records(H) /\ x \in q.tocommit
  BY DEF IInv
<1>2. /\ disk' = disk /\ rec' = rec /\ TypeOK' /\ x.file \in File
      /\ run' = [run EXCEPT ![r] = p]
      /\ SameRun(q, p)
      /\ p.tocommit \subseteq q.tocommit /\ p.recs = q.recs \cup {x}
      /\ p.stats = q.stats /\ p.reads = q.reads /\ p.skipped = q.skipped
      /\ Sound(run[r])'
  BY <1>1, CommitFileIs DEF RunInv
<1>3. \A g \in File : g # x.file => RowsOf(g)' = RowsOf(g)
  BY <1>1, CommitFileIs DEF RunInv
<1> HIDE DEF p, q
<1>4. Behind(x.file) /\ SawHash(x)
  BY <1>1 DEF RunInv, Seen
<1>5. Records(H)'
  BY <1>1, <1>2, <1>3, <1>4, BehindKeeps
<1>6. Seen(p) /\ Phases(p)
  BY <1>1, <1>2, <1>4 DEF RunInv, Seen, Phases, SameRun
<1>7. q.phase # "delete"
  BY <1>1 DEF RunInv, Phases
<1>8. Seen(run[r])' /\ Phases(run[r])' /\ Cleanup(run[r], H)'
  <2>1. Seen(run[r])'
    BY <1>2, <1>6 DEF Seen, SawHash, SawSize, Behind, p
  <2>2. Phases(run[r])' /\ Cleanup(run[r], H)'
    BY <1>1, <1>2, <1>6, <1>7 DEF RunInv, Phases, Cleanup, Behind, SameRun, p
  <2> QED BY <2>1, <2>2
<1> QED BY <1>2, <1>5, <1>8, StepOf DEF RunInv, p

LEMMA EmbedBatchKeeps ==
  ASSUME NEW H, IInv(H), NEW r \in Runner, Alone(r), EmbedBatch(r)
  PROVE  IInv(H)'
<1> DEFINE q == run[r]
           p == run'[r]
<1>1. RunInv(q, H) /\ TypeOK /\ Records(H)
  BY DEF IInv
<1>2. /\ disk' = disk /\ rec' = rec /\ TypeOK'
      /\ q.phase = "work"
      /\ run' = [run EXCEPT ![r] = p]
      /\ SameRun(q, p)
      /\ p.tocommit = q.tocommit /\ p.recs = q.recs
      /\ p.stats = q.stats /\ p.reads = q.reads /\ p.skipped = q.skipped
      /\ Sound(run[r])'
  BY <1>1, EmbedBatchIs DEF RunInv
<1>3. \A g : (\A x \in q.recs : x.file # g) => RowsOf(g)' = RowsOf(g)
  BY <1>1, EmbedBatchIs DEF RunInv
<1> HIDE DEF p, q
<1>4. \A x \in q.recs : Behind(x.file)
  BY <1>1, <1>2 DEF RunInv, Seen
<1>5. Records(H)'
  BY <1>1, <1>2, <1>3, <1>4, BehindKeeps
<1>6. Seen(run[r])'
  BY <1>1, <1>2 DEF RunInv, Seen, SawHash, SawSize, Behind, SameRun, p
<1>7. Phases(run[r])' /\ Cleanup(run[r], H)'
  BY <1>1, <1>2 DEF RunInv, Phases, Cleanup, Behind, SameRun, p
<1> QED BY <1>2, <1>5, <1>6, <1>7, StepOf DEF RunInv, p

LEMMA UpsertRecordsKeeps ==
  ASSUME NEW H, IInv(H), NEW r \in Runner, Alone(r), UpsertRecords(r)
  PROVE  IInv(H)'
<1> DEFINE q == run[r]
           p == run'[r]
<1>1. RunInv(q, H) /\ TypeOK /\ Records(H) /\ q \in Run
  BY RunType DEF IInv
<1>2. /\ disk' = disk /\ rows' = rows /\ vecs' = vecs /\ cut' = cut /\ TypeOK'
      /\ q.phase = "work"
      /\ q.todo = {} /\ q.stats = {} /\ q.reads = {} /\ q.tocommit = {} /\ q.new = {}
      /\ rec' = {x \in rec : \A y \in q.recs : y.file # x.file} \cup q.recs
      /\ \A x \in q.recs : Mirrors(x.file, x.hash)
      /\ run' = [run EXCEPT ![r] = p]
      /\ p = IF q.full THEN [q EXCEPT !.phase = "stale"] ELSE IdleRun
      /\ Sound(run[r])'
  BY <1>1, UpsertRecordsIs DEF RunInv
<1> HIDE DEF p, q
<1>3. \A x \in q.recs : SawHash(x)
  BY <1>1 DEF RunInv, Seen
<1>4. Records(H)'
  <2> SUFFICES ASSUME NEW x \in rec'
               PROVE  /\ SawHash(x)'
                      /\ x.mtime = disk[x.file].mtime
                           => Mirrors(x.file, x.hash)' \/ Hidden(x.file, H)'
    BY <1>2 DEF Records
  <2>1. CASE x \in rec
    BY <1>1, <1>2, <2>1 DEF Records, SawHash, SawSize, Mirrors, Hidden, RowsOf
  <2>2. CASE x \in q.recs
    BY <1>2, <1>3, <2>2 DEF SawHash, SawSize, Mirrors, RowsOf
  <2> QED BY <1>2, <2>1, <2>2
<1>5. CASE q.full
  <2>1. /\ p.phase = "stale" /\ p.full /\ p.valid = q.valid
        /\ p.todo = {} /\ p.stats = {} /\ p.reads = {} /\ p.tocommit = {}
        /\ p.new = {} /\ p.recs = q.recs /\ p.skipped = q.skipped /\ p.stale = q.stale
    BY <1>1, <1>2, <1>5 DEF Run
  <2>2. Seen(run[r])'
    <3>1. q.skipped \subseteq rec'
      BY <1>1, <1>2 DEF RunInv, Sound, Seen, Stages
    <3>2. \A x \in q.recs : SawHash(x)'
      BY <1>2, <1>3 DEF SawHash, SawSize
    <3> QED BY <2>1, <3>1, <3>2 DEF Seen, p
  <2>3. ASSUME NEW f \in File \ q.valid
        PROVE  Behind(f)' \/ ~disk[f].listed \/ f \in H
    <3>1. \A x \in q.recs : x.file # f
      BY <1>1 DEF RunInv, Sound, Stages
    <3>2. Behind(f) \/ ~disk[f].listed \/ f \in H
      BY <1>1, <1>2, <1>5 DEF RunInv, Cleanup
    <3> QED BY <1>2, <3>1, <3>2 DEF Behind
  <2>4. Cleanup(run[r], H)'
    BY <1>1, <1>2, <2>1, <2>3 DEF RunInv, Cleanup, p
  <2>5. Phases(run[r])'
    BY <1>2, <2>1 DEF Phases, p
  <2> QED BY <1>2, <1>4, <2>2, <2>4, <2>5, StepOf DEF RunInv, p
<1>6. CASE ~q.full
  BY <1>2, <1>4, <1>6, IdleRunInv, StepOf DEF p
<1> QED BY <1>5, <1>6

LEMMA DeleteStaleChunksKeeps ==
  ASSUME NEW H, IInv(H), NEW r \in Runner, Alone(r), NEW f \in run[r].stale, DeleteStaleChunks(r, f)
  PROVE  IInv(H)'
<1> DEFINE q == run[r]
           p == run'[r]
<1>1. /\ q \in Run /\ RunInv(q, H) /\ TypeOK /\ Records(H)
      /\ q.phase = "delete" /\ q.full /\ f \in q.stale /\ f \in File
  BY RunType DEF IInv, DeleteStaleChunks, RunInv, Phases
<1>2. /\ disk' = disk /\ rec' = rec /\ vecs' = vecs /\ cut' \subseteq cut
      /\ rows' = {c \in rows : c.file # f}
  BY DEF DeleteStaleChunks, RowsOf
<1>3. PICK n \in Run :
        /\ run' = [run EXCEPT ![r] = n]
        /\ n = IdleRun \/ n = [q EXCEPT !.stale = @ \ {f}, !.half = {}]
  <2>1. [q EXCEPT !.stale = @ \ {f}, !.half = {}] \in Run
    BY <1>1 DEF Run
  <2> QED BY <2>1, IdleIsSound DEF DeleteStaleChunks
<1>4. p = n /\ TypeOK'
  BY <1>1, <1>2, <1>3 DEF TypeOK
<1> HIDE DEF p, q
<1>5. f \notin q.valid /\ (Behind(f) \/ ~disk[f].listed \/ f \in H)
  BY <1>1 DEF RunInv, Cleanup
<1>6. Records(H)'
  <2>1. \A g \in File : g # f => RowsOf(g)' = RowsOf(g)
    BY <1>2 DEF RowsOf
  <2>2. RowsOf(f)' = {}
    BY <1>2 DEF RowsOf
  <2> QED BY <1>1, <1>2, <1>5, <2>1, <2>2, HiddenKeeps
<1>7. CASE n # IdleRun
  <2>1. /\ p.phase = "delete" /\ p.full /\ p.valid = q.valid /\ p.todo = q.todo
        /\ p.stats = q.stats /\ p.reads = q.reads /\ p.tocommit = q.tocommit
        /\ p.new = q.new /\ p.recs = q.recs /\ p.skipped = q.skipped
        /\ p.stale = q.stale \ {f}
    BY <1>1, <1>3, <1>4, <1>7 DEF Run
  <2>2. Sound(run[r])' /\ Phases(run[r])'
    BY <1>1, <1>2, <2>1 DEF RunInv, Sound, Stages, Built, Phases, p
  <2>3. Seen(run[r])'
    BY <1>1, <1>2, <2>1 DEF RunInv, Seen, SawHash, SawSize, Behind, p
  <2>4. Files(rows') \subseteq q.valid \cup (q.stale \ {f})
    BY <1>1, <1>2 DEF RunInv, Cleanup, Files
  <2>5. Cleanup(run[r], H)'
    BY <1>1, <1>2, <2>1, <2>4 DEF RunInv, Cleanup, Behind, p
  <2> QED BY <1>3, <1>4, <1>6, <2>2, <2>3, <2>5, StepOf DEF RunInv, p
<1>8. CASE n = IdleRun
  BY <1>3, <1>4, <1>6, <1>8, IdleRunInv, StepOf DEF p
<1> QED BY <1>7, <1>8

\* Their vectors are not in the invariant.
LEMMA DeleteStaleVectorsKeeps ==
  ASSUME NEW H, IInv(H), NEW r \in Runner, Alone(r), NEW f \in run[r].stale,
         DeleteStaleVectors(r, f)
  PROVE  IInv(H)'
<1> DEFINE q == run[r]
           p == run'[r]
           n == [q EXCEPT !.half = {f}]
<1>1. /\ q \in Run /\ RunInv(q, H) /\ TypeOK /\ Records(H)
      /\ q.phase = "delete" /\ f \in File
  BY RunType DEF IInv, DeleteStaleVectors
<1>2. /\ disk' = disk /\ rec' = rec /\ rows' = rows
      /\ vecs' \subseteq vecs /\ cut' = cut \cup {f}
      /\ run' = [run EXCEPT ![r] = n]
  BY <1>1 DEF DeleteStaleVectors, TypeOK
<1>3. n \in Run /\ p = n
  BY <1>1, <1>2 DEF Run, TypeOK
<1>4. TypeOK'
  BY <1>1, <1>2, <1>3 DEF TypeOK
<1>5. /\ p.phase = q.phase /\ p.full = q.full /\ p.valid = q.valid /\ p.todo = q.todo
      /\ p.stats = q.stats /\ p.reads = q.reads /\ p.tocommit = q.tocommit
      /\ p.new = q.new /\ p.recs = q.recs /\ p.skipped = q.skipped
      /\ p.stale = q.stale
  BY <1>1, <1>3 DEF Run
<1> HIDE DEF p, q, n
<1>6. Records(H)'
  BY <1>1, <1>2 DEF Records, SawHash, SawSize, Mirrors, Hidden, RowsOf
<1>7. Sound(run[r])' /\ Phases(run[r])' /\ Cleanup(run[r], H)'
  BY <1>1, <1>2, <1>5
     DEF RunInv, Sound, Stages, Built, Adds, Phases, Cleanup, Behind, p
<1>8. Seen(run[r])'
  BY <1>1, <1>2, <1>5 DEF RunInv, Seen, SawHash, SawSize, Behind, p
<1>9. run' = [run EXCEPT ![r] = run'[r]]
  BY <1>2, <1>3 DEF p
<1> QED BY <1>4, <1>6, <1>7, <1>8, <1>9, StepOf DEF RunInv

LEMMA ClearKeeps ==
  ASSUME NEW H, IInv(H), NEW r \in Runner, Alone(r), Clear(r)
  PROVE  IInv(H)'
<1>1. /\ run' = run /\ disk' = disk /\ rows' = {} /\ rec' = {}
      /\ vecs' = {} /\ cut' = {}
      /\ run[r] = IdleRun
  BY DEF Clear, IInv, RunInv, Sound
<1>2. TypeOK' /\ run' = [run EXCEPT ![r] = run'[r]]
  BY <1>1 DEF IInv, TypeOK, Functional
<1>3. Records(H)'
  BY <1>1 DEF Records
<1> QED BY <1>1, <1>2, <1>3, IdleRunInv, StepOf

-----------------------------------------------------------------------------
(* The inductive invariant is invariant. *)

LEMMA InitIInv ==
  ASSUME NEW H, Init
  PROVE  IInv(H)
<1>1. TypeOK
  <2>1. PICK v \in [File -> Version] :
          disk = [f \in File |-> [listed |-> TRUE, ver |-> v[f], mtime |-> 0]]
    BY DEF Init
  <2>2. disk \in [File -> DiskFile]
    BY <2>1 DEF DiskFile
  <2> QED BY <2>2, IdleIsSound DEF Init, TypeOK, Functional
<1>2. Records(H)
  BY DEF Init, Records
<1> QED BY <1>1, <1>2, IdleRunInv DEF Init, IInv

\* Nothing in it depends on anything but these variables.
LEMMA IInvStays ==
  ASSUME NEW H, IInv(H), UNCHANGED vars
  PROVE  IInv(H)'
<1>1. disk' = disk /\ rows' = rows /\ vecs' = vecs /\ rec' = rec /\ run' = run /\ cut' = cut
  BY DEF vars
<1>2. TypeOK' /\ Records(H)'
  BY <1>1 DEF IInv, TypeOK, Records, SawHash, SawSize, Mirrors, Hidden, RowsOf
<1>3. ASSUME NEW r \in Runner
      PROVE  RunInv(run[r], H)'
  <2>1. RunInv(run[r], H)
    BY DEF IInv
  <2>2. Sound(run[r])' /\ Phases(run[r])' /\ Cleanup(run[r], H)'
    BY <1>1, <2>1 DEF RunInv, Sound, Stages, Built, Adds, Phases, Cleanup, Behind
  <2>3. Seen(run[r])'
    BY <1>1, <2>1 DEF RunInv, Seen, SawHash, SawSize, Behind
  <2> QED BY <2>2, <2>3 DEF RunInv
<1> QED BY <1>2, <1>3 DEF IInv

LEMMA RunStepKeeps ==
  ASSUME NEW H, IInv(H), NEW r \in Runner, Alone(r), RunStep(r)
  PROVE  IInv(H)'
BY StatFileKeeps, ReadFileKeeps, CheckFileKeeps, CommitFileKeeps, EmbedBatchKeeps,
   UpsertRecordsKeeps, ListStaleKeeps, DeleteStaleVectorsKeeps,
   DeleteStaleChunksKeeps DEF RunStep

LEMMA NextIInv ==
  ASSUME OneRunner, IInv(Returning), [Next]_vars
  PROVE  IInv(Returning)'
<1>1. \A r \in Runner : Alone(r)
  BY DEF OneRunner, Alone
<1>2. CASE User
  BY <1>2, WriteKeeps, ListingKeeps DEF User
<1>3. ASSUME NEW r \in Runner, Start(r)
      PROVE  IInv(Returning)'
  <2>1. CASE StartProject(r)
    BY <1>1, <2>1, BeginKeeps DEF StartProject
  <2>2. ASSUME NEW fs \in SUBSET File, StartFiles(r, fs)
        PROVE  IInv(Returning)'
    BY <1>1, <2>2, BeginKeeps DEF StartFiles
  <2> QED BY <1>3, <2>1, <2>2 DEF Start
<1>4. ASSUME NEW r \in Runner, RunStep(r)
      PROVE  IInv(Returning)'
  BY <1>1, <1>4, RunStepKeeps
<1>5. ASSUME NEW r \in Runner, Fail(r) \/ Clear(r)
      PROVE  IInv(Returning)'
  BY <1>1, <1>5, FailKeeps, ClearKeeps
<1> QED BY <1>2, <1>3, <1>4, <1>5, IInvStays DEF Next

\* Beside it, whatever the runners: a chunk without a vector is one whose
\* deletion has begun and has not ended.
VectorsOK == \A c \in rows : c.file \in cut \/ <<c.file, c.slot>> \in vecs

LEMMA VectorsAreEmbedded ==
  ASSUME VectorsOK, NEW f
  PROVE  f \in cut \/ Embedded(f)
BY DEF VectorsOK, Embedded, Ids, RowsOf

\* Deleting what other slots than those of M have takes no vector of M's.
LEMMA VectorsOfTheRest ==
  ASSUME VectorsOK, NEW gone, gone \subseteq rows,
         \A c \in rows \ gone, d \in gone : c.file # d.file \/ c.slot # d.slot,
         rows' = rows \ gone, vecs' = vecs \ Ids(gone), cut' = cut
  PROVE  VectorsOK'
<1> SUFFICES ASSUME NEW c \in rows \ gone, c.file \notin cut
             PROVE  <<c.file, c.slot>> \in vecs \ Ids(gone)
  BY DEF VectorsOK
<1>1. <<c.file, c.slot>> \in vecs
  BY DEF VectorsOK
<1>2. <<c.file, c.slot>> \notin Ids(gone)
  BY DEF Ids
<1> QED BY <1>1, <1>2

LEMMA RunStepKeepsVectors ==
  ASSUME VectorsOK, NEW r \in Runner, RunStep(r)
  PROVE  VectorsOK'
<1>1. CASE UNCHANGED <<rows, vecs, cut>>
  BY <1>1 DEF VectorsOK
<1>2. ASSUME NEW x \in run[r].tocommit, CommitFile(r, x)
      PROVE  VectorsOK'
  <2> DEFINE gone == {c \in RowsOf(x.file) : \A d \in ChunksOf(x.file, x.hash) : d.slot # c.slot}
  <2>1. rows' = rows \ gone /\ vecs' = vecs \ Ids(gone) /\ cut' = cut
    BY <1>2 DEF CommitFile
  <2>2. /\ gone \subseteq rows
        /\ \A c \in rows \ gone, d \in gone : c.file # d.file \/ c.slot # d.slot
    BY DEF RowsOf
  <2> QED BY <2>1, <2>2, VectorsOfTheRest
<1>3. ASSUME EmbedBatch(r)
      PROVE  VectorsOK'
  <2>1. PICK batch : /\ rows' = Replace(rows, batch)
                     /\ vecs' = vecs \cup Ids(batch) /\ cut' = cut
    BY <1>3 DEF EmbedBatch
  <2> QED BY <2>1 DEF VectorsOK, Replace, Ids
<1>4. ASSUME NEW f \in run[r].stale, DeleteStaleVectors(r, f)
      PROVE  VectorsOK'
  <2> SUFFICES ASSUME NEW c \in rows, c.file # f, c.file \notin cut
               PROVE  <<c.file, c.slot>> \in vecs \ Ids(RowsOf(f))
    BY <1>4 DEF DeleteStaleVectors, VectorsOK
  <2> QED BY DEF VectorsOK, Ids, RowsOf
<1>5. ASSUME NEW f \in run[r].stale, DeleteStaleChunks(r, f)
      PROVE  VectorsOK'
  BY <1>5 DEF DeleteStaleChunks, VectorsOK, RowsOf
<1> QED BY <1>1, <1>2, <1>3, <1>4, <1>5
        DEF RunStep, StatFile, ReadFile, CheckFile, UpsertRecords, ListStale

LEMMA NextVectors ==
  ASSUME VectorsOK, [Next]_vars
  PROVE  VectorsOK'
<1>1. CASE UNCHANGED <<rows, vecs, cut>>
  BY <1>1 DEF VectorsOK
<1>2. ASSUME NEW r \in Runner, Clear(r)
      PROVE  VectorsOK'
  BY <1>2 DEF Clear, VectorsOK
<1> QED BY <1>1, <1>2, RunStepKeepsVectors
        DEF Next, User, Write, Unlist, Return, Start, StartProject, StartFiles, Begin,
            Fail, vars

LEMMA VectorsInvariant == Spec => []VectorsOK
<1>1. Init => VectorsOK
  BY DEF Init, VectorsOK
<1> QED BY <1>1, NextVectors, PTL DEF Spec

THEOREM InductiveInvariant ==
  ASSUME OneRunner
  PROVE  Spec => []IInv(Returning)
<1>1. Init => IInv(Returning)
  BY InitIInv
<1>2. IInv(Returning) /\ [Next]_vars => IInv(Returning)'
  BY NextIInv
<1> QED BY <1>1, <1>2, PTL DEF Spec

-----------------------------------------------------------------------------
(* What it implies. *)

\* Types, and one row per chunk id and one record per file.
THEOREM TypeCorrect ==
  ASSUME OneRunner
  PROVE  Spec => []TypeOK
<1>1. IInv(Returning) => TypeOK
  BY DEF IInv
<1> QED BY <1>1, InductiveInvariant, PTL

\* While one run at a time writes the index, a file that would be skipped and
\* did not come back with an old mtime is completely indexed, with its vectors
\* unless a deletion was cut short, whichever runs failed at whichever step.
THEOREM SkippedAreIndexed ==
  ASSUME OneRunner
  PROVE  Spec => []SkippedFilesAreIndexed
<1>1. IInv(Returning) /\ VectorsOK => SkippedFilesAreIndexed
  BY VectorsAreEmbedded
     DEF IInv, Records, SkippedFilesAreIndexed, Matches, Hidden, Indexed
<1> QED BY <1>1, InductiveInvariant, VectorsInvariant, PTL

\* If files do come back, such a file may be hidden, but has all or nothing.
THEOREM ReturnedWholeOrHidden ==
  ASSUME OneRunner
  PROVE  Spec => []ReturnedIsWholeOrHidden
<1>1. IInv(Returning) /\ VectorsOK => ReturnedIsWholeOrHidden
  BY VectorsAreEmbedded
     DEF IInv, Records, ReturnedIsWholeOrHidden, Matches, Hidden, Indexed
<1> QED BY <1>1, InductiveInvariant, VectorsInvariant, PTL

\* Under the same assumptions a full run, once its records are written, has
\* mirrored every file it looked at that nobody wrote since.
THEOREM FullRunsMirror ==
  ASSUME OneRunner
  PROVE  Spec => []FullRunMirrors
<1>1. ASSUME IInv(Returning), VectorsOK, NEW r \in Runner, run[r].phase \in {"stale", "delete"}
      PROVE  /\ \A x \in run[r].recs \cup run[r].skipped :
                  Matches(x) /\ x.file \notin Returning => Indexed(x.file, x.hash)
             /\ run[r].phase = "delete" =>
                  Files(rows) \subseteq run[r].valid \cup run[r].stale
  <2>1. run[r].recs \cup run[r].skipped \subseteq rec
    BY <1>1 DEF IInv, RunInv, Phases, Seen
  <2>2. \A x \in rec :
          Matches(x) /\ x.file \notin Returning => Indexed(x.file, x.hash)
    BY <1>1, VectorsAreEmbedded DEF IInv, Records, Matches, Hidden, Indexed
  <2> QED BY <1>1, <2>1, <2>2 DEF IInv, RunInv, Cleanup
<1>2. IInv(Returning) /\ VectorsOK => FullRunMirrors
  BY <1>1 DEF FullRunMirrors
<1> QED BY <1>2, InductiveInvariant, VectorsInvariant, PTL

\* With one run at a time, no chunk in the index is embedded again.
THEOREM EmbeddedOnce ==
  ASSUME OneRunner
  PROVE  Spec => NothingEmbeddedTwice
<1>1. ASSUME IInv(Returning), Next, NEW r \in Runner, NEW c \in run[r].new \ run'[r].new,
             run'[r].phase = "work"
      PROVE  Key(c) \notin Keys(rows)
  <2>1. run[r].phase # "idle" \/ c \in IdleRun.new
    BY <1>1 DEF IInv, RunInv, Sound, Phases
  <2>2. run[r].phase = "work"
    BY <1>1, <2>1, RunType DEF IInv, RunInv, Sound, Phases, Run, IdleRun
  <2> QED BY <1>1, <2>2 DEF IInv, RunInv, Sound, Built
<1>2. IInv(Returning) /\ [Next]_vars =>
        [\A r \in Runner : \A c \in run[r].new \ run'[r].new :
           run'[r].phase = "work" => Key(c) \notin Keys(rows)]_vars
  BY <1>1
<1> QED BY <1>2, InductiveInvariant, PTL DEF Spec, NothingEmbeddedTwice

-----------------------------------------------------------------------------
(* AutoSync: when nobody edits during the catch-up, at most one of its two  *)
(* runs is at work.                                                         *)

WatchTypeOK ==
  /\ server \in {"down", "starting", "up"}
  /\ ev \in [File -> SUBSET {"mod", "rem"}]
  /\ queue \in Seq(Batch)
  /\ worker \in Worker
  /\ moved \in SUBSET File

\* Neither runs index_project.
FilesRun(q) == Sound(q) /\ ~q.full /\ q.phase \in {"idle", "work"}

\* No event arrives before the catch-up is done.
Quiet ==
  /\ \A r \in Runner : r \notin {Watch, Catchup} => run[r] = IdleRun
  /\ server # "up" => run[Catchup] = IdleRun
  /\ server # "up" \/ run[Catchup] # IdleRun =>
       (\A f \in File : ev[f] = {}) /\ queue = <<>> /\ worker = IdleWorker
  /\ worker.at # "sync" => run[Watch] = IdleRun
  /\ worker.at \in {"wait", "begin", "sync"} => worker.rems = {}
  /\ worker.at = "drop" => \E f \in worker.rems : worker.cur = {f}

Calm == TypeOK /\ WatchTypeOK /\ Quiet /\ \A r \in Runner : FilesRun(run[r])

LEMMA OneAtATime ==
  ASSUME Calm
  PROVE  /\ Watch \in Runner /\ Catchup \in Runner /\ Watch # Catchup
         /\ server # "up" \/ run[Catchup] # IdleRun => Alone(Catchup)
         /\ run[Catchup] = IdleRun => Alone(Watch)
         /\ worker.at # "wait" \/ queue # <<>> \/ (\E f \in File : ev[f] # {}) =>
              server = "up" /\ run[Catchup] = IdleRun
         /\ worker.at # "sync" /\ run[Catchup] = IdleRun =>
              \A r \in Runner : run[r] = IdleRun
<1>1. Watch \in Runner /\ Catchup \in Runner /\ Watch # Catchup
  BY AutoSyncAssumption
<1>2. worker = IdleWorker => worker.at # "sync" /\ worker.at = "wait"
  BY DEF IdleWorker
<1>3. server # "up" \/ run[Catchup] # IdleRun => Alone(Catchup)
  BY <1>2 DEF Calm, Quiet, Alone
<1>4. run[Catchup] = IdleRun => Alone(Watch)
  BY DEF Calm, Quiet, Alone
<1>5. worker.at # "wait" \/ queue # <<>> \/ (\E f \in File : ev[f] # {}) =>
        server = "up" /\ run[Catchup] = IdleRun
  BY <1>2 DEF Calm, Quiet
<1>6. worker.at # "sync" /\ run[Catchup] = IdleRun =>
        \A r \in Runner : run[r] = IdleRun
  BY DEF Calm, Quiet
<1> QED BY <1>1, <1>3, <1>4, <1>5, <1>6

\* A step of a run is one of a run that has begun.
LEMMA RunStepIsOfARun ==
  ASSUME NEW r \in Runner, RunStep(r)
  PROVE  run[r] # IdleRun
<1> SUFFICES ASSUME run[r] = IdleRun
             PROVE  FALSE
  OBVIOUS
<1>1. /\ run[r].phase = "idle" /\ run[r].todo = {} /\ run[r].stats = {}
      /\ run[r].reads = {} /\ run[r].tocommit = {} /\ run[r].stale = {}
  BY DEF IdleRun
<1>2. ~EmbedBatch(r) /\ ~UpsertRecords(r) /\ ~ListStale(r)
  BY <1>1 DEF EmbedBatch, UpsertRecords, Joined, ListStale
<1> QED BY <1>1, <1>2 DEF RunStep

\* What all steps of such a run have in common.
LEMMA FilesRunStep ==
  ASSUME TypeOK, NEW r \in Runner, FilesRun(run[r]), RunStep(r)
  PROVE  /\ TypeOK' /\ disk' = disk
         /\ run' = [run EXCEPT ![r] = run'[r]]
         /\ FilesRun(run[r])'
<1> USE DEF FilesRun
<1>1. ASSUME NEW f \in run[r].todo, StatFile(r, f)
      PROVE  TypeOK' /\ disk' = disk /\ run' = [run EXCEPT ![r] = run'[r]]
               /\ SameRun(run[r], run'[r]) /\ Sound(run[r])'
  BY <1>1, StatFileIs
<1>2. ASSUME NEW s \in run[r].stats, ReadFile(r, s)
      PROVE  TypeOK' /\ disk' = disk /\ run' = [run EXCEPT ![r] = run'[r]]
               /\ SameRun(run[r], run'[r]) /\ Sound(run[r])'
  BY <1>2, ReadFileIs
<1>3. ASSUME NEW x \in run[r].reads, CheckFile(r, x)
      PROVE  TypeOK' /\ disk' = disk /\ run' = [run EXCEPT ![r] = run'[r]]
               /\ SameRun(run[r], run'[r]) /\ Sound(run[r])'
  BY <1>3, CheckFileIs
<1>4. ASSUME NEW x \in run[r].tocommit, CommitFile(r, x)
      PROVE  TypeOK' /\ disk' = disk /\ run' = [run EXCEPT ![r] = run'[r]]
               /\ SameRun(run[r], run'[r]) /\ Sound(run[r])'
  BY <1>4, CommitFileIs
<1>5. ASSUME EmbedBatch(r)
      PROVE  TypeOK' /\ disk' = disk /\ run' = [run EXCEPT ![r] = run'[r]]
               /\ SameRun(run[r], run'[r]) /\ Sound(run[r])'
  BY <1>5, EmbedBatchIs
<1>6. ASSUME UpsertRecords(r)
      PROVE  TypeOK' /\ disk' = disk /\ run' = [run EXCEPT ![r] = run'[r]]
               /\ run'[r] = IdleRun /\ Sound(run[r])'
  BY <1>6, UpsertRecordsIs
<1>7. ~ListStale(r) /\ \A f \in run[r].stale : ~DeleteStaleVectors(r, f) /\ ~DeleteStaleChunks(r, f)
  BY DEF ListStale, DeleteStaleVectors, DeleteStaleChunks
<1>8. ~IdleRun.full /\ IdleRun.phase = "idle"
  BY DEF IdleRun
<1> QED BY <1>1, <1>2, <1>3, <1>4, <1>5, <1>6, <1>7, <1>8 DEF RunStep, SameRun

LEMMA CalmInit ==
  ASSUME AutoSyncInit
  PROVE  Calm
<1>1. PICK d \in [File -> [listed : BOOLEAN, ver : Version]] :
        /\ disk = [f \in File |-> [listed |-> d[f].listed, ver |-> d[f].ver,
                                   mtime |-> 0]]
        /\ rows = UNION {ChunksOf(f, d[f].ver) : f \in {g \in File : d[g].listed}}
        /\ rec = {[file |-> f, mtime |-> 0, size |-> Size[d[f].ver],
                   hash |-> d[f].ver] : f \in {g \in File : d[g].listed}}
  BY DEF AutoSyncInit
<1>2. \A f \in File : d[f].listed \in BOOLEAN /\ d[f].ver \in Version
  OBVIOUS
<1>3. disk \in [File -> DiskFile]
  BY <1>1, <1>2 DEF DiskFile
<1>4. /\ rows \in SUBSET Chunk
      /\ \A b, c \in rows : b.file = c.file /\ b.slot = c.slot => b = c
  <2>1. \A c \in rows : c.file \in File /\ c \in ChunksOf(c.file, d[c.file].ver)
    BY <1>1, <1>2, ChunksOfType
  <2>2. \A c \in rows : c \in Chunk
    BY <1>2, <2>1, ChunksOfType
  <2> QED BY <1>2, <2>1, <2>2, ChunksOfType
<1>5. rec \in SUBSET FileRecord /\ Functional(rec)
  BY <1>1, <1>2, IndexerAssumption DEF FileRecord, Functional
<1>6. run = [r \in Runner |-> IdleRun] /\ cut = {} /\ vecs = Ids(rows)
  BY DEF AutoSyncInit
<1>11. vecs \subseteq File \X Slot
  BY <1>4, <1>6 DEF Ids, Chunk
<1>7. TypeOK
  BY <1>3, <1>4, <1>5, <1>6, <1>11, IdleIsSound DEF TypeOK
<1>8. IdleWorker \in Worker /\ IdleWorker.rems = {} /\ IdleWorker.at = "wait"
  BY DEF IdleWorker, Worker
<1>9. WatchTypeOK /\ Quiet
  BY <1>6, <1>8, AutoSyncAssumption DEF AutoSyncInit, WatchTypeOK, Quiet
<1>10. FilesRun(IdleRun)
  BY IdleIsSound DEF FilesRun, IdleRun
<1> QED BY <1>6, <1>7, <1>9, <1>10 DEF Calm

\* A run does not look at the disk to be sound.
LEMMA FilesRunStays ==
  ASSUME NEW r \in Runner, FilesRun(run[r]), UNCHANGED <<rows, run>>
  PROVE  FilesRun(run[r])'
BY DEF FilesRun, Sound, Stages, Built, Adds

\* An idle one is sound whatever happens.
LEMMA IdleFilesRun == FilesRun(IdleRun) /\ FilesRun(IdleRun)'
BY IdleIsSound DEF FilesRun, IdleRun

\* What the user may do when it does not race with the catch-up.
LEMMA EditsAreCalm ==
  ASSUME Calm, ~CanRace, NEW kind, MayDo(kind)
  PROVE  server \in {"down", "up"} /\ run[Catchup] = IdleRun
BY OneAtATime DEF MayDo, Calm, WatchTypeOK, Quiet, FilesRun, Sound

LEMMA UserIsCalm ==
  ASSUME Calm, ~CanRace, UserStep
  PROVE  Calm'
<1>1. PICK f \in File : \/ \E v \in Version : Edit(f, v)
                        \/ Remove(f)
                        \/ \E g \in File : Rename(f, g)
  BY DEF UserStep
<1>2. UNCHANGED <<rows, vecs, rec, run, cut, server, queue, worker>>
  BY <1>1 DEF Edit, Write, Remove, Unlist, Rename
<1>3. disk' \in [File -> DiskFile]
  <2>1. disk \in [File -> DiskFile]
    BY DEF Calm, TypeOK
  <2>2. ASSUME NEW v \in Version, Edit(f, v)
        PROVE  disk' \in [File -> DiskFile]
    <3>1. PICK n \in 1..MaxMtime :
            disk' = [disk EXCEPT ![f] = [listed |-> TRUE, ver |-> v, mtime |-> n]]
      BY <2>2 DEF Edit, Write
    <3>2. n \in Nat
      BY IndexerAssumption
    <3> QED BY <2>1, <3>1, <3>2 DEF DiskFile
  <2>3. CASE Remove(f)
    BY <2>1, <2>3 DEF Remove, Unlist, DiskFile
  <2>4. ASSUME NEW g \in File, Rename(f, g)
        PROVE  disk' \in [File -> DiskFile]
    BY <2>1, <2>4 DEF Rename
  <2> QED BY <1>1, <2>2, <2>3, <2>4
<1>4. TypeOK'
  BY <1>2, <1>3 DEF Calm, TypeOK, Functional
<1>5. PICK mods \in SUBSET File, rems \in SUBSET File : Notify(mods, rems)
  BY <1>1 DEF Edit, Remove, Rename
<1>6. /\ ev' \in [File -> SUBSET {"mod", "rem"}]
      /\ server = "down" => \A g \in File : ev'[g] = {}
  BY <1>5 DEF Notify, Calm, WatchTypeOK
<1>7. moved' \in SUBSET File
  BY <1>1 DEF Edit, Remove, Rename, Calm, WatchTypeOK
<1>8. WatchTypeOK'
  BY <1>2, <1>6, <1>7 DEF Calm, WatchTypeOK
<1>9. server \in {"down", "up"} /\ run[Catchup] = IdleRun
  BY <1>1, EditsAreCalm DEF Edit, Remove, Rename
<1>10. Quiet'
  BY <1>2, <1>6, <1>9 DEF Calm, Quiet
<1> QED BY <1>2, <1>4, <1>8, <1>10, FilesRunStays DEF Calm

\* Steps of the debouncer and of the worker between two runs.
LEMMA BatchesAreCalm ==
  ASSUME Calm,
         (\E fs \in SUBSET Held : Flush(fs)) \/ TakeBatch
           \/ RemoveVectors \/ RemoveChunks \/ ForgetFile
  PROVE  Calm'
<1>1. server' = server /\ run' = run /\ disk' = disk /\ moved' = moved
  BY DEF Flush, TakeBatch, RemoveVectors, RemoveChunks, ForgetFile, vars
<1>2. server = "up" /\ run[Catchup] = IdleRun
  BY OneAtATime DEF Flush, Held, TakeBatch, RemoveVectors, RemoveChunks, ForgetFile
<1>3. TypeOK'
  <2>1. /\ rows' \subseteq rows /\ rec' \subseteq rec /\ vecs' \subseteq vecs
        /\ cut' \subseteq cut \cup worker.rems
    BY DEF Flush, TakeBatch, RemoveVectors, RemoveChunks, ForgetFile, vars
  <2>2. worker.rems \subseteq File
    BY DEF Calm, WatchTypeOK, Worker
  <2> QED BY <1>1, <2>1, <2>2 DEF Calm, TypeOK, Functional
<1>4. /\ ev' \in [File -> SUBSET {"mod", "rem"}]
      /\ queue' \in Seq(Batch)
      /\ worker' \in Worker
      /\ worker.at # "sync" \/ worker' = worker
      /\ worker'.at # "sync" \/ worker' = worker
      /\ worker'.at \in {"wait", "begin", "sync"} => worker'.rems = {}
      /\ worker'.at = "drop" => \E f \in worker'.rems : worker'.cur = {f}
  <2>1. /\ WatchTypeOK
        /\ worker.at \in {"wait", "begin", "sync"} => worker.rems = {}
        /\ worker.at = "drop" => \E f \in worker.rems : worker.cur = {f}
    BY DEF Calm, Quiet
  <2>2. CASE \E fs \in SUBSET Held : Flush(fs)
    <3>1. PICK fs \in SUBSET Held : Flush(fs)
      BY <2>2
    <3>2. BatchOf(fs) \in Batch
      BY DEF BatchOf, Batch, Held
    <3>3. queue' = queue \/ queue' = queue \o <<BatchOf(fs)>>
      BY <2>1, <3>1 DEF Flush, WatchTypeOK
    <3>4. ev' \in [File -> SUBSET {"mod", "rem"}] /\ queue' \in Seq(Batch)
      BY <2>1, <3>1, <3>2, <3>3 DEF Flush, WatchTypeOK
    <3>5. worker' = worker
      BY <3>1 DEF Flush
    <3> QED BY <2>1, <3>4, <3>5 DEF WatchTypeOK
  <2>3. \A w \in Worker :
          /\ Continue(w) \in Worker /\ Continue(w).at \notin {"sync", "drop"}
          /\ Continue(w).at \in {"wait", "begin"} => Continue(w).rems = {}
    BY DEF Continue, Worker
  <2>4. CASE TakeBatch
    <3>1. Head(queue) \in Batch /\ queue' \in Seq(Batch)
      BY <2>1, <2>4 DEF TakeBatch, WatchTypeOK
    <3> DEFINE w == [IdleWorker EXCEPT !.mods = Head(queue).mods,
                                       !.rems = Head(queue).rems]
    <3>2. w \in Worker
      BY <3>1 DEF IdleWorker, Worker, Batch
    <3>3. worker' = Continue(w) /\ ev' = ev /\ worker.at = "wait"
      BY <2>4 DEF TakeBatch
    <3> QED BY <2>1, <2>3, <3>1, <3>2, <3>3 DEF WatchTypeOK
  <2>5. CASE RemoveVectors
    <3>1. PICK f \in worker.rems, at \in {"drop", "forget"} :
            worker' = [worker EXCEPT !.at = at, !.cur = {f}]
      BY <2>5 DEF RemoveVectors
    <3>2. /\ worker' \in Worker /\ worker'.at = at /\ worker'.cur = {f}
          /\ worker'.rems = worker.rems
      <4>1. worker \in Worker /\ {f} \in SUBSET File
        BY <2>1 DEF WatchTypeOK, Worker
      <4> QED BY <3>1, <4>1 DEF Worker
    <3>3. ev' = ev /\ queue' = queue /\ worker.at = "remove"
      BY <2>5 DEF RemoveVectors
    <3> QED BY <2>1, <3>2, <3>3 DEF WatchTypeOK
  <2>7. CASE RemoveChunks
    <3>1. /\ worker' = [worker EXCEPT !.at = "forget"]
          /\ ev' = ev /\ queue' = queue /\ worker.at = "drop"
      BY <2>7 DEF RemoveChunks
    <3>2. worker' \in Worker /\ worker'.at = "forget"
      BY <2>1, <3>1 DEF WatchTypeOK, Worker
    <3> QED BY <2>1, <3>1, <3>2 DEF WatchTypeOK
  <2>6. CASE ForgetFile
    <3> DEFINE w == [worker EXCEPT !.rems = @ \ worker.cur]
    <3>1. w \in Worker
      BY <2>1 DEF WatchTypeOK, Worker
    <3>2. worker' = Continue(w) /\ ev' = ev /\ queue' = queue /\ worker.at = "forget"
      BY <2>6 DEF ForgetFile
    <3> QED BY <2>1, <2>3, <3>1, <3>2 DEF WatchTypeOK
  <2> QED BY <2>2, <2>4, <2>5, <2>6, <2>7
<1>5. WatchTypeOK'
  BY <1>1, <1>4 DEF Calm, WatchTypeOK
<1>6. Quiet'
  BY <1>1, <1>2, <1>4 DEF Calm, Quiet
<1>7. ASSUME NEW r \in Runner
      PROVE  FilesRun(run[r])'
  <2>1. CASE worker.at # "sync"
    BY <1>1, <1>2, <2>1, OneAtATime, IdleFilesRun
  <2>2. CASE worker.at = "sync"
    <3>1. rows' = rows
      BY <2>2 DEF Flush, TakeBatch, RemoveVectors, RemoveChunks, ForgetFile, vars
    <3> QED BY <1>1, <3>1, FilesRunStays DEF Calm
  <2> QED BY <2>1, <2>2
<1> QED BY <1>3, <1>5, <1>6, <1>7 DEF Calm

\* A run makes a step, or fails; the worker waits for the next batch when its
\* run is over.
LEMMA RunsAreCalm ==
  ASSUME Calm, NEW r \in Runner,
         \/ r = Watch /\ (SyncStep \/ SyncFails)
         \/ r = Catchup /\ (CatchUpStep \/ CatchUpFails)
  PROVE  /\ Calm'
         /\ Alone(r) /\ run[r] # IdleRun /\ server = "up"
         /\ disk' = disk
         /\ run' = [run EXCEPT ![r] = run'[r]]
         /\ UNCHANGED <<server, ev, queue, moved>>
         /\ worker.at \in {"wait", "sync"} \/ r = Catchup
         /\ worker' = worker \/ (worker' = IdleWorker /\ r = Watch)
<1>1. /\ UNCHANGED <<server, ev, queue, moved>>
      /\ worker' = worker \/ (worker' = IdleWorker /\ r = Watch /\ worker.at = "sync")
      /\ r = Watch => worker.at = "sync"
      /\ RunStep(r) \/ Fail(r)
  <2>1. CASE r = Watch /\ SyncStep
    BY <2>1 DEF SyncStep
  <2>2. CASE r = Watch /\ SyncFails
    BY <2>2 DEF SyncFails
  <2>3. CASE r = Catchup /\ CatchUpStep
    BY <2>3, OneAtATime DEF CatchUpStep, watchVars
  <2>4. CASE r = Catchup /\ CatchUpFails
    BY <2>4, OneAtATime DEF CatchUpFails, watchVars
  <2> QED BY <2>1, <2>2, <2>3, <2>4
<1>2. run[r] # IdleRun
  BY <1>1, RunStepIsOfARun DEF Fail, IdleRun
<1>3. /\ r = Watch => run[Catchup] = IdleRun
      /\ Alone(r) /\ server = "up"
  <2>1. CASE r = Watch
    BY <1>1, <2>1, OneAtATime
  <2>2. CASE r = Catchup
    BY <1>2, <2>2, OneAtATime DEF Calm, Quiet
  <2> QED BY <2>1, <2>2
<1>4. /\ TypeOK' /\ disk' = disk
      /\ run' = [run EXCEPT ![r] = run'[r]]
      /\ FilesRun(run[r])'
  <2>1. CASE RunStep(r)
    BY <2>1, FilesRunStep DEF Calm
  <2>2. CASE Fail(r)
    BY <2>2, IdleIsSound, IdleFilesRun DEF Fail, Calm, TypeOK
  <2> QED BY <1>1, <2>1, <2>2
<1>5. \A s \in Runner : s # r => run'[s] = run[s] /\ run[s] = IdleRun
  BY <1>3, <1>4 DEF Alone, Calm, TypeOK
<1>6. WatchTypeOK'
  <2>1. IdleWorker \in Worker
    BY DEF IdleWorker, Worker
  <2> QED BY <1>1, <2>1 DEF Calm, WatchTypeOK
<1>7. Quiet'
  <2>1. IdleWorker.rems = {} /\ IdleWorker.at = "wait"
    BY DEF IdleWorker
  <2>2. CASE r = Catchup
    BY <1>1, <1>2, <1>3, <1>5, <2>1, <2>2, OneAtATime DEF Calm, Quiet
  <2>3. CASE r = Watch
    <3>1. run'[Watch].phase = "idle" => run'[Watch] = IdleRun
      BY <1>4, <2>3 DEF FilesRun, Sound
    <3>2. worker'.at # "sync" => run'[Watch] = IdleRun
      <4>1. CASE SyncStep
        BY <1>1, <2>3, <3>1, <4>1 DEF SyncStep
      <4>2. CASE SyncFails
        BY <4>2, OneAtATime DEF SyncFails, Fail, Calm, TypeOK
      <4> QED BY <2>3, <4>1, <4>2, OneAtATime
    <3> QED BY <1>1, <1>3, <1>5, <2>1, <2>3, <3>2, OneAtATime DEF Calm, Quiet
  <2> QED BY <2>2, <2>3
<1>8. \A s \in Runner : FilesRun(run[s])'
  BY <1>4, <1>5, IdleFilesRun
<1>9. Calm'
  BY <1>4, <1>6, <1>7, <1>8 DEF Calm
<1> QED BY <1>1, <1>2, <1>3, <1>4, <1>9

\* A run begins.
LEMMA BeginsAreCalm ==
  ASSUME Calm, BeginSync \/ ListOutdated
  PROVE  Calm'
<1>1. PICK r \in {Watch, Catchup}, fs \in SUBSET File :
        /\ (fs # {} /\ Begin(r, FALSE, fs)) \/ (r = Catchup /\ UNCHANGED vars)
        /\ r = Watch => worker.at = "begin" /\ worker'.at = "sync" /\ server' = server
        /\ r = Catchup => server = "starting" /\ server' = "up" /\ worker' = worker
  <2>1. CASE BeginSync
    <3>1. worker \in Worker /\ worker.mods \in SUBSET File
      BY DEF Calm, WatchTypeOK, Worker
    <3>2. /\ worker.mods # {} /\ Begin(Watch, FALSE, worker.mods)
          /\ worker.at = "begin" /\ server' = server
          /\ worker' = [worker EXCEPT !.at = "sync"]
      BY <2>1 DEF BeginSync, StartFiles
    <3>3. worker'.at = "sync"
      BY <3>1, <3>2 DEF Worker
    <3> QED BY <3>1, <3>2, <3>3, OneAtATime
  <2>2. CASE ListOutdated
    <3>1. Files(Outdated) \subseteq File
      BY DEF Files, Outdated, Calm, TypeOK, FileRecord
    <3>2. (Files(Outdated) # {} /\ Begin(Catchup, FALSE, Files(Outdated)))
            \/ UNCHANGED vars
      BY <2>2 DEF ListOutdated, StartFiles
    <3>3. server = "starting" /\ server' = "up" /\ worker' = worker
      BY <2>2 DEF ListOutdated
    <3> QED BY <3>1, <3>2, <3>3, OneAtATime
  <2> QED BY <2>1, <2>2
<1>2. r \in Runner
  BY OneAtATime
<1>3. UNCHANGED <<ev, queue, moved, rows, vecs, cut>>
  BY DEF BeginSync, ListOutdated, StartFiles, Begin, vars
<1>4. worker' \in Worker /\ (r = Watch => worker'.rems = worker.rems)
  BY <1>1 DEF BeginSync, ListOutdated, Calm, WatchTypeOK, Worker
<1>5. WatchTypeOK'
  BY <1>1, <1>3, <1>4 DEF Calm, WatchTypeOK
<1>6. /\ TypeOK' /\ FilesRun(run[r])'
      /\ \A s \in Runner : s # r => run'[s] = run[s]
  <2>1. CASE Begin(r, FALSE, fs)
    <3>1. /\ TypeOK' /\ Sound(run[r])' /\ run' = [run EXCEPT ![r] = run'[r]]
          /\ run'[r].phase = "work" /\ run'[r].full = FALSE
      BY <1>2, <2>1, BeginIs DEF Calm
    <3> QED BY <1>2, <3>1 DEF FilesRun, Calm, TypeOK
  <2>2. CASE UNCHANGED vars
    BY <1>2, <2>2, FilesRunStays DEF vars, Calm, TypeOK, Functional
  <2> QED BY <1>1, <2>1, <2>2
<1>7. Quiet'
  <2>1. CASE r = Watch
    <3>1. server = "up" /\ run[Catchup] = IdleRun
      BY <1>1, <2>1, OneAtATime
    <3> QED BY <1>1, <1>3, <1>4, <1>6, <2>1, <3>1, OneAtATime DEF Calm, Quiet
  <2>2. CASE r = Catchup
    BY <1>1, <1>3, <1>6, <2>2, OneAtATime DEF Calm, Quiet
  <2> QED BY <2>1, <2>2
<1>8. ASSUME NEW s \in Runner, s # r
      PROVE  FilesRun(run[s])'
  <2>1. run'[s] = IdleRun
    BY <1>1, <1>6, <1>8, OneAtATime DEF Calm, Quiet, Alone
  <2> QED BY <2>1, IdleFilesRun
<1> QED BY <1>5, <1>6, <1>7, <1>8 DEF Calm

\* The server starts, or is stopped.
LEMMA ServerIsCalm ==
  ASSUME Calm, StartServer \/ StopServer
  PROVE  Calm'
<1>1. CASE StartServer
  <2>1. /\ UNCHANGED <<disk, rows, vecs, rec, cut, run, ev, queue, worker, moved>>
        /\ server = "down" /\ server' = "starting"
    BY <1>1 DEF StartServer, vars
  <2>2. TypeOK' /\ WatchTypeOK' /\ Quiet'
    BY <2>1 DEF Calm, TypeOK, Functional, WatchTypeOK, Quiet
  <2> QED BY <2>1, <2>2, FilesRunStays DEF Calm
<1>2. CASE StopServer
  <2>1. /\ UNCHANGED <<disk, rows, vecs, rec, cut, moved>>
        /\ server' = "down" /\ ev' = [f \in File |-> {}] /\ queue' = <<>>
        /\ worker' = IdleWorker /\ run' = [r \in Runner |-> IdleRun]
    BY <1>2 DEF StopServer
  <2>2. TypeOK'
    BY <2>1, IdleIsSound DEF Calm, TypeOK, Functional
  <2>3. IdleWorker \in Worker /\ IdleWorker.rems = {} /\ IdleWorker.at = "wait"
    BY DEF IdleWorker, Worker
  <2>4. WatchTypeOK' /\ Quiet'
    BY <2>1, <2>3, OneAtATime DEF Calm, WatchTypeOK, Quiet
  <2> QED BY <2>1, <2>2, <2>4, IdleFilesRun DEF Calm
<1> QED BY <1>1, <1>2

LEMMA CalmStep ==
  ASSUME Calm, ~CanRace, [AutoSyncNext]_allVars
  PROVE  Calm'
<1>1. CASE UNCHANGED allVars
  <2>1. UNCHANGED <<disk, rows, vecs, rec, cut, run, server, ev, queue, worker, moved>>
    BY <1>1 DEF allVars, vars, watchVars
  <2>2. TypeOK' /\ WatchTypeOK' /\ Quiet'
    BY <2>1 DEF Calm, TypeOK, Functional, WatchTypeOK, Quiet
  <2> QED BY <2>1, <2>2, FilesRunStays DEF Calm
<1>2. CASE AutoSyncNext
  BY <1>2, OneAtATime, UserIsCalm, BatchesAreCalm, RunsAreCalm, BeginsAreCalm,
     ServerIsCalm DEF AutoSyncNext, WorkerStep
<1> QED BY <1>1, <1>2

\* The types of AutoSync, its runs one at a time.
THEOREM ServedCalmly ==
  ASSUME ~CanRace
  PROVE  AutoSyncSpec => []Calm
<1>1. AutoSyncInit => Calm
  BY CalmInit
<1>2. Calm /\ [AutoSyncNext]_allVars => Calm'
  BY CalmStep
<1> QED BY <1>1, <1>2, PTL DEF AutoSyncSpec

-----------------------------------------------------------------------------
(* Whatever fails and wherever the server stops, an indexed file that is    *)
(* out of date has another mtime than its record.                           *)

\* The index as it was made: of every file that is there, and of no other.
LEMMA IndexAsMade ==
  ASSUME AutoSyncInit
  PROVE  /\ \A r \in Runner : run[r] = IdleRun
         /\ \A x \in rec : /\ x.file \in File /\ disk[x.file].listed
                          /\ x.mtime = disk[x.file].mtime
                          /\ x.size = Size[disk[x.file].ver]
                          /\ x.hash = disk[x.file].ver
                          /\ Mirrors(x.file, x.hash)
         /\ \A f \in File : disk[f].listed =>
              (\E x \in rec : x.file = f) /\ Mirrors(f, disk[f].ver)
         /\ \A f \in File : ~disk[f].listed => RowsOf(f) = {}
<1>1. PICK d \in [File -> [listed : BOOLEAN, ver : Version]] :
        /\ disk = [f \in File |-> [listed |-> d[f].listed, ver |-> d[f].ver,
                                   mtime |-> 0]]
        /\ rows = UNION {ChunksOf(f, d[f].ver) : f \in {g \in File : d[g].listed}}
        /\ rec = {[file |-> f, mtime |-> 0, size |-> Size[d[f].ver],
                   hash |-> d[f].ver] : f \in {g \in File : d[g].listed}}
        /\ run = [r \in Runner |-> IdleRun]
  BY DEF AutoSyncInit
<1>2. \A g \in File : /\ d[g].ver \in Version
                      /\ disk[g].ver = d[g].ver /\ disk[g].listed = d[g].listed
                      /\ disk[g].mtime = 0
  BY <1>1
<1>3. \A c \in rows : /\ c.file \in File /\ d[c.file].listed
                      /\ c \in ChunksOf(c.file, d[c.file].ver)
  BY <1>1, <1>2, ChunksOfType
<1>4. ASSUME NEW f \in File, d[f].listed
      PROVE  Mirrors(f, d[f].ver)
  <2>1. \A c \in ChunksOf(f, d[f].ver) : c \in rows /\ c.file = f
    BY <1>1, <1>2, <1>4, ChunksOfType
  <2>2. RowsOf(f) = ChunksOf(f, d[f].ver)
    BY <1>3, <2>1 DEF RowsOf
  <2> QED BY <1>1, <1>4, <2>2 DEF Mirrors
<1>5. \A f \in File : ~d[f].listed => RowsOf(f) = {}
  BY <1>3 DEF RowsOf
<1>6. ASSUME NEW x \in rec
      PROVE  /\ x.file \in File /\ x.mtime = 0 /\ x.size = Size[d[x.file].ver]
             /\ x.hash = d[x.file].ver /\ d[x.file].listed
  BY <1>1, <1>6
<1>7. ASSUME NEW f \in File, d[f].listed
      PROVE  \E x \in rec : x.file = f
  <2>1. [file |-> f, mtime |-> 0, size |-> Size[d[f].ver], hash |-> d[f].ver] \in rec
    BY <1>1, <1>7
  <2> QED BY <2>1
<1> QED BY <1>1, <1>2, <1>4, <1>5, <1>6, <1>7

LEMMA ServedInit ==
  ASSUME AutoSyncInit
  PROVE  IInv(File)
<1>1. TypeOK
  BY CalmInit DEF Calm
<1>2. Records(File)
  BY <1>1, IndexAsMade DEF Records, SawHash, SawSize, TypeOK, FileRecord
<1> QED BY <1>1, <1>2, IndexAsMade, IdleRunInv DEF IInv

LEMMA ServedStep ==
  ASSUME Calm, ~CanRace, "move" \notin Offline \cup Online, IInv(File),
         [AutoSyncNext]_allVars
  PROVE  IInv(File)'
<1>1. CASE UserStep
  <2>1. PICK f \in File : \/ \E v \in Version : Edit(f, v)
                          \/ Remove(f)
                          \/ \E g \in File : Rename(f, g)
    BY <1>1 DEF UserStep
  <2>2. \A g \in File : ~Rename(f, g)
    BY DEF Rename, MayDo
  <2> QED BY <2>1, <2>2, WriteKeeps, ListingKeeps, IndexerAssumption DEF Edit, Remove
<1>2. CASE RemoveChunks
  <2>1. /\ disk' = disk /\ rec' = rec /\ run' = run /\ worker.at = "drop"
        /\ rows' = {c \in rows : c.file \notin worker.cur} \/ rows' = rows
    BY <1>2 DEF RemoveChunks
  <2>2. PICK f \in File : worker.cur = {f}
    BY <2>1 DEF Calm, Quiet, WatchTypeOK, Worker
  <2>3. \A r \in Runner : run[r] = IdleRun
    BY <2>1, OneAtATime
  <2>4. Records(File)'
    <3>1. CASE rows' = rows
      BY <2>1, <3>1 DEF IInv, Records, SawHash, SawSize, Mirrors, Hidden, RowsOf
    <3>2. CASE rows' = {c \in rows : c.file \notin worker.cur}
      <4>1. RowsOf(f)' = {} /\ \A g \in File : g # f => RowsOf(g)' = RowsOf(g)
        BY <2>2, <3>2 DEF RowsOf
      <4> QED BY <2>1, <4>1, HiddenKeeps DEF IInv
    <3> QED BY <2>1, <3>1, <3>2
  <2>5. TypeOK'
    BY <1>2, CalmStep DEF AutoSyncNext, WorkerStep, Calm
  <2> QED BY <2>1, <2>3, <2>4, <2>5, IdleRunInv DEF IInv
<1>9. CASE RemoveVectors
  <2>1. /\ disk' = disk /\ rec' = rec /\ rows' = rows /\ run' = run
        /\ worker.at = "remove"
    BY <1>9 DEF RemoveVectors
  <2>2. \A r \in Runner : run[r] = IdleRun
    BY <2>1, OneAtATime
  <2>3. Records(File)'
    BY <2>1 DEF IInv, Records, SawHash, SawSize, Mirrors, Hidden, RowsOf
  <2>4. TypeOK'
    BY <1>9, CalmStep DEF AutoSyncNext, WorkerStep, Calm
  <2> QED BY <2>1, <2>2, <2>3, <2>4, IdleRunInv DEF IInv
<1>3. CASE ForgetFile
  <2>1. /\ disk' = disk /\ rows' = rows /\ vecs' = vecs /\ cut' = cut /\ run' = run
        /\ rec' \subseteq rec /\ worker.at = "forget"
    BY <1>3 DEF ForgetFile
  <2>2. \A r \in Runner : run[r] = IdleRun
    BY <2>1, OneAtATime
  <2>3. Records(File)'
    BY <2>1 DEF IInv, Records, SawHash, SawSize, Mirrors, Hidden, RowsOf
  <2>4. TypeOK'
    BY <1>3, CalmStep DEF AutoSyncNext, WorkerStep, Calm
  <2> QED BY <2>1, <2>2, <2>3, <2>4, IdleRunInv DEF IInv
<1>4. CASE BeginSync
  <2>1. worker.mods \in SUBSET File /\ worker.at = "begin"
    BY <1>4 DEF BeginSync, Calm, WatchTypeOK, Worker
  <2> QED BY <1>4, <2>1, BeginKeeps, OneAtATime DEF BeginSync, StartFiles
<1>5. CASE ListOutdated
  <2>1. Files(Outdated) \in SUBSET File /\ Alone(Catchup)
    BY <1>5, OneAtATime
       DEF ListOutdated, Files, Outdated, Calm, TypeOK, FileRecord
  <2> QED BY <1>5, <2>1, BeginKeeps, IInvStays, OneAtATime DEF ListOutdated, StartFiles
<1>6. ASSUME NEW r \in Runner,
             \/ r = Watch /\ (SyncStep \/ SyncFails)
             \/ r = Catchup /\ (CatchUpStep \/ CatchUpFails)
      PROVE  IInv(File)'
  <2>1. Alone(r)
    BY <1>6, RunsAreCalm
  <2> QED BY <1>6, <2>1, RunStepKeeps, FailKeeps
          DEF SyncStep, SyncFails, CatchUpStep, CatchUpFails
<1>7. CASE StopServer
  <2>1. /\ UNCHANGED <<disk, rows, vecs, rec, cut>> /\ run' = [r \in Runner |-> IdleRun]
    BY <1>7 DEF StopServer
  <2>2. Records(File)'
    BY <2>1 DEF IInv, Records, SawHash, SawSize, Mirrors, Hidden, RowsOf
  <2>3. TypeOK'
    BY <1>7, CalmStep DEF AutoSyncNext, Calm
  <2> QED BY <2>1, <2>2, <2>3, IdleRunInv DEF IInv
<1>8. CASE UNCHANGED allVars \/ StartServer \/ TakeBatch \/ \E fs \in SUBSET Held : Flush(fs)
  BY <1>8, IInvStays DEF allVars, StartServer, TakeBatch, Flush
<1> QED BY <1>1, <1>2, <1>3, <1>4, <1>5, <1>6, <1>7, <1>8, <1>9, OneAtATime
        DEF AutoSyncNext, WorkerStep

\* Synced, as far as the chunks table goes.
Shown(f) ==
  IF disk[f].listed THEN Mirrors(f, disk[f].ver) ELSE RowsOf(f) = {}

LEMMA ShownIsSynced ==
  ASSUME VectorsOK, NEW f, Shown(f)
  PROVE  Synced(f)
BY VectorsAreEmbedded DEF Shown, Synced, Indexed

\* The vectors are as in Indexer.
LEMMA ServedVectors == AutoSyncSpec => []VectorsOK
<1>1. AutoSyncInit => VectorsOK
  BY DEF AutoSyncInit, VectorsOK, Ids
<1>2. ASSUME VectorsOK, [AutoSyncNext]_allVars
      PROVE  VectorsOK'
  <2>1. CASE UNCHANGED <<rows, vecs, cut>>
    BY <1>2, <2>1 DEF VectorsOK
  <2>2. CASE RemoveVectors
    <3>1. PICK f \in worker.rems :
            \/ vecs' = vecs \ Ids(RowsOf(f)) /\ cut' = cut \cup {f}
            \/ UNCHANGED <<vecs, cut>>
      BY <2>2 DEF RemoveVectors
    <3>2. rows' = rows
      BY <2>2 DEF RemoveVectors
    <3> SUFFICES ASSUME vecs' = vecs \ Ids(RowsOf(f)), cut' = cut \cup {f},
                        NEW c \in rows, c.file # f, c.file \notin cut
                 PROVE  <<c.file, c.slot>> \in vecs \ Ids(RowsOf(f))
      BY <1>2, <3>1, <3>2 DEF VectorsOK
    <3> QED BY <1>2 DEF VectorsOK, Ids, RowsOf
  <2>3. CASE RemoveChunks
    BY <1>2, <2>3 DEF RemoveChunks, VectorsOK
  <2>4. ASSUME NEW r \in Runner, RunStep(r)
        PROVE  VectorsOK'
    BY <1>2, <2>4, RunStepKeepsVectors
  <2> QED
    BY <1>2, <2>1, <2>2, <2>3, <2>4, AutoSyncAssumption
       DEF AutoSyncNext, UserStep, Edit, Remove, Rename, Write, Unlist, Flush, WorkerStep,
           TakeBatch, ForgetFile, BeginSync, SyncStep, SyncFails, StartServer,
           ListOutdated, CatchUpStep, CatchUpFails, StopServer, StartFiles, Begin, Fail,
           vars, allVars
<1> QED BY <1>1, <1>2, PTL DEF AutoSyncSpec

\* Search does not go on showing old chunks of a file: whatever batches fail,
\* wherever the server is killed and whatever files are removed and created
\* again, what is wrong about an indexed file will be found by the next
\* catch-up.  For any files, versions and runs; the user edits before or after
\* the catch-up, and moves no file.
THEOREM OutdatedIsSeen ==
  ASSUME ~CanRace, "move" \notin Offline \cup Online
  PROVE  AutoSyncSpec => []StaleIsOutdated
<1>1. ASSUME IInv(File), NEW f \in Files(rec), disk[f].listed, RowsOf(f) # {}
      PROVE  Shown(f) \/ f \in Files(Outdated)
  <2>1. PICK x \in rec : x.file = f
    BY DEF Files
  <2>2. SawHash(x) /\ (x.mtime = disk[f].mtime => Mirrors(f, x.hash))
    BY <1>1, <2>1 DEF IInv, Records, Hidden
  <2>3. CASE x.mtime = disk[f].mtime
    BY <1>1, <2>1, <2>2, <2>3 DEF SawHash, Shown
  <2>4. CASE x.mtime # disk[f].mtime
    BY <1>1, <2>1, <2>4 DEF Outdated, Files
  <2> QED BY <2>3, <2>4
<1>2. IInv(File) /\ VectorsOK => StaleIsOutdated
  BY <1>1, ShownIsSynced DEF StaleIsOutdated
<1>3. AutoSyncInit => Calm /\ IInv(File)
  BY CalmInit, ServedInit
<1>4. Calm /\ IInv(File) /\ [AutoSyncNext]_allVars => Calm' /\ IInv(File)'
  BY CalmStep, ServedStep
<1> QED BY <1>2, <1>3, <1>4, ServedVectors, PTL DEF AutoSyncSpec

-----------------------------------------------------------------------------
(* When nothing fails and the server stays up, what is out of date is being *)
(* seen to.                                                                  *)

\* A batch that says that f is there will be taken after all the others.
Coming(f) == "mod" \in ev[f] \/ \E i \in DOMAIN queue : f \in queue[i].mods

\* OnItsWay, of a file that is there.
Pending(f) ==
  \/ Coming(f)
  \/ worker.at \in {"remove", "drop", "forget", "begin"} /\ f \in worker.mods
  \/ \E r \in Runner : WillIndex(r, f)
  \/ server # "up" /\ f \in Files(Outdated)

\* Whoever deletes the chunks of a file that is there again syncs it after.
ModFollows(f) ==
  /\ "rem" \in ev[f] => "mod" \in ev[f]
  /\ \A i \in DOMAIN queue : f \in queue[i].rems =>
       "mod" \in ev[f] \/ \E j \in DOMAIN queue : j >= i /\ f \in queue[j].mods
  /\ f \in worker.rems => f \in worker.mods \/ Coming(f)

\* A run that read f before it was written will be followed by another.
ReadAgain(f) ==
  \A r \in Runner : \A x \in run[r].reads \cup run[r].tocommit \cup run[r].recs :
    x.file = f /\ x.hash # disk[f].ver => Coming(f)

\* Before the first start a written file has another mtime than its record.
Known(f) == server = "down" => \E x \in rec : x.file = f /\ x.mtime <= disk[f].mtime

There(f) == ModFollows(f) /\ ReadAgain(f) /\ Known(f) /\ (Shown(f) \/ Pending(f))

\* The last thing that is done about a file that is gone is to delete its
\* chunks.
Gone(f) ==
  \/ "rem" \in ev[f]
  \/ /\ \A i \in DOMAIN queue : f \in queue[i].mods =>
          \E j \in DOMAIN queue : j > i /\ f \in queue[j].rems
     /\ \/ \E j \in DOMAIN queue : f \in queue[j].rems
        \/ f \in worker.rems /\ f \notin worker.mods
        \/ RowsOf(f) = {} /\ f \notin worker.mods /\ \A r \in Runner : f \notin run[r].valid

\* A record is of the chunks of its file unless these are being replaced or
\* it is about to be removed.
RecordsMirror ==
  \A x \in rec : \/ Mirrors(x.file, x.hash)
                 \/ worker.at = "forget" /\ x.file \in worker.cur
                 \/ \E r \in Runner : \E y \in run[r].recs : y.file = x.file

Emptied == worker.at = "forget" => \A f \in worker.cur : RowsOf(f) = {}

NothingLost ==
  /\ Calm /\ RecordsMirror /\ Emptied
  /\ \A f \in File : disk[f].listed => There(f)
  /\ \A f \in File \ moved : ~disk[f].listed => Gone(f)

\* Nothing fails, nobody edits during the catch-up, and while the server is
\* down files are only written.  All files are text: one that became binary is
\* skipped, keeps its old chunks, and nobody will see to it.
Undisturbed ==
  /\ ~CanRace /\ ~CanFail /\ ~CanStop
  /\ Offline \subseteq {"write"}
  /\ Readable = Version

\* What a step of a run reads is on disk, and it changes the index of files it
\* will write records for, which it does when their chunks are complete.
Progress(r) ==
  /\ \A x \in run'[r].reads \cup run'[r].tocommit \cup run'[r].recs :
       \/ x \in run[r].reads \cup run[r].tocommit \cup run[r].recs
       \/ x.hash = disk[x.file].ver
  /\ \A f \in File : \/ RowsOf(f)' = RowsOf(f)
                     \/ \E x \in run'[r].recs : x.file = f
  /\ run'[r].valid \subseteq run[r].valid
  /\ \/ rec' = rec /\ run[r].recs \subseteq run'[r].recs
     \/ /\ rows' = rows /\ vecs' = vecs /\ cut' = cut
        /\ rec' = {x \in rec : \A y \in run[r].recs : y.file # x.file} \cup run[r].recs
        /\ \A x \in run[r].recs : Mirrors(x.file, x.hash)

\* Its file stays in the run until it is up to date.
Indexes(r) ==
  \A f \in File : disk[f].listed /\ WillIndex(r, f) => WillIndex(r, f)' \/ Shown(f)'

LEMMA StatFileDoes ==
  ASSUME TypeOK, NEW r \in Runner, Sound(run[r]), NEW f \in run[r].todo, StatFile(r, f)
  PROVE  Progress(r) /\ Indexes(r)
<1> DEFINE q == run[r]
           p == run'[r]
           s == [file |-> f, mtime |-> disk[f].mtime, size |-> Size[disk[f].ver]]
<1>1. /\ UNCHANGED <<disk, rows, vecs, rec, cut>>
      /\ SameRun(q, p)
      /\ p.todo = q.todo \ {f}
      /\ p.stats = IF disk[f].listed THEN q.stats \cup {s} ELSE q.stats
      /\ p.reads = q.reads /\ p.tocommit = q.tocommit /\ p.recs = q.recs
  BY StatFileIs
<1>2. s.file = f
  OBVIOUS
<1> HIDE DEF s
<1>3. Progress(r)
  BY <1>1 DEF Progress, RowsOf, SameRun
<1>4. Indexes(r)
  BY <1>1, <1>2 DEF Indexes, WillIndex, Files
<1> QED BY <1>3, <1>4

LEMMA ReadFileDoes ==
  ASSUME TypeOK, NEW r \in Runner, Sound(run[r]), NEW s \in run[r].stats, ReadFile(r, s),
         Readable = Version
  PROVE  Progress(r) /\ Indexes(r)
<1> DEFINE q == run[r]
           p == run'[r]
           x == [file |-> s.file, mtime |-> s.mtime, size |-> s.size,
                 hash |-> disk[s.file].ver]
<1>1. /\ UNCHANGED <<disk, rows, vecs, rec, cut>>
      /\ SameRun(q, p)
      /\ p.stats = q.stats \ {s}
      /\ p.reads = IF disk[s.file].listed /\ disk[s.file].ver \in Readable
                   THEN q.reads \cup {x} ELSE q.reads
      /\ p.todo = q.todo /\ p.tocommit = q.tocommit /\ p.recs = q.recs
  BY ReadFileIs
<1>2. x.file = s.file /\ x.hash = disk[s.file].ver /\ disk[s.file].ver \in Readable
  BY RunType, DiskType DEF Stat
<1> HIDE DEF x
<1>3. Progress(r)
  BY <1>1, <1>2 DEF Progress, RowsOf, SameRun
<1>4. Indexes(r)
  BY <1>1, <1>2 DEF Indexes, WillIndex, Files
<1> QED BY <1>3, <1>4

\* A file is skipped when its record is of the chunks in the index.
LEMMA CheckFileDoes ==
  ASSUME TypeOK, NEW r \in Runner, Sound(run[r]), NEW x \in run[r].reads, CheckFile(r, x),
         \A y \in rec : Mirrors(y.file, y.hash) \/ \E z \in run[r].recs : z.file = y.file
  PROVE  Progress(r) /\ Indexes(r)
<1> DEFINE q == run[r]
           p == run'[r]
<1>1. /\ UNCHANGED <<disk, rows, vecs, rec, cut>>
      /\ SameRun(q, p)
      /\ p.reads = q.reads \ {x}
      /\ \/ x \in rec /\ p.tocommit = q.tocommit
         \/ x \notin rec /\ p.tocommit = q.tocommit \cup {x}
      /\ p.todo = q.todo /\ p.stats = q.stats /\ p.recs = q.recs
  BY CheckFileIs
<1>2. x \in rec => Mirrors(x.file, x.hash)
  BY DEF Sound, Stages
<1>3. Progress(r)
  BY <1>1 DEF Progress, RowsOf, SameRun
<1>4. ASSUME NEW f \in File, disk[f].listed, WillIndex(r, f)
      PROVE  WillIndex(r, f)' \/ Shown(f)'
  <2>1. CASE x \in rec /\ x.file = f /\ x.hash = disk[f].ver
    BY <1>1, <1>2, <1>4, <2>1 DEF Shown, Mirrors, RowsOf
  <2>2. CASE ~(x \in rec /\ x.file = f /\ x.hash = disk[f].ver)
    BY <1>1, <1>4, <2>2 DEF WillIndex, Files
  <2> QED BY <2>1, <2>2
<1> QED BY <1>3, <1>4 DEF Indexes

LEMMA CommitFileDoes ==
  ASSUME TypeOK, NEW r \in Runner, Sound(run[r]), NEW x \in run[r].tocommit, CommitFile(r, x)
  PROVE  Progress(r) /\ Indexes(r)
<1> DEFINE q == run[r]
           p == run'[r]
<1>1. /\ disk' = disk /\ rec' = rec
      /\ SameRun(q, p)
      /\ p.tocommit = q.tocommit \ {x}
      /\ p.recs = q.recs \cup {x}
      /\ p.todo = q.todo /\ p.stats = q.stats /\ p.reads = q.reads
  BY CommitFileIs
<1>2. \A g \in File : g # x.file => RowsOf(g)' = RowsOf(g)
  BY CommitFileIs
<1>3. Progress(r)
  BY <1>1, <1>2 DEF Progress, SameRun
<1>4. Indexes(r)
  BY <1>1 DEF Indexes, WillIndex, Files
<1> QED BY <1>3, <1>4

LEMMA EmbedBatchDoes ==
  ASSUME TypeOK, NEW r \in Runner, Sound(run[r]), EmbedBatch(r)
  PROVE  Progress(r) /\ Indexes(r)
<1> DEFINE q == run[r]
           p == run'[r]
<1>1. /\ disk' = disk /\ rec' = rec
      /\ SameRun(q, p)
      /\ p.recs = q.recs /\ p.tocommit = q.tocommit
      /\ p.todo = q.todo /\ p.stats = q.stats /\ p.reads = q.reads
  BY EmbedBatchIs
<1>2. \A g : (\A x \in q.recs : x.file # g) => RowsOf(g)' = RowsOf(g)
  BY EmbedBatchIs
<1>3. Progress(r)
  BY <1>1, <1>2 DEF Progress, SameRun
<1>4. Indexes(r)
  BY <1>1 DEF Indexes, WillIndex, Files
<1> QED BY <1>3, <1>4

LEMMA UpsertRecordsDoes ==
  ASSUME TypeOK, NEW r \in Runner, FilesRun(run[r]), UpsertRecords(r)
  PROVE  Progress(r) /\ Indexes(r)
<1> DEFINE q == run[r]
           p == run'[r]
<1>1. /\ disk' = disk /\ rows' = rows /\ vecs' = vecs /\ cut' = cut
      /\ q.todo = {} /\ q.stats = {} /\ q.reads = {} /\ q.tocommit = {}
      /\ rec' = {x \in rec : \A y \in q.recs : y.file # x.file} \cup q.recs
      /\ \A x \in q.recs : Mirrors(x.file, x.hash)
      /\ p = IdleRun
  BY UpsertRecordsIs DEF FilesRun
<1>2. IdleRun.reads = {} /\ IdleRun.tocommit = {} /\ IdleRun.recs = {} /\ IdleRun.valid = {}
  BY DEF IdleRun
<1>3. Progress(r)
  BY <1>1, <1>2 DEF Progress, RowsOf
<1>4. ASSUME NEW f \in File, disk[f].listed, WillIndex(r, f)
      PROVE  Shown(f)'
  <2>1. Mirrors(f, disk[f].ver)
    BY <1>1, <1>4 DEF WillIndex, Files
  <2> QED BY <1>1, <1>4, <2>1 DEF Shown, Mirrors, RowsOf
<1> QED BY <1>3, <1>4 DEF Indexes

LEMMA RunStepDoes ==
  ASSUME TypeOK, NEW r \in Runner, FilesRun(run[r]), RunStep(r), Readable = Version,
         \A y \in rec : Mirrors(y.file, y.hash) \/ \E z \in run[r].recs : z.file = y.file
  PROVE  Progress(r) /\ Indexes(r)
<1>1. ~ListStale(r) /\ \A f \in run[r].stale : ~DeleteStaleVectors(r, f) /\ ~DeleteStaleChunks(r, f)
  BY DEF ListStale, DeleteStaleVectors, DeleteStaleChunks, FilesRun
<1> QED BY <1>1, StatFileDoes, ReadFileDoes, CheckFileDoes, CommitFileDoes,
           EmbedBatchDoes, UpsertRecordsDoes DEF RunStep, FilesRun

LEMMA NothingLostInit ==
  ASSUME AutoSyncInit
  PROVE  NothingLost
<1>1. Calm
  BY CalmInit
<1>2. /\ server = "down" /\ ev = [f \in File |-> {}] /\ queue = <<>>
      /\ worker = IdleWorker
  BY DEF AutoSyncInit
<1>3. worker.at = "wait" /\ worker.rems = {} /\ worker.mods = {}
  BY <1>2 DEF IdleWorker
<1>4. RecordsMirror /\ Emptied
  BY <1>3, IndexAsMade DEF RecordsMirror, Emptied
<1>5. \A r \in Runner : run[r].reads = {} /\ run[r].tocommit = {} /\ run[r].recs = {}
                          /\ run[r].valid = {}
  BY IndexAsMade DEF IdleRun
<1>6. ASSUME NEW f \in File, disk[f].listed
      PROVE  There(f)
  <2>1. ModFollows(f) /\ ReadAgain(f)
    BY <1>2, <1>3, <1>5 DEF ModFollows, ReadAgain
  <2>2. Known(f) /\ Shown(f)
    BY <1>1, <1>6, IndexAsMade, DiskType DEF Known, Shown, Calm
  <2> QED BY <2>1, <2>2 DEF There
<1>7. ASSUME NEW f \in File, ~disk[f].listed
      PROVE  Gone(f)
  BY <1>2, <1>3, <1>5, <1>7, IndexAsMade DEF Gone
<1> QED BY <1>1, <1>4, <1>6, <1>7 DEF NothingLost

\* The user: an event comes with every change.
LEMMA UserLosesNothing ==
  ASSUME NothingLost, Undisturbed, UserStep
  PROVE  NothingLost'
<1>1. PICK f \in File : \/ \E v \in Version : Edit(f, v)
                        \/ Remove(f)
                        \/ \E g \in File : Rename(f, g)
  BY DEF UserStep
<1>2. UNCHANGED <<rows, vecs, rec, run, cut, server, queue, worker>>
  BY <1>1 DEF Edit, Write, Remove, Unlist, Rename
<1>3. Calm' /\ server \in {"down", "up"}
  BY <1>1, UserIsCalm, EditsAreCalm
     DEF NothingLost, Undisturbed, Edit, Remove, Rename
<1>4. RecordsMirror' /\ Emptied'
  BY <1>2 DEF NothingLost, RecordsMirror, Emptied, Mirrors, RowsOf
<1>5. disk \in [File -> DiskFile] /\ ev \in [File -> SUBSET {"mod", "rem"}]
  BY DEF NothingLost, Calm, TypeOK, WatchTypeOK
\* What one event does to the file it is of.
<1>6. ASSUME NEW g \in File, "mod" \in ev'[g], server = "up"
      PROVE  There(g)'
  <2>1. Coming(g)'
    BY <1>6 DEF Coming
  <2> QED BY <1>2, <1>6, <2>1 DEF There, ModFollows, ReadAgain, Known, Pending
<1>7. ASSUME NEW g \in File, "rem" \in ev'[g]
      PROVE  Gone(g)'
  BY <1>7 DEF Gone
\* And to another.
<1>8. ASSUME NEW g \in File, disk'[g] = disk[g], ev'[g] = ev[g], disk[g].listed
      PROVE  There(g)'
  <2>1. There(g)
    BY <1>8 DEF NothingLost
  <2>2. ModFollows(g)' /\ ReadAgain(g)' /\ Known(g)'
    BY <1>2, <1>8, <2>1 DEF There, ModFollows, ReadAgain, Known, Coming
  <2>3. Shown(g) => Shown(g)'
    BY <1>2, <1>8 DEF Shown, Mirrors, RowsOf
  <2>4. g \in Files(Outdated) => g \in Files(Outdated)'
    BY <1>2, <1>8 DEF Outdated, Files
  <2>5. \A r \in Runner : WillIndex(r, g) => WillIndex(r, g)'
    BY <1>2, <1>8 DEF WillIndex
  <2>6. Pending(g) => Pending(g)'
    BY <1>2, <1>8, <2>4, <2>5 DEF Pending, Coming
  <2> QED BY <2>1, <2>2, <2>3, <2>6 DEF There
<1>9. ASSUME NEW g \in File, ev'[g] = ev[g], Gone(g)
      PROVE  Gone(g)'
  BY <1>2, <1>9 DEF Gone, RowsOf
<1>10. CASE \E v \in Version : Edit(f, v)
  <2>1. PICK v \in Version : Edit(f, v)
    BY <1>10
  <2>2. PICK n \in 1..MaxMtime :
          /\ IsNow(n)
          /\ disk' = [disk EXCEPT ![f] = [listed |-> TRUE, ver |-> v, mtime |-> n]]
    BY <2>1 DEF Edit, Write
  <2>3. disk'[f].listed /\ disk'[f].mtime = n /\ disk[f].mtime < n
          /\ n \in Nat /\ disk[f].mtime \in Nat
    BY <1>5, <2>2, IndexerAssumption DEF IsNow, DiskFile
  <2>4. \A g \in File : g # f => disk'[g] = disk[g]
    BY <1>5, <2>2
  <2>5. moved' = moved \ {f}
    BY <2>1 DEF Edit
  <2>6. CASE server = "up"
    <3>1. "mod" \in ev'[f] /\ \A g \in File : g # f => ev'[g] = ev[g]
      BY <2>1, <2>6 DEF Edit, Notify
    <3>2. \A g \in File : disk'[g].listed => There(g)'
      BY <1>6, <1>8, <2>4, <2>6, <3>1
    <3>3. \A g \in File \ moved' : ~disk'[g].listed => Gone(g)'
      BY <1>9, <2>3, <2>4, <2>5, <3>1 DEF NothingLost
    <3> QED BY <1>3, <1>4, <3>2, <3>3 DEF NothingLost
  <2>7. CASE server = "down"
    <3>1. \A g \in File : ev'[g] = ev[g]
      BY <2>1, <2>7 DEF Edit, Notify, NothingLost, Calm, Quiet
    <3>2. disk[f].listed
      BY <2>1, <2>7 DEF Edit, MayDo, Undisturbed
    <3>3. There(f)
      BY <3>2 DEF NothingLost
    <3>4. PICK x \in rec : x.file = f /\ x.mtime <= disk[f].mtime
      BY <2>7, <3>3 DEF There, Known
    <3>5. x.mtime \in Nat
      BY DEF NothingLost, Calm, TypeOK, FileRecord
    <3>6. Known(f)' /\ f \in Files(Outdated)'
      BY <1>2, <2>3, <3>4, <3>5 DEF Known, Outdated, Files
    <3>7. ReadAgain(f)'
      BY <1>2, <2>7, OneAtATime DEF ReadAgain, NothingLost, Calm, Quiet, IdleRun, IdleWorker
    <3>8. ModFollows(f)'
      BY <1>2, <3>1, <3>3 DEF There, ModFollows, Coming
    <3>9. There(f)'
      BY <1>2, <2>7, <3>6, <3>7, <3>8 DEF There, Pending
    <3>10. \A g \in File : disk'[g].listed => There(g)'
      BY <1>8, <2>4, <3>1, <3>9
    <3>11. \A g \in File \ moved' : ~disk'[g].listed => Gone(g)'
      BY <1>9, <2>3, <2>4, <2>5, <3>1 DEF NothingLost
    <3> QED BY <1>3, <1>4, <3>10, <3>11 DEF NothingLost
  <2> QED BY <1>3, <2>6, <2>7
<1>11. CASE Remove(f)
  <2>1. server = "up"
    BY <1>3, <1>11 DEF Remove, MayDo, Undisturbed
  <2>2. /\ \A g \in File : g # f => disk'[g] = disk[g] /\ ev'[g] = ev[g]
        /\ ~disk'[f].listed /\ "rem" \in ev'[f] /\ moved' = moved
    BY <1>5, <1>11, <2>1 DEF Remove, Unlist, Notify, DiskFile
  <2>3. \A g \in File : disk'[g].listed => There(g)'
    BY <1>8, <2>2
  <2>4. \A g \in File \ moved' : ~disk'[g].listed => Gone(g)'
    BY <1>7, <1>9, <2>2 DEF NothingLost
  <2> QED BY <1>3, <1>4, <2>3, <2>4 DEF NothingLost
<1>12. CASE \E g \in File : Rename(f, g)
  <2>1. PICK g \in File : Rename(f, g)
    BY <1>12
  <2>2. server = "up"
    BY <1>3, <2>1 DEF Rename, MayDo, Undisturbed
  <2>3. /\ \A h \in File : h \notin {f, g} => disk'[h] = disk[h] /\ ev'[h] = ev[h]
        /\ disk[f].listed /\ ~disk[g].listed
        /\ disk'[f] = disk[g]
        /\ "mod" \in ev'[g] /\ moved' = (moved \cup {f}) \ {g}
    BY <1>5, <2>1, <2>2 DEF Rename, Notify, DiskFile
  <2>4. \A h \in File : disk'[h].listed => There(h)'
    BY <1>6, <1>8, <2>2, <2>3
  <2>5. disk'[g].listed
    BY <1>5, <2>1 DEF Rename
  <2>6. \A h \in File \ moved' : ~disk'[h].listed => Gone(h)'
    BY <1>9, <2>3, <2>5 DEF NothingLost
  <2> QED BY <1>3, <1>4, <2>4, <2>6 DEF NothingLost
<1> QED BY <1>1, <1>10, <1>11, <1>12

\* The debouncer: what it holds back of a file goes into the last batch.
LEMMA FlushLosesNothing ==
  ASSUME NothingLost, Undisturbed, NEW fs \in SUBSET Held, Flush(fs)
  PROVE  NothingLost'
<1> DEFINE b == BatchOf(fs)
           n == Len(queue)
<1>1. /\ UNCHANGED <<disk, rows, vecs, rec, cut, run, server, worker, moved>>
      /\ ev' = [f \in File |-> IF f \in fs THEN {} ELSE ev[f]]
      /\ queue \in Seq(Batch) /\ n \in Nat /\ DOMAIN queue = 1..n
  BY DEF Flush, vars, NothingLost, Calm, WatchTypeOK
<1>2. Calm'
  BY BatchesAreCalm DEF NothingLost
<1>3. RecordsMirror' /\ Emptied'
  BY <1>1 DEF NothingLost, RecordsMirror, Emptied, Mirrors, RowsOf
<1>4. \A f \in File : /\ f \in b.mods <=> f \in fs /\ "mod" \in ev[f] /\ disk[f].listed
                      /\ f \in b.rems <=> f \in fs /\ "rem" \in ev[f]
  BY DEF BatchOf
<1>5. /\ b.mods = {} /\ b.rems = {} => queue' = queue
      /\ b.mods # {} \/ b.rems # {} => queue' = queue \o <<b>>
  <2>1. queue' = queue \o (IF b.mods = {} /\ b.rems = {} THEN <<>> ELSE <<b>>)
    BY DEF Flush
  <2>2. queue \o <<>> = queue
    BY <1>1
  <2> HIDE DEF b
  <2>3. CASE b.mods = {} /\ b.rems = {}
    BY <2>1, <2>2, <2>3
  <2>4. CASE ~(b.mods = {} /\ b.rems = {})
    BY <2>1, <2>4
  <2> QED BY <2>3, <2>4
<1> HIDE DEF b, n
<1>6. \/ queue' = queue /\ b.mods = {} /\ b.rems = {}
      \/ /\ DOMAIN queue' = 1..(n + 1)
         /\ \A i \in 1..n : queue'[i] = queue[i]
         /\ queue'[n + 1] = b
  BY <1>1, <1>5 DEF n
<1>7. ASSUME NEW f \in File, disk[f].listed, Coming(f)
      PROVE  Coming(f)'
  <2>1. CASE \E i \in DOMAIN queue : f \in queue[i].mods
    BY <1>1, <1>6, <2>1 DEF Coming
  <2>2. CASE "mod" \in ev[f] /\ f \in fs
    BY <1>1, <1>4, <1>6, <1>7, <2>2 DEF Coming
  <2>3. CASE "mod" \in ev[f] /\ f \notin fs
    BY <1>1, <2>3 DEF Coming
  <2> QED BY <1>7, <2>1, <2>2, <2>3 DEF Coming
<1>8. ASSUME NEW f \in File, disk[f].listed
      PROVE  There(f)'
  <2>1. There(f)
    BY <1>8 DEF NothingLost
  <2>2. \A i \in DOMAIN queue' : f \in queue'[i].rems =>
          "mod" \in ev'[f] \/ \E j \in DOMAIN queue' : j >= i /\ f \in queue'[j].mods
    <3> SUFFICES ASSUME NEW i \in DOMAIN queue', f \in queue'[i].rems, "mod" \notin ev'[f]
                 PROVE  \E j \in DOMAIN queue' : j >= i /\ f \in queue'[j].mods
      OBVIOUS
    <3>1. CASE i \in 1..n
      <4>1. f \in queue[i].rems
        BY <1>6, <3>1
      <4>2. CASE "mod" \in ev[f]
        <5>1. f \in fs /\ f \in b.mods
          BY <1>1, <1>4, <1>8, <4>2
        <5>2. n + 1 >= i
          BY <1>1, <3>1
        <5> QED BY <1>1, <1>6, <5>1, <5>2
      <4>3. CASE "mod" \notin ev[f]
        <5>1. PICK j \in DOMAIN queue : j >= i /\ f \in queue[j].mods
          BY <1>1, <2>1, <3>1, <4>1, <4>3 DEF There, ModFollows
        <5>2. j \in DOMAIN queue' /\ queue'[j] = queue[j]
          BY <1>1, <1>6, <5>1
        <5> QED BY <5>1, <5>2
      <4> QED BY <4>2, <4>3
    <3>2. CASE i \notin 1..n
      <4>1. f \in b.rems /\ i = n + 1 /\ queue'[i] = b
        BY <1>1, <1>6, <3>2
      <4>2. f \in b.mods
        BY <1>4, <1>8, <2>1, <4>1 DEF There, ModFollows
      <4> QED BY <1>1, <4>1, <4>2
    <3> QED BY <3>1, <3>2
  <2>3. ModFollows(f)'
    BY <1>1, <1>7, <1>8, <2>1, <2>2 DEF There, ModFollows
  <2>4. ReadAgain(f)' /\ Known(f)'
    BY <1>1, <1>7, <1>8, <2>1 DEF There, ReadAgain, Known
  <2>5. (Shown(f) => Shown(f)') /\ (Pending(f) => Pending(f)')
    BY <1>1, <1>7, <1>8 DEF Shown, Mirrors, RowsOf, Pending, WillIndex, Outdated
  <2> QED BY <2>1, <2>3, <2>4, <2>5 DEF There
<1>9. ASSUME NEW f \in File, ~disk[f].listed, Gone(f)
      PROVE  Gone(f)'
  <2>1. f \notin b.mods
    BY <1>4, <1>9
  <2>2. CASE f \in b.rems
    <3>1. n + 1 \in DOMAIN queue' /\ f \in queue'[n + 1].rems
      BY <1>1, <1>6, <2>2
    <3>2. ASSUME NEW i \in DOMAIN queue', f \in queue'[i].mods
          PROVE  n + 1 > i
      BY <1>1, <1>6, <2>1, <2>2, <3>2
    <3> QED BY <3>1, <3>2 DEF Gone
  <2>3. CASE f \notin b.rems
    <3>1. "rem" \in ev[f] => "rem" \in ev'[f]
      BY <1>1, <1>4, <2>3
    <3>2. ASSUME NEW i \in DOMAIN queue', f \in queue'[i].mods \/ f \in queue'[i].rems
          PROVE  i \in DOMAIN queue /\ queue'[i] = queue[i]
      BY <1>1, <1>6, <2>1, <2>3, <3>2
    <3>3. \A i \in DOMAIN queue : i \in DOMAIN queue' /\ queue'[i] = queue[i]
      BY <1>1, <1>6
    <3>4. RowsOf(f)' = RowsOf(f)
      BY <1>1 DEF RowsOf
    <3> QED BY <1>1, <1>9, <3>1, <3>2, <3>3, <3>4 DEF Gone
  <2> QED BY <2>2, <2>3
<1> QED BY <1>1, <1>2, <1>3, <1>8, <1>9 DEF NothingLost

\* The worker takes the next batch.
LEMMA TakeLosesNothing ==
  ASSUME NothingLost, Undisturbed, TakeBatch
  PROVE  NothingLost'
<1> DEFINE b == Head(queue)
           n == Len(queue)
<1>1. /\ UNCHANGED <<disk, rows, vecs, rec, cut, run, server, ev, moved>>
      /\ queue \in Seq(Batch) /\ n \in Nat /\ DOMAIN queue = 1..n /\ queue # <<>>
      /\ queue' = Tail(queue)
      /\ worker.at = "wait"
  BY DEF TakeBatch, vars, NothingLost, Calm, WatchTypeOK
<1>2. n >= 1 /\ queue[1] = b /\ b \in Batch
  BY <1>1
<1>3. /\ DOMAIN queue' = 1..(n - 1)
      /\ \A i \in 1..(n - 1) : i + 1 \in 1..n /\ queue'[i] = queue[i + 1]
  BY <1>1, <1>2
<1>4. /\ worker'.mods = b.mods /\ worker'.rems = b.rems
      /\ worker'.at \in {"remove", "begin", "wait"}
      /\ b.mods # {} => worker'.at # "wait"
  BY <1>2 DEF TakeBatch, Continue, IdleWorker, Batch
<1>5. Calm'
  BY BatchesAreCalm DEF NothingLost
<1>6. server = "up" /\ \A r \in Runner : run[r] = IdleRun
  BY <1>1, OneAtATime DEF NothingLost
<1>7. worker.rems = {}
  BY <1>1 DEF NothingLost, Calm, Quiet
<1> HIDE DEF b, n
<1>8. RecordsMirror' /\ Emptied'
  BY <1>1, <1>4 DEF NothingLost, RecordsMirror, Emptied, Mirrors, RowsOf
<1>9. \A i \in 1..n : i = 1 \/ (i - 1 \in DOMAIN queue' /\ queue'[i - 1] = queue[i])
  <2> SUFFICES ASSUME NEW i \in 1..n, i # 1
               PROVE  i - 1 \in DOMAIN queue' /\ queue'[i - 1] = queue[i]
    OBVIOUS
  <2>1. i - 1 \in 1..(n - 1) /\ (i - 1) + 1 = i
    BY <1>1, <1>2
  <2> QED BY <1>3, <2>1
<1>10. ASSUME NEW f \in File, Coming(f)
       PROVE  Coming(f)' \/ f \in b.mods
  BY <1>1, <1>2, <1>9, <1>10 DEF Coming
<1>11. ASSUME NEW f \in File, disk[f].listed
       PROVE  There(f)'
  <2>1. There(f)
    BY <1>11 DEF NothingLost
  <2>2. \A i \in DOMAIN queue' : f \in queue'[i].rems =>
          "mod" \in ev'[f] \/ \E j \in DOMAIN queue' : j >= i /\ f \in queue'[j].mods
    <3> SUFFICES ASSUME NEW i \in DOMAIN queue', f \in queue'[i].rems, "mod" \notin ev[f]
                 PROVE  \E j \in DOMAIN queue' : j >= i /\ f \in queue'[j].mods
      BY <1>1
    <3>1. i \in 1..(n - 1) /\ i + 1 \in DOMAIN queue /\ f \in queue[i + 1].rems
      BY <1>1, <1>3
    <3>2. PICK j \in DOMAIN queue : j >= i + 1 /\ f \in queue[j].mods
      BY <2>1, <3>1 DEF There, ModFollows
    <3>3. j # 1 /\ j - 1 >= i
      BY <1>1, <3>1, <3>2
    <3> QED BY <1>1, <1>9, <3>2, <3>3
  <2>3. f \in b.rems => f \in b.mods \/ Coming(f)'
    <3>1. f \in b.rems => Coming(f)
      BY <1>1, <1>2, <2>1 DEF There, ModFollows, Coming
    <3> QED BY <1>10, <3>1
  <2>4. ModFollows(f)'
    BY <1>1, <1>4, <2>1, <2>2, <2>3 DEF There, ModFollows
  <2>5. ReadAgain(f)' /\ Known(f)'
    BY <1>1, <1>6 DEF ReadAgain, Known, IdleRun
  <2>6. Shown(f) => Shown(f)'
    BY <1>1 DEF Shown, Mirrors, RowsOf
  <2>7. Pending(f) => Pending(f)'
    <3>1. Coming(f) => Pending(f)'
      BY <1>4, <1>10 DEF Pending
    <3>2. Pending(f) => Coming(f)
      BY <1>1, <1>6 DEF Pending, WillIndex, IdleRun, Files
    <3> QED BY <3>1, <3>2
  <2> QED BY <2>1, <2>4, <2>5, <2>6, <2>7 DEF There
<1>12. ASSUME NEW f \in File, Gone(f)
       PROVE  Gone(f)'
  <2>1. CASE "rem" \in ev[f]
    BY <1>1, <2>1 DEF Gone
  <2>2. CASE "rem" \notin ev[f]
    <3>1. \A i \in DOMAIN queue : f \in queue[i].mods =>
            \E j \in DOMAIN queue : j > i /\ f \in queue[j].rems
      BY <1>12, <2>2 DEF Gone
    <3>2. \A i \in DOMAIN queue' : f \in queue'[i].mods =>
            \E j \in DOMAIN queue' : j > i /\ f \in queue'[j].rems
      <4> SUFFICES ASSUME NEW i \in DOMAIN queue', f \in queue'[i].mods
                   PROVE  \E j \in DOMAIN queue' : j > i /\ f \in queue'[j].rems
        OBVIOUS
      <4>1. i \in 1..(n - 1) /\ i + 1 \in DOMAIN queue /\ f \in queue[i + 1].mods
        BY <1>1, <1>3
      <4>2. PICK j \in DOMAIN queue : j > i + 1 /\ f \in queue[j].rems
        BY <3>1, <4>1
      <4>3. j # 1 /\ j - 1 > i
        BY <1>1, <4>1, <4>2
      <4> QED BY <1>1, <1>9, <4>2, <4>3
    <3>3. CASE \E j \in DOMAIN queue' : f \in queue'[j].rems
      BY <3>2, <3>3 DEF Gone
    <3>4. CASE ~\E j \in DOMAIN queue' : f \in queue'[j].rems
      <4>1. \A j \in DOMAIN queue : f \in queue[j].rems => j = 1
        BY <1>1, <1>9, <3>4
      <4>2. f \notin b.mods
        <5> SUFFICES ASSUME f \in b.mods
                     PROVE  FALSE
          OBVIOUS
        <5>1. 1 \in DOMAIN queue /\ f \in queue[1].mods
          BY <1>1, <1>2
        <5>2. PICK j \in DOMAIN queue : j > 1 /\ f \in queue[j].rems
          BY <3>1, <5>1
        <5> QED BY <1>1, <4>1, <5>2
      <4>3. CASE \E j \in DOMAIN queue : f \in queue[j].rems
        BY <1>2, <1>4, <3>2, <4>1, <4>2, <4>3 DEF Gone
      <4>4. CASE ~\E j \in DOMAIN queue : f \in queue[j].rems
        <5>1. RowsOf(f) = {}
          BY <1>7, <1>12, <2>2, <4>4 DEF Gone
        <5>2. RowsOf(f)' = {} /\ \A r \in Runner : f \notin run'[r].valid
          BY <1>1, <1>6, <5>1 DEF RowsOf, IdleRun
        <5> QED BY <1>4, <3>2, <4>2, <5>2 DEF Gone
      <4> QED BY <4>3, <4>4
    <3> QED BY <3>3, <3>4
  <2> QED BY <2>1, <2>2
<1> QED BY <1>1, <1>5, <1>8, <1>11, <1>12 DEF NothingLost

\* It deletes the vectors of a file it was told is gone.
LEMMA VectorsLoseNothing ==
  ASSUME NothingLost, Undisturbed, RemoveVectors
  PROVE  NothingLost'
<1>1. PICK g \in worker.rems : worker' = [worker EXCEPT !.at = "drop", !.cur = {g}]
  BY DEF RemoveVectors, Undisturbed
<1>2. /\ UNCHANGED <<disk, rows, rec, run, server, ev, queue, moved>>
      /\ worker.at = "remove"
  BY DEF RemoveVectors
<1>3. worker \in Worker
  BY DEF NothingLost, Calm, WatchTypeOK
<1>4. /\ worker'.at = "drop" /\ worker'.mods = worker.mods /\ worker'.rems = worker.rems
  BY <1>1, <1>3 DEF Worker
<1>5. Calm'
  BY BatchesAreCalm DEF NothingLost
<1>6. \A f : RowsOf(f)' = RowsOf(f)
  BY <1>2 DEF RowsOf
<1>7. Emptied' /\ RecordsMirror'
  BY <1>2, <1>4, <1>6 DEF NothingLost, Emptied, RecordsMirror, Mirrors
<1>8. ASSUME NEW f \in File, disk[f].listed
      PROVE  There(f)'
  <2>1. There(f)
    BY <1>8 DEF NothingLost
  <2>2. ModFollows(f)' /\ ReadAgain(f)' /\ Known(f)'
    BY <1>2, <1>4, <2>1 DEF There, ModFollows, ReadAgain, Known, Coming
  <2>3. Pending(f) => Pending(f)'
    BY <1>2, <1>4 DEF Pending, Coming, WillIndex, Outdated
  <2>4. Shown(f) => Shown(f)'
    BY <1>2, <1>6, <1>8 DEF Shown, Mirrors
  <2> QED BY <2>1, <2>2, <2>3, <2>4 DEF There
<1>9. ASSUME NEW f \in File, Gone(f)
      PROVE  Gone(f)'
  BY <1>2, <1>4, <1>6, <1>9 DEF Gone
<1> QED BY <1>2, <1>5, <1>7, <1>8, <1>9 DEF NothingLost

\* Then its chunks.
LEMMA RemoveLosesNothing ==
  ASSUME NothingLost, Undisturbed, RemoveChunks
  PROVE  NothingLost'
<1>2. /\ UNCHANGED <<disk, rec, run, server, ev, queue, moved>>
      /\ worker.at = "drop"
      /\ worker' = [worker EXCEPT !.at = "forget"]
      /\ rows' = {c \in rows : c.file \notin worker.cur}
  BY DEF RemoveChunks, Undisturbed
<1>1. PICK g \in worker.rems : worker.cur = {g}
  BY <1>2 DEF NothingLost, Calm, Quiet
<1>3. worker \in Worker
  BY DEF NothingLost, Calm, WatchTypeOK
<1>4. /\ worker'.at = "forget" /\ worker'.cur = {g}
      /\ worker'.mods = worker.mods /\ worker'.rems = worker.rems
  BY <1>1, <1>2, <1>3 DEF Worker
<1>5. Calm'
  BY BatchesAreCalm DEF NothingLost
<1>6. server = "up" /\ \A r \in Runner : run[r] = IdleRun
  BY <1>2, OneAtATime DEF NothingLost
<1>7. RowsOf(g)' = {} /\ \A f \in File : f # g => RowsOf(f)' = RowsOf(f)
  BY <1>1, <1>2 DEF RowsOf
<1>8. Emptied'
  BY <1>4, <1>7 DEF Emptied
<1>9. RecordsMirror'
  <2> SUFFICES ASSUME NEW x \in rec
               PROVE  Mirrors(x.file, x.hash)' \/ x.file = g
    BY <1>2, <1>4 DEF RecordsMirror
  <2>1. Mirrors(x.file, x.hash) /\ x.file \in File
    BY <1>2, <1>6 DEF NothingLost, RecordsMirror, IdleRun, Calm, TypeOK, FileRecord
  <2> QED BY <1>2, <1>7, <2>1 DEF Mirrors
<1>10. ASSUME NEW f \in File, disk[f].listed
       PROVE  There(f)'
  <2>1. There(f)
    BY <1>10 DEF NothingLost
  <2>2. ModFollows(f)' /\ ReadAgain(f)' /\ Known(f)'
    BY <1>2, <1>4, <2>1 DEF There, ModFollows, ReadAgain, Known, Coming
  <2>3. Pending(f) => Pending(f)'
    BY <1>2, <1>4 DEF Pending, Coming, WillIndex, Outdated
  <2>4. CASE f = g
    <3>1. f \in worker.mods \/ Coming(f)
      BY <2>1, <2>4 DEF There, ModFollows
    <3>2. Pending(f)
      BY <1>2, <3>1 DEF Pending
    <3> QED BY <2>2, <2>3, <3>2 DEF There
  <2>5. CASE f # g
    <3>1. Shown(f) => Shown(f)'
      BY <1>2, <1>7, <1>10, <2>5 DEF Shown, Mirrors
    <3> QED BY <2>1, <2>2, <2>3, <3>1 DEF There
  <2> QED BY <2>4, <2>5
<1>11. ASSUME NEW f \in File, Gone(f)
       PROVE  Gone(f)'
  <2>1. RowsOf(f) = {} => RowsOf(f)' = {}
    BY <1>1, <1>2 DEF RowsOf
  <2> QED BY <1>2, <1>4, <1>11, <2>1 DEF Gone
<1> QED BY <1>2, <1>5, <1>8, <1>9, <1>10, <1>11 DEF NothingLost

\* And then its record.
LEMMA ForgetLosesNothing ==
  ASSUME NothingLost, Undisturbed, ForgetFile
  PROVE  NothingLost'
<1>1. /\ UNCHANGED <<disk, rows, vecs, run, cut, server, ev, queue, moved>>
      /\ worker.at = "forget"
      /\ rec' = {x \in rec : x.file \notin worker.cur}
      /\ worker' = Continue([worker EXCEPT !.rems = @ \ worker.cur])
  BY DEF ForgetFile, Undisturbed
<1>2. worker \in Worker
  BY DEF NothingLost, Calm, WatchTypeOK
<1>3. /\ worker'.mods = worker.mods /\ worker'.rems = worker.rems \ worker.cur
      /\ worker'.at \in {"remove", "begin", "wait"}
      /\ worker.mods # {} => worker'.at # "wait"
  BY <1>1, <1>2 DEF Continue, Worker
<1>4. Calm'
  BY BatchesAreCalm DEF NothingLost
<1>5. server = "up" /\ \A r \in Runner : run[r] = IdleRun
  BY <1>1, OneAtATime DEF NothingLost
<1>6. \A f : RowsOf(f)' = RowsOf(f)
  BY <1>1 DEF RowsOf
<1>7. Emptied' /\ RecordsMirror'
  BY <1>1, <1>3, <1>5, <1>6 DEF NothingLost, Emptied, RecordsMirror, Mirrors, IdleRun
<1>8. ASSUME NEW f \in File, disk[f].listed
      PROVE  There(f)'
  <2>1. There(f)
    BY <1>8 DEF NothingLost
  <2>2. ModFollows(f)' /\ ReadAgain(f)' /\ Known(f)'
    BY <1>1, <1>3, <1>5, <2>1 DEF There, ModFollows, ReadAgain, Known, Coming
  <2>3. Shown(f) => Shown(f)'
    BY <1>1, <1>6, <1>8 DEF Shown, Mirrors
  <2>4. Pending(f) => Pending(f)'
    BY <1>1, <1>3, <1>5 DEF Pending, Coming, WillIndex
  <2> QED BY <2>1, <2>2, <2>3, <2>4 DEF There
<1>9. ASSUME NEW f \in File, Gone(f)
      PROVE  Gone(f)'
  <2>1. CASE f \in worker.cur
    <3>1. RowsOf(f)' = {} /\ \A r \in Runner : f \notin run'[r].valid
      BY <1>1, <1>5, <1>6, <2>1 DEF NothingLost, Emptied, IdleRun
    <3> QED BY <1>1, <1>3, <1>9, <3>1 DEF Gone
  <2>2. CASE f \notin worker.cur
    BY <1>1, <1>3, <1>6, <1>9, <2>2 DEF Gone
  <2> QED BY <2>1, <2>2
<1> QED BY <1>1, <1>4, <1>7, <1>8, <1>9 DEF NothingLost

\* The worker begins a run: what it has in hand is now in the run.
LEMMA BeginLosesNothing ==
  ASSUME NothingLost, Undisturbed, BeginSync
  PROVE  NothingLost'
<1>1. /\ UNCHANGED <<server, ev, queue, moved>> /\ worker.at = "begin"
      /\ Begin(Watch, FALSE, worker.mods)
      /\ worker' = [worker EXCEPT !.at = "sync"]
  BY DEF BeginSync, StartFiles
<1>2. worker \in Worker
  BY DEF NothingLost, Calm, WatchTypeOK
<1>3. worker'.at = "sync" /\ worker'.mods = worker.mods /\ worker'.rems = worker.rems
  BY <1>1, <1>2 DEF Worker
<1>4. /\ UNCHANGED <<disk, rows, vecs, rec, cut>>
      /\ run'[Watch].valid = worker.mods /\ run'[Watch].todo = worker.mods
      /\ run'[Watch].reads = {} /\ run'[Watch].tocommit = {} /\ run'[Watch].recs = {}
      /\ run' = [run EXCEPT ![Watch] = run'[Watch]]
  BY <1>1, <1>2, BeginIs, OneAtATime DEF Worker, NothingLost, Calm
<1>5. server = "up" /\ \A r \in Runner : run[r] = IdleRun
  BY <1>1, OneAtATime DEF NothingLost
<1>6. Calm'
  BY BeginsAreCalm DEF NothingLost
<1>7. \A r \in Runner : r # Watch => run'[r] = IdleRun
  BY <1>4, <1>5 DEF NothingLost, Calm, TypeOK
<1>8. /\ \A f : RowsOf(f)' = RowsOf(f)
      /\ \A r \in Runner : run'[r].reads = {} /\ run'[r].tocommit = {} /\ run'[r].recs = {}
      /\ \A r \in Runner : run'[r].valid \subseteq worker.mods
      /\ \A r \in Runner, f \in File : ~WillIndex(r, f)
  <2>1. \A f : RowsOf(f)' = RowsOf(f)
    BY <1>4 DEF RowsOf
  <2>2. \A r \in Runner, f \in File : ~WillIndex(r, f)
    BY <1>5 DEF WillIndex, IdleRun, Files
  <2> QED BY <1>4, <1>7, <2>1, <2>2 DEF IdleRun
<1>9. Emptied' /\ RecordsMirror'
  BY <1>1, <1>3, <1>4, <1>5, <1>8
     DEF NothingLost, Emptied, RecordsMirror, Mirrors, IdleRun
<1>10. ASSUME NEW f \in File, disk[f].listed
       PROVE  There(f)'
  <2>1. There(f)
    BY <1>10 DEF NothingLost
  <2>2. ModFollows(f)' /\ ReadAgain(f)' /\ Known(f)'
    BY <1>1, <1>3, <1>4, <1>8, <2>1 DEF There, ModFollows, ReadAgain, Known, Coming
  <2>3. Shown(f) => Shown(f)'
    BY <1>4, <1>8, <1>10 DEF Shown, Mirrors
  <2>4. CASE Pending(f)
    <3>1. CASE Coming(f)
      BY <1>1, <2>2, <3>1 DEF There, Pending, Coming
    <3>2. CASE f \in worker.mods
      <4>1. WillIndex(Watch, f)'
        BY <1>4, <3>2 DEF WillIndex
      <4> QED BY <2>2, <4>1, OneAtATime DEF There, Pending, NothingLost
    <3> QED BY <1>5, <1>8, <2>4, <3>1, <3>2 DEF Pending
  <2> QED BY <2>1, <2>2, <2>3, <2>4 DEF There
<1>11. ASSUME NEW f \in File, Gone(f)
       PROVE  Gone(f)'
  <2>1. worker.rems = {}
    BY <1>1 DEF NothingLost, Calm, Quiet
  <2> QED BY <1>1, <1>3, <1>8, <1>11, <2>1 DEF Gone
<1> QED BY <1>1, <1>4, <1>6, <1>9, <1>10, <1>11 DEF NothingLost

\* The catch-up begins: every file that was written meanwhile is in its run.
LEMMA CatchUpLosesNothing ==
  ASSUME NothingLost, Undisturbed, ListOutdated
  PROVE  NothingLost'
<1> DEFINE changed == Files(Outdated)
<1>1. /\ UNCHANGED <<ev, queue, worker, moved>>
      /\ server = "starting" /\ server' = "up"
      /\ (changed = {} /\ UNCHANGED vars)
           \/ (changed # {} /\ Begin(Catchup, FALSE, changed))
  BY DEF ListOutdated, StartFiles
<1>2. changed \in SUBSET File /\ \A f \in changed : disk[f].listed
  BY DEF Files, Outdated, NothingLost, Calm, TypeOK, FileRecord
<1> HIDE DEF changed
<1>3. /\ \A r \in Runner : run[r] = IdleRun
      /\ Catchup \in Runner /\ TypeOK
      /\ worker = IdleWorker
  BY <1>1, OneAtATime DEF NothingLost, Calm, Quiet, Alone
<1>4. /\ UNCHANGED <<disk, rows, vecs, rec, cut>>
      /\ \A r \in Runner :
           /\ run'[r].reads = {} /\ run'[r].tocommit = {} /\ run'[r].recs = {}
           /\ run'[r].valid \subseteq changed
      /\ run'[Catchup].todo = changed
  <2>1. CASE changed = {} /\ UNCHANGED vars
    BY <1>3, <2>1 DEF vars, IdleRun
  <2>2. CASE Begin(Catchup, FALSE, changed)
    <3>1. /\ UNCHANGED <<disk, rows, vecs, rec, cut>>
          /\ run'[Catchup].valid = changed /\ run'[Catchup].todo = changed
          /\ run'[Catchup].reads = {} /\ run'[Catchup].tocommit = {}
          /\ run'[Catchup].recs = {}
          /\ run' = [run EXCEPT ![Catchup] = run'[Catchup]]
      BY <1>2, <1>3, <2>2, BeginIs
    <3>2. \A r \in Runner : r # Catchup => run'[r] = IdleRun
      BY <1>3, <3>1 DEF TypeOK
    <3> QED BY <3>1, <3>2 DEF IdleRun
  <2> QED BY <1>1, <2>1, <2>2
<1>5. \A f : RowsOf(f)' = RowsOf(f)
  BY <1>4 DEF RowsOf
<1>6. Calm'
  BY BeginsAreCalm DEF NothingLost
<1>7. Emptied' /\ RecordsMirror'
  BY <1>1, <1>3, <1>4, <1>5
     DEF NothingLost, Emptied, RecordsMirror, Mirrors, IdleRun, IdleWorker
<1>8. ASSUME NEW f \in File, disk[f].listed
      PROVE  There(f)'
  <2>1. There(f)
    BY <1>8 DEF NothingLost
  <2>2. ModFollows(f)' /\ ReadAgain(f)' /\ Known(f)'
    BY <1>1, <1>4, <2>1 DEF There, ModFollows, ReadAgain, Known, Coming
  <2>3. Shown(f) => Shown(f)'
    BY <1>4, <1>5, <1>8 DEF Shown, Mirrors
  <2>4. CASE Pending(f)
    <3>1. CASE f \in changed
      <4>1. WillIndex(Catchup, f)'
        BY <1>4, <3>1 DEF WillIndex
      <4> QED BY <1>3, <2>2, <4>1 DEF There, Pending
    <3>2. CASE Coming(f)
      BY <1>1, <2>2, <3>2 DEF There, Pending, Coming
    <3> QED BY <1>3, <2>4, <3>1, <3>2
            DEF Pending, WillIndex, IdleRun, IdleWorker, Files, changed
  <2> QED BY <2>1, <2>2, <2>3, <2>4 DEF There
<1>9. ASSUME NEW f \in File, ~disk[f].listed, Gone(f)
      PROVE  Gone(f)'
  <2>1. f \notin changed
    BY <1>2, <1>9
  <2> QED BY <1>1, <1>3, <1>4, <1>5, <1>9, <2>1 DEF Gone
<1> QED BY <1>1, <1>4, <1>6, <1>7, <1>8, <1>9 DEF NothingLost

\* A run: it has seen the file as it is, or an event is coming that says not.
LEMMA RunsLoseNothing ==
  ASSUME NothingLost, Undisturbed, SyncStep \/ CatchUpStep
  PROVE  NothingLost'
<1>1. PICK r \in {Watch, Catchup} :
        /\ r \in Runner /\ RunStep(r)
        /\ (r = Watch /\ SyncStep) \/ (r = Catchup /\ CatchUpStep)
  BY OneAtATime DEF SyncStep, CatchUpStep, NothingLost
<1>2. /\ Calm' /\ Alone(r) /\ server = "up" /\ disk' = disk
      /\ run' = [run EXCEPT ![r] = run'[r]]
      /\ UNCHANGED <<server, ev, queue, moved>>
      /\ worker.at \in {"wait", "sync"}
      /\ worker' = worker \/ worker' = IdleWorker
  <2>1. run[r] # IdleRun
    BY <1>1, RunStepIsOfARun
  <2>2. r = Catchup => worker.at = "wait"
    BY <2>1, OneAtATime DEF NothingLost
  <2> QED BY <1>1, <2>2, RunsAreCalm DEF NothingLost
<1>3. /\ worker'.at \in {"wait", "sync"} /\ worker.rems = {} /\ worker'.rems = {}
      /\ worker'.mods \subseteq worker.mods
  BY <1>2 DEF NothingLost, Calm, Quiet, IdleWorker
<1>4. \A s \in Runner : s # r => run[s] = IdleRun /\ run'[s] = IdleRun
  BY <1>2 DEF Alone, NothingLost, Calm, TypeOK
<1>5. \A y \in rec : Mirrors(y.file, y.hash) \/ \E z \in run[r].recs : z.file = y.file
  BY <1>2, <1>4 DEF NothingLost, RecordsMirror, IdleRun
<1>6. Progress(r) /\ Indexes(r)
  BY <1>1, <1>5, RunStepDoes DEF NothingLost, Calm, Undisturbed
<1>7. \A f \in File : \/ RowsOf(f)' = RowsOf(f)
                      \/ \E x \in run'[r].recs : x.file = f
  BY <1>6 DEF Progress
<1>8. Emptied'
  BY <1>3 DEF Emptied
<1>9. RecordsMirror'
  <2> SUFFICES ASSUME NEW x \in rec'
               PROVE  Mirrors(x.file, x.hash)' \/ \E y \in run'[r].recs : y.file = x.file
    BY <1>1 DEF RecordsMirror
  <2>1. x.file \in File
    BY <1>2 DEF Calm, TypeOK, FileRecord
  <2>2. CASE rec' = rec /\ run[r].recs \subseteq run'[r].recs
    BY <1>5, <1>7, <2>1, <2>2 DEF Mirrors
  <2>3. CASE ~(rec' = rec /\ run[r].recs \subseteq run'[r].recs)
    <3>1. Mirrors(x.file, x.hash) /\ rows' = rows /\ vecs' = vecs /\ cut' = cut
      BY <1>5, <1>6, <2>3 DEF Progress
    <3> QED BY <3>1 DEF Mirrors, RowsOf
  <2> QED BY <2>2, <2>3
<1>10. ASSUME NEW f \in File, disk[f].listed
       PROVE  There(f)'
  <2>1. There(f)
    BY <1>10 DEF NothingLost
  <2>2. ModFollows(f)' /\ Known(f)'
    BY <1>2, <1>3, <2>1 DEF There, ModFollows, Known, Coming
  <2>3. ReadAgain(f)'
    <3> SUFFICES ASSUME NEW s \in Runner,
                        NEW x \in run'[s].reads \cup run'[s].tocommit \cup run'[s].recs,
                        x.file = f, x.hash # disk[f].ver
                 PROVE  Coming(f)'
      BY <1>2 DEF ReadAgain
    <3>1. s = r
      BY <1>4 DEF IdleRun
    <3>2. x \in run[r].reads \cup run[r].tocommit \cup run[r].recs
      BY <1>6, <3>1 DEF Progress
    <3> QED BY <1>1, <1>2, <2>1, <3>2 DEF There, ReadAgain, Coming
  <2>4. CASE WillIndex(r, f)'
    BY <1>1, <2>2, <2>3, <2>4 DEF There, Pending
  <2>5. CASE ~WillIndex(r, f)'
    <3>1. CASE Pending(f)
      <4>1. CASE Coming(f)
        BY <1>2, <2>2, <2>3, <4>1 DEF There, Pending, Coming
      <4>2. CASE \E s \in Runner : WillIndex(s, f)
        <5>1. WillIndex(r, f)
          BY <1>4, <4>2 DEF WillIndex, IdleRun, Files
        <5>2. Shown(f)'
          BY <1>6, <1>10, <2>5, <5>1 DEF Indexes
        <5> QED BY <2>2, <2>3, <5>2 DEF There
      <4> QED BY <1>2, <3>1, <4>1, <4>2 DEF Pending
    <3>2. CASE Shown(f)
      <4>1. CASE RowsOf(f)' = RowsOf(f)
        <5>1. Shown(f)'
          BY <1>2, <1>10, <3>2, <4>1 DEF Shown, Mirrors
        <5> QED BY <2>2, <2>3, <5>1 DEF There
      <4>2. CASE \E x \in run'[r].recs : x.file = f
        <5>1. PICK x \in run'[r].recs : x.file = f
          BY <4>2
        <5>2. x.hash # disk'[f].ver
          BY <2>5, <5>1 DEF WillIndex
        <5>3. Coming(f)'
          BY <1>1, <2>3, <5>1, <5>2 DEF ReadAgain
        <5> QED BY <2>2, <2>3, <5>3 DEF There, Pending
      <4> QED BY <1>7, <4>1, <4>2
    <3> QED BY <2>1, <3>1, <3>2 DEF There
  <2> QED BY <2>4, <2>5
<1>11. ASSUME NEW f \in File, Gone(f)
       PROVE  Gone(f)'
  <2>1. \A s \in Runner : run'[s].valid \subseteq run[s].valid
    BY <1>4, <1>6 DEF Progress
  <2>2. (\A s \in Runner : f \notin run[s].valid) => RowsOf(f)' = RowsOf(f)
    <3>1. \A x \in run'[r].recs : x.file \in run'[r].valid
      BY <1>1, <1>2 DEF Calm, FilesRun, Sound, Stages
    <3> QED BY <1>1, <1>7, <2>1, <3>1
  <2> QED BY <1>2, <1>3, <1>11, <2>1, <2>2 DEF Gone
<1> QED BY <1>2, <1>8, <1>9, <1>10, <1>11 DEF NothingLost

\* The server starts.
LEMMA StartLosesNothing ==
  ASSUME NothingLost, StartServer \/ UNCHANGED allVars, Calm'
  PROVE  NothingLost'
<1>1. /\ UNCHANGED <<disk, rows, vecs, rec, cut, run, ev, queue, worker, moved>>
      /\ server' = server \/ (server = "down" /\ server' = "starting")
  BY DEF StartServer, allVars, vars, watchVars
<1>2. /\ \A f : RowsOf(f)' = RowsOf(f)
      /\ RecordsMirror' /\ Emptied'
  BY <1>1 DEF NothingLost, RecordsMirror, Emptied, Mirrors, RowsOf
<1>3. ASSUME NEW f \in File, disk[f].listed
      PROVE  There(f)'
  <2>1. There(f)
    BY <1>3 DEF NothingLost
  <2>2. ModFollows(f)' /\ ReadAgain(f)' /\ Known(f)'
    BY <1>1, <2>1 DEF There, ModFollows, ReadAgain, Known, Coming
  <2>3. Shown(f) => Shown(f)'
    BY <1>1, <1>2 DEF Shown, Mirrors
  <2>4. Pending(f) => Pending(f)'
    BY <1>1 DEF Pending, Coming, WillIndex, Outdated
  <2> QED BY <2>1, <2>2, <2>3, <2>4 DEF There
<1>4. ASSUME NEW f \in File, Gone(f)
      PROVE  Gone(f)'
  BY <1>1, <1>2, <1>4 DEF Gone
<1> QED BY <1>1, <1>2, <1>3, <1>4 DEF NothingLost

LEMMA StepLosesNothing ==
  ASSUME NothingLost, Undisturbed, [AutoSyncNext]_allVars
  PROVE  NothingLost'
<1>1. Calm'
  BY CalmStep DEF NothingLost, Undisturbed
<1>2. ~SyncFails /\ ~CatchUpFails /\ ~StopServer
  BY DEF Undisturbed, SyncFails, CatchUpFails, Fail, StopServer
<1> QED BY <1>1, <1>2, UserLosesNothing, FlushLosesNothing, TakeLosesNothing,
           VectorsLoseNothing, RemoveLosesNothing, ForgetLosesNothing, BeginLosesNothing,
           CatchUpLosesNothing, RunsLoseNothing, StartLosesNothing
        DEF AutoSyncNext, WorkerStep

LEMMA NothingIsLost ==
  ASSUME Undisturbed
  PROVE  AutoSyncSpec => []NothingLost
<1>1. AutoSyncInit => NothingLost
  BY NothingLostInit
<1>2. NothingLost /\ [AutoSyncNext]_allVars => NothingLost'
  BY StepLosesNothing
<1> QED BY <1>1, <1>2, PTL DEF AutoSyncSpec

\* While the server is up no change of a file that is there is lost between the
\* debouncer, the channel, the worker and the catch-up, also when it was moved
\* there from elsewhere: for any files, edits and batches.
THEOREM StaleIsSynced ==
  ASSUME Undisturbed
  PROVE  AutoSyncSpec => []StaleIsOnItsWay
<1>1. ASSUME NothingLost, server # "down", NEW f \in File, disk[f].listed, Pending(f)
      PROVE  OnItsWay(f)
  <2>1. CASE Coming(f)
    BY <1>1, <2>1 DEF Coming, OnItsWay, Covers
  <2>2. CASE worker.at \in {"remove", "drop", "forget", "begin"} /\ f \in worker.mods
    BY <1>1, <2>2 DEF OnItsWay, Covers
  <2>3. CASE \E r \in Runner : WillIndex(r, f)
    <3>1. PICK r \in Runner : WillIndex(r, f)
      BY <2>3
    <3>2. run[r] # IdleRun
      BY <3>1 DEF WillIndex, IdleRun, Files
    <3>3. r = Watch \/ r = Catchup
      BY <1>1, <3>2 DEF NothingLost, Calm, Quiet
    <3> QED BY <3>1, <3>3 DEF OnItsWay
  <2>4. CASE server # "up" /\ f \in Files(Outdated)
    BY <1>1, <2>4 DEF OnItsWay, NothingLost, Calm, WatchTypeOK
  <2> QED BY <1>1, <2>1, <2>2, <2>3, <2>4 DEF Pending
<1>2. NothingLost /\ VectorsOK => StaleIsOnItsWay
  BY <1>1, ShownIsSynced DEF NothingLost, There, StaleIsOnItsWay
<1> QED BY <1>2, NothingIsLost, ServedVectors, PTL

\* Nor is a removal: a file that is gone has no chunks or they are about to be
\* deleted, but for a path a file was moved away from.
THEOREM RemovedIsSynced ==
  ASSUME Undisturbed
  PROVE  AutoSyncSpec => []RemovedIsOnItsWay
<1>1. ASSUME NothingLost, NEW f \in File, ~disk[f].listed, Gone(f)
      PROVE  Shown(f) \/ OnItsWay(f)
  <2>1. f \in worker.rems => worker.at \in {"remove", "drop", "forget"}
    BY <1>1 DEF NothingLost, Calm, Quiet, WatchTypeOK, Worker
  <2> QED BY <1>1, <2>1 DEF Gone, Shown, OnItsWay, Covers
<1>2. NothingLost /\ VectorsOK => RemovedIsOnItsWay
  BY <1>1, ShownIsSynced DEF NothingLost, RemovedIsOnItsWay
<1> QED BY <1>2, NothingIsLost, ServedVectors, PTL
=============================================================================
