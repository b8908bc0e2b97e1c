------------------------------- MODULE Indexer -------------------------------
(***************************************************************************)
(* The indexing pipeline of engine/indexer.rs: index_project walks the     *)
(* project, index_files is given its files; both stat, read and chunk each *)
(* file, delete the chunks it lost, embed the new ones in batches, record  *)
(* the file, and the first one deletes what belongs to files that are gone.*)
(*                                                                         *)
(* A run is not one transaction: it commits once per file, once per batch  *)
(* of embeddings, once for all the file records and once per statement of  *)
(* the cleanup: the vectors of a file go before its chunks.  The user edits*)
(* files between any two of these, and any of them may be the last one: the*)
(* embedder fails, the database is busy or the process is killed.          *)
(*                                                                         *)
(* A version of a file stands for its bytes and its hash.  How the tables  *)
(* of vectors and of their row numbers work together is ChunkStore's; the  *)
(* graph tables are Graph's: errors of their statements are dropped.       *)
(***************************************************************************)
EXTENDS Naturals, FiniteSets

CONSTANTS
  File,         \* relative paths
  Version,      \* contents a file may have
  Readable,     \* the versions that are UTF-8: read_to_string fails on others
  Slot,         \* byte ranges: with the file, what a chunk id is the hash of
  Text,         \* chunk contents
  Context,      \* what else is stored of a chunk: lines, symbol, parent
  Layout,       \* the chunks of a version: a set of [slot, text, ctx]
  Size,         \* the size of a version in bytes
  Runner,       \* who may index: CLI, MCP tool, catch-up, watcher
  BatchSize,    \* chunks per request to the embedder
  CanFail,      \* may a run fail or its process die?
  Returning,    \* the files that may come back with the mtime they had
  MaxMtime      \* bound: the last second a file may be written at

Part == [slot : Slot, text : Text, ctx : Context]

ASSUME IndexerAssumption ==
  /\ Readable \subseteq Version
  /\ Layout \in [Version -> SUBSET Part]
  /\ \A v \in Version : \A p, q \in Layout[v] : p.slot = q.slot => p = q
  /\ Size \in [Version -> Nat]
  /\ BatchSize \in Nat \ {0}
  /\ CanFail \in BOOLEAN
  /\ Returning \subseteq File
  /\ MaxMtime \in Nat

VARIABLES
  disk,         \* the project directory
  rows,         \* the chunks table
  vecs,         \* the ids of chunks that have a vector
  rec,          \* the files table
  run,          \* per runner, the run it is in
  cut           \* history: the files with a deletion that has begun and has
                \* not come to its end

vars == <<disk, rows, vecs, rec, run, cut>>

-----------------------------------------------------------------------------
(* Types. *)

\* listed: the file is there.  (That an ignore file or max_file_size comes to
\* hide a file that stays is not modelled.)
DiskFile == [listed : BOOLEAN, ver : Version, mtime : Nat]
Chunk    == [file : File, slot : Slot, text : Text, ctx : Context]
Stat     == [file : File, mtime : Nat, size : Nat]
FileRecord == [file : File, mtime : Nat, size : Nat, hash : Version]

Run ==
  [phase : {"idle", "work", "stale", "delete"},
   full  : BOOLEAN,             \* index_project, or index_files
   valid : SUBSET File,         \* the files discovered or given
   todo  : SUBSET File,         \* tasks that have not started
   stats : SUBSET Stat,         \* tasks between metadata() and read_to_string()
   reads : SUBSET FileRecord,   \* tasks that have read and hashed
   tocommit : SUBSET FileRecord,\* tasks that found their file new or changed
   skipped : SUBSET FileRecord, \* files found unchanged
   recs  : SUBSET FileRecord,   \* file_records
   new   : SUBSET Chunk,        \* new_chunks that are not embedded yet
   stale : SUBSET File,         \* files whose chunks the cleanup will delete
   half  : SUBSET File]         \* the one whose vectors it has deleted

IdleRun ==
  [phase |-> "idle", full |-> FALSE, valid |-> {}, todo |-> {}, stats |-> {},
   reads |-> {}, tocommit |-> {}, skipped |-> {}, recs |-> {}, new |-> {},
   stale |-> {}, half |-> {}]

\* chunk_file_with_overlap: the chunks of a version of a file
ChunksOf(f, v) ==
  {[file |-> f, slot |-> p.slot, text |-> p.text, ctx |-> p.ctx] : p \in Layout[v]}

\* What chunk_exists_with_hash compares: the id (file and byte range) and the
\* hash of the text, never the context.
Key(c)  == <<c.file, c.slot, c.text>>
Keys(C) == {Key(c) : c \in C}

RowsOf(f) == {c \in rows : c.file = f}

Ids(C) == {<<c.file, c.slot>> : c \in C}

Files(X) == {x.file : x \in X}

\* No task of process_file_entries is running.
Joined(r) ==
  /\ run[r].phase = "work"
  /\ run[r].todo = {}
  /\ run[r].stats = {}
  /\ run[r].reads = {}
  /\ run[r].tocommit = {}

Init ==
  /\ \E v \in [File -> Version] :
       disk = [f \in File |-> [listed |-> TRUE, ver |-> v[f], mtime |-> 0]]
  /\ rows = {}
  /\ vecs = {}
  /\ rec = {}
  /\ run = [r \in Runner |-> IdleRun]
  /\ cut = {}

-----------------------------------------------------------------------------
(* The user. *)

\* The clock in seconds: it ticks between any two writes.
IsNow(n) ==
  /\ \A f \in File : disk[f].mtime < n
  /\ \E f \in File : n = disk[f].mtime + 1

\* A file is written, or created again.
Write(f, v) ==
  /\ \E n \in 1..MaxMtime :
       /\ IsNow(n)
       /\ disk' = [disk EXCEPT ![f] = [listed |-> TRUE, ver |-> v, mtime |-> n]]
  /\ UNCHANGED <<rows, vecs, rec, run, cut>>

\* A file is deleted or moved away.
Unlist(f) ==
  /\ disk[f].listed
  /\ disk' = [disk EXCEPT ![f].listed = FALSE]
  /\ UNCHANGED <<rows, vecs, rec, run, cut>>

\* It is moved back, with its old bytes and its old mtime.
Return(f) ==
  /\ f \in Returning
  /\ ~disk[f].listed
  /\ disk' = [disk EXCEPT ![f].listed = TRUE]
  /\ UNCHANGED <<rows, vecs, rec, run, cut>>

-----------------------------------------------------------------------------
(* process_file_entries: one task per file, in any order. *)

Begin(r, full, fs) ==
  /\ run[r].phase = "idle"
  /\ run' = [run EXCEPT ![r] = [IdleRun EXCEPT
       !.phase = "work", !.full = full, !.valid = fs, !.todo = fs]]
  /\ UNCHANGED <<disk, rows, vecs, rec, cut>>

\* index_project: discover_files, then all of them.
StartProject(r) == Begin(r, TRUE, {f \in File : disk[f].listed})

\* index_files
StartFiles(r, fs) == fs # {} /\ Begin(r, FALSE, fs)

\* metadata(): a file that is gone ends its task without a result.
StatFile(r, f) ==
  /\ f \in run[r].todo
  /\ run' = [run EXCEPT
       ![r].todo = @ \ {f},
       ![r].stats = IF disk[f].listed
                    THEN @ \cup {[file |-> f, mtime |-> disk[f].mtime,
                                  size |-> Size[disk[f].ver]]}
                    ELSE @]
  /\ UNCHANGED <<disk, rows, vecs, rec, cut>>

\* read_to_string(), some time after; a binary file is skipped.
ReadFile(r, s) ==
  LET f == s.file
  IN /\ s \in run[r].stats
     /\ run' = [run EXCEPT
          ![r].stats = @ \ {s},
          ![r].reads = IF disk[f].listed /\ disk[f].ver \in Readable
                       THEN @ \cup {[file |-> f, mtime |-> s.mtime,
                                     size |-> s.size, hash |-> disk[f].ver]}
                       ELSE @]
     /\ UNCHANGED <<disk, rows, vecs, rec, cut>>

\* Mutant: the fast path compares the hash alone.
CheckFileByHash(r, x) ==
  LET known == \E y \in rec : y.file = x.file /\ y.hash = x.hash
  IN /\ x \in run[r].reads
     /\ run' = [run EXCEPT
          ![r].reads = @ \ {x},
          ![r].skipped = IF known THEN @ \cup {x} ELSE @,
          ![r].tocommit = IF known THEN @ ELSE @ \cup {x}]
     /\ UNCHANGED <<disk, rows, vecs, rec, cut>>

\* The fast path: the files table has this very record.
CheckFile(r, x) ==
  /\ x \in run[r].reads
  /\ run' = [run EXCEPT
       ![r].reads = @ \ {x},
       ![r].skipped = IF x \in rec THEN @ \cup {x} ELSE @,
       ![r].tocommit = IF x \in rec THEN @ ELSE @ \cup {x}]
  /\ UNCHANGED <<disk, rows, vecs, rec, cut>>

\* Mutant: every chunk of a changed file is embedded again.
CommitFileAll(r, x) ==
  LET f    == x.file
      mine == ChunksOf(f, x.hash)
      gone == {c \in RowsOf(f) : \A d \in mine : d.slot # c.slot}
  IN /\ x \in run[r].tocommit
     /\ rows' = rows \ gone
     /\ vecs' = vecs \ Ids(gone)
     /\ run' = [run EXCEPT
          ![r].tocommit = @ \ {x},
          ![r].recs = @ \cup {x},
          ![r].new = @ \cup mine]
     /\ UNCHANGED <<disk, rec, cut>>

\* Mutant: chunks the file no longer has stay.
CommitFileKeep(r, x) ==
  /\ x \in run[r].tocommit
  /\ run' = [run EXCEPT
       ![r].tocommit = @ \ {x},
       ![r].recs = @ \cup {x},
       ![r].new = @ \cup {c \in ChunksOf(x.file, x.hash) : Key(c) \notin Keys(rows)}]
  /\ UNCHANGED <<disk, rows, vecs, rec, cut>>

\* Mutant: the file is looked at once more for the mtime of its record.
CommitFileRestat(r, x) ==
  LET f    == x.file
      mine == ChunksOf(f, x.hash)
      gone == {c \in RowsOf(f) : \A d \in mine : d.slot # c.slot}
  IN /\ x \in run[r].tocommit
     /\ rows' = rows \ gone
     /\ vecs' = vecs \ Ids(gone)
     /\ run' = [run EXCEPT
          ![r].tocommit = @ \ {x},
          ![r].recs = @ \cup {[x EXCEPT !.mtime = disk[f].mtime]},
          ![r].new = @ \cup {c \in mine : Key(c) \notin Keys(rows)}]
     /\ UNCHANGED <<disk, rec, cut>>

\* One transaction: chunks whose ids the file no longer has are deleted, those
\* with the id and text of a row are skipped, whether or not they have their
\* vector, the rest is to be embedded.
CommitFile(r, x) ==
  LET f    == x.file
      mine == ChunksOf(f, x.hash)
      gone == {c \in RowsOf(f) : \A d \in mine : d.slot # c.slot}
  IN /\ x \in run[r].tocommit
     /\ rows' = rows \ gone
     /\ vecs' = vecs \ Ids(gone)
     /\ run' = [run EXCEPT
          ![r].tocommit = @ \ {x},
          ![r].recs = @ \cup {x},
          ![r].new = @ \cup {c \in mine : Key(c) \notin Keys(rows)}]
     /\ UNCHANGED <<disk, rec, cut>>

-----------------------------------------------------------------------------
(* After the tasks are joined. *)

\* Mutant: the row with the same id stays.
ReplaceNothing(C, new) == C \cup new

\* INSERT OR REPLACE of a set of chunks with distinct ids
Replace(C, new) ==
  {c \in C : \A d \in new : c.file # d.file \/ c.slot # d.slot} \cup new

\* One batch of embeddings is back, in any order, and is committed.  All
\* batches are full but one.
EmbedBatch(r) ==
  /\ Joined(r)
  /\ \E batch \in SUBSET run[r].new :
       /\ batch # {}
       /\ \/ Cardinality(batch) = BatchSize
          \/ Cardinality(batch) = Cardinality(run[r].new) % BatchSize
       /\ rows' = Replace(rows, batch)
       /\ vecs' = vecs \cup Ids(batch)
       /\ run' = [run EXCEPT ![r].new = @ \ batch]
  /\ UNCHANGED <<disk, rec, cut>>

\* Mutant: the records do not wait for the embeddings.
UpsertRecordsEarly(r) ==
  /\ Joined(r)
  /\ rec' = {x \in rec : x.file \notin Files(run[r].recs)} \cup run[r].recs
  /\ run' = [run EXCEPT ![r] =
               IF run[r].full THEN [run[r] EXCEPT !.phase = "stale"] ELSE IdleRun]
  /\ UNCHANGED <<disk, rows, vecs, cut>>

\* All embeddings are stored: one transaction upserts the file records.
UpsertRecords(r) ==
  /\ Joined(r)
  /\ run[r].new = {}
  /\ rec' = {x \in rec : x.file \notin Files(run[r].recs)} \cup run[r].recs
  /\ run' = [run EXCEPT ![r] =
               IF run[r].full THEN [run[r] EXCEPT !.phase = "stale"] ELSE IdleRun]
  /\ UNCHANGED <<disk, rows, vecs, cut>>

\* delete_stale_chunks reads the paths of all chunks and keeps those that were
\* not discovered.
ListStale(r) ==
  LET stale == Files(rows) \ run[r].valid
  IN /\ run[r].phase = "stale"
     /\ run' = [run EXCEPT ![r] =
                  IF stale = {} THEN IdleRun
                  ELSE [run[r] EXCEPT !.phase = "delete", !.stale = stale]]
     /\ UNCHANGED <<disk, rows, vecs, rec, cut>>

\* It deletes them file by file, first their vectors, and leaves the files
\* table.
DeleteStaleVectors(r, f) ==
  /\ run[r].phase = "delete"
  /\ run[r].half = {}
  /\ f \in run[r].stale
  /\ vecs' = vecs \ Ids(RowsOf(f))
  /\ run' = [run EXCEPT ![r].half = {f}]
  /\ cut' = cut \cup {f}
  /\ UNCHANGED <<disk, rows, rec>>

\* Then, in a transaction of its own, the chunks.
DeleteStaleChunks(r, f) ==
  /\ run[r].phase = "delete"
  /\ run[r].half = {f}
  /\ f \in run[r].stale
  /\ rows' = rows \ RowsOf(f)
  /\ run' = [run EXCEPT ![r] =
               IF run[r].stale = {f} THEN IdleRun
               ELSE [run[r] EXCEPT !.stale = @ \ {f}, !.half = {}]]
  /\ cut' = cut \ {f}
  /\ UNCHANGED <<disk, vecs, rec>>

\* The embedder gives up, the database is busy, a task panics, the process is
\* killed: what was committed stays, the rest of the run is forgotten.
Fail(r) ==
  /\ CanFail
  /\ run[r].phase # "idle"
  /\ run' = [run EXCEPT ![r] = IdleRun]
  /\ UNCHANGED <<disk, rows, vecs, rec, cut>>

\* clear_database, before a run that starts from nothing.
Clear(r) ==
  /\ run[r].phase = "idle"
  /\ rows' = {}
  /\ vecs' = {}
  /\ rec' = {}
  /\ cut' = {}
  /\ UNCHANGED <<disk, run>>

User ==
  \E f \in File : (\E v \in Version : Write(f, v)) \/ Unlist(f) \/ Return(f)

\* A step of the run r is in.
RunStep(r) ==
  \/ \E f \in run[r].todo : StatFile(r, f)
  \/ \E s \in run[r].stats : ReadFile(r, s)
  \/ \E x \in run[r].reads : CheckFile(r, x)
  \/ \E x \in run[r].tocommit : CommitFile(r, x)
  \/ EmbedBatch(r)
  \/ UpsertRecords(r)
  \/ ListStale(r)
  \/ \E f \in run[r].stale : DeleteStaleVectors(r, f) \/ DeleteStaleChunks(r, f)

Start(r) == StartProject(r) \/ \E fs \in SUBSET File : StartFiles(r, fs)

Next ==
  \/ User
  \/ \E r \in Runner : Start(r) \/ RunStep(r) \/ Fail(r) \/ Clear(r)

Spec == Init /\ [][Next]_vars

-----------------------------------------------------------------------------
(* Properties. *)

\* Variables and runs have their types, and no chunk id, file record or task
\* is there twice.
Functional(X) == \A x, y \in X : x.file = y.file => x = y

TypeOK ==
  /\ disk \in [File -> DiskFile]
  /\ rows \in SUBSET Chunk
  /\ \A c, d \in rows : c.file = d.file /\ c.slot = d.slot => c = d
  /\ rec \in SUBSET FileRecord
  /\ Functional(rec)
  /\ vecs \subseteq File \X Slot
  /\ run \in [Runner -> Run]
  /\ cut \subseteq File

\* The chunks table has the chunks of version v of f and no other.
Mirrors(f, v) == Keys(RowsOf(f)) = Keys(ChunksOf(f, v))

\* Every chunk of f has its vector: dense search can find it.
Embedded(f) == Ids(RowsOf(f)) \subseteq vecs

\* The index has version v of f, for dense search as well; but when a deletion
\* of its chunks was cut short after their vectors had gone, the chunks that
\* are left are taken for unchanged and stay without.
Indexed(f, v) == Mirrors(f, v) /\ (f \in cut \/ Embedded(f))

\* x is what the fast path would find for its file now: the file is skipped.
Matches(x) ==
  /\ disk[x.file].listed
  /\ disk[x.file].mtime = x.mtime
  /\ disk[x.file].ver = x.hash
  /\ Size[disk[x.file].ver] = x.size

\* A file the next run skips is completely indexed.  The record of a file is
\* the only thing that keeps it from being looked at again, so one that is
\* there too early, or outlives its chunks, hides the file from search for
\* good; whatever runs failed or were killed before.  Its chunks have their
\* vectors too, unless a deletion of them was cut short (Indexed).  (Files that
\* come back with an old mtime are the exception, see ReturnedIsWholeOrHidden.)
SkippedFilesAreIndexed ==
  \A x \in rec :
    Matches(x) /\ x.file \notin Returning => Indexed(x.file, x.hash)

\* A file that left the project and came back as it was may be skipped with
\* no chunks, but never with some of them: what cleanups delete, returns and
\* failed runs leave behind is all chunks of a version or none, and with their
\* vectors unless a deletion was cut short (Indexed).
ReturnedIsWholeOrHidden ==
  \A x \in rec :
    Matches(x) => Indexed(x.file, x.hash) \/ RowsOf(x.file) = {}

\* When a full run has written its records, every file it read or skipped and
\* nobody wrote since is indexed (its vectors as in Indexed); when it has listed
\* what is stale, no other file has chunks it will leave.
FullRunMirrors ==
  \A r \in Runner :
    run[r].phase \in {"stale", "delete"} =>
      /\ \A x \in run[r].recs \cup run[r].skipped :
           Matches(x) /\ x.file \notin Returning => Indexed(x.file, x.hash)
      /\ run[r].phase = "delete" => Files(rows) \subseteq run[r].valid \cup run[r].stale

\* A chunk that is in the index is not sent to the embedder again, also not
\* when a run is repeated after one that failed half way.
NothingEmbeddedTwice ==
  [][\A r \in Runner : \A c \in run[r].new \ run'[r].new :
       run'[r].phase = "work" => Key(c) \notin Keys(rows)]_vars

=============================================================================
