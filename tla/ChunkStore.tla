----------------------------- MODULE ChunkStore -----------------------------
(***************************************************************************)
(* The SQLite tables that hold the indexed chunks, and the operations of   *)
(* store/chunks.rs, store/vectors.rs and store/db.rs on them:              *)
(*                                                                         *)
(*   chunks         one row per chunk, with SQLite's implicit rowid        *)
(*   chunk_vec_map  chunk id -> rowid of its vector (FK ON DELETE CASCADE) *)
(*   vec_chunks     the sqlite-vec virtual table: rowid -> embedding       *)
(*   chunks_fts     the external-content FTS5 index, kept by triggers      *)
(*                                                                         *)
(* The database is one record and every SQL operation an operator from     *)
(* databases to databases, so that a transaction is their composition and  *)
(* an autocommitted statement is one of them alone.  An embedding is       *)
(* represented by the text it was computed from.                           *)
(***************************************************************************)
EXTENDS Naturals, FiniteSets

CONSTANTS
  ChunkId,      \* chunk ids: hashes of (file, byte range)
  Path,         \* relative file paths
  FileOf,       \* the file a chunk id belongs to, a function on ChunkId
  Text,         \* chunk contents
  Conn,         \* database connections: watcher, catch-up, MCP, CLI
  CanAbort,     \* may a process die between two statements?
  CanRecreate,  \* may a change of embedding provider drop the vector tables?
  MaxVec,       \* bound: vector rowids handed out
  MaxRowid      \* bound: rowids of the chunks table

ASSUME StoreAssumption ==
  /\ FileOf \in [ChunkId -> Path]
  /\ CanAbort \in BOOLEAN
  /\ CanRecreate \in BOOLEAN
  /\ MaxVec \in Nat
  /\ MaxRowid \in Nat

VARIABLES
  db,           \* the tables
  job           \* per connection: the multi-statement deletion it is in

vars == <<db, job>>

-----------------------------------------------------------------------------
(* Tables. *)

ChunkRow == [id : ChunkId, rowid : Nat \ {0}, text : Text]
MapRow   == [id : ChunkId, vec : Nat \ {0}]
VecRow   == [rowid : Nat \ {0}, emb : Text]
Posting  == [rowid : Nat \ {0}, text : Text]

Database ==
  [chunks : SUBSET ChunkRow, map : SUBSET MapRow, vec : SUBSET VecRow,
   fts : SUBSET Posting, seq : Nat]

EmptyDatabase == [chunks |-> {}, map |-> {}, vec |-> {}, fts |-> {}, seq |-> 0]

RowsOf(d, id) == {r \in d.chunks : r.id = id}
IdsIn(d, ps)  == {r.id : r \in {x \in d.chunks : FileOf[x.id] \in ps}}

\* The implicit rowid SQLite gives a new row of a table whose primary key is
\* TEXT: one more than the largest in use.  REPLACE picks it before it removes
\* the row that conflicts.
IsNewRowid(d, n) ==
  /\ \A r \in d.chunks : r.rowid < n
  /\ n = 1 \/ \E r \in d.chunks : n = r.rowid + 1

PostingOf(r) == [rowid |-> r.rowid, text |-> r.text]

-----------------------------------------------------------------------------
(* SQL operations. *)

\* Mutant: a replaced row is not posted again.
InsertChunkUnposted(d, id, t, n) ==
  LET new == [id |-> id, rowid |-> n, text |-> t]
  IN [d EXCEPT
        !.chunks = (@ \ RowsOf(d, id)) \cup {new},
        !.map    = {m \in @ : m.id # id},
        !.fts    = IF RowsOf(d, id) = {} THEN @ \cup {PostingOf(new)} ELSE @]

\* INSERT OR REPLACE INTO chunks.  The row that conflicts is removed and its
\* chunk_vec_map row with it (foreign keys are on, the cascade runs).  The
\* trigger chunks_ai indexes the new row.  chunks_ad does not run for the row
\* that REPLACE removes, because recursive_triggers is off.
InsertChunk(d, id, t, n) ==
  LET new == [id |-> id, rowid |-> n, text |-> t]
  IN [d EXCEPT
        !.chunks = (@ \ RowsOf(d, id)) \cup {new},
        !.map    = IF RowsOf(d, id) = {} THEN @ ELSE {m \in @ : m.id # id},
        !.fts    = @ \cup {PostingOf(new)}]

MappedRowids(d, id) == {m.vec : m \in {x \in d.map : x.id = id}}

\* Mutant: the counter is read before it is advanced.
InsertVectorFromZero(d, id, e) ==
  LET mapped == MappedRowids(d, id)
      rowid  == IF mapped = {} THEN d.seq ELSE CHOOSE n \in mapped : TRUE
  IN [d EXCEPT
        !.vec = {v \in @ : v.rowid # rowid} \cup {[rowid |-> rowid, emb |-> e]},
        !.map = {m \in @ : m.id # id} \cup {[id |-> id, vec |-> rowid]},
        !.seq = IF mapped = {} THEN @ + 1 ELSE @]

\* insert_vector: a chunk that is mapped keeps its vector's rowid, any other
\* gets a new one.  sqlite-vec numbers rows with AUTOINCREMENT.
InsertVector(d, id, e) ==
  LET mapped == MappedRowids(d, id)
      rowid  == IF mapped = {} THEN d.seq + 1 ELSE CHOOSE n \in mapped : TRUE
  IN [d EXCEPT
        !.vec = {v \in @ : v.rowid # rowid} \cup {[rowid |-> rowid, emb |-> e]},
        !.map = {m \in @ : m.id # id} \cup {[id |-> id, vec |-> rowid]},
        !.seq = IF mapped = {} THEN @ + 1 ELSE @]

\* The statements the deletions are made of.
DeleteVecOf(d, ids) ==
  [d EXCEPT !.vec = {v \in @ : \A m \in d.map : m.id \in ids => m.vec # v.rowid}]

DeleteMapOf(d, ids) == [d EXCEPT !.map = {m \in @ : m.id \notin ids}]

\* Mutant: foreign keys are off.
DeleteChunksOfUncascaded(d, ids) ==
  LET gone == {r \in d.chunks : r.id \in ids}
  IN [d EXCEPT !.chunks = @ \ gone, !.fts = @ \ {PostingOf(r) : r \in gone}]

\* DELETE FROM chunks: chunks_ad takes the posting out, the foreign key the
\* mapping.
DeleteChunksOf(d, ids) ==
  LET gone == {r \in d.chunks : r.id \in ids}
  IN [d EXCEPT
        !.chunks = @ \ gone,
        !.map    = {m \in @ : m.id \notin ids \/ RowsOf(d, m.id) = {}},
        !.fts    = @ \ {PostingOf(r) : r \in gone}]

\* delete_chunk and delete_vectors_for_chunk
DeleteChunkAndVector(d, id) ==
  DeleteChunksOf(DeleteMapOf(DeleteVecOf(d, {id}), {id}), {id})

\* The "safety net" of delete_stale_chunks: vectors whose mapping names a
\* chunk that is gone.
DeleteUnownedVec(d) ==
  DeleteVecOf(d, {id \in ChunkId : RowsOf(d, id) = {}})

\* Mutant: chunk_vec_map is forgotten.
DropVectorTablesOnly(d) == [d EXCEPT !.vec = {}, !.seq = 0]

\* DROP TABLE forgets the AUTOINCREMENT counter, DELETE FROM keeps it.
DropVectorTables(d) == [d EXCEPT !.map = {}, !.vec = {}, !.seq = 0]
DeleteEverything(d) ==
  [d EXCEPT !.chunks = {}, !.map = {}, !.vec = {}, !.fts = {}]

-----------------------------------------------------------------------------
(* Operations.  A deletion of whole files is three autocommitted statements *)
(* per file; other connections may write between any two of them.           *)

Idle == [step |-> "idle", path |-> {}, todo |-> {}, net |-> FALSE]

\* path: the file the current statement is about, as a set of at most one;
\* todo: the files still to come; net: does the safety net follow?
Job == [step : {"idle", "vec", "map", "chunks", "net"},
        path : SUBSET Path, todo : SUBSET Path, net : BOOLEAN]

NextFile(j) ==
  IF j.todo # {}
  THEN {[j EXCEPT !.step = "vec", !.path = {p}, !.todo = @ \ {p}] : p \in j.todo}
  ELSE IF j.net
       THEN {[j EXCEPT !.step = "net", !.path = {}]}
       ELSE {Idle}

Init == db = EmptyDatabase /\ job = [c \in Conn |-> Idle]

\* Mutant: the vector before its chunk.
StoreVectorFirst(id, t) ==
  /\ db.seq < MaxVec
  /\ \E n \in 1..MaxRowid :
       /\ IsNewRowid(db, n)
       /\ db' = InsertChunk(InsertVector(db, id, t), id, t, n)
  /\ UNCHANGED job

\* The indexer's batch transaction: insert_chunk, then insert_vector.
StoreChunk(id, t) ==
  /\ db.seq < MaxVec
  /\ \E n \in 1..MaxRowid :
       /\ IsNewRowid(db, n)
       /\ db' = InsertVector(InsertChunk(db, id, t, n), id, t)
  /\ UNCHANGED job

\* delete_chunk, inside the transaction of process_file_entries.
DeleteChunk(id) ==
  /\ RowsOf(db, id) # {}
  /\ db' = DeleteChunkAndVector(db, id)
  /\ UNCHANGED job

\* delete_chunks_for_file, called by the watcher with no transaction around.
BeginDeleteFile(c, p) ==
  /\ job[c] = Idle
  /\ job' = [job EXCEPT ![c] =
               [step |-> "vec", path |-> {p}, todo |-> {}, net |-> FALSE]]
  /\ UNCHANGED db

\* delete_stale_chunks reads the distinct paths once, before it deletes.
BeginDeleteStale(c, valid) ==
  LET stale == {FileOf[r.id] : r \in db.chunks} \ valid
      begun == [step |-> "chunks", path |-> {}, todo |-> stale, net |-> TRUE]
  IN /\ job[c] = Idle
     /\ \E j \in NextFile(begun) : job' = [job EXCEPT ![c] = j]
     /\ UNCHANGED db

DeleteVecRows(c) ==
  /\ job[c].step = "vec"
  /\ db' = DeleteVecOf(db, IdsIn(db, job[c].path))
  /\ job' = [job EXCEPT ![c].step = "map"]

DeleteMapRows(c) ==
  /\ job[c].step = "map"
  /\ db' = DeleteMapOf(db, IdsIn(db, job[c].path))
  /\ job' = [job EXCEPT ![c].step = "chunks"]

DeleteChunkRows(c) ==
  /\ job[c].step = "chunks"
  /\ db' = DeleteChunksOf(db, IdsIn(db, job[c].path))
  /\ \E j \in NextFile(job[c]) : job' = [job EXCEPT ![c] = j]

SafetyNet(c) ==
  /\ job[c].step = "net"
  /\ db' = DeleteUnownedVec(db)
  /\ job' = [job EXCEPT ![c] = Idle]

\* The process is killed, or a statement fails and the rest is not tried.
Abort(c) ==
  /\ CanAbort
  /\ job[c] # Idle
  /\ job' = [job EXCEPT ![c] = Idle]
  /\ UNCHANGED db

\* clear_database and recreate_vector_index: one transaction each.
ClearDatabase ==
  /\ db' = DeleteEverything(db)
  /\ UNCHANGED job

RecreateVectorIndex ==
  /\ CanRecreate
  /\ db' = DropVectorTables(db)
  /\ UNCHANGED job

Next ==
  \/ \E id \in ChunkId, t \in Text : StoreChunk(id, t)
  \/ \E id \in ChunkId : DeleteChunk(id)
  \/ \E c \in Conn :
       \/ \E p \in Path : BeginDeleteFile(c, p)
       \/ \E valid \in SUBSET Path : BeginDeleteStale(c, valid)
       \/ DeleteVecRows(c)
       \/ DeleteMapRows(c)
       \/ DeleteChunkRows(c)
       \/ SafetyNet(c)
       \/ Abort(c)
  \/ ClearDatabase
  \/ RecreateVectorIndex

Spec == Init /\ [][Next]_vars

-----------------------------------------------------------------------------
(* Properties. *)

\* The tables and the jobs have their types.
TypeOK == db \in Database /\ job \in [Conn -> Job]

\* A search hit is never served for a text its chunk no longer has: the vector
\* a chunk is mapped to is that of the text in its row, whatever replaces,
\* deletions, crashes and other connections came between.
MatchesText(d) ==
  \A m \in d.map, v \in d.vec, r \in d.chunks :
    m.vec = v.rowid /\ m.id = r.id => v.emb = r.text

VectorMatchesText == MatchesText(db)

\* Two chunks never share a vector, so replacing or deleting the vector of one
\* (insert_vector, delete_vectors_for_chunk) leaves the other alone, and the
\* cascades keep chunk_vec_map from naming a chunk that a deletion or a clear
\* removed: no mapping waits for the next chunk of that id.
OneOwner(d)   == \A m, n \in d.map : m.vec = n.vec => m = n
NamesChunk(d) == \A m \in d.map : RowsOf(d, m.id) # {}

MappingIsOwned == OneOwner(db) /\ NamesChunk(db)

\* A chunk is found by its own words: its posting is in the full-text index
\* even when rowids are used again and old postings were left behind.
Findable(d) == \A r \in d.chunks : PostingOf(r) \in d.fts

ChunkIsFindable == Findable(db)

\* What search_similar joins: the chunk, its mapping and its vector.
Searchable(d, r) ==
  \E m \in d.map, v \in d.vec : m.id = r.id /\ m.vec = v.rowid

\* Dense search loses a chunk that stays only to a statement that deletes the
\* chunk's own file, or to a change of provider: a chunk that is stored is
\* found, replacing or deleting one never takes the vector of another, and
\* the safety net takes no vector that is in use.
OnlyDeletionsHide ==
  [][\A r \in db'.chunks :
       \/ Searchable(db', r)
       \/ r \in db.chunks /\ ~Searchable(db, r)
       \/ RecreateVectorIndex
       \/ \E c \in Conn : job'[c] # job[c] /\ FileOf[r.id] \in job[c].path]_vars

=============================================================================
