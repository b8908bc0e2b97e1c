-------------------------- MODULE ChunkStoreProofs --------------------------
(***************************************************************************)
(* Proofs about ChunkStore.  DInv is the inductive invariant of a          *)
(* database; one lemma per SQL operation shows that the operation keeps    *)
(* it, and the theorems follow because every action applies a composition  *)
(* of those operations.                                                    *)
(***************************************************************************)
EXTENDS ChunkStore, TLAPS

-----------------------------------------------------------------------------
(* The inductive invariant. *)

\* Primary keys of chunks (id and rowid) and of chunk_vec_map.
Keys(d) ==
  /\ \A r, s \in d.chunks : r.id = s.id => r = s
  /\ \A r, s \in d.chunks : r.rowid = s.rowid => r = s
  /\ \A m, n \in d.map : m.id = n.id => m = n

\* The AUTOINCREMENT counter is never behind a rowid in use or mapped, so a
\* mapping left over from an interrupted deletion cannot catch a new vector.
Counted(d) ==
  /\ \A v \in d.vec : v.rowid <= d.seq
  /\ \A m \in d.map : m.vec <= d.seq

DInv(d) ==
  /\ d \in Database
  /\ Keys(d)
  /\ Counted(d)
  /\ NamesChunk(d)
  /\ OneOwner(d)
  /\ MatchesText(d)
  /\ Findable(d)

IInv == DInv(db) /\ job \in [Conn -> Job]

-----------------------------------------------------------------------------
(* One lemma per SQL operation. *)

\* INSERT OR REPLACE leaves the invariant, one row with the id, no mapping.
LEMMA InsertChunkKeeps ==
  ASSUME NEW d, DInv(d), NEW id \in ChunkId, NEW t \in Text,
         NEW n \in Nat \ {0}, IsNewRowid(d, n)
  PROVE  LET e == InsertChunk(d, id, t, n)
         IN /\ DInv(e)
            /\ [id |-> id, rowid |-> n, text |-> t] \in e.chunks
            /\ \A m \in e.map : m.id # id
<1> DEFINE new == [id |-> id, rowid |-> n, text |-> t]
           e   == InsertChunk(d, id, t, n)
<1>1. /\ d.chunks \subseteq ChunkRow /\ d.map \subseteq MapRow
      /\ d.vec \subseteq VecRow /\ d.fts \subseteq Posting /\ d.seq \in Nat
  BY DEF DInv, Database
<1>2. new \in ChunkRow /\ PostingOf(new) \in Posting
  BY DEF ChunkRow, Posting, PostingOf
<1>3. /\ e.chunks = (d.chunks \ RowsOf(d, id)) \cup {new}
      /\ e.map = IF RowsOf(d, id) = {} THEN d.map ELSE {m \in d.map : m.id # id}
      /\ e.fts = d.fts \cup {PostingOf(new)}
      /\ e.vec = d.vec /\ e.seq = d.seq
  BY DEF InsertChunk, DInv, Database
<1>4. e \in Database
  BY <1>1, <1>2, <1>3 DEF InsertChunk, DInv, Database
<1>5. e.map = {m \in d.map : m.id # id}
  BY <1>3 DEF DInv, NamesChunk, RowsOf
<1>6. \A r \in e.chunks : r = new \/ (r \in d.chunks /\ r.id # id /\ r.rowid < n)
  BY <1>3 DEF RowsOf, IsNewRowid
<1>7. Keys(e)
  BY <1>1, <1>5, <1>6 DEF Keys, DInv, ChunkRow
<1>8. Counted(e)
  BY <1>3, <1>5 DEF Counted, DInv
<1>9. NamesChunk(e)
  BY <1>3, <1>5 DEF NamesChunk, DInv, RowsOf
<1>10. OneOwner(e)
  BY <1>5 DEF OneOwner, DInv
<1>11. MatchesText(e)
  BY <1>3, <1>5, <1>6 DEF MatchesText, DInv
<1>12. Findable(e)
  BY <1>3, <1>6 DEF Findable, DInv
<1> QED
  BY <1>3, <1>4, <1>5, <1>7, <1>8, <1>9, <1>10, <1>11, <1>12 DEF DInv

\* insert_vector of a chunk's own text keeps the invariant.
LEMMA InsertVectorKeeps ==
  ASSUME NEW d, DInv(d), NEW r \in d.chunks
  PROVE  DInv(InsertVector(d, r.id, r.text))
<1> DEFINE mapped == MappedRowids(d, r.id)
           rowid  == IF mapped = {} THEN d.seq + 1 ELSE CHOOSE n \in mapped : TRUE
           e      == InsertVector(d, r.id, r.text)
           newMap == [id |-> r.id, vec |-> rowid]
           newVec == [rowid |-> rowid, emb |-> r.text]
<1>1. /\ d.chunks \subseteq ChunkRow /\ d.map \subseteq MapRow
      /\ d.vec \subseteq VecRow /\ d.fts \subseteq Posting /\ d.seq \in Nat
  BY DEF DInv, Database
<1>2. /\ e.vec = {v \in d.vec : v.rowid # rowid} \cup {newVec}
      /\ e.map = {m \in d.map : m.id # r.id} \cup {newMap}
      /\ e.seq = IF mapped = {} THEN d.seq + 1 ELSE d.seq
      /\ e.chunks = d.chunks /\ e.fts = d.fts
  BY DEF InsertVector, DInv, Database
<1>3. \/ mapped = {} /\ rowid = d.seq + 1
      \/ mapped # {} /\ \E m \in d.map : m.id = r.id /\ rowid = m.vec
  BY DEF MappedRowids
<1> HIDE DEF mapped, rowid, e
<1>4. rowid \in Nat \ {0} /\ rowid <= e.seq /\ d.seq <= e.seq /\ e.seq \in Nat
  <2>1. CASE mapped = {}
    BY <1>1, <1>2, <1>3, <2>1
  <2>2. CASE mapped # {}
    <3>1. PICK m \in d.map : m.id = r.id /\ rowid = m.vec
      BY <1>3, <2>2
    <3>2. m.vec \in Nat \ {0} /\ m.vec <= d.seq
      BY <1>1 DEF MapRow, Counted, DInv
    <3> QED
      BY <1>1, <1>2, <2>2, <3>1, <3>2
  <2> QED
    BY <2>1, <2>2
<1>5. \A m \in d.map : m.id # r.id => m.vec # rowid
  <2> SUFFICES ASSUME NEW m \in d.map, m.id # r.id, m.vec = rowid PROVE FALSE
    OBVIOUS
  <2>1. CASE rowid = d.seq + 1
    BY <1>1, <2>1 DEF Counted, DInv, MapRow
  <2>2. CASE \E x \in d.map : x.id = r.id /\ rowid = x.vec
    BY <2>2 DEF OneOwner, DInv
  <2> QED
    BY <1>3, <2>1, <2>2
<1>6. r.id \in ChunkId /\ r.text \in Text
  BY <1>1 DEF ChunkRow
<1>7. newMap \in MapRow /\ newVec \in VecRow
  BY <1>4, <1>6 DEF MapRow, VecRow
<1>8. e \in Database
  <2>1. /\ e.vec \subseteq VecRow /\ e.map \subseteq MapRow /\ e.seq \in Nat
        /\ e.chunks \subseteq ChunkRow /\ e.fts \subseteq Posting
    BY <1>1, <1>2, <1>4, <1>7
  <2> QED
    BY <2>1 DEF InsertVector, DInv, Database, e, rowid, mapped
<1>9. Keys(e)
  BY <1>2 DEF Keys, DInv
<1>10. Counted(e)
  <2>1. ASSUME NEW v \in e.vec PROVE v.rowid <= e.seq
    <3>1. CASE v = newVec
      BY <1>4, <3>1
    <3>2. CASE v # newVec
      <4>1. v \in d.vec /\ v.rowid \in Nat /\ v.rowid <= d.seq
        BY <1>1, <1>2, <3>2 DEF Counted, DInv, VecRow
      <4> QED
        BY <1>1, <1>4, <4>1
    <3> QED
      BY <3>1, <3>2
  <2>2. ASSUME NEW m \in e.map PROVE m.vec <= e.seq
    <3>1. CASE m = newMap
      BY <1>4, <3>1
    <3>2. CASE m # newMap
      <4>1. m \in d.map /\ m.vec \in Nat /\ m.vec <= d.seq
        BY <1>1, <1>2, <3>2 DEF Counted, DInv, MapRow
      <4> QED
        BY <1>1, <1>4, <4>1
    <3> QED
      BY <3>1, <3>2
  <2> QED
    BY <2>1, <2>2 DEF Counted
<1>11. NamesChunk(e)
  BY <1>2 DEF NamesChunk, DInv, RowsOf
<1>12. OneOwner(e)
  BY <1>2, <1>5 DEF OneOwner, DInv
<1>13. MatchesText(e)
  <2> SUFFICES ASSUME NEW m \in e.map, NEW v \in e.vec, NEW s \in e.chunks,
                      m.vec = v.rowid, m.id = s.id
               PROVE  v.emb = s.text
    BY DEF MatchesText
  <2>1. CASE m = newMap
    BY <1>2, <2>1 DEF Keys, DInv
  <2>2. CASE m # newMap
    BY <1>2, <1>5, <2>2 DEF MatchesText, DInv
  <2> QED
    BY <2>1, <2>2
<1>14. Findable(e)
  BY <1>2 DEF Findable, DInv
<1> QED
  BY <1>8, <1>9, <1>10, <1>11, <1>12, <1>13, <1>14 DEF DInv, e

\* Deleting vectors, mappings or chunks, of any set of chunk ids and in any
\* order, keeps the invariant.
LEMMA DeleteVecKeeps ==
  ASSUME NEW d, DInv(d), NEW ids
  PROVE  DInv(DeleteVecOf(d, ids))
<1> DEFINE e == DeleteVecOf(d, ids)
<1>1. /\ e.chunks = d.chunks /\ e.map = d.map /\ e.fts = d.fts /\ e.seq = d.seq
      /\ e.vec \subseteq d.vec
      /\ e \in Database
  BY DEF DeleteVecOf, DInv, Database
<1> QED
  BY <1>1 DEF DInv, Keys, Counted, NamesChunk, OneOwner, MatchesText, Findable,
              RowsOf

LEMMA DeleteMapKeeps ==
  ASSUME NEW d, DInv(d), NEW ids
  PROVE  DInv(DeleteMapOf(d, ids))
<1> DEFINE e == DeleteMapOf(d, ids)
<1>1. /\ e.chunks = d.chunks /\ e.vec = d.vec /\ e.fts = d.fts /\ e.seq = d.seq
      /\ e.map \subseteq d.map
      /\ e \in Database
  BY DEF DeleteMapOf, DInv, Database
<1> QED
  BY <1>1 DEF DInv, Keys, Counted, NamesChunk, OneOwner, MatchesText, Findable,
              RowsOf

LEMMA DeleteChunksKeeps ==
  ASSUME NEW d, DInv(d), NEW ids
  PROVE  DInv(DeleteChunksOf(d, ids))
<1> DEFINE e    == DeleteChunksOf(d, ids)
           gone == {r \in d.chunks : r.id \in ids}
<1>1. /\ e.chunks = d.chunks \ gone
      /\ e.map = {m \in d.map : m.id \notin ids \/ RowsOf(d, m.id) = {}}
      /\ e.fts = d.fts \ {PostingOf(r) : r \in gone}
      /\ e.vec = d.vec /\ e.seq = d.seq
      /\ e \in Database
  BY DEF DeleteChunksOf, DInv, Database
<1>2. \A m \in e.map : m \in d.map /\ m.id \notin ids
  BY <1>1 DEF NamesChunk, DInv
<1>3. Keys(e) /\ Counted(e) /\ OneOwner(e) /\ MatchesText(e)
  BY <1>1, <1>2 DEF Keys, Counted, OneOwner, MatchesText, DInv
<1>4. NamesChunk(e)
  BY <1>1, <1>2 DEF NamesChunk, DInv, RowsOf
<1>5. Findable(e)
  <2> SUFFICES ASSUME NEW r \in e.chunks, NEW g \in gone,
                      PostingOf(r) = PostingOf(g)
               PROVE  FALSE
    BY <1>1 DEF Findable, DInv
  <2>1. r.rowid = g.rowid
    BY DEF PostingOf
  <2> QED
    BY <1>1, <2>1 DEF Keys, DInv
<1> QED
  BY <1>1, <1>3, <1>4, <1>5 DEF DInv

\* Dropping the vector tables, and clearing the database, keep the invariant.
LEMMA DropKeeps ==
  ASSUME NEW d, DInv(d)
  PROVE  DInv(DropVectorTables(d)) /\ DInv(DeleteEverything(d))
<1>1. DInv(DropVectorTables(d))
  <2> DEFINE e == DropVectorTables(d)
  <2>1. /\ e.chunks = d.chunks /\ e.fts = d.fts /\ e.map = {} /\ e.vec = {}
        /\ e \in Database
    BY DEF DropVectorTables, DInv, Database
  <2> QED
    BY <2>1 DEF DInv, Keys, Counted, NamesChunk, OneOwner, MatchesText, Findable
<1>2. DInv(DeleteEverything(d))
  <2> DEFINE e == DeleteEverything(d)
  <2>1. /\ e.chunks = {} /\ e.map = {} /\ e.vec = {}
        /\ e \in Database
    BY DEF DeleteEverything, DInv, Database
  <2> QED
    BY <2>1 DEF DInv, Keys, Counted, NamesChunk, OneOwner, MatchesText, Findable
<1> QED
  BY <1>1, <1>2

-----------------------------------------------------------------------------
(* What each operation leaves to dense search. *)

\* insert_vector makes its chunk searchable and takes no other chunk's vector.
LEMMA InsertVectorFinds ==
  ASSUME NEW d, DInv(d), NEW id, NEW t,
         NEW s, s.id = id \/ Searchable(d, s)
  PROVE  Searchable(InsertVector(d, id, t), s)
<1> DEFINE mapped == MappedRowids(d, id)
           rowid  == IF mapped = {} THEN d.seq + 1 ELSE CHOOSE n \in mapped : TRUE
           e      == InsertVector(d, id, t)
           newMap == [id |-> id, vec |-> rowid]
           newVec == [rowid |-> rowid, emb |-> t]
<1>1. /\ e.vec = {v \in d.vec : v.rowid # rowid} \cup {newVec}
      /\ e.map = {m \in d.map : m.id # id} \cup {newMap}
  BY DEF InsertVector, DInv, Database
<1>2. CASE s.id = id
  <2>1. /\ newMap \in e.map /\ newVec \in e.vec
        /\ newMap.id = s.id /\ newMap.vec = newVec.rowid
    BY <1>1, <1>2
  <2> QED
    BY <2>1 DEF Searchable
<1>3. CASE s.id # id /\ Searchable(d, s)
  <2>1. PICK m \in d.map, v \in d.vec : m.id = s.id /\ m.vec = v.rowid
    BY <1>3 DEF Searchable
  <2>2. m.vec # rowid
    <3>1. CASE mapped = {}
      <4>1. d.seq \in Nat /\ m.vec \in Nat /\ m.vec <= d.seq
        BY <2>1 DEF DInv, Database, MapRow, Counted
      <4> QED
        BY <3>1, <4>1
    <3>2. CASE mapped # {}
      <4>1. \E x \in d.map : x.id = id /\ rowid = x.vec
        BY <3>2 DEF MappedRowids
      <4> QED
        BY <1>3, <2>1, <4>1 DEF DInv, OneOwner
    <3> QED
      BY <3>1, <3>2
  <2> HIDE DEF rowid, e
  <2>3. m \in e.map /\ v \in e.vec
    BY <1>1, <1>3, <2>1, <2>2
  <2> QED
    BY <2>1, <2>3 DEF Searchable, e
<1> QED
  BY <1>2, <1>3

\* insert_chunk takes the mapping of no other chunk.
LEMMA InsertChunkFinds ==
  ASSUME NEW d, DInv(d), NEW id, NEW t, NEW n,
         NEW s, s.id # id, Searchable(d, s)
  PROVE  Searchable(InsertChunk(d, id, t, n), s)
<1> DEFINE e == InsertChunk(d, id, t, n)
<1>1. /\ e.map = IF RowsOf(d, id) = {} THEN d.map ELSE {m \in d.map : m.id # id}
      /\ e.vec = d.vec
  BY DEF InsertChunk, DInv, Database
<1> QED
  BY <1>1 DEF Searchable

\* The deletions leave the chunks that are not in ids as they are.
LEMMA DeletesFind ==
  ASSUME NEW d, DInv(d), NEW ids,
         NEW s, s.id \notin ids, Searchable(d, s)
  PROVE  /\ Searchable(DeleteVecOf(d, ids), s)
         /\ Searchable(DeleteMapOf(d, ids), s)
         /\ Searchable(DeleteChunksOf(d, ids), s)
<1>1. PICK m \in d.map, v \in d.vec : m.id = s.id /\ m.vec = v.rowid
  BY DEF Searchable
<1>2. Searchable(DeleteVecOf(d, ids), s)
  <2> DEFINE e == DeleteVecOf(d, ids)
  <2>1. /\ e.vec = {w \in d.vec : \A x \in d.map : x.id \in ids => x.vec # w.rowid}
        /\ e.map = d.map
    BY DEF DeleteVecOf, DInv, Database
  <2>2. \A x \in d.map : x.id \in ids => x.vec # v.rowid
    BY <1>1 DEF DInv, OneOwner
  <2> HIDE DEF e
  <2>3. m \in e.map /\ v \in e.vec
    BY <1>1, <2>1, <2>2
  <2> QED
    BY <1>1, <2>3 DEF Searchable, e
<1>3. Searchable(DeleteMapOf(d, ids), s)
  <2> DEFINE e == DeleteMapOf(d, ids)
  <2>1. e.map = {x \in d.map : x.id \notin ids} /\ e.vec = d.vec
    BY DEF DeleteMapOf, DInv, Database
  <2> QED
    BY <1>1, <2>1 DEF Searchable
<1>4. Searchable(DeleteChunksOf(d, ids), s)
  <2> DEFINE e == DeleteChunksOf(d, ids)
  <2>1. /\ e.map = {x \in d.map : x.id \notin ids \/ RowsOf(d, x.id) = {}}
        /\ e.vec = d.vec
    BY DEF DeleteChunksOf, DInv, Database
  <2> QED
    BY <1>1, <2>1 DEF Searchable
<1> QED
  BY <1>2, <1>3, <1>4

-----------------------------------------------------------------------------
(* From the operations to the specification. *)

LEMMA InitIInv == Init => IInv
BY DEF Init, IInv, DInv, EmptyDatabase, Database, Keys, Counted, NamesChunk,
       OneOwner, MatchesText, Findable, Idle, Job

\* The next value of a job is a job, which begins with another file or ends.
LEMMA NextFileIsJob ==
  ASSUME NEW j \in Job, NEW k \in NextFile(j)
  PROVE  k \in Job /\ k.step # "chunks"
<1>1. Idle \in Job /\ Idle.step # "chunks"
  BY DEF Idle, Job
<1>2. ASSUME NEW p \in j.todo,
             k = [j EXCEPT !.step = "vec", !.path = {p}, !.todo = @ \ {p}]
      PROVE  k \in Job /\ k.step = "vec"
  BY <1>2 DEF Job
<1>3. ASSUME k = [j EXCEPT !.step = "net", !.path = {}]
      PROVE  k \in Job /\ k.step = "net"
  BY <1>3 DEF Job
<1> QED
  BY <1>1, <1>2, <1>3 DEF NextFile

LEMMA NextIInv == IInv /\ [Next]_vars => IInv'
<1> SUFFICES ASSUME IInv, [Next]_vars PROVE IInv'
  OBVIOUS
<1> USE DEF IInv
<1>1. ASSUME NEW id \in ChunkId, NEW t \in Text, StoreChunk(id, t)
      PROVE  IInv'
  <2>1. PICK n \in 1..MaxRowid :
          /\ IsNewRowid(db, n)
          /\ db' = InsertVector(InsertChunk(db, id, t, n), id, t)
    BY <1>1 DEF StoreChunk
  <2> DEFINE e   == InsertChunk(db, id, t, n)
             row == [id |-> id, rowid |-> n, text |-> t]
  <2>2. n \in Nat \ {0}
    BY StoreAssumption DEF StoreAssumption
  <2>3. DInv(e) /\ row \in e.chunks
    BY <2>1, <2>2, InsertChunkKeeps
  <2> HIDE DEF e
  <2>4. DInv(InsertVector(e, row.id, row.text))
    BY <2>3, InsertVectorKeeps
  <2>5. DInv(db')
    BY <2>1, <2>4 DEF e
  <2> QED
    BY <1>1, <2>5 DEF StoreChunk
<1>2. ASSUME NEW id \in ChunkId, DeleteChunk(id)
      PROVE  IInv'
  <2>1. DInv(DeleteVecOf(db, {id}))
    BY DeleteVecKeeps
  <2>2. DInv(DeleteMapOf(DeleteVecOf(db, {id}), {id}))
    BY <2>1, DeleteMapKeeps
  <2>3. DInv(DeleteChunkAndVector(db, id))
    BY <2>2, DeleteChunksKeeps DEF DeleteChunkAndVector
  <2> QED
    BY <1>2, <2>3 DEF DeleteChunk
<1>3. ASSUME NEW c \in Conn, NEW p \in Path, BeginDeleteFile(c, p)
      PROVE  IInv'
  BY <1>3 DEF BeginDeleteFile, Job
<1>4. ASSUME NEW c \in Conn, NEW valid \in SUBSET Path, BeginDeleteStale(c, valid)
      PROVE  IInv'
  <2> DEFINE stale == {FileOf[r.id] : r \in db.chunks} \ valid
             begun == [step |-> "chunks", path |-> {}, todo |-> stale, net |-> TRUE]
  <2>1. stale \in SUBSET Path
    BY StoreAssumption DEF StoreAssumption, DInv, Database, ChunkRow
  <2>2. begun \in Job
    BY <2>1 DEF Job
  <2>3. PICK j \in NextFile(begun) : job' = [job EXCEPT ![c] = j]
    BY <1>4 DEF BeginDeleteStale
  <2> HIDE DEF begun
  <2>4. j \in Job
    BY <2>2, <2>3, NextFileIsJob
  <2> QED
    BY <1>4, <2>3, <2>4 DEF BeginDeleteStale
<1>5. ASSUME NEW c \in Conn, DeleteVecRows(c)
      PROVE  IInv'
  <2>1. DInv(db')
    BY <1>5, DeleteVecKeeps DEF DeleteVecRows
  <2>2. job' \in [Conn -> Job]
    BY <1>5 DEF DeleteVecRows, Job
  <2> QED
    BY <2>1, <2>2
<1>6. ASSUME NEW c \in Conn, DeleteMapRows(c)
      PROVE  IInv'
  <2>1. DInv(db')
    BY <1>6, DeleteMapKeeps DEF DeleteMapRows
  <2>2. job' \in [Conn -> Job]
    BY <1>6 DEF DeleteMapRows, Job
  <2> QED
    BY <2>1, <2>2
<1>7. ASSUME NEW c \in Conn, DeleteChunkRows(c)
      PROVE  IInv'
  <2>1. DInv(db')
    BY <1>7, DeleteChunksKeeps DEF DeleteChunkRows
  <2>2. PICK j \in NextFile(job[c]) : job' = [job EXCEPT ![c] = j]
    BY <1>7 DEF DeleteChunkRows
  <2>3. j \in Job
    BY <2>2, NextFileIsJob
  <2> QED
    BY <2>1, <2>2, <2>3
<1>8. ASSUME NEW c \in Conn, SafetyNet(c)
      PROVE  IInv'
  <2>1. DInv(db')
    BY <1>8, DeleteVecKeeps DEF SafetyNet, DeleteUnownedVec
  <2>2. job' \in [Conn -> Job]
    BY <1>8 DEF SafetyNet, Job, Idle
  <2> QED
    BY <2>1, <2>2
<1>9. ASSUME NEW c \in Conn, Abort(c)
      PROVE  IInv'
  BY <1>9 DEF Abort, Job, Idle
<1>10. CASE ClearDatabase
  BY <1>10, DropKeeps DEF ClearDatabase
<1>11. CASE RecreateVectorIndex
  BY <1>11, DropKeeps DEF RecreateVectorIndex
<1>12. CASE UNCHANGED vars
  BY <1>12 DEF vars
<1> QED
  BY <1>1, <1>2, <1>3, <1>4, <1>5, <1>6, <1>7, <1>8, <1>9, <1>10, <1>11, <1>12
     DEF Next

LEMMA InductiveInvariant == Spec => []IInv
BY InitIInv, NextIInv, PTL DEF Spec

-----------------------------------------------------------------------------
(* Theorems. *)

\* The tables and the jobs always have their types.
THEOREM TypeCorrect == Spec => []TypeOK
<1>1. IInv => TypeOK
  BY DEF IInv, DInv, TypeOK
<1> QED
  BY <1>1, InductiveInvariant, PTL

\* However many connections delete, replace, clear and die in between, the
\* vector a chunk is mapped to is that of its current text.
THEOREM VectorsMatch == Spec => []VectorMatchesText
<1>1. IInv => VectorMatchesText
  BY DEF IInv, DInv, VectorMatchesText
<1> QED
  BY <1>1, InductiveInvariant, PTL

\* No two chunks share a vector, and every mapping names a chunk that is there:
\* no leftover of a deletion can be joined with a chunk that is stored later.
THEOREM MappingsOwned == Spec => []MappingIsOwned
<1>1. IInv => MappingIsOwned
  BY DEF IInv, DInv, MappingIsOwned
<1> QED
  BY <1>1, InductiveInvariant, PTL

\* Every chunk stays findable by its own words, although the full-text index
\* may hold more than the chunks do.
THEOREM ChunksFindable == Spec => []ChunkIsFindable
<1>1. IInv => ChunkIsFindable
  BY DEF IInv, DInv, ChunkIsFindable
<1> QED
  BY <1>1, InductiveInvariant, PTL

\* A chunk that stays is lost to dense search only by a statement that deletes
\* its own file, or by a change of provider.
THEOREM OthersStaySearchable == Spec => OnlyDeletionsHide
<1> DEFINE Excused(r) ==
      \/ Searchable(db', r)
      \/ r \in db.chunks /\ ~Searchable(db, r)
      \/ RecreateVectorIndex
      \/ \E c \in Conn : job'[c] # job[c] /\ FileOf[r.id] \in job[c].path
<1>1. ASSUME IInv, Next, NEW r \in db'.chunks
      PROVE  Excused(r)
  <2> SUFFICES ASSUME r \in db.chunks => Searchable(db, r), ~RecreateVectorIndex,
                      \A c \in Conn : job'[c] = job[c] \/ FileOf[r.id] \notin job[c].path
               PROVE  Searchable(db', r)
    OBVIOUS
  <2>1. DInv(db) /\ job \in [Conn -> Job]
    BY <1>1 DEF IInv
  <2>2. ASSUME NEW id \in ChunkId, NEW t \in Text, StoreChunk(id, t)
        PROVE  Searchable(db', r)
    <3>1. PICK n \in 1..MaxRowid :
            /\ IsNewRowid(db, n)
            /\ db' = InsertVector(InsertChunk(db, id, t, n), id, t)
      BY <2>2 DEF StoreChunk
    <3> DEFINE e == InsertChunk(db, id, t, n)
    <3>2. n \in Nat \ {0}
      BY StoreAssumption DEF StoreAssumption
    <3>3. DInv(e)
      BY <2>1, <3>1, <3>2, InsertChunkKeeps
    <3>4. e.chunks \subseteq db.chunks \cup {[id |-> id, rowid |-> n, text |-> t]}
      BY <2>1 DEF InsertChunk, DInv, Database
    <3> HIDE DEF e
    <3>5. db'.chunks = e.chunks
      BY <3>1, <3>3 DEF InsertVector, DInv, Database, e
    <3>6. r.id = id \/ Searchable(e, r)
      BY <2>1, <3>4, <3>5, InsertChunkFinds DEF e
    <3> QED
      BY <3>1, <3>3, <3>6, InsertVectorFinds DEF e
  <2>3. ASSUME NEW id \in ChunkId, DeleteChunk(id)
        PROVE  Searchable(db', r)
    <3> DEFINE d1 == DeleteVecOf(db, {id})
               d2 == DeleteMapOf(d1, {id})
    <3>1. DInv(d1)
      BY <2>1, DeleteVecKeeps
    <3>2. d1.chunks = db.chunks
      BY <2>1 DEF DeleteVecOf, DInv, Database
    <3> HIDE DEF d1
    <3>3. DInv(d2)
      BY <3>1, DeleteMapKeeps
    <3>4. d2.chunks = db.chunks
      BY <3>1, <3>2 DEF DeleteMapOf, DInv, Database
    <3>5. db' = DeleteChunksOf(d2, {id})
      BY <2>3 DEF DeleteChunk, DeleteChunkAndVector, d1
    <3> HIDE DEF d2
    <3>6. r \in db.chunks /\ r.id \notin {id}
      BY <3>3, <3>4, <3>5 DEF DeleteChunksOf, DInv, Database
    <3>7. Searchable(d1, r)
      BY <2>1, <3>6, DeletesFind DEF d1
    <3>8. Searchable(d2, r)
      BY <3>1, <3>6, <3>7, DeletesFind DEF d2
    <3> QED
      BY <3>3, <3>5, <3>6, <3>8, DeletesFind
  <2>4. ASSUME NEW c \in Conn, job'[c] # job[c], r \in db.chunks
        PROVE  r.id \notin IdsIn(db, job[c].path)
    BY <2>1, <2>4 DEF IdsIn
  <2>5. ASSUME NEW c \in Conn, DeleteVecRows(c)
        PROVE  Searchable(db', r)
    <3>1. job'[c] # job[c]
      BY <2>1, <2>5 DEF DeleteVecRows, Job
    <3>2. r \in db.chunks
      BY <2>1, <2>5 DEF DeleteVecRows, DeleteVecOf, DInv, Database
    <3> QED
      BY <2>1, <2>4, <2>5, <3>1, <3>2, DeletesFind DEF DeleteVecRows
  <2>6. ASSUME NEW c \in Conn, DeleteMapRows(c)
        PROVE  Searchable(db', r)
    <3>1. job'[c] # job[c]
      BY <2>1, <2>6 DEF DeleteMapRows, Job
    <3>2. r \in db.chunks
      BY <2>1, <2>6 DEF DeleteMapRows, DeleteMapOf, DInv, Database
    <3> QED
      BY <2>1, <2>4, <2>6, <3>1, <3>2, DeletesFind DEF DeleteMapRows
  <2>7. ASSUME NEW c \in Conn, DeleteChunkRows(c)
        PROVE  Searchable(db', r)
    <3>1. PICK j \in NextFile(job[c]) : job' = [job EXCEPT ![c] = j]
      BY <2>7 DEF DeleteChunkRows
    <3>2. j.step # "chunks" /\ job'[c] = j /\ job[c].step = "chunks"
      BY <2>1, <2>7, <3>1, NextFileIsJob DEF DeleteChunkRows
    <3>3. r \in db.chunks
      BY <2>1, <2>7 DEF DeleteChunkRows, DeleteChunksOf, DInv, Database
    <3> QED
      BY <2>1, <2>4, <2>7, <3>2, <3>3, DeletesFind DEF DeleteChunkRows
  <2>8. ASSUME NEW c \in Conn, SafetyNet(c)
        PROVE  Searchable(db', r)
    <3> DEFINE unowned == {id \in ChunkId : RowsOf(db, id) = {}}
    <3>1. db' = DeleteVecOf(db, unowned)
      BY <2>8 DEF SafetyNet, DeleteUnownedVec
    <3>2. r \in db.chunks
      BY <2>1, <3>1 DEF DeleteVecOf, DInv, Database
    <3>3. r.id \notin unowned
      BY <3>2 DEF RowsOf
    <3> HIDE DEF unowned
    <3> QED
      BY <2>1, <3>1, <3>2, <3>3, DeletesFind
  <2>9. CASE ClearDatabase
    BY <2>1, <2>9 DEF ClearDatabase, DeleteEverything, DInv, Database
  <2>10. CASE UNCHANGED db
    BY <2>10
  <2> QED
    BY <1>1, <2>2, <2>3, <2>5, <2>6, <2>7, <2>8, <2>9, <2>10
       DEF Next, BeginDeleteFile, BeginDeleteStale, Abort
<1>2. IInv /\ [Next]_vars => [\A r \in db'.chunks : Excused(r)]_vars
  BY <1>1
<1> QED
  BY <1>2, InductiveInvariant, PTL DEF Spec, OnlyDeletionsHide

=============================================================================
