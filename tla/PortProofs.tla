----------------------------- MODULE PortProofs -----------------------------
(***************************************************************************)
(* Proofs about the two traits that have several implementations.          *)
(*                                                                         *)
(* StorePort: each of the two stores implements the contract.  For         *)
(* LanceStore the maps are the contract's, up to the vectors that wait for *)
(* their chunks.  For SqliteStore the tables need an invariant, and one    *)
(* lemma per call says what a search finds after it.                       *)
(*                                                                         *)
(* Embedding: what a task has asked is told by its attempts, whichever     *)
(* provider counts them; and every step is one that EmbedAll allows.  That  *)
(* needs what each way of reading an answer gives back (an answer that      *)
(* leaves a text out is a shorter one, the numbers of an unordered one sort *)
(* it, the slices of one tensor are the texts' own), where each request and *)
(* batch begins, and that the texts of joined batches are counted once.     *)
(***************************************************************************)
EXTENDS StorePort, Embedding, FiniteSetTheorems, SequenceTheorems, WellFoundedInduction, TLAPS

Table(d) == d \in Sql!Database

Keys(d) ==
  /\ \A r, s \in d.chunks : r.id = s.id => r = s
  /\ \A r, s \in d.chunks : r.rowid = s.rowid => r = s
  /\ \A m, n \in d.map : m.id = n.id => m = n
  /\ \A v, w \in d.vec : v.rowid = w.rowid => v = w

\* The counter is never behind a rowid in use.
Counted(d) ==
  /\ \A v \in d.vec : v.rowid <= d.seq
  /\ \A m \in d.map : m.vec <= d.seq

\* A mapping leads from a chunk to a vector, and is the only one that does.
Mapped(d) ==
  /\ \A m \in d.map : \E v \in d.vec : v.rowid = m.vec
  /\ \A m \in d.map : \E r \in d.chunks : r.id = m.id
  /\ \A m, n \in d.map : m.vec = n.vec => m = n

Posted(d) == \A r \in d.chunks : Sql!PostingOf(r) \in d.fts

DInv(d) == Table(d) /\ Keys(d) /\ Counted(d) /\ Mapped(d) /\ Posted(d)

Maps == [chunks : [Ids -> Texts \cup {NoText}], vectors : [Ids -> Texts \cup {NoText}]]

IInv == DInv(sqlite) /\ lance \in Maps

-----------------------------------------------------------------------------
(* What a search finds in the tables. *)

\* The only element of a set of one.
LEMMA TheOnly == \A x : The({x}) = x
BY DEF The

\* What rows are, by their tables.
LEMMA TableIs ==
  ASSUME NEW d
  PROVE  Table(d) =>
           /\ d.chunks \subseteq [id : Ids, rowid : Nat \ {0}, text : Texts]
           /\ d.map \subseteq [id : Ids, vec : Nat \ {0}]
           /\ d.vec \subseteq [rowid : Nat \ {0}, emb : Texts]
           /\ d.fts \subseteq [rowid : Nat \ {0}, text : Texts]
           /\ d.seq \in Nat
BY DEF Table, Sql!Database, Sql!ChunkRow, Sql!MapRow, Sql!VecRow, Sql!Posting

\* A chunk is found by the text of its row.
LEMMA TextOfRow ==
  ASSUME NEW d, DInv(d), NEW r \in d.chunks
  PROVE  SqliteText(d, r.id) = r.text
<1>1. {x \in Sql!RowsOf(d, r.id) : Sql!PostingOf(x) \in d.fts} = {r}
  BY DEF DInv, Keys, Posted, Sql!RowsOf
<1> QED
  BY <1>1, TheOnly DEF SqliteText

\* A chunk without a row has no text.
LEMMA TextOfNone ==
  ASSUME NEW d, NEW i, \A r \in d.chunks : r.id # i
  PROVE  SqliteText(d, i) = NoText
BY DEF SqliteText, The, Sql!RowsOf

\* A chunk is found by the vector it is mapped to.
LEMMA VectorOfMapping ==
  ASSUME NEW d, DInv(d), NEW m \in d.map, NEW v \in d.vec, v.rowid = m.vec
  PROVE  SqliteVector(d, m.id) = v.emb
<1>1. Sql!MappedRowids(d, m.id) = {m.vec}
  BY DEF DInv, Keys, Sql!MappedRowids
<1>2. {x \in d.vec : x.rowid \in Sql!MappedRowids(d, m.id)} = {v}
  BY <1>1 DEF DInv, Keys
<1> QED
  BY <1>2, TheOnly DEF SqliteVector

\* A chunk without a mapping has no vector.
LEMMA VectorOfNone ==
  ASSUME NEW d, NEW i, \A m \in d.map : m.id # i
  PROVE  SqliteVector(d, i) = NoText
BY DEF SqliteVector, The, Sql!MappedRowids

\* Two databases in which a chunk has the same rows: it is found by the same.
LEMMA SameText ==
  ASSUME NEW d, DInv(d), NEW e, DInv(e), NEW i,
         \A r : r.id = i => (r \in d.chunks <=> r \in e.chunks)
  PROVE  SqliteText(e, i) = SqliteText(d, i)
<1>1. CASE \E r \in d.chunks : r.id = i
  BY <1>1, TextOfRow
<1>2. CASE \A r \in d.chunks : r.id # i
  BY <1>2, TextOfNone
<1> QED
  BY <1>1, <1>2

\* Nor does its vector change while its mapping and what that names stay.
LEMMA SameVector ==
  ASSUME NEW d, DInv(d), NEW e, DInv(e), NEW i,
         \A m : m.id = i => (m \in d.map <=> m \in e.map),
         \A m \in d.map, v \in d.vec : m.id = i /\ v.rowid = m.vec => v \in e.vec
  PROVE  SqliteVector(e, i) = SqliteVector(d, i)
<1>1. CASE \E m \in d.map : m.id = i
  <2>1. PICK m \in d.map, v \in d.vec : m.id = i /\ v.rowid = m.vec
    BY <1>1 DEF DInv, Mapped
  <2> QED
    BY <2>1, VectorOfMapping
<1>2. CASE \A m \in d.map : m.id # i
  BY <1>2, VectorOfNone
<1> QED
  BY <1>1, <1>2

-----------------------------------------------------------------------------
(* One lemma per call of SqliteStore. *)

\* put_chunk: the chunk is found by its new text, and by no vector.
LEMMA InsertChunkFinds ==
  ASSUME NEW d, DInv(d), NEW i \in Ids, NEW t \in Texts, NEW n \in Nat \ {0}, Sql!IsNewRowid(d, n)
  PROVE  LET e == Sql!InsertChunk(d, i, t, n)
         IN /\ DInv(e)
            /\ SqliteText(e, i) = t /\ \A j : j # i => SqliteText(e, j) = SqliteText(d, j)
            /\ SqliteVector(e, i) = NoText /\ \A j : j # i => SqliteVector(e, j) = SqliteVector(d, j)
<1> PICK new, e : new = [id |-> i, rowid |-> n, text |-> t] /\ e = Sql!InsertChunk(d, i, t, n)
  OBVIOUS
<1>1. /\ e.chunks = {r \in d.chunks : r.id # i} \cup {new}
      /\ e.map = {m \in d.map : m.id # i}
      /\ e.fts = d.fts \cup {Sql!PostingOf(new)}
      /\ e.vec = d.vec /\ e.seq = d.seq
  BY DEF Sql!InsertChunk, Sql!RowsOf, DInv, Mapped, Table, Sql!Database
<1>2. \A r \in d.chunks : r.rowid < n /\ r.rowid \in Nat
  BY TableIs DEF DInv, Sql!IsNewRowid
<1>0. e = [chunks |-> e.chunks, map |-> e.map, vec |-> e.vec, fts |-> e.fts, seq |-> e.seq]
  BY DEF Sql!InsertChunk, Sql!RowsOf, DInv, Mapped, Table, Sql!Database
<1>3. Table(e)
  BY <1>0, <1>1 DEF DInv, Table, Sql!Database, Sql!ChunkRow, Sql!MapRow, Sql!Posting, Sql!PostingOf
<1>4. Keys(e)
  BY <1>1, <1>2 DEF DInv, Keys
<1>5. Counted(e) /\ Mapped(e) /\ Posted(e)
  BY <1>1 DEF DInv, Counted, Mapped, Posted
<1>6. DInv(e)
  BY <1>3, <1>4, <1>5 DEF DInv
<1>7. SqliteText(e, i) = t /\ SqliteVector(e, i) = NoText
  BY <1>1, <1>6, TextOfRow, VectorOfNone
<1>8. ASSUME NEW j, j # i
      PROVE  SqliteText(e, j) = SqliteText(d, j) /\ SqliteVector(e, j) = SqliteVector(d, j)
  BY <1>1, <1>6, <1>8, SameText, SameVector
<1> QED
  BY <1>6, <1>7, <1>8

\* put_vector of a chunk that is there: it is found by the new vector.
LEMMA InsertVectorFinds ==
  ASSUME NEW d, DInv(d), NEW i \in Ids, NEW t \in Texts, \E r \in d.chunks : r.id = i
  PROVE  LET e == Sql!InsertVector(d, i, t)
         IN /\ DInv(e)
            /\ \A j : SqliteText(e, j) = SqliteText(d, j)
            /\ SqliteVector(e, i) = t /\ \A j : j # i => SqliteVector(e, j) = SqliteVector(d, j)
<1>1. PICK rowid, e :
        /\ e = Sql!InsertVector(d, i, t)
        /\ e.vec = {v \in d.vec : v.rowid # rowid} \cup {[rowid |-> rowid, emb |-> t]}
        /\ e.map = {m \in d.map : m.id # i} \cup {[id |-> i, vec |-> rowid]}
        /\ e.chunks = d.chunks /\ e.fts = d.fts
        /\ \/ rowid = d.seq + 1 /\ e.seq = d.seq + 1
           \/ e.seq = d.seq /\ \E m \in d.map : m.id = i /\ rowid = m.vec
  <2> DEFINE mapped == Sql!MappedRowids(d, i)
             rowid  == IF mapped = {} THEN d.seq + 1 ELSE CHOOSE n \in mapped : TRUE
             e      == Sql!InsertVector(d, i, t)
  <2>1. /\ e.vec = {v \in d.vec : v.rowid # rowid} \cup {[rowid |-> rowid, emb |-> t]}
        /\ e.map = {m \in d.map : m.id # i} \cup {[id |-> i, vec |-> rowid]}
        /\ e.seq = (IF mapped = {} THEN d.seq + 1 ELSE d.seq)
        /\ e.chunks = d.chunks /\ e.fts = d.fts
    BY DEF Sql!InsertVector, DInv, Table, Sql!Database
  <2>2. CASE mapped = {}
    <3>1. rowid = d.seq + 1
      BY <2>2
    <3> HIDE DEF mapped, rowid
    <3> QED
      BY <2>1, <2>2, <3>1
  <2>3. CASE mapped # {}
    <3>1. rowid \in mapped
      BY <2>3
    <3>2. \E m \in d.map : m.id = i /\ rowid = m.vec
      BY <3>1 DEF Sql!MappedRowids
    <3> HIDE DEF mapped, rowid
    <3> QED
      BY <2>1, <2>3, <3>2
  <2> QED
    BY <2>2, <2>3
<1>2. /\ \A m \in d.map : m.vec \in Nat \ {0} /\ m.vec <= d.seq
      /\ d.seq \in Nat
  BY TableIs DEF DInv, Counted
<1>3. /\ rowid \in Nat \ {0} /\ rowid <= e.seq /\ d.seq <= e.seq /\ e.seq \in Nat
      /\ \A m \in d.map : m.id # i => m.vec # rowid
  <2>1. CASE rowid = d.seq + 1 /\ e.seq = d.seq + 1
    BY <1>2, <2>1
  <2>2. CASE e.seq = d.seq /\ \E m \in d.map : m.id = i /\ rowid = m.vec
    <3>1. PICK m \in d.map : m.id = i /\ rowid = m.vec
      BY <2>2
    <3>2. \A n \in d.map : n.id # i => n.vec # rowid
      BY <3>1 DEF DInv, Mapped
    <3> QED
      BY <1>2, <2>2, <3>1, <3>2
  <2> QED
    BY <1>1, <2>1, <2>2
<1>0. e = [chunks |-> e.chunks, map |-> e.map, vec |-> e.vec, fts |-> e.fts, seq |-> e.seq]
  BY <1>1 DEF Sql!InsertVector, DInv, Table, Sql!Database
<1>4. Table(e)
  BY <1>0, <1>1, <1>3 DEF DInv, Table, Sql!Database, Sql!MapRow, Sql!VecRow
<1>5. Keys(e)
  BY <1>1 DEF DInv, Keys
<1>6. Counted(e)
  <2>1. /\ \A v \in d.vec : v.rowid \in Nat /\ v.rowid <= d.seq
        /\ \A m \in d.map : m.vec \in Nat /\ m.vec <= d.seq
        /\ d.seq \in Nat
    BY TableIs DEF DInv, Counted
  <2>2. /\ \A v \in d.vec : v.rowid <= e.seq
        /\ \A m \in d.map : m.vec <= e.seq
    BY <1>3, <2>1
  <2>3. /\ \A v \in e.vec : v \in d.vec \/ v.rowid = rowid
        /\ \A m \in e.map : m \in d.map \/ m.vec = rowid
    BY <1>1
  <2> QED
    BY <1>3, <2>2, <2>3 DEF Counted
<1>7. Mapped(e)
  <2>1. ASSUME NEW m \in e.map PROVE \E v \in e.vec : v.rowid = m.vec
    <3>1. CASE m = [id |-> i, vec |-> rowid]
      <4>1. [rowid |-> rowid, emb |-> t] \in e.vec
        BY <1>1
      <4> QED
        BY <3>1, <4>1
    <3>2. CASE m \in d.map /\ m.id # i
      <4>1. PICK v \in d.vec : v.rowid = m.vec
        BY <3>2 DEF DInv, Mapped
      <4> QED
        BY <1>1, <1>3, <3>2, <4>1
    <3> QED
      BY <1>1, <2>1, <3>1, <3>2
  <2>2. \A m \in e.map : \E r \in e.chunks : r.id = m.id
    BY <1>1 DEF DInv, Mapped
  <2>3. \A m, n \in e.map : m.vec = n.vec => m = n
    BY <1>1, <1>3 DEF DInv, Mapped
  <2> QED
    BY <2>1, <2>2, <2>3 DEF Mapped
<1>8. Posted(e)
  BY <1>1 DEF DInv, Posted
<1>9. DInv(e)
  BY <1>4, <1>5, <1>6, <1>7, <1>8 DEF DInv
<1>10. SqliteVector(e, i) = t
  <2>1. PICK m \in e.map, v \in e.vec : m = [id |-> i, vec |-> rowid] /\ v = [rowid |-> rowid, emb |-> t]
    BY <1>1
  <2>2. SqliteVector(e, m.id) = v.emb
    BY <1>9, <2>1, VectorOfMapping
  <2> QED
    BY <2>1, <2>2
<1>11. ASSUME NEW j PROVE SqliteText(e, j) = SqliteText(d, j)
  BY <1>1, <1>9, SameText
<1>12. ASSUME NEW j, j # i PROVE SqliteVector(e, j) = SqliteVector(d, j)
  BY <1>1, <1>3, <1>9, <1>12, SameVector
<1> QED
  BY <1>1, <1>9, <1>10, <1>11, <1>12

\* put_vector of a chunk that is not there: an orphan vector that nothing finds.
LEMMA OrphanIsNotFound ==
  ASSUME NEW d, DInv(d), NEW i \in Ids, NEW t \in Texts, \A r \in d.chunks : r.id # i
  PROVE  LET e == [Sql!InsertVector(d, i, t) EXCEPT !.map = d.map]
         IN /\ DInv(e)
            /\ \A j : SqliteText(e, j) = SqliteText(d, j)
            /\ \A j : SqliteVector(e, j) = SqliteVector(d, j)
<1>0. PICK e : e = [Sql!InsertVector(d, i, t) EXCEPT !.map = d.map]
  OBVIOUS
<1>1. Sql!MappedRowids(d, i) = {}
  BY DEF DInv, Mapped, Sql!MappedRowids
<1>2. /\ e.vec = {v \in d.vec : v.rowid # d.seq + 1} \cup {[rowid |-> d.seq + 1, emb |-> t]}
      /\ e.map = d.map /\ e.seq = d.seq + 1
      /\ e.chunks = d.chunks /\ e.fts = d.fts
  BY <1>0, <1>1 DEF Sql!InsertVector, DInv, Table, Sql!Database
<1>3. /\ d.seq + 1 \in Nat \ {0}
      /\ \A v \in d.vec : v.rowid # d.seq + 1 /\ v.rowid <= d.seq + 1
      /\ \A m \in d.map : m.vec <= d.seq + 1
  BY TableIs DEF DInv, Counted
<1>10. e = [chunks |-> e.chunks, map |-> e.map, vec |-> e.vec, fts |-> e.fts, seq |-> e.seq]
  BY <1>0, <1>1 DEF Sql!InsertVector, DInv, Table, Sql!Database
<1>4. Table(e)
  BY <1>10, <1>2, <1>3 DEF DInv, Table, Sql!Database, Sql!VecRow
<1>5. Keys(e) /\ Mapped(e) /\ Posted(e)
  BY <1>2, <1>3 DEF DInv, Keys, Mapped, Posted
<1>6. Counted(e)
  BY <1>2, <1>3 DEF Counted
<1>7. DInv(e)
  BY <1>4, <1>5, <1>6 DEF DInv
<1>8. ASSUME NEW j PROVE SqliteText(e, j) = SqliteText(d, j)
  BY <1>2, <1>7, SameText
<1>9. ASSUME NEW j PROVE SqliteVector(e, j) = SqliteVector(d, j)
  <2>1. \A m \in d.map, v \in d.vec : m.id = j /\ v.rowid = m.vec => v \in e.vec
    BY <1>2, <1>3
  <2>2. \A m : m.id = j => (m \in d.map <=> m \in e.map)
    BY <1>2
  <2> QED
    BY <1>7, <2>1, <2>2, SameVector
<1> QED
  BY <1>0, <1>7, <1>8, <1>9

\* delete_vectors_for_chunk, and the first two statements of the deletions.
LEMMA DeleteVectorsFinds ==
  ASSUME NEW d, DInv(d), NEW ids
  PROVE  LET e == Sql!DeleteMapOf(Sql!DeleteVecOf(d, ids), ids)
         IN /\ DInv(e) /\ e.chunks = d.chunks
            /\ \A m \in e.map : m.id \notin ids
            /\ \A j : SqliteText(e, j) = SqliteText(d, j)
            /\ \A j \in ids : SqliteVector(e, j) = NoText
            /\ \A j : j \notin ids => SqliteVector(e, j) = SqliteVector(d, j)
<1> PICK e : e = Sql!DeleteMapOf(Sql!DeleteVecOf(d, ids), ids)
  OBVIOUS
<1>1. /\ e.vec = {v \in d.vec : \A m \in d.map : m.id \in ids => m.vec # v.rowid}
      /\ e.map = {m \in d.map : m.id \notin ids}
      /\ e.seq = d.seq /\ e.chunks = d.chunks /\ e.fts = d.fts
  BY DEF Sql!DeleteMapOf, Sql!DeleteVecOf, DInv, Table, Sql!Database
<1>0. e = [chunks |-> e.chunks, map |-> e.map, vec |-> e.vec, fts |-> e.fts, seq |-> e.seq]
  BY DEF Sql!DeleteMapOf, Sql!DeleteVecOf, DInv, Table, Sql!Database
<1>2. Table(e)
  BY <1>0, <1>1 DEF DInv, Table, Sql!Database
<1>3. Keys(e) /\ Counted(e) /\ Posted(e)
  BY <1>1 DEF DInv, Keys, Counted, Posted
<1>4. Mapped(e)
  BY <1>1 DEF DInv, Mapped
<1>5. DInv(e)
  BY <1>2, <1>3, <1>4 DEF DInv
<1>6. ASSUME NEW j PROVE SqliteText(e, j) = SqliteText(d, j)
  BY <1>1, <1>5, SameText
<1>7. ASSUME NEW j \in ids PROVE SqliteVector(e, j) = NoText
  BY <1>1, VectorOfNone
<1>8. ASSUME NEW j, j \notin ids PROVE SqliteVector(e, j) = SqliteVector(d, j)
  <2>1. \A m : m.id = j => (m \in d.map <=> m \in e.map)
    BY <1>1, <1>8
  <2>2. \A m \in d.map, v \in d.vec : m.id = j /\ v.rowid = m.vec => v \in e.vec
    BY <1>1, <1>8 DEF DInv, Mapped
  <2> QED
    BY <1>5, <2>1, <2>2, SameVector
<1> QED
  BY <1>1, <1>5, <1>6, <1>7, <1>8

\* The chunks of some files go, with their vectors.
LEMMA WithoutFinds ==
  ASSUME NEW d, DInv(d), NEW ids
  PROVE  LET e == Sql!DeleteChunksOf(Sql!DeleteMapOf(Sql!DeleteVecOf(d, ids), ids), ids)
         IN /\ DInv(e)
            /\ \A j \in ids : SqliteText(e, j) = NoText /\ SqliteVector(e, j) = NoText
            /\ \A j : j \notin ids => /\ SqliteText(e, j) = SqliteText(d, j)
                                      /\ SqliteVector(e, j) = SqliteVector(d, j)
<1> PICK c, e : c = Sql!DeleteMapOf(Sql!DeleteVecOf(d, ids), ids) /\ e = Sql!DeleteChunksOf(c, ids)
  OBVIOUS
<1>1. /\ DInv(c) /\ \A m \in c.map : m.id \notin ids
      /\ \A j : SqliteText(c, j) = SqliteText(d, j)
      /\ \A j : j \notin ids => SqliteVector(c, j) = SqliteVector(d, j)
  BY DeleteVectorsFinds
<1>2. /\ e.chunks = {r \in c.chunks : r.id \notin ids}
      /\ e.map = c.map /\ e.vec = c.vec /\ e.seq = c.seq
      /\ e.fts = c.fts \ {Sql!PostingOf(r) : r \in {x \in c.chunks : x.id \in ids}}
  BY <1>1 DEF Sql!DeleteChunksOf, DInv, Table, Sql!Database
<1>0. e = [chunks |-> e.chunks, map |-> e.map, vec |-> e.vec, fts |-> e.fts, seq |-> e.seq]
  BY <1>1 DEF Sql!DeleteChunksOf, DInv, Table, Sql!Database
<1>3. Table(e)
  BY <1>0, <1>1, <1>2 DEF DInv, Table, Sql!Database
<1>4. Keys(e) /\ Counted(e)
  BY <1>1, <1>2 DEF DInv, Keys, Counted
<1>5. Mapped(e)
  BY <1>1, <1>2 DEF DInv, Mapped
<1>6. Posted(e)
  <2> SUFFICES ASSUME NEW r \in e.chunks, NEW g \in c.chunks, g.id \in ids,
                      Sql!PostingOf(r) = Sql!PostingOf(g)
               PROVE  FALSE
    BY <1>1, <1>2 DEF DInv, Posted
  <2>1. r.rowid = g.rowid
    BY DEF Sql!PostingOf
  <2> QED
    BY <1>1, <1>2, <2>1 DEF DInv, Keys
<1>7. DInv(e)
  BY <1>3, <1>4, <1>5, <1>6 DEF DInv
<1>8. ASSUME NEW j \in ids PROVE SqliteText(e, j) = NoText /\ SqliteVector(e, j) = NoText
  BY <1>1, <1>2, TextOfNone, VectorOfNone
<1>9. ASSUME NEW j, j \notin ids
      PROVE  SqliteText(e, j) = SqliteText(d, j) /\ SqliteVector(e, j) = SqliteVector(d, j)
  BY <1>1, <1>2, <1>7, <1>9, SameText, SameVector
<1> QED
  BY <1>7, <1>8, <1>9

\* No mapping is without a chunk: the safety net finds nothing.
LEMMA NetIsIdle ==
  ASSUME NEW d, DInv(d) PROVE Sql!DeleteUnownedVec(d) = d
<1>1. \A m \in d.map : m.id \notin {i \in Ids : Sql!RowsOf(d, i) = {}}
  BY DEF DInv, Mapped, Sql!RowsOf
<1>2. {v \in d.vec : \A m \in d.map : m.id \in {i \in Ids : Sql!RowsOf(d, i) = {}} => m.vec # v.rowid} = d.vec
  BY <1>1
<1> QED
  BY <1>2 DEF Sql!DeleteUnownedVec, Sql!DeleteVecOf, DInv, Table, Sql!Database

\* The rows of some files and the chunks that are found by their text are as many.
LEMMA RowsAreChunks ==
  ASSUME NEW d, DInv(d), NEW S \in SUBSET Ids
  PROVE  Cardinality({r \in d.chunks : r.id \in S}) = Cardinality({i \in S : SqliteText(d, i) # NoText})
<1> PICK rows, found, f :
      /\ rows = {r \in d.chunks : r.id \in S}
      /\ found = {i \in S : SqliteText(d, i) # NoText}
      /\ f = [i \in found |-> CHOOSE r \in rows : r.id = i]
  OBVIOUS
<1>1. \A i \in found : \E r \in rows : r.id = i
  BY TextOfNone
<1>2. \A r \in rows : r.id \in found
  <2>1. \A r \in rows : r.text \in Texts
    BY TableIs DEF DInv
  <2> QED
    BY <2>1, TextOfRow, PortAssumption
<1>3. \A i \in found : f[i] \in rows /\ f[i].id = i
  BY <1>1
<1>4. f \in Bijection(found, rows)
  <2>1. f \in [found -> rows] /\ DOMAIN f = found
    BY <1>3
  <2>2. \A i, j \in found : f[i] = f[j] => i = j
    BY <1>3
  <2>3. \A r \in rows : f[r.id] = r
    BY <1>2, <1>3 DEF DInv, Keys
  <2> QED
    <3>1. IsInjective(f)
      BY <2>1, <2>2 DEF IsInjective
    <3>2. \A r \in rows : \E i \in found : f[i] = r
      BY <1>2, <2>3
    <3> QED
      BY <2>1, <3>1, <3>2, Zenon DEF Bijection, Injection, Surjection
<1>5. IsFiniteSet(found)
  BY PortAssumption, FS_Subset
<1> QED
  BY <1>4, <1>5, FS_Bijection DEF ExistsBijection

\* The deletion of some files, with the chunks that were not there either.
LEMMA FilesGo ==
  ASSUME NEW d, DInv(d), NEW paths
  PROVE  LET ids  == Sql!IdsIn(d, paths)
             e    == Sql!DeleteChunksOf(Sql!DeleteMapOf(Sql!DeleteVecOf(d, ids), ids), ids)
             gone == {i \in Ids : Owner[i] \in paths}
         IN /\ DInv(e)
            /\ \A j \in Ids : /\ SqliteText(e, j) = IF j \in gone THEN NoText ELSE SqliteText(d, j)
                              /\ SqliteVector(e, j) = IF j \in gone THEN NoText ELSE SqliteVector(d, j)
            /\ Cardinality({r \in d.chunks : Owner[r.id] \in paths})
                 = Cardinality({i \in gone : SqliteText(d, i) # NoText})
<1>1. PICK ids, e, gone :
        /\ ids = Sql!IdsIn(d, paths)
        /\ e = Sql!DeleteChunksOf(Sql!DeleteMapOf(Sql!DeleteVecOf(d, ids), ids), ids)
        /\ gone = {i \in Ids : Owner[i] \in paths}
  OBVIOUS
<1>2. /\ \A r \in d.chunks : r.id \in ids <=> Owner[r.id] \in paths
      /\ \A j \in ids : Owner[j] \in paths
  BY <1>1 DEF Sql!IdsIn
<1>3. /\ DInv(e)
      /\ \A j \in ids : SqliteText(e, j) = NoText /\ SqliteVector(e, j) = NoText
      /\ \A j : j \notin ids => /\ SqliteText(e, j) = SqliteText(d, j)
                                /\ SqliteVector(e, j) = SqliteVector(d, j)
  BY <1>1, WithoutFinds
<1>4. ASSUME NEW j \in gone PROVE SqliteText(e, j) = NoText /\ SqliteVector(e, j) = NoText
  <2>1. CASE j \in ids
    BY <1>3, <2>1
  <2>2. CASE j \notin ids
    <3>1. \A r \in d.chunks : r.id # j
      BY <1>1, <1>2, <2>2
    <3>2. \A m \in d.map : m.id # j
      BY <3>1 DEF DInv, Mapped
    <3> QED
      BY <1>3, <2>2, <3>1, <3>2, TextOfNone, VectorOfNone
  <2> QED
    BY <2>1, <2>2
<1>5. ASSUME NEW j \in Ids, j \notin gone PROVE j \notin ids
  BY <1>1, <1>2, <1>5
<1>6. {r \in d.chunks : Owner[r.id] \in paths} = {r \in d.chunks : r.id \in gone}
  BY <1>1, TableIs DEF DInv
<1>7. Cardinality({r \in d.chunks : r.id \in gone}) = Cardinality({i \in gone : SqliteText(d, i) # NoText})
  BY <1>1, RowsAreChunks
<1> QED
  BY <1>1, <1>3, <1>4, <1>5, <1>6, <1>7

-----------------------------------------------------------------------------
(* The refinements.  What the contract sees of the tables, as constants.   *)

SqliteTexts(d)   == [i \in Ids |-> SqliteText(d, i)]
SqliteVectors(d) == [i \in Ids |-> SqliteVector(d, i)]
NoneOf       == [i \in Ids |-> NoText]

\* The contract counts as this module does.
LEMMA OneCardinality ==
  \A S : SqlitePort!Cardinality(S) = Cardinality(S) /\ LancePort!Cardinality(S) = Cardinality(S)
BY DEF SqlitePort!Cardinality, LancePort!Cardinality, Cardinality

\* Both stores begin empty, as the contract does.
LEMMA InitHolds == PortInit => IInv /\ SqlitePort!Init /\ LancePort!Init
<1> SUFFICES ASSUME PortInit PROVE IInv /\ SqlitePort!Init /\ LancePort!Init
  OBVIOUS
<1>1. sqlite = [chunks |-> {}, map |-> {}, vec |-> {}, fts |-> {}, seq |-> 0]
  BY DEF PortInit, Sql!EmptyDatabase
<1>2. DInv(sqlite)
  BY <1>1 DEF DInv, Table, Keys, Counted, Mapped, Posted, Sql!Database
<1>3. lance \in Maps
  BY DEF PortInit, Maps
<1>4. \A i \in Ids : SqliteText(sqlite, i) = NoText /\ SqliteVector(sqlite, i) = NoText
  BY <1>1, TextOfNone, VectorOfNone
<1>5. SqlitePort!Init
  BY <1>4 DEF SqlitePort!Init, PortInit, Done
<1>6. LancePort!Init
  BY DEF LancePort!Init, PortInit, Done, LanceVector, LanceEarly
<1> QED
  BY <1>2, <1>3, <1>5, <1>6 DEF IInv

\* put_chunk of the SQLite store.
LEMMA PutChunkRefines ==
  ASSUME DInv(sqlite), NEW i \in Ids, NEW t \in Texts, SqlitePutChunk(i, t), answers' = Done
  PROVE  DInv(sqlite)' /\ SqlitePort!PutChunk(i, t)
<1>1. PICK n \in 1 .. MaxRows : Sql!IsNewRowid(sqlite, n) /\ sqlite' = Sql!InsertChunk(sqlite, i, t, n)
  BY DEF SqlitePutChunk
<1>2. n \in Nat \ {0}
  BY <1>1, PortAssumption
<1>3. /\ DInv(sqlite')
      /\ SqliteText(sqlite', i) = t
      /\ \A j : j # i => SqliteText(sqlite', j) = SqliteText(sqlite, j)
      /\ SqliteVector(sqlite', i) = NoText
      /\ \A j : j # i => SqliteVector(sqlite', j) = SqliteVector(sqlite, j)
  BY <1>1, <1>2, InsertChunkFinds
<1>4. SqliteTexts(sqlite') = [SqliteTexts(sqlite) EXCEPT ![i] = t]
  BY <1>3 DEF SqliteTexts
<1>5. SqliteVectors(sqlite') = [SqliteVectors(sqlite) EXCEPT ![i] = NoText]
  BY <1>3 DEF SqliteVectors
<1> QED
  BY <1>3, <1>4, <1>5
  DEF SqlitePort!PutChunk, SqlitePort!Without, SqliteTexts, SqliteVectors, DInv, Done

\* put_vector of the SQLite store: for a chunk that is there, or is not yet.
LEMMA PutVectorRefines ==
  ASSUME DInv(sqlite), NEW i \in Ids, NEW t \in Texts, SqlitePutVector(i, t), answers' = Done
  PROVE  DInv(sqlite)' /\ (SqlitePort!PutVector(i, t) \/ SqlitePort!PutEntry(i, t))
<1>1. CASE \E r \in sqlite.chunks : r.id = i
  <2>1. sqlite' = Sql!InsertVector(sqlite, i, t)
    BY <1>1 DEF SqlitePutVector, Sql!RowsOf
  <2>2. /\ DInv(sqlite')
        /\ \A j : SqliteText(sqlite', j) = SqliteText(sqlite, j)
        /\ SqliteVector(sqlite', i) = t
        /\ \A j : j # i => SqliteVector(sqlite', j) = SqliteVector(sqlite, j)
    BY <1>1, <2>1, InsertVectorFinds
  <2>3. SqliteTexts(sqlite') = SqliteTexts(sqlite) /\ SqliteVectors(sqlite') = [SqliteVectors(sqlite) EXCEPT ![i] = t]
    BY <2>2 DEF SqliteTexts, SqliteVectors
  <2>4. SqliteText(sqlite, i) # NoText
    <3>1. PICK r \in sqlite.chunks : r.id = i
      BY <1>1
    <3>2. r.text \in Texts
      BY TableIs DEF DInv
    <3> QED
      BY <3>1, <3>2, TextOfRow, PortAssumption
  <2>5. SqlitePort!PutVector(i, t)
    BY <2>3, <2>4 DEF SqlitePort!PutVector, SqliteTexts, SqliteVectors, Done
  <2> QED
    BY <2>2, <2>5 DEF DInv
<1>2. CASE \A r \in sqlite.chunks : r.id # i
  <2>1. sqlite' = [Sql!InsertVector(sqlite, i, t) EXCEPT !.map = sqlite.map]
    BY <1>2 DEF SqlitePutVector, Sql!RowsOf
  <2>2. /\ DInv(sqlite')
        /\ \A j : SqliteText(sqlite', j) = SqliteText(sqlite, j)
        /\ \A j : SqliteVector(sqlite', j) = SqliteVector(sqlite, j)
    BY <1>2, <2>1, OrphanIsNotFound
  <2>3. SqliteTexts(sqlite') = SqliteTexts(sqlite) /\ SqliteVectors(sqlite') = SqliteVectors(sqlite)
    BY <2>2 DEF SqliteTexts, SqliteVectors
  <2>4. SqlitePort!PutEntry(i, t)
    BY <2>3 DEF SqlitePort!PutEntry, SqliteTexts, SqliteVectors, Done
  <2> QED
    BY <2>2, <2>4 DEF DInv
<1> QED
  BY <1>1, <1>2

\* delete_vectors_for_chunk of the SQLite store.
LEMMA DeleteVectorRefines ==
  ASSUME DInv(sqlite), NEW i \in Ids, DeleteVectorsForChunk(i)
  PROVE  DInv(sqlite)' /\ SqlitePort!DeleteVector(i)
<1>1. /\ DInv(sqlite')
      /\ \A j : SqliteText(sqlite', j) = SqliteText(sqlite, j)
      /\ SqliteVector(sqlite', i) = NoText
      /\ \A j : j # i => SqliteVector(sqlite', j) = SqliteVector(sqlite, j)
  BY DeleteVectorsFinds DEF DeleteVectorsForChunk
<1>2. /\ SqliteTexts(sqlite') = SqliteTexts(sqlite)
      /\ SqliteVectors(sqlite') = [j \in Ids |-> IF j \in {i} THEN NoText ELSE SqliteVectors(sqlite)[j]]
  BY <1>1 DEF SqliteTexts, SqliteVectors
<1> QED
  BY <1>1, <1>2
  DEF SqlitePort!DeleteVector, SqlitePort!Without, DeleteVectorsForChunk, SqliteTexts, SqliteVectors, DInv, Done

\* The deletes by path of the SQLite store.
LEMMA DeleteFilesRefines ==
  ASSUME DInv(sqlite), NEW paths,
         sqlite' = SqliteWithout(paths), answers' = Deleted(paths)
  PROVE  DInv(sqlite)' /\ SqlitePort!DeleteChunksOf(paths)
<1> DEFINE ids  == Sql!IdsIn(sqlite, paths)
           e    == Sql!DeleteChunksOf(Sql!DeleteMapOf(Sql!DeleteVecOf(sqlite, ids), ids), ids)
           gone == {i \in Ids : Owner[i] \in paths}
<1>1. sqlite' = e
  BY DEF SqliteWithout
<1>2. /\ DInv(e)
      /\ \A j \in Ids : /\ SqliteText(e, j) = IF j \in gone THEN NoText ELSE SqliteText(sqlite, j)
                        /\ SqliteVector(e, j) = IF j \in gone THEN NoText ELSE SqliteVector(sqlite, j)
      /\ Cardinality({r \in sqlite.chunks : Owner[r.id] \in paths})
           = Cardinality({i \in gone : SqliteText(sqlite, i) # NoText})
  BY FilesGo
<1> HIDE DEF e, ids
<1>3. /\ SqliteTexts(sqlite') = [j \in Ids |-> IF j \in gone THEN NoText ELSE SqliteTexts(sqlite)[j]]
      /\ SqliteVectors(sqlite') = [j \in Ids |-> IF j \in gone THEN NoText ELSE SqliteVectors(sqlite)[j]]
  BY <1>1, <1>2 DEF SqliteTexts, SqliteVectors
<1>4. {i \in gone : SqliteText(sqlite, i) # NoText} = {i \in gone : SqliteTexts(sqlite)[i] # NoText}
  BY DEF SqliteTexts
<1>5. answers.sqlite' = Cardinality({i \in gone : SqliteTexts(sqlite)[i] # NoText})
  BY <1>2, <1>4 DEF Deleted
<1> QED
  BY <1>1, <1>2, <1>3, <1>5, OneCardinality
  DEF SqlitePort!DeleteChunksOf, SqlitePort!Without, SqlitePort!There, SqliteTexts, SqliteVectors, DInv

\* The count of the SQLite store is that of the chunks the contract has.
LEMMA CountRefines ==
  ASSUME DInv(sqlite), CountChunks
  PROVE  DInv(sqlite)' /\ SqlitePort!CountChunks
<1>1. {r \in sqlite.chunks : r.id \in Ids} = sqlite.chunks
  BY TableIs DEF DInv
<1>2. Cardinality(sqlite.chunks) = Cardinality({i \in Ids : SqliteText(sqlite, i) # NoText})
  BY <1>1, RowsAreChunks
<1>3. {i \in Ids : SqliteText(sqlite, i) # NoText} = {i \in Ids : SqliteTexts(sqlite)[i] # NoText}
  BY DEF SqliteTexts
<1>4. answers.sqlite' = Cardinality({i \in Ids : SqliteTexts(sqlite)[i] # NoText}) /\ sqlite' = sqlite
  BY <1>2, <1>3 DEF CountChunks
<1> QED
  BY <1>4, OneCardinality DEF SqlitePort!CountChunks, SqlitePort!There, SqliteTexts, DInv

\* Every step of the tables is a step of the contract, or none.
LEMMA SqliteRefines ==
  DInv(sqlite) /\ [PortNext]_portVars => DInv(sqlite)' /\ [SqlitePort!Next]_(SqlitePort!contractVars)
<1> SUFFICES ASSUME DInv(sqlite), [PortNext]_portVars
             PROVE  DInv(sqlite)' /\ [SqlitePort!Next]_(SqlitePort!contractVars)
  OBVIOUS
<1>1. ASSUME NEW i \in Ids, NEW t \in Texts, PutChunk(i, t) \/ PutFtsEntry(i, t)
      PROVE  DInv(sqlite)' /\ SqlitePort!Next
  BY <1>1, PutChunkRefines DEF PutChunk, PutFtsEntry, SqlitePort!Next
<1>2. ASSUME NEW i \in Ids, NEW t \in Texts, PutVector(i, t)
      PROVE  DInv(sqlite)' /\ SqlitePort!Next
  BY <1>2, PutVectorRefines DEF PutVector, SqlitePort!Next
<1>3. ASSUME NEW i \in Ids, DeleteVectorsForChunk(i)
      PROVE  DInv(sqlite)' /\ SqlitePort!Next
  BY <1>3, DeleteVectorRefines DEF SqlitePort!Next
<1>4. ASSUME NEW p \in {Owner[i] : i \in Ids}, DeleteChunksForFile(p)
      PROVE  DInv(sqlite)' /\ SqlitePort!Next
  <2>1. DInv(sqlite)' /\ SqlitePort!DeleteChunksOf({p})
    BY <1>4, DeleteFilesRefines DEF DeleteChunksForFile
  <2> QED
    BY <2>1 DEF SqlitePort!Next
<1>5. ASSUME NEW valid \in SUBSET {Owner[i] : i \in Ids}, DeleteStaleChunks(valid)
      PROVE  DInv(sqlite)' /\ SqlitePort!Next
  <2>1. PICK stale \in SUBSET {Owner[i] : i \in Ids} :
          /\ sqlite' = Sql!DeleteUnownedVec(SqliteWithout(stale))
          /\ answers' = Deleted(stale)
    BY <1>5 DEF DeleteStaleChunks
  <2>2. DInv(SqliteWithout(stale))
    BY WithoutFinds DEF SqliteWithout
  <2>3. sqlite' = SqliteWithout(stale)
    BY <2>1, <2>2, NetIsIdle
  <2>4. DInv(sqlite)' /\ SqlitePort!DeleteChunksOf(stale)
    BY <2>1, <2>3, DeleteFilesRefines
  <2> QED
    BY <2>4 DEF SqlitePort!Next
<1>6. CASE CountChunks
  BY <1>6, CountRefines DEF SqlitePort!Next
<1>7. CASE UNCHANGED portVars
  BY <1>7 DEF portVars, SqlitePort!contractVars, DInv
<1> QED
  BY <1>1, <1>2, <1>3, <1>4, <1>5, <1>6, <1>7 DEF PortNext

-----------------------------------------------------------------------------
(* LanceStore. *)

\* Every step of the maps is a step of the contract, or none.
LEMMA LanceRefines ==
  lance \in Maps /\ [PortNext]_portVars => (lance \in Maps)' /\ [LancePort!Next]_(LancePort!contractVars)
<1> SUFFICES ASSUME lance \in Maps, [PortNext]_portVars
             PROVE  (lance \in Maps)' /\ [LancePort!Next]_(LancePort!contractVars)
  OBVIOUS
<1>1. ASSUME NEW i \in Ids, NEW t \in Texts, PutChunk(i, t)
      PROVE  (lance \in Maps)' /\ LancePort!Next
  <2>1. lance' = [lance EXCEPT !.chunks = [lance.chunks EXCEPT ![i] = t]] /\ answers' = Done
    BY <1>1 DEF PutChunk, LancePutChunk
  <2>2. lance'.chunks = [lance.chunks EXCEPT ![i] = t] /\ lance'.vectors = lance.vectors
        /\ (lance \in Maps)'
    BY <2>1 DEF Maps
  <2> PICK v : v = IF lance.chunks[i] = NoText THEN LanceEarly(i) ELSE LanceVector(i)
    OBVIOUS
  <2>3. [j \in Ids |-> LanceVector(j)]' = [[j \in Ids |-> LanceVector(j)] EXCEPT ![i] = v]
    BY <2>2, PortAssumption DEF LanceVector, LanceEarly, Maps
  <2>4. [j \in Ids |-> LanceEarly(j)]'
          = [j \in Ids |-> IF j \in {i} THEN NoText ELSE [k \in Ids |-> LanceEarly(k)][j]]
    BY <2>2, PortAssumption DEF LanceEarly, Maps
  <2>5. LancePort!PutChunk(i, t)
    BY <2>1, <2>2, <2>3, <2>4 DEF LancePort!PutChunk, LancePort!Without, Done
  <2> QED
    BY <2>2, <2>5 DEF LancePort!Next
<1>2. ASSUME NEW i \in Ids, NEW t \in Texts, PutFtsEntry(i, t)
      PROVE  (lance \in Maps)' /\ LancePort!Next
  <2>1. LancePort!PutEntry(i, t)
    BY <1>2 DEF PutFtsEntry, LancePort!PutEntry, LanceVector, LanceEarly, Done
  <2> QED
    BY <1>2, <2>1 DEF PutFtsEntry, LancePort!Next
<1>3. ASSUME NEW i \in Ids, NEW t \in Texts, PutVector(i, t)
      PROVE  (lance \in Maps)' /\ LancePort!Next
  <2>1. /\ lance'.chunks = lance.chunks /\ lance'.vectors = [lance.vectors EXCEPT ![i] = t]
        /\ (lance \in Maps)' /\ answers' = Done
    BY <1>3 DEF PutVector, LancePutVector, Maps
  <2>2. CASE lance.chunks[i] # NoText
    <3>1. [j \in Ids |-> LanceVector(j)]' = [[j \in Ids |-> LanceVector(j)] EXCEPT ![i] = t]
      BY <2>1, <2>2 DEF LanceVector, Maps
    <3>2. [j \in Ids |-> LanceEarly(j)]' = [j \in Ids |-> LanceEarly(j)]
      BY <2>1, <2>2 DEF LanceEarly, Maps
    <3>3. LancePort!PutVector(i, t)
      BY <2>1, <2>2, <3>1, <3>2 DEF LancePort!PutVector, Done
    <3> QED
      BY <2>1, <3>3 DEF LancePort!Next
  <2>3. CASE lance.chunks[i] = NoText
    <3>1. [j \in Ids |-> LanceVector(j)]' = [j \in Ids |-> LanceVector(j)]
      BY <2>1, <2>3 DEF LanceVector, Maps
    <3>2. [j \in Ids |-> LanceEarly(j)]' = [[j \in Ids |-> LanceEarly(j)] EXCEPT ![i] = t]
      BY <2>1, <2>3 DEF LanceEarly, Maps
    <3>3. LancePort!PutVector(i, t)
      BY <2>1, <2>3, <3>1, <3>2 DEF LancePort!PutVector, Done
    <3> QED
      BY <2>1, <3>3 DEF LancePort!Next
  <2> QED
    BY <2>2, <2>3
<1>4. ASSUME NEW i \in Ids, DeleteVectorsForChunk(i)
      PROVE  (lance \in Maps)' /\ LancePort!Next
  <2>1. /\ lance'.chunks = lance.chunks /\ lance'.vectors = [lance.vectors EXCEPT ![i] = NoText]
        /\ (lance \in Maps)' /\ answers' = Done
    BY <1>4 DEF DeleteVectorsForChunk, Maps
  <2>2. /\ [j \in Ids |-> LanceVector(j)]'
             = [j \in Ids |-> IF j \in {i} THEN NoText ELSE [k \in Ids |-> LanceVector(k)][j]]
        /\ [j \in Ids |-> LanceEarly(j)]'
             = [j \in Ids |-> IF j \in {i} THEN NoText ELSE [k \in Ids |-> LanceEarly(k)][j]]
    BY <2>1 DEF LanceVector, LanceEarly, Maps
  <2>3. LancePort!DeleteVector(i)
    BY <2>1, <2>2 DEF LancePort!DeleteVector, LancePort!Without, Done
  <2> QED
    BY <2>1, <2>3 DEF LancePort!Next
<1>5. ASSUME NEW paths \in SUBSET {Owner[i] : i \in Ids},
             lance' = LanceWithout(paths), answers' = Deleted(paths)
      PROVE  (lance \in Maps)' /\ LancePort!Next
  <2> DEFINE ids  == IdsOf(paths)
             gone == {i \in ids : lance.chunks[i] # NoText}
  <2>1. /\ lance'.chunks = [i \in Ids |-> IF i \in gone THEN NoText ELSE lance.chunks[i]]
        /\ lance'.vectors = [i \in Ids |-> IF i \in gone THEN NoText ELSE lance.vectors[i]]
        /\ (lance \in Maps)'
    BY <1>5 DEF LanceWithout, Maps
  <2>2. /\ lance'.chunks = [i \in Ids |-> IF i \in ids THEN NoText ELSE lance.chunks[i]]
        /\ [j \in Ids |-> LanceVector(j)]'
             = [j \in Ids |-> IF j \in ids THEN NoText ELSE [k \in Ids |-> LanceVector(k)][j]]
        /\ [j \in Ids |-> LanceEarly(j)]' = [j \in Ids |-> LanceEarly(j)]
    BY <2>1 DEF LanceVector, LanceEarly, Maps
  <2>3. answers.lance' = Cardinality({i \in ids : lance.chunks[i] # NoText})
    BY <1>5 DEF Deleted
  <2>4. LancePort!DeleteChunksOf(paths)
    BY <2>2, <2>3, OneCardinality
    DEF LancePort!DeleteChunksOf, LancePort!Without, LancePort!There, IdsOf
  <2> QED
    BY <2>1, <2>4 DEF LancePort!Next
<1>6. ASSUME NEW p \in {Owner[i] : i \in Ids}, DeleteChunksForFile(p)
      PROVE  (lance \in Maps)' /\ LancePort!Next
  BY <1>5, <1>6 DEF DeleteChunksForFile
<1>7. ASSUME NEW valid \in SUBSET {Owner[i] : i \in Ids}, DeleteStaleChunks(valid)
      PROVE  (lance \in Maps)' /\ LancePort!Next
  <2>1. PICK stale \in SUBSET {Owner[i] : i \in Ids} :
          lance' = LanceWithout(stale) /\ answers' = Deleted(stale)
    BY <1>7 DEF DeleteStaleChunks
  <2> QED
    BY <1>5, <2>1
<1>8. CASE CountChunks
  <2>1. LancePort!CountChunks
    BY <1>8, OneCardinality DEF CountChunks, LancePort!CountChunks, LancePort!There, LanceVector, LanceEarly
  <2> QED
    BY <1>8, <2>1 DEF CountChunks, LancePort!Next
<1>9. CASE UNCHANGED portVars
  BY <1>9 DEF portVars, LancePort!contractVars, LanceVector, LanceEarly
<1> QED
  BY <1>1, <1>2, <1>3, <1>4, <1>6, <1>7, <1>8, <1>9 DEF PortNext

\* Both stores implement the contract of the trait, whatever calls they are given
\* in whatever order, for every set of chunks, files, texts and embeddings.
THEOREM StoresImplementTheContract == PortSpec => StoresKeepTheContract
<1>1. IInv /\ [PortNext]_portVars => IInv'
  BY SqliteRefines, LanceRefines DEF IInv
<1>2. IInv /\ [PortNext]_portVars =>
        /\ [SqlitePort!Next]_(SqlitePort!contractVars)
        /\ [LancePort!Next]_(LancePort!contractVars)
  BY SqliteRefines, LanceRefines DEF IInv
<1> QED
  BY <1>1, <1>2, InitHolds, PTL DEF PortSpec, StoresKeepTheContract, SqlitePort!Spec, LancePort!Spec

-----------------------------------------------------------------------------
(* Embedding: how often a request is asked. *)

Run == [state : {"building", "loading", "embedding", "done", "failed"}, provider : Providers,
        accepted : BOOLEAN, mode : {"index", "query"}, count : 1 .. MaxTexts,
        long : SUBSET LongTexts]

Most == IF emb.provider = "ollama" THEN MaxRetries ELSE MaxRetries + 1

\* The provider asks until the attempts are spent; Ollama's loop ends a sleep
\* later.
Counts(x) ==
  /\ {"pc", "request", "attempt", "asks", "got"} \subseteq DOMAIN x
  /\ x.attempt \in Nat /\ x.asks \in Nat /\ x.asks <= Most
  /\ x.pc \in {"queued", "asking"} => x.asks = x.attempt /\ x.attempt <= MaxRetries
  /\ x.pc = "queued" => x.attempt = 0
  /\ x.pc = "sleeping" => x.asks = x.attempt + 1 /\ x.attempt < MaxRetries
  /\ x.pc = "gaveUp" => x.asks = Most

EmbInv ==
  /\ (emb = [state |-> "idle"] /\ task = <<>>) \/ emb \in Run
  /\ \A b \in Tasks : Counts(task[b])

LEMMA QueuedCounts ==
  ASSUME emb \in Run
  PROVE  Counts(Queued) /\ Counts([Queued EXCEPT !.pc = "asking"])
BY EmbeddingAssumption DEF Queued, Counts, Most

\* One task is replaced by another.
LEMMA TaskKeeps ==
  ASSUME EmbInv, emb \in Run, NEW b \in Tasks, NEW x, Counts(x),
         task' = [task EXCEPT ![b] = x], UNCHANGED emb
  PROVE  EmbInv'
<1>1. Tasks' = Tasks /\ task'[b] = x /\ \A c \in Tasks : c # b => task'[c] = task[c]
  BY DEF Tasks
<1>2. ASSUME NEW y PROVE Counts(y)' <=> Counts(y)
  BY DEF Counts, Most
<1>3. \A c \in Tasks' : Counts(task[c])'
  BY <1>1, <1>2 DEF EmbInv, Counts, Most
<1> QED
  BY <1>3 DEF EmbInv

\* A request that may be asked once more: what it was asked so far.
LEMMA AskedIs ==
  ASSUME EmbInv, emb \in Run, NEW b \in Tasks, Asking(b),
         emb.provider = "ollama" => task[b].attempt < MaxRetries
  PROVE  /\ {"pc", "request", "attempt", "asks", "got"} \subseteq DOMAIN task[b]
         /\ task[b].attempt \in Nat /\ task[b].asks = task[b].attempt
         /\ task[b].asks + 1 \in Nat /\ task[b].asks + 1 <= Most
         /\ MaxRetries \in Nat \ {0} /\ Most \in Nat \ {0}
         /\ task[b].attempt <= MaxRetries
<1>1. MaxRetries \in Nat \ {0}
  BY EmbeddingAssumption
<1>2. Counts(task[b]) /\ task[b].pc = "asking"
  BY DEF EmbInv, Asking
<1> QED
  BY <1>1, <1>2 DEF Counts, Most

LEMMA SuccessKeeps ==
  ASSUME EmbInv, emb \in Run, NEW b \in Tasks, Asking(b),
         emb.provider = "ollama" => task[b].attempt < MaxRetries,
         NEW vs, Success(b, vs)
  PROVE  EmbInv' /\ emb' = emb
<1> DEFINE x == task[b]
           y == [x EXCEPT !.pc = "answered", !.got = @ \o vs, !.asks = @ + 1]
           z == [x EXCEPT !.request = @ + 1, !.got = @ \o vs, !.attempt = 0, !.asks = 0]
<1>1. /\ {"pc", "request", "attempt", "asks", "got"} \subseteq DOMAIN x
      /\ x.attempt \in Nat /\ x.asks + 1 \in Nat /\ x.asks + 1 <= Most
      /\ x.pc = "asking" /\ MaxRetries \in Nat \ {0} /\ Most \in Nat \ {0}
  BY AskedIs DEF Asking
<1>2. emb' = emb /\ (task' = [task EXCEPT ![b] = y] \/ task' = [task EXCEPT ![b] = z])
  <2>1. CASE IsLast(b)
    BY <2>1 DEF Success, KeepVectors
  <2>2. CASE ~IsLast(b)
    BY <2>2 DEF Success, KeepVectors
  <2> QED
    BY <2>1, <2>2
<1>3. /\ DOMAIN y = DOMAIN x /\ y.pc = "answered" /\ y.attempt = x.attempt /\ y.asks = x.asks + 1
      /\ DOMAIN z = DOMAIN x /\ z.pc = "asking" /\ z.attempt = 0 /\ z.asks = 0
  <2> HIDE DEF x
  <2> QED
    BY <1>1
<1> HIDE DEF x, y, z
<1>4. Counts(y) /\ Counts(z)
  BY <1>1, <1>3 DEF Counts
<1> QED
  BY <1>2, <1>4, TaskKeeps

\* Busy, after the attempt that may be the last.
LEMMA BusyKeeps ==
  ASSUME EmbInv, emb \in Run, NEW b \in Tasks, Asking(b),
         emb.provider = "ollama" => task[b].attempt < MaxRetries,
         NEW last, last = MaxRetries \/ (emb.provider = "ollama" /\ last = MaxRetries - 1),
         Busy(b, last)
  PROVE  EmbInv' /\ emb' = emb
<1> DEFINE x == task[b]
           y == [x EXCEPT !.pc = IF x.attempt < last THEN "sleeping" ELSE "gaveUp", !.asks = @ + 1]
<1>1. /\ {"pc", "request", "attempt", "asks", "got"} \subseteq DOMAIN x
      /\ x.attempt \in Nat /\ x.asks = x.attempt /\ x.asks + 1 \in Nat /\ x.asks + 1 <= Most
      /\ MaxRetries \in Nat \ {0} /\ Most \in Nat \ {0} /\ x.attempt <= MaxRetries
  BY AskedIs DEF Asking
<1>2. emb' = emb /\ task' = [task EXCEPT ![b] = y]
  BY DEF Busy
<1>3. /\ DOMAIN y = DOMAIN x /\ y.attempt = x.attempt /\ y.asks = x.asks + 1
      /\ y.pc = IF x.attempt < last THEN "sleeping" ELSE "gaveUp"
  <2> HIDE DEF x
  <2> QED
    BY <1>1
<1>4. /\ x.attempt < last => x.attempt < MaxRetries
      /\ ~(x.attempt < last) => x.asks + 1 = Most
  <2> HIDE DEF x
  <2>1. CASE emb.provider = "ollama"
    <3>1. x.attempt < MaxRetries /\ Most = MaxRetries
      BY <2>1 DEF x, Most
    <3> QED
      BY <1>1, <2>1, <3>1
  <2>2. CASE emb.provider # "ollama"
    BY <1>1, <2>2 DEF Most
  <2> QED
    BY <2>1, <2>2
<1> HIDE DEF x, y
<1>5. Counts(y)
  BY <1>1, <1>3, <1>4 DEF Counts
<1> QED
  BY <1>2, <1>5, TaskKeeps

LEMMA RefusedKeeps ==
  ASSUME EmbInv, emb \in Run, NEW b \in Tasks, Asking(b),
         emb.provider = "ollama" => task[b].attempt < MaxRetries,
         Refused(b)
  PROVE  EmbInv' /\ emb' = emb
<1> DEFINE x == task[b]
           y == [x EXCEPT !.pc = "refused", !.asks = @ + 1]
<1>1. /\ {"pc", "request", "attempt", "asks", "got"} \subseteq DOMAIN x
      /\ x.attempt \in Nat /\ x.asks + 1 \in Nat /\ x.asks + 1 <= Most
  BY AskedIs DEF Asking
<1>2. emb' = emb /\ task' = [task EXCEPT ![b] = y]
  BY DEF Refused
<1>3. /\ DOMAIN y = DOMAIN x /\ y.attempt = x.attempt /\ y.asks = x.asks + 1 /\ y.pc = "refused"
  <2> HIDE DEF x
  <2> QED
    BY <1>1
<1> HIDE DEF x, y
<1>4. Counts(y)
  BY <1>1, <1>3 DEF Counts
<1> QED
  BY <1>2, <1>4, TaskKeeps

\* A step of a task that asks nothing.
LEMMA RestsKeep ==
  ASSUME EmbInv, emb \in Run, NEW b \in Tasks, NEW y,
         task' = [task EXCEPT ![b] = y], UNCHANGED emb,
         DOMAIN y = DOMAIN task[b], y.asks = task[b].asks, y.attempt \in Nat,
         y.pc \in {"asking", "answered", "gaveUp", "joined"},
         y.pc = "asking" => y.asks = y.attempt /\ y.attempt <= MaxRetries,
         y.pc = "gaveUp" => y.asks = Most
  PROVE  EmbInv'
<1>1. Counts(task[b])
  BY DEF EmbInv
<1>2. Counts(y)
  BY <1>1 DEF Counts
<1> QED
  BY <1>2, TaskKeeps

\* A task gets its permit, wakes up, is left alone by Ollama or is joined.
LEMMA PermitKeeps ==
  ASSUME EmbInv, emb \in Run, NEW b \in Tasks,
         Acquire(b) \/ WakeUp(b) \/ OllamaGivesUp(b)
  PROVE  EmbInv'
<1> PICK x : x = task[b]
  OBVIOUS
<1>1. Counts(x) /\ MaxRetries \in Nat
  BY EmbeddingAssumption DEF EmbInv
<1>2. {"pc", "request", "attempt", "asks", "got"} \subseteq DOMAIN x
  BY <1>1 DEF Counts
<1>3. CASE Acquire(b)
  <2> DEFINE y == [x EXCEPT !.pc = "asking"]
  <2>1. DOMAIN y = DOMAIN x /\ y.pc = "asking" /\ y.asks = x.asks /\ y.attempt = x.attempt
    BY <1>2
  <2>2. task' = [task EXCEPT ![b] = y] /\ UNCHANGED emb
    BY <1>3 DEF Acquire
  <2>3. x.asks = x.attempt /\ x.attempt \in Nat /\ x.attempt <= MaxRetries
    BY <1>1, <1>3 DEF Acquire, Counts
  <2> HIDE DEF y
  <2> QED
    BY <2>1, <2>2, <2>3, RestsKeep
<1>4. CASE WakeUp(b)
  <2> DEFINE y == [x EXCEPT !.pc = "asking", !.attempt = @ + 1]
  <2>1. DOMAIN y = DOMAIN x /\ y.pc = "asking" /\ y.asks = x.asks /\ y.attempt = x.attempt + 1
    BY <1>2
  <2>2. task' = [task EXCEPT ![b] = y] /\ UNCHANGED emb
    BY <1>4 DEF WakeUp
  <2>3. x.asks = x.attempt + 1 /\ x.attempt + 1 \in Nat /\ x.attempt + 1 <= MaxRetries
    BY <1>1, <1>4 DEF WakeUp, Counts
  <2> HIDE DEF y
  <2> QED
    BY <2>1, <2>2, <2>3, RestsKeep
<1>5. CASE OllamaGivesUp(b)
  <2> DEFINE y == [x EXCEPT !.pc = "gaveUp"]
  <2>1. DOMAIN y = DOMAIN x /\ y.pc = "gaveUp" /\ y.asks = x.asks /\ y.attempt = x.attempt
    BY <1>2
  <2>2. task' = [task EXCEPT ![b] = y] /\ UNCHANGED emb
    BY <1>5 DEF OllamaGivesUp
  <2>3. x.attempt \in Nat /\ x.asks = Most
    BY <1>1, <1>5 DEF OllamaGivesUp, Asking, Counts, Most
  <2> HIDE DEF y
  <2> QED
    BY <2>1, <2>2, <2>3, RestsKeep
<1> QED
  BY <1>3, <1>4, <1>5

\* What any provider makes of a request.
LEMMA ProvideKeeps ==
  ASSUME EmbInv, emb \in Run, NEW b \in Tasks, Provide(b)
  PROVE  EmbInv'
<1>1. ASSUME Asking(b), emb.provider = "ollama" => task[b].attempt < MaxRetries
      PROVE  /\ \A vs : Success(b, vs) => EmbInv'
             /\ Busy(b, MaxRetries) => EmbInv'
             /\ emb.provider = "ollama" /\ Busy(b, MaxRetries - 1) => EmbInv'
             /\ Refused(b) => EmbInv'
  <2>1. \A vs : Success(b, vs) => EmbInv'
    BY <1>1, SuccessKeeps
  <2>2. Busy(b, MaxRetries) => EmbInv'
    BY <1>1, BusyKeeps
  <2>3. emb.provider = "ollama" /\ Busy(b, MaxRetries - 1) => EmbInv'
    BY <1>1, BusyKeeps
  <2>4. Refused(b) => EmbInv'
    BY <1>1, RefusedKeeps
  <2> QED
    BY <2>1, <2>2, <2>3, <2>4
<1>2. ASSUME NEW provider, provider # "ollama", NEW replies, Asked(b, provider, replies)
      PROVE  EmbInv'
  BY <1>1, <1>2 DEF Asked
<1>3. ASSUME NEW replies, OllamaChunk(b, replies), task[b].attempt < MaxRetries
      PROVE  EmbInv'
  BY <1>1, <1>3 DEF OllamaChunk, OllamaUnreachable
<1>4. ASSUME Asking(b), emb.provider # "ollama", Refused(b) PROVE EmbInv'
  BY <1>1, <1>4
<1>5. CASE GeminiEmbed(b) \/ GeminiEmbedBatch(b)
  BY <1>2, <1>5 DEF GeminiEmbed, GeminiEmbedBatch
<1>6. CASE OpenAiEmbed(b) \/ OpenAiEmbedBatch(b)
  <2>1. CASE SomeLong(b)
    BY <1>4, <1>6, <2>1 DEF OpenAiEmbed, OpenAiEmbedBatch
  <2>2. CASE ~SomeLong(b)
    BY <1>2, <1>6, <2>2 DEF OpenAiEmbed, OpenAiEmbedBatch
  <2> QED
    BY <2>1, <2>2
<1>7. CASE OpenRouterEmbed(b) \/ OpenRouterEmbedBatch(b)
  <2>1. CASE SomeLong(b)
    BY <1>4, <1>7, <2>1 DEF OpenRouterEmbed, OpenRouterEmbedBatch
  <2>2. CASE ~SomeLong(b)
    BY <1>2, <1>7, <2>2 DEF OpenRouterEmbed, OpenRouterEmbedBatch
  <2> QED
    BY <2>1, <2>2
<1>8. CASE OllamaEmbed(b) \/ OllamaEmbedBatch(b)
  BY <1>3, <1>8 DEF OllamaEmbed, OllamaEmbedBatch
<1>9. CASE OnnxEmbedBatch(b)
  <2>1. CASE Refused(b)
    BY <1>4, <1>9, <2>1 DEF OnnxEmbedBatch
  <2>2. CASE ~Refused(b)
    <3> PICK x : x = task[b]
      OBVIOUS
    <3> DEFINE y == [x EXCEPT !.pc = "answered", !.got = OnnxVectors(TextsOf(b))]
    <3>1. Counts(x)
      BY DEF EmbInv
    <3>2. {"pc", "request", "attempt", "asks", "got"} \subseteq DOMAIN x /\ x.attempt \in Nat
      BY <3>1 DEF Counts
    <3>3. DOMAIN y = DOMAIN x /\ y.pc = "answered" /\ y.asks = x.asks /\ y.attempt = x.attempt
      BY <3>2
    <3>4. task' = [task EXCEPT ![b] = y] /\ UNCHANGED emb
      BY <1>9, <2>2 DEF OnnxEmbedBatch
    <3> HIDE DEF y
    <3> QED
      BY <3>2, <3>3, <3>4, RestsKeep
  <2> QED
    BY <2>1, <2>2
<1> QED
  BY <1>5, <1>6, <1>7, <1>8, <1>9, PermitKeeps DEF Provide

\* Other steps of the run leave the tasks as they are.
LEMMA RunKeeps ==
  ASSUME EmbInv, UNCHANGED task, emb' \in Run, emb \in Run => emb'.provider = emb.provider,
         emb \in Run \/ task = <<>>
  PROVE  EmbInv'
<1>1. Tasks' = Tasks /\ (task = <<>> => Tasks = {})
  BY DEF Tasks
<1>2. CASE emb \in Run
  <2>1. Most' = Most
    BY <1>2 DEF Most
  <2> QED
    BY <1>1, <2>1 DEF EmbInv, Counts
<1>3. CASE task = <<>>
  BY <1>1, <1>3 DEF EmbInv
<1> QED
  BY <1>2, <1>3

\* A failure, or an end, of the run.
LEMMA EndsAreRuns ==
  ASSUME emb \in Run, NEW state \in {"loading", "embedding", "done", "failed"},
         emb' = [emb EXCEPT !.state = state]
  PROVE  emb' \in Run /\ emb'.provider = emb.provider
BY DEF Run

\* A new embedder, and the tasks of its run.
LEMMA StartKeeps ==
  ASSUME EmbInv, emb.state \in {"building", "loading"}, Start
  PROVE  EmbInv'
<1>1. emb \in Run
  BY DEF EmbInv
<1>2. emb' \in Run /\ emb'.provider = emb.provider
  BY <1>1, EndsAreRuns DEF Start
<1>3. ASSUME NEW b \in Tasks' PROVE Counts(task[b])'
  <2>1. task'[b] = Queued \/ task'[b] = [Queued EXCEPT !.pc = "asking"]
    BY <1>3 DEF Start, Tasks
  <2>2. ASSUME NEW x PROVE Counts(x)' <=> Counts(x)
    BY <1>2 DEF Counts, Most
  <2> HIDE DEF Queued
  <2>3. Counts(task'[b])
    BY <1>1, <2>1, QueuedCounts
  <2> QED
    BY <1>2, <2>3 DEF Counts, Most
<1> QED
  BY <1>2, <1>3 DEF EmbInv

LEMMA BuildingKeeps ==
  ASSUME EmbInv,
         \/ CreateEmbedder
         \/ GeminiNew \/ OpenAiNew \/ OpenRouterNew \/ OllamaNew
         \/ OnnxRead \/ OnnxNew \/ OnnxTimesOut
  PROVE  EmbInv'
<1>1. CASE CreateEmbedder
  <2>1. emb' \in Run /\ UNCHANGED task
    BY <1>1 DEF CreateEmbedder, Run
  <2>2. task = <<>> /\ emb \notin Run
    BY <1>1 DEF CreateEmbedder, EmbInv, Run
  <2> QED
    BY <2>1, <2>2, RunKeeps
<1>2. ASSUME Fail, UNCHANGED task, emb.state # "idle" PROVE EmbInv'
  <2>1. emb \in Run
    BY <1>2 DEF EmbInv
  <2> QED
    BY <1>2, <2>1, RunKeeps, EndsAreRuns DEF Fail
<1>3. ASSUME NEW provider, Construct(provider) PROVE EmbInv'
  BY <1>2, <1>3, StartKeeps DEF Construct
<1>4. CASE OnnxRead
  <2>1. CASE emb.accepted
    <3>1. emb \in Run
      BY <1>4 DEF EmbInv, OnnxRead
    <3> QED
      BY <1>4, <2>1, <3>1, RunKeeps, EndsAreRuns DEF OnnxRead
  <2>2. CASE ~emb.accepted
    BY <1>2, <1>4, <2>2 DEF OnnxRead
  <2> QED
    BY <2>1, <2>2
<1>5. CASE OnnxNew
  BY <1>2, <1>5, StartKeeps DEF OnnxNew
<1>6. CASE OnnxTimesOut
  BY <1>2, <1>6 DEF OnnxTimesOut
<1> QED
  BY <1>1, <1>3, <1>4, <1>5, <1>6 DEF GeminiNew, OpenAiNew, OpenRouterNew, OllamaNew

\* A batch is joined, the run fails or is done.
LEMMA JoinKeeps ==
  ASSUME EmbInv, emb \in Run, NEW b \in Tasks, JoinNext(b) PROVE EmbInv'
<1> PICK x : x = task[b]
  OBVIOUS
<1> DEFINE y == [x EXCEPT !.pc = "joined"]
<1>1. Counts(x)
  BY DEF EmbInv
<1>2. {"pc", "request", "attempt", "asks", "got"} \subseteq DOMAIN x /\ x.attempt \in Nat
  BY <1>1 DEF Counts
<1>3. DOMAIN y = DOMAIN x /\ y.pc = "joined" /\ y.asks = x.asks /\ y.attempt = x.attempt
  BY <1>2
<1>4. task' = [task EXCEPT ![b] = y] /\ (UNCHANGED emb \/ Fail)
  BY DEF JoinNext
<1> HIDE DEF y
<1>5. Counts(y) /\ Tasks' = Tasks /\ task'[b] = y /\ \A c \in Tasks : c # b => task'[c] = task[c]
  BY <1>1, <1>3, <1>4 DEF Counts, Tasks
<1>6. emb' \in Run /\ emb'.provider = emb.provider
  BY <1>4, EndsAreRuns DEF Fail
<1>7. Most' = Most
  BY <1>6 DEF Most
<1>8. \A c \in Tasks' : Counts(task[c])'
  BY <1>5, <1>7 DEF EmbInv, Counts
<1> QED
  BY <1>6, <1>8 DEF EmbInv

LEMMA EndKeeps ==
  ASSUME EmbInv, emb \in Run, Report \/ \E b \in Tasks : AnswerQuery(b) PROVE EmbInv'
<1>1. UNCHANGED task /\ (emb' = [emb EXCEPT !.state = "done"] \/ Fail)
  BY DEF Report, AnswerQuery
<1>2. emb' \in Run /\ emb'.provider = emb.provider
  BY <1>1, EndsAreRuns DEF Fail
<1> QED
  BY <1>1, <1>2, RunKeeps

LEMMA EmbNextKeeps == EmbInv /\ [EmbNext]_embVars => EmbInv'
<1> SUFFICES ASSUME EmbInv, [EmbNext]_embVars PROVE EmbInv'
  OBVIOUS
<1>1. ASSUME NEW b \in Tasks PROVE emb \in Run
  BY DEF EmbInv, Tasks
<1>2. CASE UNCHANGED embVars
  BY <1>2 DEF embVars, EmbInv, Counts, Most, Tasks
<1>3. CASE \E b \in Tasks : Acquire(b) \/ Provide(b) \/ WakeUp(b)
  BY <1>1, <1>3, PermitKeeps, ProvideKeeps
<1>4. CASE \E b \in Tasks : JoinNext(b) \/ AnswerQuery(b)
  BY <1>1, <1>4, JoinKeeps, EndKeeps
<1>5. CASE Report
  <2>1. emb \in Run
    BY <1>5 DEF Report, EmbInv
  <2> QED
    BY <1>5, <2>1, EndKeeps
<1> QED
  BY <1>2, <1>3, <1>4, <1>5, BuildingKeeps DEF EmbNext, EmbStep

\* Whatever the provider, and however many requests and batches, a request is
\* given up only after all its attempts, and is not asked more often.
THEOREM AttemptsAreSpent == EmbSpec => []RetriesAreSpent
<1>1. EmbInit => EmbInv
  BY DEF EmbInit, EmbInv, Tasks
<1>2. EmbInv => RetriesAreSpent
  <2> SUFFICES ASSUME EmbInv, NEW b \in Tasks
               PROVE  LET most == IF emb.state # "idle" /\ emb.provider = "ollama"
                                  THEN MaxRetries ELSE MaxRetries + 1
                      IN task[b].asks <= most /\ (task[b].pc = "gaveUp" => task[b].asks = most)
    BY DEF RetriesAreSpent
  <2>1. emb \in Run /\ emb.state # "idle" /\ Counts(task[b])
    BY DEF EmbInv, Tasks, Run
  <2> QED
    BY <2>1 DEF Counts, Most
<1> QED
  BY <1>1, <1>2, EmbNextKeeps, PTL DEF EmbSpec

-----------------------------------------------------------------------------
(* Embedding: what the vectors are, from texts to batches and requests and *)
(* back again.                                                             *)

\* A set of numbers has a least one.
LEMMA LeastNumber ==
  ASSUME NEW S \in SUBSET Nat, S # {}
  PROVE  \E m \in S : \A k \in S : m <= k
<1>1. PICK m \in S : \A k \in S : <<k, m>> \notin OpToRel(<, Nat)
  BY NatLessThanWellFounded, WFMin
<1>2. \A k \in S : ~(k < m)
  BY <1>1 DEF OpToRel
<1> QED
  BY <1>2

\* A piece begins before the end of what is cut.
LEMMA PieceBegins ==
  ASSUME NEW n \in Nat, NEW s \in Nat \ {0}, NEW k \in Nat \ {0}
  PROVE  /\ (n + s - 1) \div s \in Nat
         /\ k <= (n + s - 1) \div s <=> (k - 1) * s < n
<1> DEFINE d == (n + s - 1) \div s
<1>1. d \in Nat /\ d * s <= n + s - 1 /\ n + s - 1 < d * s + s
  OBVIOUS
<1> HIDE DEF d
<1>2. CASE k <= d
  <2>1. (k - 1) * s + s = k * s /\ k * s <= d * s
    BY <1>1, <1>2
  <2> QED
    BY <1>1, <1>2, <2>1
<1>3. CASE k > d
  <2>1. d <= k - 1 /\ d * s <= (k - 1) * s
    BY <1>1, <1>3
  <2> QED
    BY <1>1, <1>3, <2>1
<1> QED
  BY <1>1, <1>2, <1>3 DEF d

\* What a piece is.
LEMMA PieceIs ==
  ASSUME NEW S, NEW q \in Seq(S), NEW s \in Nat \ {0}, NEW k \in 1 .. PieceCount(q, s)
  PROVE  /\ Piece(q, s, k) \in Seq(S)
         /\ (k - 1) * s \in Nat /\ (k - 1) * s < Len(q)
         /\ Len(Piece(q, s, k)) \in Nat \ {0} /\ Len(Piece(q, s, k)) <= s
         /\ (k - 1) * s + Len(Piece(q, s, k)) <= Len(q)
         /\ \A i \in 1 .. Len(Piece(q, s, k)) : Piece(q, s, k)[i] = q[(k - 1) * s + i]
         /\ k = PieceCount(q, s) => (k - 1) * s + Len(Piece(q, s, k)) = Len(q)
         /\ k # PieceCount(q, s) => Len(Piece(q, s, k)) = s /\ k * s < Len(q)
<1> DEFINE n == Len(q)
           m == (k - 1) * s
           last == Smaller(k * s, n)
           p == Piece(q, s, k)
<1>1. n \in Nat
  OBVIOUS
<1>2. k \in Nat \ {0} /\ PieceCount(q, s) \in Nat /\ k <= PieceCount(q, s)
  BY <1>1, PieceBegins DEF PieceCount
<1>3. m \in Nat /\ m < n /\ k * s = m + s
  BY <1>1, <1>2, PieceBegins DEF PieceCount
<1>4. k # PieceCount(q, s) => k * s < n
  <2>1. k + 1 \in Nat \ {0} /\ (k + 1) - 1 = k
    BY <1>2
  <2>2. k + 1 <= PieceCount(q, s) <=> k * s < n
    BY <1>1, <2>1, PieceBegins DEF PieceCount
  <2> QED
    BY <1>2, <2>2
<1>5. k = PieceCount(q, s) => k * s >= n
  <2>1. k + 1 \in Nat \ {0} /\ (k + 1) - 1 = k
    BY <1>2
  <2>2. k + 1 <= PieceCount(q, s) <=> k * s < n
    BY <1>1, <2>1, PieceBegins DEF PieceCount
  <2>3. k * s \in Nat
    BY <1>2
  <2> QED
    BY <1>1, <1>2, <2>2, <2>3
<1> HIDE DEF m
<1>6. /\ last \in Int /\ m + 1 \in Int
      /\ m + 1 <= last => \A j \in m + 1 .. last : j \in 1 .. n
      /\ last = IF m + s < n THEN m + s ELSE n
  BY <1>1, <1>3 DEF Smaller
<1>7. /\ SubSeq(q, m + 1, last) \in Seq(S)
      /\ Len(SubSeq(q, m + 1, last)) = IF m + 1 <= last THEN last - (m + 1) + 1 ELSE 0
      /\ \A i \in 1 .. last - (m + 1) + 1 : SubSeq(q, m + 1, last)[i] = q[m + 1 + i - 1]
  BY <1>1, <1>3, <1>6, SubSeqProperties
<1>8. p = SubSeq(q, m + 1, last)
  BY DEF Piece, m
<1> HIDE DEF last, p
<1>9. /\ p \in Seq(S) /\ Len(p) = IF s < n - m THEN s ELSE n - m
      /\ \A i \in 1 .. Len(p) : p[i] = q[m + i]
  <2>1. /\ m + 1 <= last /\ last - (m + 1) + 1 = last - m
        /\ last - m = IF s < n - m THEN s ELSE n - m
        /\ \A i \in Int : m + 1 + i - 1 = m + i
    BY <1>1, <1>3, <1>6
  <2>2. p \in Seq(S) /\ Len(p) = last - m
    BY <1>7, <1>8, <2>1
  <2>3. ASSUME NEW i \in 1 .. Len(p) PROVE p[i] = q[m + i]
    <3>1. i \in 1 .. last - (m + 1) + 1 /\ m + 1 + i - 1 = m + i
      BY <1>3, <1>6, <2>1, <2>2
    <3> QED
      BY <1>7, <1>8, <3>1
  <2> QED
    BY <2>1, <2>2, <2>3
<1>10. /\ Len(p) \in Nat \ {0} /\ Len(p) <= s /\ m + Len(p) <= n
       /\ k = PieceCount(q, s) => m + Len(p) = n
       /\ k # PieceCount(q, s) => Len(p) = s /\ k * s < n
  BY <1>1, <1>3, <1>4, <1>5, <1>9
<1> QED
  BY <1>3, <1>9, <1>10 DEF m, p

-----------------------------------------------------------------------------
\* The batches of a run: where each begins and what is in it.
LEMMA BatchIs ==
  ASSUME emb \in Run, NEW b \in Batches
  PROVE  /\ TextsOf(b) \in Seq(TextIds)
         /\ FirstText(b) \in Nat
         /\ Len(TextsOf(b)) \in Nat \ {0} /\ Len(TextsOf(b)) <= BatchSize
         /\ FirstText(b) + Len(TextsOf(b)) <= emb.count
         /\ \A i \in 1 .. Len(TextsOf(b)) : TextsOf(b)[i] = FirstText(b) + i
<1> DEFINE q == AllTexts
           f == (b - 1) * BatchSize
           p == Piece(q, BatchSize, b)
<1>1. BatchSize \in Nat \ {0} /\ emb.count \in 1 .. MaxTexts /\ MaxTexts \in Nat \ {0}
  BY EmbeddingAssumption DEF Run
<1>2. q \in Seq(TextIds) /\ Len(q) = emb.count /\ \A i \in 1 .. emb.count : q[i] = i
  BY <1>1 DEF AllTexts, TextIds
<1>3. b \in 1 .. PieceCount(q, BatchSize)
  BY DEF Batches
<1> HIDE DEF q
<1>4. /\ p \in Seq(TextIds) /\ f \in Nat /\ Len(p) \in Nat \ {0} /\ Len(p) <= BatchSize
      /\ f + Len(p) <= emb.count /\ \A i \in 1 .. Len(p) : p[i] = q[f + i]
  BY <1>1, <1>2, <1>3, PieceIs
<1> HIDE DEF p, f
<1>5. \A i \in 1 .. Len(p) : p[i] = f + i
  BY <1>1, <1>2, <1>4
<1> QED
  BY <1>4, <1>5 DEF TextsOf, FirstText, q, p, f

\* Every text is in a batch, and in no other.
LEMMA EachInItsBatch ==
  ASSUME emb \in Run
  PROVE  /\ \A t \in 1 .. emb.count : \E b \in Batches :
              FirstText(b) < t /\ t <= FirstText(b) + Len(TextsOf(b))
         /\ \A b, c \in Batches : b < c => FirstText(b) + Len(TextsOf(b)) <= FirstText(c)
<1>1. BatchSize \in Nat \ {0} /\ emb.count \in 1 .. MaxTexts /\ MaxTexts \in Nat \ {0}
  BY EmbeddingAssumption DEF Run
<1> DEFINE q == AllTexts
<1>2. q \in Seq(TextIds) /\ Len(q) = emb.count
  BY <1>1 DEF AllTexts, TextIds
<1> HIDE DEF q
<1>3. Batches = 1 .. PieceCount(q, BatchSize) /\ PieceCount(q, BatchSize) \in Nat
  BY <1>1, <1>2, PieceBegins DEF Batches, PieceCount, q
<1>4. ASSUME NEW b \in Batches
      PROVE  /\ FirstText(b) \in Nat /\ Len(TextsOf(b)) \in Nat
             /\ b = PieceCount(q, BatchSize) => FirstText(b) + Len(TextsOf(b)) = emb.count
             /\ b # PieceCount(q, BatchSize) => Len(TextsOf(b)) = BatchSize
  <2>1. b \in 1 .. PieceCount(q, BatchSize)
    BY <1>3
  <2> QED
    BY <1>1, <1>2, <2>1, PieceIs, BatchIs DEF FirstText, TextsOf, q
<1>5. ASSUME NEW t \in 1 .. emb.count
      PROVE  \E b \in Batches : FirstText(b) < t /\ t <= FirstText(b) + Len(TextsOf(b))
  <2> DEFINE bs == {b \in Nat \ {0} : t <= b * BatchSize}
  <2>1. t \in bs
    BY <1>1, <1>5
  <2>2. PICK b \in bs : \A c \in bs : b <= c
    BY <2>1, LeastNumber
  <2>3. b \in Nat \ {0} /\ t <= b * BatchSize
    BY <2>2
  <2>4. (b - 1) * BatchSize < t
    <3>1. CASE b = 1
      BY <1>1, <1>5, <3>1
    <3>2. CASE b # 1
      <4>1. b - 1 \in Nat \ {0} /\ b - 1 \notin bs
        BY <2>2, <2>3, <3>2
      <4>2. (b - 1) * BatchSize \in Nat
        BY <1>1, <2>3
      <4> QED
        BY <1>1, <1>5, <4>1, <4>2
    <3> QED
      BY <3>1, <3>2
  <2>5. (b - 1) * BatchSize \in Nat /\ b * BatchSize = (b - 1) * BatchSize + BatchSize
    BY <1>1, <2>3
  <2>6. b \in Batches
    <3>1. (b - 1) * BatchSize < Len(q)
      BY <1>1, <1>2, <1>5, <2>4, <2>5
    <3> QED
      BY <1>1, <1>2, <1>3, <2>3, <3>1, PieceBegins DEF PieceCount
  <2>7. FirstText(b) = (b - 1) * BatchSize
    BY DEF FirstText
  <2> QED
    BY <1>1, <1>4, <1>5, <2>3, <2>4, <2>5, <2>6, <2>7
<1>6. ASSUME NEW b \in Batches, NEW c \in Batches, b < c
      PROVE  FirstText(b) + Len(TextsOf(b)) <= FirstText(c)
  <2>1. b # PieceCount(q, BatchSize) /\ b \in Nat /\ c \in Nat /\ b <= c - 1
    BY <1>3, <1>6
  <2>2. FirstText(b) + BatchSize = b * BatchSize /\ b * BatchSize <= (c - 1) * BatchSize
    BY <1>1, <2>1 DEF FirstText
  <2> QED
    BY <1>4, <2>1, <2>2 DEF FirstText
<1> QED
  BY <1>5, <1>6

-----------------------------------------------------------------------------
\* What a service answers has as many vectors as there are texts and is then
\* right, or has fewer.
Reply(q, vs) ==
  /\ vs \in Seq(TextIds)
  /\ Len(vs) <= Len(q)
  /\ Len(vs) = Len(q) => vs = q

\* An answer that may leave a text out is a reply.
LEMMA AnswersReply ==
  ASSUME NEW q \in Seq(TextIds), NEW vs \in Answers(q)
  PROVE  Reply(q, vs)
<1>1. CASE vs = q
  BY <1>1 DEF Reply
<1>2. CASE \E i \in DOMAIN q : vs = RemoveAt(q, i)
  <2>1. PICK i \in 1 .. Len(q) : vs = SubSeq(q, 1, i - 1) \o SubSeq(q, i + 1, Len(q))
    <3>1. PICK i \in DOMAIN q : vs = RemoveAt(q, i)
      BY <1>2
    <3>2. i \in 1 .. Len(q)
      BY <3>1, LenProperties
    <3> QED
      BY <3>1, <3>2 DEF RemoveAt
  <2>2. /\ SubSeq(q, 1, i - 1) \in Seq(TextIds) /\ Len(SubSeq(q, 1, i - 1)) = i - 1
        /\ SubSeq(q, i + 1, Len(q)) \in Seq(TextIds)
        /\ Len(SubSeq(q, i + 1, Len(q))) = Len(q) - i
    <3>1. /\ \A j \in 1 .. i - 1 : q[j] \in TextIds
          /\ \A j \in i + 1 .. Len(q) : q[j] \in TextIds
      BY ElementOfSeq, LenProperties
    <3>2. /\ SubSeq(q, 1, i - 1) \in Seq(TextIds)
          /\ Len(SubSeq(q, 1, i - 1)) = IF 1 <= i - 1 THEN (i - 1) - 1 + 1 ELSE 0
      BY <3>1, SubSeqProperties
    <3>3. /\ SubSeq(q, i + 1, Len(q)) \in Seq(TextIds)
          /\ Len(SubSeq(q, i + 1, Len(q))) =
               IF i + 1 <= Len(q) THEN Len(q) - (i + 1) + 1 ELSE 0
      BY <3>1, LenProperties, SubSeqProperties
    <3> QED
      BY <3>2, <3>3, LenProperties
  <2>3. vs \in Seq(TextIds) /\ Len(vs) = (i - 1) + (Len(q) - i)
    <3>1. PICK p \in Seq(TextIds), r \in Seq(TextIds) :
            p = SubSeq(q, 1, i - 1) /\ r = SubSeq(q, i + 1, Len(q))
      BY <2>2
    <3>2. p \o r \in Seq(TextIds) /\ Len(p \o r) = Len(p) + Len(r)
      BY ConcatProperties
    <3>3. Len(p) = i - 1 /\ Len(r) = Len(q) - i /\ vs = p \o r
      BY <2>1, <2>2, <3>1
    <3> QED
      BY <3>2, <3>3
  <2> QED
    BY <2>3, LenProperties DEF Reply
<1> QED
  BY <1>1, <1>2 DEF Answers

\* Numbers that grow from 1 to n in n places are each at its own.
LEMMA GrowingIsCounting ==
  ASSUME NEW n \in Nat, NEW g \in [1 .. n -> 1 .. n],
         \A i, j \in 1 .. n : i < j => g[i] < g[j]
  PROVE  \A i \in 1 .. n : g[i] = i
<1>1. ASSUME NEW i \in 1 .. n, g[i] < i PROVE FALSE
  <2> DEFINE low == {k \in Nat : k \in 1 .. n /\ g[k] < k}
  <2>1. PICK m \in low : \A k \in low : m <= k
    <3>1. low \in SUBSET Nat /\ i \in low
      BY <1>1
    <3> QED
      BY <3>1, LeastNumber
  <2>2. m \in 1 .. n /\ g[m] < m /\ g[m] \in 1 .. n
    BY <2>1
  <2>3. m - 1 \in 1 .. n /\ g[m - 1] \in 1 .. n
    BY <2>2
  <2>4. g[m - 1] < g[m]
    BY <2>2, <2>3
  <2>5. m - 1 \in low
    BY <2>2, <2>3, <2>4
  <2> HIDE DEF low
  <2>6. m <= m - 1
    BY <2>1, <2>5
  <2> QED
    BY <2>2, <2>6
<1>2. ASSUME NEW i \in 1 .. n, g[i] > i PROVE FALSE
  <2> DEFINE high == {k \in Nat : n - k \in 1 .. n /\ g[n - k] > n - k}
  <2>1. PICK m \in high : \A k \in high : m <= k
    <3>1. n - i \in Nat /\ n - (n - i) = i
      BY <1>2
    <3>2. high \in SUBSET Nat /\ n - i \in high
      BY <1>2, <3>1
    <3> QED
      BY <3>2, LeastNumber
  <2>2. m \in Nat /\ n - m \in 1 .. n /\ g[n - m] > n - m /\ g[n - m] \in 1 .. n
    BY <2>1
  <2>3. m - 1 \in Nat /\ n - (m - 1) = n - m + 1 /\ n - m + 1 \in 1 .. n
    BY <2>2
  <2>4. g[n - m + 1] \in 1 .. n /\ g[n - m] < g[n - m + 1]
    BY <2>2, <2>3
  <2>5. m - 1 \in high
    BY <2>2, <2>3, <2>4
  <2> HIDE DEF high
  <2>6. m <= m - 1
    BY <2>1, <2>5
  <2> QED
    BY <2>2, <2>6
<1>3. \A i \in 1 .. n : g[i] \in 1 .. n
  OBVIOUS
<1> QED
  BY <1>1, <1>2, <1>3

\* Vectors that came with their numbers, put in order: the order there is is
\* found.
LEMMA ByIndexIs ==
  ASSUME NEW T, NEW m \in Nat, NEW s \in [1 .. m -> T], NEW d \in SetToSeqs(T),
         \A e \in T : e.index \in Nat /\ \E i \in 1 .. m : s[i] = e,
         \A i, j \in 1 .. m : i < j => s[i].index < s[j].index
  PROVE  /\ DOMAIN d = 1 .. m /\ ByIndex(d) \in [1 .. m -> T]
         /\ \A i, j \in 1 .. m : i < j => ByIndex(d)[i].index < ByIndex(d)[j].index
<1>1. ASSUME NEW i \in 1 .. m, NEW j \in 1 .. m, i # j PROVE s[i] # s[j]
  <2>1. s[i].index \in Nat /\ s[j].index \in Nat /\ (i < j \/ j < i)
    BY <1>1
  <2> QED
    BY <2>1
<1>2. IsFiniteSet(1 .. m) /\ Cardinality(1 .. m) = m
  BY FS_Interval
<1>3. IsFiniteSet(T) /\ Cardinality(T) = m
  <2>1. s \in Bijection(1 .. m, T)
    BY <1>1 DEF Bijection, Injection, Surjection, IsInjective
  <2> QED
    BY <1>2, <2>1, FS_Bijection DEF ExistsBijection
<1>4. s \in SetToSeqs(T)
  BY <1>1, <1>3 DEF SetToSeqs
<1>5. d \in [1 .. m -> T] /\ \A i, j \in 1 .. m : i # j => d[i] # d[j]
  BY <1>3 DEF SetToSeqs
<1>6. Range(d) = T
  <2>1. d \in Injection(1 .. m, T)
    BY <1>5 DEF Injection, IsInjective
  <2>2. d \in Surjection(1 .. m, T)
    BY <1>2, <1>3, <2>1, FS_Injection
  <2> QED
    BY <1>5, <2>2 DEF Surjection, Range
<1>7. /\ ByIndex(d) \in SetToSeqs(T)
      /\ \A i, j \in DOMAIN ByIndex(d) : i < j => ByIndex(d)[i].index < ByIndex(d)[j].index
  BY <1>4, <1>6 DEF ByIndex
<1>8. ByIndex(d) \in [1 .. m -> T]
  BY <1>3, <1>7 DEF SetToSeqs
<1> QED
  BY <1>5, <1>7, <1>8

\* Sorting by the numbers gives each text its own vector again.
LEMMA ParseReplies ==
  ASSUME NEW q \in Seq(TextIds), NEW vs \in OpenAiParse(q)
  PROVE  Reply(q, vs)
<1> DEFINE n == Len(q)
           all == Numbered(q)
           At(i) == [index |-> i, vector |-> q[i]]
<1>1. n \in Nat /\ DOMAIN q = 1 .. n /\ \A i \in 1 .. n : q[i] \in TextIds
  BY LenProperties, ElementOfSeq
<1>2. all = {At(i) : i \in 1 .. n}
  BY <1>1 DEF Numbered
<1>3. PICK d \in Data(q) : vs = [i \in DOMAIN d |-> ByIndex(d)[i].vector]
  BY DEF OpenAiParse
<1>4. d \in SetToSeqs(all) \/ \E e \in all : d \in SetToSeqs(all \ {e})
  BY <1>3 DEF Data
<1>5. CASE d \in SetToSeqs(all)
  <2> DEFINE s == [i \in 1 .. n |-> At(i)]
             z == ByIndex(d)
  <2>1. /\ s \in [1 .. n -> all] /\ \A i, j \in 1 .. n : i < j => s[i].index < s[j].index
        /\ \A e \in all : e.index \in Nat /\ \E i \in 1 .. n : s[i] = e
    BY <1>2
  <2> HIDE DEF s, all
  <2>2. /\ DOMAIN d = 1 .. n /\ z \in [1 .. n -> all]
        /\ \A i, j \in 1 .. n : i < j => z[i].index < z[j].index
    BY <1>1, <1>5, <2>1, ByIndexIs
  <2> HIDE DEF z
  <2>3. \A i \in 1 .. n : z[i].index \in 1 .. n /\ z[i].vector = q[z[i].index]
    BY <1>2, <2>2
  <2> DEFINE g == [i \in 1 .. n |-> z[i].index]
  <2>4. g \in [1 .. n -> 1 .. n] /\ \A i, j \in 1 .. n : i < j => g[i] < g[j]
    BY <2>2, <2>3
  <2>5. \A i \in 1 .. n : g[i] = z[i].index
    OBVIOUS
  <2> HIDE DEF g
  <2>6. \A i \in 1 .. n : z[i].index = i
    BY <1>1, <2>4, <2>5, GrowingIsCounting
  <2>7. vs = [i \in 1 .. n |-> q[i]]
    BY <1>3, <2>2, <2>3, <2>6 DEF z
  <2>8. vs = q
    BY <1>1, <2>7, LenProperties
  <2> QED
    BY <1>1, <2>8 DEF Reply
<1>6. ASSUME NEW e \in all, d \in SetToSeqs(all \ {e})
      PROVE  Reply(q, vs)
  <2>1. PICK j \in 1 .. n : e = At(j)
    BY <1>2
  <2> DEFINE T == all \ {e}
             Next(k) == IF k < j THEN k ELSE k + 1
             s == [k \in 1 .. n - 1 |-> At(Next(k))]
             z == ByIndex(d)
  <2>2. n - 1 \in Nat /\ \A k \in 1 .. n - 1 : Next(k) \in 1 .. n /\ Next(k) # j
    BY <1>1, <2>1
  <2>3. \A f \in T : \E i \in 1 .. n : f = At(i) /\ i # j
    BY <1>2, <2>1
  <2>4. \A i \in 1 .. n : i # j => At(i) \in T
    <3>1. \A i \in 1 .. n : At(i).index = i
      OBVIOUS
    <3> QED
      BY <1>2, <2>1, <3>1
  <2>5. s \in [1 .. n - 1 -> T] /\ \A k \in 1 .. n - 1 : s[k] = At(Next(k))
    BY <2>2, <2>4
  <2>6. \A i, k \in 1 .. n - 1 : i < k => s[i].index < s[k].index
    <3>1. \A i, k \in 1 .. n - 1 : i < k => Next(i) < Next(k)
      BY <1>1, <2>1
    <3> QED
      BY <2>5, <3>1
  <2>7. ASSUME NEW f \in T PROVE f.index \in Nat /\ \E i \in 1 .. n - 1 : s[i] = f
    <3>1. PICK i \in 1 .. n : f = At(i) /\ i # j
      BY <2>3
    <3>2. f.index \in Nat
      <4>1. At(i).index = i
        OBVIOUS
      <4> QED
        BY <3>1, <4>1
    <3>3. CASE i < j
      <4>1. i \in 1 .. n - 1 /\ Next(i) = i
        BY <1>1, <2>1, <3>1, <3>3
      <4> QED
        BY <2>5, <3>1, <3>2, <4>1
    <3>4. CASE i > j
      <4>1. i - 1 \in 1 .. n - 1 /\ Next(i - 1) = i
        BY <1>1, <2>1, <3>1, <3>4
      <4> QED
        BY <2>5, <3>1, <3>2, <4>1
    <3>5. i < j \/ i > j
      BY <2>1, <3>1
    <3> QED
      BY <3>2, <3>3, <3>4, <3>5
  <2> HIDE DEF s, T, Next
  <2>8. DOMAIN d = 1 .. n - 1 /\ z \in [1 .. n - 1 -> T]
    <3>1. d \in SetToSeqs(T)
      BY <1>6 DEF T
    <3> DEFINE m == n - 1
    <3>2. /\ m \in Nat /\ s \in [1 .. m -> T] /\ \A i, k \in 1 .. m : i < k => s[i].index < s[k].index
          /\ \A f \in T : f.index \in Nat /\ \E i \in 1 .. m : s[i] = f
      BY <2>2, <2>5, <2>6, <2>7
    <3> HIDE DEF m
    <3>3. DOMAIN d = 1 .. m /\ z \in [1 .. m -> T]
      BY <3>1, <3>2, ByIndexIs
    <3> QED
      BY <3>3 DEF m
  <2>9. \A i \in 1 .. n - 1 : z[i].vector \in TextIds
    <3>1. \A f \in T : f.vector \in TextIds
      BY <1>1, <2>3
    <3> QED
      BY <2>8, <3>1
  <2>10. vs \in [1 .. n - 1 -> TextIds]
    BY <1>3, <2>8, <2>9
  <2>11. vs \in Seq(TextIds) /\ Len(vs) = n - 1
    BY <2>2, <2>10, SeqDef
  <2>12. Len(vs) <= Len(q) /\ Len(vs) # Len(q)
    <3>1. n \in Nat /\ Len(vs) = n - 1 /\ n = Len(q)
      BY <1>1, <2>11
    <3> HIDE DEF n
    <3> QED
      BY <3>1
  <2> QED
    BY <2>11, <2>12 DEF Reply
<1> QED
  BY <1>4, <1>5, <1>6

\* Slices of one length, and where they are in the sequence they make.
Slices(q, n, w, S) == q \in [1 .. n -> Seq(S)] /\ \A i \in 1 .. n : Len(q[i]) = w

Tiled(f, q, n, w, S) ==
  /\ f \in Seq(S) /\ Len(f) = n * w
  /\ \A i \in 1 .. n : \A k \in 1 .. w : f[(i - 1) * w + k] = q[i][k]

\* Flattened, they are tiled.
LEMMA FlattenedIs ==
  ASSUME NEW S, NEW n \in Nat \ {0}, NEW w \in Nat, NEW q, Slices(q, n, w, S)
  PROVE  Tiled(FlattenSeq(q), q, n, w, S)
<1>0. q \in [1 .. n -> Seq(S)] /\ \A i \in 1 .. n : Len(q[i]) = w
  BY DEF Slices
<1> USE <1>0
<1> DEFINE Is(g, m) == g = [i \in 1 .. m |-> IF i = 1 THEN q[i] ELSE g[i - 1] \o q[i]]
<1>1. Len(q) = n /\ n # 0
  <2>1. q \in Seq(Seq(S))
    BY SeqDef
  <2> QED
    BY <2>1, LenProperties
<1>2. \E g : Is(g, n)
  <2> DEFINE lacking == {m \in Nat : m \in 1 .. n /\ ~\E g : Is(g, m)}
  <2>1. SUFFICES ASSUME lacking # {} PROVE FALSE
    <3>1. n \in 1 .. n
      OBVIOUS
    <3> QED
      BY <2>1, <3>1
  <2>2. PICK m \in lacking : \A k \in lacking : m <= k
    BY <2>1, LeastNumber
  <2>3. m \in 1 .. n /\ ~\E g : Is(g, m)
    BY <2>2
  <2>4. CASE m = 1
    <3> DEFINE g == [i \in 1 .. 1 |-> q[i]]
    <3>1. Is(g, 1)
      OBVIOUS
    <3> QED
      BY <2>3, <2>4, <3>1
  <2>5. CASE m # 1
    <3>1. m - 1 \in Nat /\ m - 1 \in 1 .. n /\ m - 1 \notin lacking
      <4> HIDE DEF lacking
      <4> QED
        BY <2>2, <2>3, <2>5
    <3>2. PICK g : Is(g, m - 1)
      BY <3>1
    <3> DEFINE h == [i \in 1 .. m |-> IF i = m THEN g[m - 1] \o q[m] ELSE g[i]]
    <3>3. ASSUME NEW i \in 1 .. m
          PROVE  h[i] = IF i = 1 THEN q[i] ELSE h[i - 1] \o q[i]
      <4>1. CASE i = m
        <5>1. m - 1 \in 1 .. m /\ m - 1 # m /\ i # 1
          BY <2>3, <2>5, <4>1
        <5>2. h[m] = g[m - 1] \o q[m] /\ h[m - 1] = g[m - 1]
          BY <2>3, <5>1
        <5> QED
          BY <4>1, <5>1, <5>2
      <4>2. CASE i # m
        <5>1. i \in 1 .. m - 1 /\ h[i] = g[i]
          BY <2>3, <3>3, <4>2
        <5>2. g[i] = IF i = 1 THEN q[i] ELSE g[i - 1] \o q[i]
          BY <3>2, <5>1
        <5>3. i # 1 => h[i - 1] = g[i - 1]
          BY <2>3, <5>1
        <5> QED
          BY <5>1, <5>2, <5>3
      <4> QED
        BY <4>1, <4>2
    <3>4. DOMAIN h = 1 .. m /\ h = [i \in 1 .. m |-> h[i]]
      OBVIOUS
    <3> HIDE DEF h
    <3>5. Is(h, m)
      BY <3>3, <3>4
    <3> QED
      BY <2>3, <3>5
  <2> QED
    BY <2>4, <2>5
<1> DEFINE f == CHOOSE g : Is(g, n)
<1>3. FlattenSeq(q) = f[n]
  BY <1>1 DEF FlattenSeq
<1>4. Is(f, n)
  BY <1>2
<1> HIDE DEF f
<1>5. f[1] = q[1] /\ \A i \in 1 .. n : i # 1 => f[i] = f[i - 1] \o q[i]
  <2>1. ASSUME NEW i \in 1 .. n PROVE f[i] = IF i = 1 THEN q[i] ELSE f[i - 1] \o q[i]
    <3> DEFINE e == [k \in 1 .. n |-> IF k = 1 THEN q[k] ELSE f[k - 1] \o q[k]]
    <3>1. f = e
      BY <1>4
    <3>2. e[i] = IF i = 1 THEN q[i] ELSE f[i - 1] \o q[i]
      OBVIOUS
    <3> HIDE DEF e
    <3> QED
      BY <3>1, <3>2
  <2>2. 1 \in 1 .. n
    OBVIOUS
  <2> HIDE DEF Is
  <2> QED
    BY <2>1, <2>2
<1> DEFINE Good(i) ==
             /\ f[i] \in Seq(S) /\ Len(f[i]) = i * w
             /\ \A j \in 1 .. i : \A k \in 1 .. w : f[i][(j - 1) * w + k] = q[j][k]
<1>6. \A i \in 1 .. n : Good(i)
  <2> DEFINE bad == {i \in Nat : i \in 1 .. n /\ ~Good(i)}
  <2>1. SUFFICES ASSUME bad # {} PROVE FALSE
    <3> HIDE DEF Good
    <3> QED
      BY <2>1
  <2>2. PICK m \in bad : \A k \in bad : m <= k
    BY <2>1, LeastNumber
  <2>3. m \in 1 .. n /\ ~Good(m)
    BY <2>2
  <2>4. CASE m = 1
    <3>1. f[m] \in Seq(S) /\ Len(f[m]) = m * w
      BY <1>5, <2>4
    <3>2. ASSUME NEW j \in 1 .. m, NEW k \in 1 .. w
          PROVE  f[m][(j - 1) * w + k] = q[j][k]
      <4>1. j = 1 /\ (j - 1) * w + k = k
        BY <2>4, <3>2
      <4> QED
        BY <1>5, <2>4, <4>1
    <3> QED
      BY <2>3, <3>1, <3>2
  <2>5. CASE m # 1
    <3> DEFINE a == f[m - 1]
    <3>1. m - 1 \in Nat /\ m - 1 \in 1 .. n /\ m - 1 \notin bad
      <4> HIDE DEF bad
      <4> QED
        BY <2>2, <2>3, <2>5
    <3>2. Good(m - 1)
      BY <3>1
    <3>3. f[m] = a \o q[m] /\ q[m] \in Seq(S) /\ Len(q[m]) = w
      BY <1>5, <2>3, <2>5
    <3>4. a \in Seq(S) /\ Len(a) = (m - 1) * w /\ (m - 1) * w \in Nat
      BY <3>1, <3>2
    <3>5. \A j \in 1 .. m - 1 : \A k \in 1 .. w : a[(j - 1) * w + k] = q[j][k]
      BY <3>2
    <3> HIDE DEF a, Good
    <3>6. /\ a \o q[m] \in Seq(S) /\ Len(a \o q[m]) = Len(a) + w
          /\ \A i \in 1 .. Len(a) + w :
               (a \o q[m])[i] = IF i <= Len(a) THEN a[i] ELSE q[m][i - Len(a)]
      BY <3>3, <3>4, ConcatProperties
    <3>7. f[m] \in Seq(S) /\ Len(f[m]) = m * w
      <4>1. (m - 1) * w + w = m * w
        BY <2>3
      <4> QED
        BY <3>3, <3>4, <3>6, <4>1
    <3>8. ASSUME NEW j \in 1 .. m, NEW k \in 1 .. w
          PROVE  f[m][(j - 1) * w + k] = q[j][k]
      <4>1. CASE j = m
        <5>1. (j - 1) * w + k = Len(a) + k
          BY <3>4, <4>1
        <5> PICK l \in Nat : l = Len(a)
          BY <3>4
        <5>2. Len(a) + k \in 1 .. Len(a) + w /\ ~(Len(a) + k <= Len(a)) /\ (Len(a) + k) - Len(a) = k
          BY <3>8
        <5> QED
          BY <3>3, <3>6, <4>1, <5>1, <5>2
      <4>2. CASE j # m
        <5>1. j \in 1 .. m - 1
          BY <2>3, <3>8, <4>2
        <5>2. (j - 1) * w \in Nat /\ (j - 1) * w + w <= (m - 1) * w
          <6>1. (j - 1) * w + w = j * w /\ j * w <= (m - 1) * w
            BY <2>3, <5>1
          <6> QED
            BY <5>1, <6>1
        <5>3. \A x, l \in Nat : x + w <= l => x + k \in 1 .. l + w /\ x + k <= l
          OBVIOUS
        <5>4. (j - 1) * w + k \in 1 .. Len(a) + w /\ (j - 1) * w + k <= Len(a)
          BY <3>4, <5>2, <5>3
        <5> QED
          BY <3>3, <3>5, <3>6, <5>1, <5>4
      <4> QED
        BY <4>1, <4>2
    <3> QED
      BY <2>3, <3>7, <3>8 DEF Good
  <2> QED
    BY <2>4, <2>5
<1>7. n \in 1 .. n
  OBVIOUS
<1> QED
  BY <1>3, <1>6, <1>7 DEF Tiled

\* Tokens, and padding.
Cells == (TextIds \cup {NoVector}) \X Nat

\* The tokens of a text are its own.
LEMMA TokensOf ==
  ASSUME NEW t \in TextIds
  PROVE  /\ Tokenize(t) \in Seq(Cells) /\ Len(Tokenize(t)) \in Nat \ {0}
         /\ \A k \in 1 .. Len(Tokenize(t)) : Tokenize(t)[k] = <<t, k>>
         /\ VectorOver(Range(Tokenize(t))) = t
<1> DEFINE n == Smaller(Tokens[t], MaxTokens)
<1>1. n \in Nat \ {0}
  <2>1. Tokens[t] \in Nat \ {0} /\ MaxTokens \in Nat \ {0}
    BY EmbeddingAssumption
  <2> QED
    BY <2>1 DEF Smaller
<1>2. Tokenize(t) = [k \in 1 .. n |-> <<t, k>>]
  BY DEF Tokenize
<1> HIDE DEF n
<1>3. Tokenize(t) \in [1 .. n -> Cells]
  BY <1>1, <1>2 DEF Cells
<1>4. Tokenize(t) \in Seq(Cells) /\ Len(Tokenize(t)) = n
  BY <1>1, <1>3, SeqDef
<1>5. \A s \in TextIds : <<s, 1>> \in Range(Tokenize(s)) /\ \A e \in Range(Tokenize(s)) : e[1] = s
  <2> TAKE s \in TextIds
  <2>1. Smaller(Tokens[s], MaxTokens) \in Nat \ {0}
    <3>1. Tokens[s] \in Nat \ {0} /\ MaxTokens \in Nat \ {0}
      BY EmbeddingAssumption
    <3> QED
      BY <3>1 DEF Smaller
  <2> PICK m \in Nat \ {0} : m = Smaller(Tokens[s], MaxTokens)
    BY <2>1
  <2>2. Tokenize(s) = [k \in 1 .. m |-> <<s, k>>]
    BY DEF Tokenize
  <2>3. 1 \in 1 .. m
    OBVIOUS
  <2> QED
    BY <2>2, <2>3 DEF Range
<1>6. \A s \in TextIds : Range(Tokenize(t)) = Range(Tokenize(s)) => s = t
  BY <1>5
<1>7. VectorOver(Range(Tokenize(t))) = t
  BY <1>6 DEF VectorOver
<1> QED
  BY <1>1, <1>2, <1>4, <1>7

\* No text of a batch is longer than the longest.
LEMMA LongestIs ==
  ASSUME NEW q \in Seq(TextIds), Len(q) # 0
  PROVE  /\ Longest(q) \in Nat
         /\ \A i \in 1 .. Len(q) : Len(Tokenize(q[i])) <= Longest(q)
<1> DEFINE lens == {Len(Tokenize(q[i])) : i \in DOMAIN q}
           room == {n \in Nat : MaxTokens - n \in lens}
<1>1. DOMAIN q = 1 .. Len(q) /\ Len(q) \in Nat /\ \A i \in 1 .. Len(q) : q[i] \in TextIds
  BY LenProperties, ElementOfSeq
<1>2. MaxTokens \in Nat
  BY EmbeddingAssumption
<1>3. \A n \in lens : n \in Nat /\ n <= MaxTokens
  <2>1. ASSUME NEW t \in TextIds PROVE Len(Tokenize(t)) \in Nat /\ Len(Tokenize(t)) <= MaxTokens
    <3> PICK m \in Nat : m = Smaller(Tokens[t], MaxTokens) /\ m <= MaxTokens
      BY EmbeddingAssumption DEF Smaller
    <3>1. Tokenize(t) = [k \in 1 .. m |-> <<t, k>>]
      BY DEF Tokenize
    <3> QED
      BY <3>1
  <2> QED
    BY <1>1, <2>1
<1>4. Len(Tokenize(q[1])) \in lens
  BY <1>1
<1> HIDE DEF lens
<1>5. \E n \in lens : \A m \in lens : m <= n
  <2>1. \A n \in lens : MaxTokens - n \in room /\ MaxTokens - (MaxTokens - n) = n
    BY <1>2, <1>3
  <2>2. room \in SUBSET Nat /\ room # {}
    BY <1>4, <2>1
  <2>3. PICK r \in room : \A s \in room : r <= s
    BY <2>2, LeastNumber
  <2>4. MaxTokens - r \in lens /\ r \in Nat
    BY <2>3
  <2>5. ASSUME NEW m \in lens PROVE m <= MaxTokens - r
    <3>1. r <= MaxTokens - m
      BY <2>1, <2>3
    <3> QED
      BY <1>2, <1>3, <2>4, <3>1
  <2> QED
    BY <2>4, <2>5
<1>6. Longest(q) \in lens /\ \A m \in lens : m <= Longest(q)
  BY <1>5 DEF Longest, lens
<1> QED
  BY <1>1, <1>3, <1>6 DEF lens

\* The slice at one place.
Slice(f, w, i) == SubSeq(f, (i - 1) * w + 1, i * w)

\* The slice of a place is what was put at that place.
LEMMA SliceIs ==
  ASSUME NEW S, NEW n \in Nat \ {0}, NEW w \in Nat, NEW q, Slices(q, n, w, S), NEW i \in 1 .. n
  PROVE  Slice(FlattenSeq(q), w, i) = q[i]
<1>0. Tiled(FlattenSeq(q), q, n, w, S)
  BY FlattenedIs
<1>1. /\ FlattenSeq(q) \in Seq(S) /\ Len(FlattenSeq(q)) = n * w
      /\ \A j \in 1 .. n : \A k \in 1 .. w : FlattenSeq(q)[(j - 1) * w + k] = q[j][k]
  BY <1>0 DEF Tiled
<1>2. PICK f : f = FlattenSeq(q)
  OBVIOUS
<1>3. PICK m \in Nat : m = (i - 1) * w
  OBVIOUS
<1>4. PICK l \in Nat : l = n * w
  OBVIOUS
<1>5. i * w = m + w /\ m + w <= l
  <2>1. i * w = (i - 1) * w + w
    OBVIOUS
  <2>2. i * w <= n * w
    OBVIOUS
  <2> QED
    BY <1>3, <1>4, <2>1, <2>2
<1>6. f \in Seq(S) /\ Len(f) = l /\ \A k \in 1 .. w : f[m + k] = q[i][k]
  BY <1>1, <1>2, <1>3, <1>4
<1>7. \A j \in m + 1 .. m + w : f[j] \in S
  <2> TAKE j \in m + 1 .. m + w
  <2>1. j \in 1 .. l
    BY <1>5
  <2> QED
    BY <1>6, <2>1, ElementOfSeq
<1>8. PICK p : p = SubSeq(f, m + 1, m + w)
  OBVIOUS
<1>9. /\ p \in Seq(S) /\ Len(p) = IF m + 1 <= m + w THEN m + w - (m + 1) + 1 ELSE 0
      /\ \A k \in 1 .. m + w - (m + 1) + 1 : p[k] = f[m + 1 + k - 1]
  BY <1>7, <1>8, SubSeqProperties
<1>10. m + w - (m + 1) + 1 = w /\ (m + 1 <= m + w <=> w # 0) /\ \A k \in 1 .. w : m + 1 + k - 1 = m + k
  OBVIOUS
<1>11. Len(p) = w /\ \A k \in 1 .. w : p[k] = q[i][k]
  BY <1>6, <1>9, <1>10
<1>12. q[i] \in Seq(S) /\ Len(q[i]) = w
  BY DEF Slices
<1>13. p = q[i]
  BY <1>9, <1>11, <1>12, SeqEqual
<1> QED
  BY <1>2, <1>3, <1>5, <1>8, <1>13 DEF Slice

\* The slices of the tensor give each text its own vector.
LEMMA OnnxVectorsAre ==
  ASSUME NEW q \in Seq(TextIds), Len(q) # 0
  PROVE  OnnxVectors(q) = q
<1> DEFINE n == Len(q)
           w == Longest(q)
           cells == [i \in DOMAIN q |-> Padded(q, i)]
           masks == [i \in DOMAIN q |-> Mask(q, i)]
<1>1. n \in Nat \ {0} /\ DOMAIN q = 1 .. n /\ \A i \in 1 .. n : q[i] \in TextIds
  BY LenProperties, ElementOfSeq
<1>2. w \in Nat /\ \A i \in 1 .. n : Len(Tokenize(q[i])) <= w
  BY LongestIs
<1> HIDE DEF n, w
<1>3. ASSUME NEW i \in 1 .. n
      PROVE  /\ Padded(q, i) \in Seq(Cells) /\ Len(Padded(q, i)) = w
             /\ Mask(q, i) \in Seq({0, 1}) /\ Len(Mask(q, i)) = w
             /\ Pool(Padded(q, i), Mask(q, i)) = Range(Tokenize(q[i]))
  <2> PICK t \in TextIds : t = q[i]
    BY <1>1
  <2> PICK l \in Nat \ {0} : l = Len(Tokenize(t))
    BY TokensOf
  <2>1. /\ Tokenize(t) \in Seq(Cells) /\ DOMAIN Tokenize(t) = 1 .. l
        /\ l <= w /\ \A k \in 1 .. l : Tokenize(t)[k] \in Cells
    BY <1>2, TokensOf, LenProperties, ElementOfSeq
  <2>2. /\ Padded(q, i) = [k \in 1 .. w |-> IF k <= l THEN Tokenize(t)[k] ELSE Pad]
        /\ Mask(q, i) = [k \in 1 .. w |-> IF k <= l THEN 1 ELSE 0]
    BY DEF Padded, Mask, w
  <2>3. Pad \in Cells
    BY DEF Pad, Cells
  <2>4. /\ Padded(q, i) \in [1 .. w -> Cells] /\ Mask(q, i) \in [1 .. w -> {0, 1}]
    BY <1>2, <2>1, <2>2, <2>3
  <2>5. /\ Padded(q, i) \in Seq(Cells) /\ Len(Padded(q, i)) = w
        /\ Mask(q, i) \in Seq({0, 1}) /\ Len(Mask(q, i)) = w
    BY <1>2, <2>4, SeqDef
  <2>6. {j \in DOMAIN Padded(q, i) : Mask(q, i)[j] = 1} = 1 .. l
    <3>1. DOMAIN Padded(q, i) = 1 .. w /\ \A j \in 1 .. w : Mask(q, i)[j] = IF j <= l THEN 1 ELSE 0
      BY <2>2
    <3>2. \A j : j \in 1 .. l <=> j \in 1 .. w /\ j <= l
      BY <1>2, <2>1
    <3> QED
      BY <3>1, <3>2
  <2>7. \A k \in 1 .. l : Padded(q, i)[k] = Tokenize(t)[k]
    BY <1>2, <2>1, <2>2
  <2>8. Pool(Padded(q, i), Mask(q, i)) = {Tokenize(t)[k] : k \in 1 .. l}
    BY <2>6, <2>7 DEF Pool
  <2> QED
    BY <2>1, <2>5, <2>8 DEF Range
<1>4. /\ cells \in [1 .. n -> Seq(Cells)] /\ masks \in [1 .. n -> Seq({0, 1})]
      /\ \A i \in 1 .. n : cells[i] = Padded(q, i) /\ masks[i] = Mask(q, i)
      /\ \A i \in 1 .. n : Len(cells[i]) = w /\ Len(masks[i]) = w
  BY <1>1, <1>3
<1>5. OnnxVectors(q) =
        [i \in 1 .. n |-> VectorOver(Pool(Slice(FlattenSeq(cells), w, i),
                                          Slice(FlattenSeq(masks), w, i)))]
  BY <1>1 DEF OnnxVectors, Slice, w
<1> HIDE DEF cells, masks
<1>6. Slices(cells, n, w, Cells) /\ Slices(masks, n, w, {0, 1})
  BY <1>4 DEF Slices
<1>7. ASSUME NEW i \in 1 .. n
      PROVE  VectorOver(Pool(Slice(FlattenSeq(cells), w, i),
                             Slice(FlattenSeq(masks), w, i))) = q[i]
  <2>1. Slice(FlattenSeq(cells), w, i) = cells[i]
    BY <1>1, <1>2, <1>6, SliceIs
  <2>2. Slice(FlattenSeq(masks), w, i) = masks[i]
    BY <1>1, <1>2, <1>6, SliceIs
  <2>3. q[i] \in TextIds
    BY <1>1
  <2> QED
    BY <1>3, <1>4, <2>1, <2>2, <2>3, TokensOf
<1>8. OnnxVectors(q) = [i \in 1 .. n |-> q[i]]
  BY <1>5, <1>7
<1> QED
  BY <1>1, <1>8, LenProperties

(* Embedding implements EmbedAll. *)

\* A task of a run.
Doing == [pc : {"queued", "asking", "sleeping", "answered", "refused", "gaveUp", "joined"},
          request : Nat \ {0}, attempt : Nat, asks : Nat, got : Seq(TextIds)]

\* The texts of a batch that a task has had an answer to.
Due(b, x) == IF x.pc \in {"answered", "joined"} THEN Len(TextsOf(b))
             ELSE (x.request - 1) * RequestSize

\* A task is at one of its batch's requests, with no more than was answered.
Goes(b, x) ==
  /\ x \in Doing
  /\ x.request \in 1 .. PieceCount(TextsOf(b), RequestSize)
  /\ Len(x.got) <= Due(b, x)

\* A task that was left no text out.
Full(b, x) ==
  /\ Len(x.got) = Due(b, x)
  /\ \A i \in 1 .. Len(x.got) : x.got[i] = FirstText(b) + i

\* A task that was left one out.
Lacking(b, x) == Len(x.got) < Due(b, x)

\* The texts that a joined batch brought a vector for.
Covered ==
  {t \in 1 .. emb.count :
     \E b \in Batches : /\ task[b].pc = "joined"
                        /\ FirstText(b) < t /\ t <= FirstText(b) + Len(task[b].got)}

\* Before the tasks.
Untouched == ~short /\ count = 0 /\ stored = [t \in TextIds |-> NoVector]

\* While there are tasks: what is stored is what the joined batches brought, and
\* a text that was left out leaves its task lacking.
Embeds ==
  /\ Tasks = Batches
  /\ \A b \in Batches : Goes(b, task[b])
  /\ short => /\ emb.mode = "index" /\ emb.provider # "onnx"
              /\ \E b \in Batches : Lacking(b, task[b])
  /\ ~short => /\ \A b \in Batches : Full(b, task[b])
               /\ \A t \in TextIds : stored[t] = IF t \in Covered THEN t ELSE NoVector
  /\ count = Cardinality(Covered)

KInv ==
  /\ short \in BOOLEAN
  /\ stored \in [TextIds -> TextIds \cup {NoVector}]
  /\ emb = [state |-> "idle"] \/ emb \in Run
  /\ emb.state \in {"idle", "building", "loading"} => Untouched /\ task = <<>>
  /\ emb.state # "idle" /\ emb.mode = "query" => emb.count = 1
  /\ emb.state = "embedding" => Embeds

\* The promise, in the state that the run is in.
LEMMA PhaseIs ==
  /\ emb.state = "idle" => Phase = "idle"
  /\ emb.state = "done" => Phase = "done"
  /\ emb.state = "failed" => Phase = "givenUp"
  /\ emb.state = "embedding" => Phase = IF short THEN "givenUp" ELSE "asked"
  /\ emb.state \in {"building", "loading"} => Phase = "asked"
<1>1. CASE emb.state = "idle"
  BY <1>1 DEF Phase
<1>2. CASE emb.state = "done"
  BY <1>2 DEF Phase
<1>3. CASE emb.state = "failed"
  BY <1>3 DEF Phase
<1>4. CASE emb.state = "embedding" /\ short
  BY <1>4 DEF Phase
<1>5. CASE emb.state = "embedding" /\ ~short
  BY <1>5 DEF Phase
<1>6. CASE emb.state \in {"building", "loading"}
  BY <1>6 DEF Phase
<1> QED
  BY <1>1, <1>2, <1>3, <1>4, <1>5, <1>6

\* And in the next state.
LEMMA NextPhaseIs ==
  /\ emb'.state = "idle" => Phase' = "idle"
  /\ emb'.state = "done" => Phase' = "done"
  /\ emb'.state = "failed" => Phase' = "givenUp"
  /\ emb'.state = "embedding" => Phase' = IF short' THEN "givenUp" ELSE "asked"
  /\ emb'.state \in {"building", "loading"} => Phase' = "asked"
<1>1. CASE emb'.state = "idle"
  BY <1>1 DEF Phase
<1>2. CASE emb'.state = "done"
  BY <1>2 DEF Phase
<1>3. CASE emb'.state = "failed"
  BY <1>3 DEF Phase
<1>4. CASE emb'.state = "embedding" /\ short'
  BY <1>4 DEF Phase
<1>5. CASE emb'.state = "embedding" /\ ~short'
  BY <1>5 DEF Phase
<1>6. CASE emb'.state \in {"building", "loading"}
  BY <1>6 DEF Phase
<1> QED
  BY <1>1, <1>2, <1>3, <1>4, <1>5, <1>6

\* A step that the promise allows.
Promised == [Promise!Next]_(Promise!allVars)

\* What stays of the promise while the texts are the same: nothing happens, or
\* it is given up, or what was given up changes.
LEMMA NothingHappens ==
  ASSUME emb.state # "idle", emb'.state # "idle", emb'.count = emb.count,
         Phase' = Phase, stored' = stored
  PROVE  Promised
BY DEF Promised, Promise!allVars

\* A run that fails, or an answer that leaves a text out.
LEMMA IsGivenUp ==
  ASSUME emb.state # "idle", emb'.state # "idle", emb'.count = emb.count,
         Phase \in {"asked", "givenUp"}, Phase' = "givenUp",
         stored' \in [TextIds -> TextIds \cup {NoVector}]
  PROVE  Promised
<1>1. CASE Phase = "asked"
  BY <1>1 DEF Promised, Promise!Next, Promise!GiveUp, Promise!NoVector, NoVector
<1>2. CASE Phase = "givenUp"
  BY <1>2 DEF Promised, Promise!Next, Promise!Leftovers, Promise!NoVector, NoVector
<1> QED
  BY <1>1, <1>2
\* While the texts are the same, so are the batches.
LEMMA SameBatches ==
  ASSUME emb'.count = emb.count
  PROVE  /\ Batches' = Batches
         /\ \A b : TextsOf(b)' = TextsOf(b)
         /\ \A b, x : /\ Goes(b, x)' <=> Goes(b, x)
                      /\ Full(b, x)' <=> Full(b, x)
                      /\ Lacking(b, x)' <=> Lacking(b, x)
<1>1. AllTexts' = AllTexts
  BY DEF AllTexts
<1>2. Batches' = Batches /\ \A b : TextsOf(b)' = TextsOf(b)
  BY <1>1 DEF Batches, TextsOf
<1>3. \A b, x : Due(b, x)' = Due(b, x)
  BY <1>2 DEF Due
<1> QED
  BY <1>2, <1>3 DEF Goes, Full, Lacking

\* One task goes on, and none is joined.
LEMMA TaskGoesOn ==
  ASSUME KInv, emb.state = "embedding", NEW b \in Batches, NEW x,
         task' = [task EXCEPT ![b] = x], UNCHANGED <<emb, stored, count>>,
         task[b].pc # "joined", x.pc # "joined", Goes(b, x),
         short' = short \/ (short' /\ emb.mode = "index" /\ emb.provider # "onnx" /\ Lacking(b, x)),
         Lacking(b, task[b]) => Lacking(b, x),
         ~short' => Full(b, x)
  PROVE  KInv' /\ Promised
<1>1. emb \in Run /\ Embeds /\ short \in BOOLEAN
  BY DEF KInv, Run
<1>2. /\ Batches' = Batches /\ Tasks' = Tasks /\ task'[b] = x
      /\ \A c \in Batches : c # b => task'[c] = task[c]
  BY <1>1, SameBatches DEF Tasks, Embeds
<1>3. Covered' = Covered
  <2>1. \A c \in Batches : task'[c].pc = "joined" => task'[c] = task[c]
    BY <1>2
  <2>2. \A c \in Batches : task[c].pc = "joined" => task'[c] = task[c]
    BY <1>2
  <2>3. \A c : FirstText(c)' = FirstText(c)
    BY DEF FirstText
  <2> QED
    BY <1>2, <2>1, <2>2, <2>3 DEF Covered
<1>4. short' \in BOOLEAN /\ (short => short')
  BY <1>1
<1>5. /\ \A c \in Batches' : Goes(c, task[c])'
      /\ ~short' => \A c \in Batches' : Full(c, task[c])'
  <2>1. \A c \in Batches : Goes(c, task'[c])
    BY <1>1, <1>2 DEF Embeds
  <2>2. ~short' => \A c \in Batches : Full(c, task'[c])
    BY <1>1, <1>2, <1>4 DEF Embeds
  <2> QED
    BY <1>2, <2>1, <2>2, SameBatches
<1>6. short' => /\ emb.mode = "index" /\ emb.provider # "onnx"
                /\ \E c \in Batches' : Lacking(c, task[c])'
  <2> SUFFICES ASSUME short'
               PROVE  /\ emb.mode = "index" /\ emb.provider # "onnx"
                      /\ \E c \in Batches : Lacking(c, task'[c])
    BY <1>2, SameBatches
  <2>1. CASE short
    <3>1. /\ emb.mode = "index" /\ emb.provider # "onnx"
          /\ \E c \in Batches : Lacking(c, task[c])
      BY <1>1, <2>1 DEF Embeds
    <3> QED
      BY <1>2, <3>1
  <2>2. CASE ~short
    BY <1>2, <2>2
  <2> QED
    BY <2>1, <2>2
<1>7. Embeds'
  BY <1>1, <1>2, <1>3, <1>4, <1>5, <1>6 DEF Embeds
<1>8. KInv'
  BY <1>1, <1>4, <1>7 DEF KInv
<1>9. Promised
  <2>1. Phase = (IF short THEN "givenUp" ELSE "asked") /\ Phase' = (IF short' THEN "givenUp" ELSE "asked")
    BY PhaseIs, NextPhaseIs
  <2>2. emb.state # "idle" /\ emb'.state # "idle" /\ emb'.count = emb.count
    OBVIOUS
  <2>3. stored' = stored /\ stored' \in [TextIds -> TextIds \cup {NoVector}]
    BY DEF KInv
  <2>4. CASE short' <=> short
    BY <1>1, <1>4, <2>1, <2>2, <2>3, <2>4, NothingHappens
  <2>5. CASE short' /\ ~short
    BY <2>1, <2>2, <2>3, <2>5, IsGivenUp
  <2> QED
    BY <1>1, <1>4, <2>4, <2>5
<1> QED
  BY <1>8, <1>9

\* What is asked for: the texts that come after the ones there is an answer to.
LEMMA RequestIs ==
  ASSUME emb \in Run, NEW b \in Batches, Goes(b, task[b])
  PROVE  LET q == Request(b)
             d == (task[b].request - 1) * RequestSize
         IN /\ q \in Seq(TextIds) /\ Len(q) \in Nat \ {0}
            /\ d \in Nat /\ d + Len(q) <= Len(TextsOf(b))
            /\ \A i \in 1 .. Len(q) : q[i] = FirstText(b) + (d + i)
            /\ IsLast(b) => d + Len(q) = Len(TextsOf(b))
            /\ ~IsLast(b) => /\ (task[b].request + 1 - 1) * RequestSize = d + Len(q)
                             /\ task[b].request + 1 \in 1 .. PieceCount(TextsOf(b), RequestSize)
<1>1. RequestSize \in Nat \ {0}
  BY EmbeddingAssumption
<1>2. PICK p : p = TextsOf(b)
  OBVIOUS
<1>3. PICK r \in 1 .. PieceCount(p, RequestSize) : r = task[b].request
  BY <1>2 DEF Goes
<1>4. /\ p \in Seq(TextIds) /\ Len(p) \in Nat /\ FirstText(b) \in Nat
      /\ \A i \in 1 .. Len(p) : p[i] = FirstText(b) + i
  BY <1>2, BatchIs
<1>5. PICK q : q = Piece(p, RequestSize, r)
  OBVIOUS
<1>6. PICK d : d = (r - 1) * RequestSize
  OBVIOUS
<1>7. /\ q \in Seq(TextIds) /\ d \in Nat
      /\ Len(q) \in Nat \ {0} /\ Len(q) <= RequestSize /\ d + Len(q) <= Len(p)
      /\ \A i \in 1 .. Len(q) : q[i] = p[d + i]
      /\ r = PieceCount(p, RequestSize) => d + Len(q) = Len(p)
      /\ r # PieceCount(p, RequestSize) => Len(q) = RequestSize
  BY <1>1, <1>4, <1>5, <1>6, PieceIs
<1>8. \A i \in 1 .. Len(q) : q[i] = FirstText(b) + (d + i)
  <2>1. \A n, m \in Nat : \A i \in 1 .. n : d + n <= m => d + i \in 1 .. m
    BY <1>7
  <2>2. \A i \in 1 .. Len(q) : d + i \in 1 .. Len(p)
    BY <1>4, <1>7, <2>1
  <2> QED
    BY <1>4, <1>7, <2>2
<1>9. PieceCount(p, RequestSize) \in Nat
  BY <1>1, <1>4, PieceBegins DEF PieceCount
<1>10. r # PieceCount(p, RequestSize) =>
         /\ (r + 1 - 1) * RequestSize = d + RequestSize
         /\ r + 1 \in 1 .. PieceCount(p, RequestSize)
  <2>1. r \in Nat /\ r + 1 - 1 = r /\ r * RequestSize = (r - 1) * RequestSize + RequestSize
    BY <1>1, <1>9
  <2>2. \A m \in Nat : r <= m /\ r # m => r + 1 \in 1 .. m
    BY <1>9
  <2> QED
    BY <1>6, <1>9, <2>1, <2>2
<1>11. /\ Request(b) = q /\ d = (task[b].request - 1) * RequestSize
       /\ IsLast(b) <=> r = PieceCount(p, RequestSize)
  BY <1>2, <1>3, <1>5, <1>6 DEF Request, IsLast
<1> QED
  BY <1>2, <1>3, <1>7, <1>8, <1>10, <1>11

\* Two sequences, the second after the first.
LEMMA Behind ==
  ASSUME NEW S, NEW p \in Seq(S), NEW q \in Seq(S)
  PROVE  /\ p \o q \in Seq(S) /\ Len(p \o q) = Len(p) + Len(q)
         /\ \A i \in 1 .. Len(p) : (p \o q)[i] = p[i]
         /\ \A i \in 1 .. Len(q) : (p \o q)[Len(p) + i] = q[i]
OBVIOUS

\* An answer is kept behind the ones that the task has.
LEMMA AnswerGoesOn ==
  ASSUME KInv, emb.state = "embedding", NEW b \in Batches, task[b].pc = "asking",
         NEW vs, Success(b, vs), Reply(Request(b), vs),
         Len(vs) < Len(Request(b)) => emb.mode = "index" /\ emb.provider # "onnx"
  PROVE  KInv' /\ Promised
<1>1. emb \in Run /\ Embeds /\ short \in BOOLEAN
  BY DEF KInv, Run
<1>2. PICK x \in Doing : x = task[b]
  BY <1>1 DEF Embeds, Goes
<1>3. Goes(b, x) /\ (~short => Full(b, x)) /\ b \in Tasks
  BY <1>1, <1>2 DEF Embeds
<1>4. PICK q : q = Request(b)
  OBVIOUS
<1>5. PICK d : d = (x.request - 1) * RequestSize
  OBVIOUS
<1>6. /\ q \in Seq(TextIds) /\ Len(q) \in Nat \ {0}
      /\ d \in Nat /\ d + Len(q) <= Len(TextsOf(b)) /\ Len(TextsOf(b)) \in Nat
      /\ \A i \in 1 .. Len(q) : q[i] = FirstText(b) + (d + i)
      /\ IsLast(b) => d + Len(q) = Len(TextsOf(b))
      /\ ~IsLast(b) => /\ (x.request + 1 - 1) * RequestSize = d + Len(q)
                       /\ x.request + 1 \in 1 .. PieceCount(TextsOf(b), RequestSize)
  BY <1>1, <1>2, <1>3, <1>4, <1>5, RequestIs, BatchIs
<1>7. /\ vs \in Seq(TextIds) /\ Len(vs) \in Nat /\ Len(vs) <= Len(q)
      /\ Len(vs) = Len(q) => vs = q
  BY <1>4 DEF Reply
<1>8. Due(b, x) = d /\ x.got \in Seq(TextIds) /\ Len(x.got) \in Nat /\ Len(x.got) <= d
  BY <1>2, <1>3, <1>5 DEF Due, Goes, Doing
<1>9. PICK got : got = x.got \o vs
  OBVIOUS
<1>10. /\ got \in Seq(TextIds) /\ Len(got) = Len(x.got) + Len(vs)
       /\ \A i \in 1 .. Len(x.got) : got[i] = x.got[i]
       /\ \A i \in 1 .. Len(vs) : got[Len(x.got) + i] = vs[i]
  BY <1>7, <1>8, <1>9, Behind
<1>11. PICK y : /\ task' = [task EXCEPT ![b] = y]
                /\ y \in Doing /\ y.got = got
                /\ \/ IsLast(b) /\ y.pc = "answered" /\ y.request = x.request
                   \/ ~IsLast(b) /\ y.pc = "asking" /\ y.request = x.request + 1
  <2>1. CASE IsLast(b)
    <3> DEFINE y == [x EXCEPT !.pc = "answered", !.got = @ \o vs, !.asks = @ + 1]
    <3>1. PICK n \in Nat : n = x.asks + 1
      BY DEF Doing
    <3>2. y = [x EXCEPT !.pc = "answered", !.got = got, !.asks = n]
      BY <1>9, <3>1
    <3>3. task' = [task EXCEPT ![b] = y]
      BY <1>2, <2>1 DEF Success, KeepVectors
    <3> HIDE DEF y
    <3>4. y \in Doing /\ y.got = got /\ y.pc = "answered" /\ y.request = x.request
      BY <1>10, <3>2 DEF Doing
    <3> QED
      BY <2>1, <3>3, <3>4
  <2>2. CASE ~IsLast(b)
    <3> DEFINE y == [x EXCEPT !.request = @ + 1, !.got = @ \o vs, !.attempt = 0, !.asks = 0]
    <3>1. PICK n \in Nat \ {0} : n = x.request + 1
      BY DEF Doing
    <3>2. y = [x EXCEPT !.request = n, !.got = got, !.attempt = 0, !.asks = 0]
      BY <1>9, <3>1
    <3>3. task' = [task EXCEPT ![b] = y]
      BY <1>2, <2>2 DEF Success, KeepVectors
    <3> HIDE DEF y
    <3>4. y \in Doing /\ y.got = got /\ y.pc = "asking" /\ y.request = x.request + 1
      BY <1>2, <1>10, <3>1, <3>2 DEF Doing
    <3> QED
      BY <2>2, <3>3, <3>4
  <2> QED
    BY <2>1, <2>2
<1>12. Due(b, y) = d + Len(q) /\ y.request \in 1 .. PieceCount(TextsOf(b), RequestSize)
  <2>1. CASE IsLast(b)
    BY <1>3, <1>6, <1>11, <2>1 DEF Due, Goes
  <2>2. CASE ~IsLast(b)
    <3>1. Due(b, y) = (y.request - 1) * RequestSize /\ y.request = x.request + 1
      BY <1>11, <2>2 DEF Due
    <3>2. Due(b, y) = (x.request + 1 - 1) * RequestSize
      <4>1. x.request \in Nat /\ RequestSize \in Nat
        BY EmbeddingAssumption DEF Doing
      <4>2. PICK n : n = x.request + 1 /\ (n - 1) * RequestSize = (x.request + 1 - 1) * RequestSize
        BY <4>1
      <4>3. Due(b, y) = (n - 1) * RequestSize
        BY <3>1, <4>2
      <4> QED
        BY <4>2, <4>3, Zenon
    <3> QED
      BY <1>6, <2>2, <3>1, <3>2, Zenon
  <2> QED
    BY <2>1, <2>2
<1>13. Goes(b, y)
  BY <1>6, <1>7, <1>8, <1>10, <1>11, <1>12 DEF Goes
<1>14. Lacking(b, x) => Lacking(b, y)
  BY <1>6, <1>7, <1>8, <1>10, <1>11, <1>12 DEF Lacking
<1>15. Len(vs) < Len(q) => Lacking(b, y)
  BY <1>6, <1>7, <1>8, <1>10, <1>11, <1>12 DEF Lacking
<1>16. short' = (short \/ Len(vs) < Len(q)) /\ UNCHANGED <<emb, stored, count>>
  BY <1>4 DEF Success
<1>17. ~short' => Full(b, y)
  <2> SUFFICES ASSUME ~short' PROVE Full(b, y)
    OBVIOUS
  <2>0. ~short /\ ~(Len(vs) < Len(q))
    BY <1>16, Zenon
  <2>1. Len(vs) = Len(q) /\ vs = q /\ Full(b, x)
    BY <1>3, <1>6, <1>7, <2>0
  <2>2. Len(x.got) = d /\ Len(got) = d + Len(q) /\ \A i \in 1 .. d : x.got[i] = FirstText(b) + i
    BY <1>8, <1>10, <2>1 DEF Full
  <2>3. ASSUME NEW i \in 1 .. Len(got) PROVE got[i] = FirstText(b) + i
    <3>1. PICK l \in Nat : l = Len(q)
      BY <1>6
    <3>2. CASE i <= d
      <4>1. i \in 1 .. d
        BY <1>6, <2>2, <2>3, <3>2
      <4> QED
        BY <1>10, <2>2, <4>1
    <3>3. CASE i > d
      <4>1. \E k \in 1 .. l : d + k = i
        <5>1. i - d \in 1 .. l /\ d + (i - d) = i
          BY <1>6, <2>2, <2>3, <3>1, <3>3
        <5> QED
          BY <5>1
      <4>2. PICK k \in 1 .. Len(q) : d + k = i
        BY <3>1, <4>1
      <4>3. got[d + k] = vs[k] /\ q[k] = FirstText(b) + (d + k)
        BY <1>6, <1>10, <2>1, <2>2
      <4> QED
        BY <2>1, <4>2, <4>3
    <3> QED
      BY <1>6, <2>2, <2>3, <3>2, <3>3
  <2> QED
    BY <1>11, <1>12, <2>2, <2>3 DEF Full
<1>18. short' = short \/ (short' /\ emb.mode = "index" /\ emb.provider # "onnx" /\ Lacking(b, y))
  BY <1>1, <1>4, <1>15, <1>16
<1>19. task[b].pc # "joined" /\ y.pc # "joined"
  BY <1>11
<1> QED
  BY <1>2, <1>11, <1>13, <1>14, <1>16, <1>17, <1>18, <1>19, TaskGoesOn

\* A task waits, wakes up, fails or gets its permit: it has what it had.
LEMMA TaskRests ==
  ASSUME KInv, emb.state = "embedding", NEW b \in Batches, NEW y \in Doing,
         task' = [task EXCEPT ![b] = y], UNCHANGED <<emb, stored, count, short>>,
         task[b].pc \notin {"answered", "joined"}, y.pc \notin {"answered", "joined"},
         y.got = task[b].got, y.request = task[b].request
  PROVE  KInv' /\ Promised
<1>1. emb \in Run /\ Embeds /\ Goes(b, task[b]) /\ (~short => Full(b, task[b]))
  BY DEF KInv, Run, Embeds
<1>2. Due(b, y) = Due(b, task[b])
  BY DEF Due
<1>3. /\ Goes(b, y) /\ (Lacking(b, task[b]) => Lacking(b, y))
      /\ ~short' => Full(b, y)
  BY <1>1, <1>2 DEF Goes, Lacking, Full
<1>4. task[b].pc # "joined" /\ y.pc # "joined"
  OBVIOUS
<1> QED
  BY <1>3, <1>4, TaskGoesOn

\* A task is what it was but for its state and its attempts.
LEMMA RestsDo ==
  ASSUME KInv, emb.state = "embedding", NEW b \in Tasks,
         \/ Acquire(b) \/ WakeUp(b) \/ OllamaGivesUp(b)
         \/ Asking(b) /\ (Refused(b) \/ \E last : Busy(b, last))
  PROVE  KInv' /\ Promised
<1>1. b \in Batches /\ Embeds /\ task[b] \in Doing
  BY DEF KInv, Embeds, Goes
<1>2. PICK x \in Doing : x = task[b]
  BY <1>1
<1>3. \E y \in Doing :
        /\ task' = [task EXCEPT ![b] = y] /\ UNCHANGED <<emb, stored, count, short>>
        /\ x.pc \notin {"answered", "joined"} /\ y.pc \notin {"answered", "joined"}
        /\ y.got = x.got /\ y.request = x.request
  <2>1. PICK n \in Nat, m \in Nat : n = x.attempt + 1 /\ m = x.asks + 1
    BY DEF Doing
  <2>2. CASE Acquire(b)
    <3> DEFINE y == [x EXCEPT !.pc = "asking"]
    <3>1. y \in Doing /\ y.pc = "asking" /\ y.got = x.got /\ y.request = x.request
      BY DEF Doing
    <3>2. /\ task' = [task EXCEPT ![b] = y] /\ UNCHANGED <<emb, stored, count, short>>
          /\ x.pc = "queued"
      BY <1>2, <2>2 DEF Acquire
    <3> HIDE DEF y
    <3> QED
      BY <3>1, <3>2
  <2>3. CASE WakeUp(b)
    <3> DEFINE y == [x EXCEPT !.pc = "asking", !.attempt = n]
    <3>1. y \in Doing /\ y.pc = "asking" /\ y.got = x.got /\ y.request = x.request
      BY DEF Doing
    <3>2. /\ task' = [task EXCEPT ![b] = y] /\ UNCHANGED <<emb, stored, count, short>>
          /\ x.pc = "sleeping"
      BY <1>2, <2>1, <2>3 DEF WakeUp
    <3> HIDE DEF y
    <3> QED
      BY <3>1, <3>2
  <2>4. CASE OllamaGivesUp(b)
    <3> DEFINE y == [x EXCEPT !.pc = "gaveUp"]
    <3>1. y \in Doing /\ y.pc = "gaveUp" /\ y.got = x.got /\ y.request = x.request
      BY DEF Doing
    <3>2. /\ task' = [task EXCEPT ![b] = y] /\ UNCHANGED <<emb, stored, count, short>>
          /\ x.pc = "asking"
      BY <1>2, <2>4 DEF OllamaGivesUp, Asking
    <3> HIDE DEF y
    <3> QED
      BY <3>1, <3>2
  <2>5. CASE Asking(b) /\ Refused(b)
    <3> DEFINE y == [x EXCEPT !.pc = "refused", !.asks = m]
    <3>1. y \in Doing /\ y.pc = "refused" /\ y.got = x.got /\ y.request = x.request
      BY DEF Doing
    <3>2. /\ task' = [task EXCEPT ![b] = y] /\ UNCHANGED <<emb, stored, count, short>>
          /\ x.pc = "asking"
      BY <1>2, <2>1, <2>5 DEF Refused, Asking
    <3> HIDE DEF y
    <3> QED
      BY <3>1, <3>2
  <2>6. CASE Asking(b) /\ \E last : Busy(b, last)
    <3>1. PICK last : Busy(b, last)
      BY <2>6
    <3>2. PICK pc \in {"sleeping", "gaveUp"} : pc = IF x.attempt < last THEN "sleeping" ELSE "gaveUp"
      OBVIOUS
    <3> DEFINE y == [x EXCEPT !.pc = pc, !.asks = m]
    <3>3. y \in Doing /\ y.pc = pc /\ y.got = x.got /\ y.request = x.request
      BY DEF Doing
    <3>4. /\ task' = [task EXCEPT ![b] = y] /\ UNCHANGED <<emb, stored, count, short>>
          /\ x.pc = "asking"
      BY <1>2, <2>1, <2>6, <3>1, <3>2 DEF Busy, Asking
    <3> HIDE DEF y
    <3> QED
      BY <3>3, <3>4
  <2> QED
    BY <2>2, <2>3, <2>4, <2>5, <2>6
<1> QED
  BY <1>1, <1>2, <1>3, TaskRests

\* The model's answer is the vectors of the whole batch.
LEMMA OnnxAnswers ==
  ASSUME KInv, emb.state = "embedding", NEW b \in Tasks, Asking(b), emb.provider = "onnx",
         task' = [task EXCEPT ![b].pc = "answered", ![b].got = OnnxVectors(TextsOf(b))],
         UNCHANGED <<emb, stored, count, short>>
  PROVE  KInv' /\ Promised
<1>1. /\ b \in Batches /\ Embeds /\ emb \in Run /\ short \in BOOLEAN
      /\ Goes(b, task[b]) /\ task[b].pc = "asking"
  BY DEF KInv, Embeds, Asking, Run
<1>2. PICK x \in Doing : x = task[b]
  BY <1>1 DEF Goes
<1>3. PICK p : p = TextsOf(b)
  OBVIOUS
<1>4. /\ p \in Seq(TextIds) /\ Len(p) \in Nat \ {0}
      /\ \A i \in 1 .. Len(p) : p[i] = FirstText(b) + i
  BY <1>1, <1>3, BatchIs
<1>5. OnnxVectors(p) = p
  BY <1>4, OnnxVectorsAre
<1> DEFINE y == [x EXCEPT !.pc = "answered", !.got = p]
<1>6. y \in Doing /\ y.pc = "answered" /\ y.got = p /\ y.request = x.request
  BY <1>4 DEF Doing
<1>7. task' = [task EXCEPT ![b] = y]
  BY <1>2, <1>3, <1>5
<1> HIDE DEF y
<1>8. Due(b, y) = Len(p)
  BY <1>3, <1>6 DEF Due
<1>9. ~short /\ Full(b, x)
  BY <1>1, <1>2 DEF Embeds
<1>10. Goes(b, y) /\ Full(b, y)
  BY <1>1, <1>2, <1>4, <1>6, <1>8 DEF Goes, Full
<1>11. ~Lacking(b, task[b])
  BY <1>2, <1>4, <1>9 DEF Lacking, Full, Doing
<1> QED
  BY <1>1, <1>6, <1>7, <1>9, <1>10, <1>11, TaskGoesOn

\* Whatever a provider does keeps the promise.
LEMMA ProvidersKeep ==
  ASSUME KInv, NEW b \in Tasks, Provide(b)
  PROVE  KInv' /\ Promised
<1>1. Asking(b) /\ emb.state = "embedding" /\ task[b].pc = "asking"
  BY DEF Provide, GeminiEmbed, GeminiEmbedBatch, OpenAiEmbed, OpenAiEmbedBatch, OpenRouterEmbed,
         OpenRouterEmbedBatch, OllamaEmbed, OllamaEmbedBatch, OllamaGivesUp, OnnxEmbedBatch,
         OllamaChunk, Asked, Asking
<1>2. /\ b \in Batches /\ Embeds /\ emb \in Run /\ Goes(b, task[b])
      /\ emb.mode = "query" => emb.count = 1
  BY <1>1 DEF KInv, Embeds, Run
<1>3. PICK q : q = Request(b)
  OBVIOUS
<1>4. q \in Seq(TextIds) /\ Len(q) \in Nat \ {0} /\ (emb.count = 1 => Len(q) = 1)
  <2>1. PICK d \in Nat : d + Len(q) <= Len(TextsOf(b))
    BY <1>2, <1>3, RequestIs
  <2>2. /\ q \in Seq(TextIds) /\ Len(q) \in Nat \ {0}
        /\ FirstText(b) \in Nat /\ Len(TextsOf(b)) \in Nat
        /\ FirstText(b) + Len(TextsOf(b)) <= emb.count
    BY <1>2, <1>3, RequestIs, BatchIs
  <2>3. PICK l \in Nat, m \in Nat, f \in Nat : l = Len(q) /\ m = Len(TextsOf(b)) /\ f = FirstText(b)
    BY <2>2
  <2>4. emb.count = 1 => l <= 1
    BY <2>1, <2>2, <2>3
  <2> QED
    BY <2>2, <2>3, <2>4
<1>5. Refused(b) \/ (\E last : Busy(b, last)) => KInv' /\ Promised
  BY <1>1, RestsDo
<1>6. ASSUME emb.provider # "onnx", NEW vs, Success(b, vs), Reply(q, vs),
             emb.mode = "index" \/ (emb.mode = "query" /\ vs # <<>>)
      PROVE  KInv' /\ Promised
  <2>1. vs \in Seq(TextIds) /\ Len(vs) <= Len(q) /\ Len(vs) \in Nat
    BY <1>6 DEF Reply
  <2>2. emb.mode = "query" => ~(Len(vs) < Len(q))
    BY <1>2, <1>4, <1>6, <2>1, EmptySeq
  <2> QED
    BY <1>1, <1>2, <1>3, <1>6, <2>2, AnswerGoesOn
<1>7. ASSUME NEW provider, provider # "onnx", NEW replies, Asked(b, provider, replies),
             \A vs \in replies : Reply(q, vs),
             emb.mode = "index" \/ (emb.mode = "query" /\ <<>> \notin replies)
      PROVE  KInv' /\ Promised
  <2>1. CASE \E vs \in replies : Success(b, vs)
    BY <1>6, <1>7, <2>1 DEF Asked
  <2>2. CASE Busy(b, MaxRetries) \/ Refused(b)
    BY <1>5, <2>2
  <2> QED
    BY <1>7, <2>1, <2>2 DEF Asked
<1>8. ASSUME NEW replies, OllamaChunk(b, replies),
             \A vs \in replies : Reply(q, vs),
             emb.mode = "index" \/ (emb.mode = "query" /\ <<>> \notin replies)
      PROVE  KInv' /\ Promised
  <2>1. CASE \E vs \in replies : Success(b, vs)
    BY <1>6, <1>8, <2>1 DEF OllamaChunk
  <2>2. CASE Busy(b, MaxRetries) \/ Busy(b, MaxRetries - 1) \/ Refused(b)
    BY <1>5, <2>2
  <2> QED
    BY <1>8, <2>1, <2>2 DEF OllamaChunk, OllamaUnreachable
<1>9. CASE GeminiEmbed(b)
  <2>1. Reply(q, q) /\ q # <<>>
    BY <1>4 DEF Reply
  <2>2. Asked(b, "gemini", {q}) /\ emb.mode = "query"
    BY <1>3, <1>9 DEF GeminiEmbed
  <2> QED
    BY <1>7, <2>1, <2>2
<1>10. CASE GeminiEmbedBatch(b)
  <2>1. Asked(b, "gemini", Answers(q)) /\ emb.mode = "index"
    BY <1>3, <1>10 DEF GeminiEmbedBatch, GeminiParse
  <2> QED
    BY <1>4, <1>7, <2>1, AnswersReply
<1>11. CASE OpenAiEmbed(b) \/ OpenAiEmbedBatch(b) \/ OpenRouterEmbed(b) \/ OpenRouterEmbedBatch(b)
  <2>1. CASE SomeLong(b)
    BY <1>5, <1>11, <2>1 DEF OpenAiEmbed, OpenAiEmbedBatch, OpenRouterEmbed, OpenRouterEmbedBatch
  <2>2. CASE ~SomeLong(b)
    <3>1. \E provider \in {"openai", "openrouter"} :
            \/ emb.mode = "index" /\ Asked(b, provider, OpenAiParse(q))
            \/ emb.mode = "query" /\ Asked(b, provider, OpenAiParse(q) \ {<<>>})
      BY <1>3, <1>11, <2>2 DEF OpenAiEmbed, OpenAiEmbedBatch, OpenRouterEmbed,
                               OpenRouterEmbedBatch, OpenRouterParse
    <3> QED
      BY <1>4, <1>7, <3>1, ParseReplies
  <2> QED
    BY <2>1, <2>2
<1>12. CASE OllamaEmbed(b) \/ OllamaEmbedBatch(b)
  <2>1. \/ emb.mode = "index" /\ OllamaChunk(b, Answers(q))
        \/ emb.mode = "query" /\ OllamaChunk(b, Answers(q) \ {<<>>})
    BY <1>3, <1>12 DEF OllamaEmbed, OllamaEmbedBatch
  <2> QED
    BY <1>4, <1>8, <2>1, AnswersReply
<1>13. CASE OllamaGivesUp(b)
  BY <1>1, <1>13, RestsDo
<1>14. CASE OnnxEmbedBatch(b)
  BY <1>1, <1>5, <1>14, OnnxAnswers DEF OnnxEmbedBatch
<1> QED
  BY <1>9, <1>10, <1>11, <1>12, <1>13, <1>14 DEF Provide

\* The run fails: the promise is given up.
LEMMA FailsGivesUp ==
  ASSUME KInv, emb \in Run, emb.state \in {"building", "loading", "embedding"},
         Fail, UNCHANGED <<stored, short>>
  PROVE  KInv' /\ Promised
<1>1. /\ emb' \in Run /\ emb'.state = "failed" /\ emb'.count = emb.count /\ emb'.mode = emb.mode
  BY DEF Fail, Run
<1>2. KInv'
  BY <1>1 DEF KInv
<1>3. Phase \in {"asked", "givenUp"} /\ Phase' = "givenUp"
  BY <1>1, PhaseIs, NextPhaseIs
<1>4. emb.state # "idle" /\ emb'.state # "idle" /\ stored' \in [TextIds -> TextIds \cup {NoVector}]
  BY <1>1 DEF KInv
<1> QED
  BY <1>1, <1>2, <1>3, <1>4, IsGivenUp

\* Numbers in an interval are counted by its ends.
LEMMA Between ==
  ASSUME NEW f \in Nat, NEW n \in Nat
  PROVE  IsFiniteSet(f + 1 .. f + n) /\ Cardinality(f + 1 .. f + n) = n
<1>1. f + 1 \in Int /\ f + n \in Int /\ (f + 1 > f + n <=> n = 0) /\ f + n - (f + 1) + 1 = n
  OBVIOUS
<1> QED
  BY <1>1, FS_Interval

\* Sets that have nothing in common are counted one after the other.
LEMMA TogetherAre ==
  ASSUME NEW S, NEW T, IsFiniteSet(S), IsFiniteSet(T), S \cap T = {}
  PROVE  Cardinality(S \cup T) = Cardinality(S) + Cardinality(T)
<1>1. Cardinality(S \cup T) = Cardinality(S) + Cardinality(T) - Cardinality(S \cap T)
  BY FS_Union
<1>2. PICK c, d : c = Cardinality(S) /\ d = Cardinality(T)
  OBVIOUS
<1>3. c \in Nat /\ d \in Nat
  BY <1>2, FS_CardinalityType
<1>4. Cardinality(S \cap T) = 0
  BY FS_EmptySet
<1>5. c + d - 0 = c + d
  BY <1>3
<1> QED
  BY <1>1, <1>2, <1>4, <1>5

\* What is covered is finite, and no more than the texts.
LEMMA CoveredIs ==
  ASSUME emb \in Run
  PROVE  /\ IsFiniteSet(Covered) /\ Cardinality(Covered) \in Nat
         /\ Covered # 1 .. emb.count => Cardinality(Covered) < emb.count
<1>1. emb.count \in Nat
  BY DEF Run
<1>2. Covered \subseteq 1 .. emb.count
  BY DEF Covered
<1>3. IsFiniteSet(1 .. emb.count) /\ Cardinality(1 .. emb.count) = emb.count
  BY <1>1, FS_Interval
<1>4. IsFiniteSet(Covered) /\ Cardinality(Covered) \in Nat /\ Cardinality(Covered) <= emb.count
  BY <1>2, <1>3, FS_Subset, FS_CardinalityType
<1>5. Covered # 1 .. emb.count => Cardinality(Covered) # emb.count
  BY <1>2, <1>3, FS_Subset
<1> QED
  BY <1>1, <1>4, <1>5

\* Of two batches one comes first.
LEMMA BatchesAreNumbers ==
  ASSUME emb \in Run
  PROVE  \A b, c \in Batches : b # c => b < c \/ c < b
<1>1. PieceCount(AllTexts, BatchSize) \in Nat
  <2>1. Len(AllTexts) = emb.count /\ emb.count \in Nat /\ BatchSize \in Nat \ {0}
    BY EmbeddingAssumption DEF AllTexts, Run
  <2> QED
    BY <2>1, PieceBegins DEF PieceCount
<1> QED
  BY <1>1 DEF Batches

\* The n vectors of a batch are stored from f on.
Commits(b, x, f, n) ==
  /\ x = task[b] /\ x.pc = "answered"
  /\ f = FirstText(b) /\ n = Len(x.got)
  /\ task' = [task EXCEPT ![b].pc = "joined"]
  /\ stored' = [t \in TextIds |-> IF t \in f + 1 .. f + n THEN x.got[t - f] ELSE stored[t]]
  /\ count' = count + n
  /\ UNCHANGED <<emb, short>>

\* A batch that was answered is joined: its texts are covered, and were not.
LEMMA JoinsAnswered ==
  ASSUME KInv, emb.state = "embedding", NEW b \in Batches, NEW x, NEW f, NEW n,
         Commits(b, x, f, n)
  PROVE  KInv' /\ Promised
<1>0. /\ x = task[b] /\ x.pc = "answered"
      /\ f = FirstText(b) /\ n = Len(x.got)
      /\ task' = [task EXCEPT ![b].pc = "joined"]
      /\ stored' = [t \in TextIds |-> IF t \in f + 1 .. f + n THEN x.got[t - f] ELSE stored[t]]
      /\ count' = count + n
      /\ UNCHANGED <<emb, short>>
  BY DEF Commits
<1> USE <1>0
<1>1. emb \in Run /\ Embeds /\ short \in BOOLEAN /\ emb.count \in 1 .. MaxTexts /\ MaxTexts \in Nat \ {0}
  BY EmbeddingAssumption DEF KInv, Run
<1>2. x \in Doing /\ Goes(b, x) /\ (~short => Full(b, x)) /\ b \in Tasks
  BY <1>1 DEF Embeds, Goes
<1>3. /\ f \in Nat /\ n \in Nat /\ n <= Len(TextsOf(b)) /\ f + n <= emb.count
      /\ ~short => n = Len(TextsOf(b))
      /\ x.got \in Seq(TextIds)
  <2>1. Due(b, x) = Len(TextsOf(b))
    BY DEF Due
  <2> QED
    BY <1>1, <1>2, <2>1, BatchIs DEF Goes, Full, Doing
<1> DEFINE y == [x EXCEPT !.pc = "joined"]
<1>4. y \in Doing /\ y.pc = "joined" /\ y.got = x.got /\ y.request = x.request
  BY <1>2 DEF Doing
<1>5. task' = [task EXCEPT ![b] = y]
  OBVIOUS
<1> HIDE DEF y
<1>6. /\ Batches' = Batches /\ Tasks' = Tasks /\ task'[b] = y
      /\ \A c \in Batches : c # b => task'[c] = task[c]
  BY <1>1, <1>2, <1>5, SameBatches DEF Tasks, Embeds
<1>7. Goes(b, y) /\ (Full(b, x) => Full(b, y)) /\ (Lacking(b, x) => Lacking(b, y))
  <2>1. Due(b, x) = Due(b, y)
    BY <1>4 DEF Due
  <2> QED
    BY <1>2, <1>4, <2>1 DEF Goes, Full, Lacking
<1>8. /\ \A c \in Batches' : Goes(c, task[c])'
      /\ ~short' => \A c \in Batches' : Full(c, task[c])'
      /\ short' => /\ emb.mode = "index" /\ emb.provider # "onnx"
                   /\ \E c \in Batches' : Lacking(c, task[c])'
  <2>1. \A c \in Batches : Goes(c, task'[c])
    BY <1>1, <1>6, <1>7 DEF Embeds
  <2>2. ~short => \A c \in Batches : Full(c, task'[c])
    BY <1>1, <1>2, <1>6, <1>7 DEF Embeds
  <2>3. short => /\ emb.mode = "index" /\ emb.provider # "onnx"
                 /\ \E c \in Batches : Lacking(c, task'[c])
    BY <1>1, <1>6, <1>7 DEF Embeds
  <2> QED
    BY <1>6, <2>1, <2>2, <2>3, SameBatches
<1>9. f + 1 .. f + n \subseteq 1 .. emb.count
  BY <1>1, <1>3
<1>10. Covered' = Covered \cup (f + 1 .. f + n)
  <2>1. \A c : FirstText(c)' = FirstText(c)
    BY DEF FirstText
  <2>2. Covered' = {t \in 1 .. emb.count :
                      \E c \in Batches : /\ task'[c].pc = "joined"
                                         /\ FirstText(c) < t /\ t <= FirstText(c) + Len(task'[c].got)}
    BY <1>6, <2>1 DEF Covered
  <2>3. \A t \in 1 .. emb.count : t \in f + 1 .. f + n <=> f < t /\ t <= f + n
    BY <1>1, <1>3
  <2> QED
    BY <1>4, <1>6, <1>9, <2>2, <2>3 DEF Covered
<1>11. Covered \cap (f + 1 .. f + n) = {}
  <2> SUFFICES ASSUME NEW t \in 1 .. emb.count, f < t, t <= f + n,
                      NEW c \in Batches, task[c].pc = "joined",
                      FirstText(c) < t, t <= FirstText(c) + Len(task[c].got)
               PROVE  FALSE
    BY <1>1, <1>3 DEF Covered
  <2>1. c # b /\ Goes(c, task[c]) /\ Due(c, task[c]) = Len(TextsOf(c))
    BY <1>1 DEF Embeds, Due
  <2>2. /\ FirstText(c) \in Nat /\ Len(TextsOf(c)) \in Nat /\ Len(TextsOf(b)) \in Nat
        /\ Len(task[c].got) \in Nat /\ Len(task[c].got) <= Len(TextsOf(c))
    BY <1>1, <2>1, BatchIs DEF Goes, Doing
  <2>3. c < b \/ b < c
    BY <1>1, <2>1, BatchesAreNumbers
  <2>4. CASE c < b
    <3>1. FirstText(c) + Len(TextsOf(c)) <= f
      BY <1>1, <2>4, EachInItsBatch
    <3> QED
      BY <1>1, <1>3, <2>2, <3>1
  <2>5. CASE b < c
    <3>1. f + Len(TextsOf(b)) <= FirstText(c)
      BY <1>1, <2>5, EachInItsBatch
    <3> QED
      BY <1>1, <1>3, <2>2, <3>1
  <2> QED
    BY <2>3, <2>4, <2>5
<1>12. count' = Cardinality(Covered')
  <2>1. IsFiniteSet(Covered) /\ count = Cardinality(Covered)
    BY <1>1, CoveredIs DEF Embeds
  <2>2. Cardinality(Covered \cup (f + 1 .. f + n)) = Cardinality(Covered) + n
    <3>1. IsFiniteSet(f + 1 .. f + n) /\ Cardinality(f + 1 .. f + n) = n
      BY <1>3, Between
    <3>2. PICK T : T = f + 1 .. f + n
      OBVIOUS
    <3>3. IsFiniteSet(T) /\ Cardinality(T) = n /\ Covered \cap T = {}
      BY <1>11, <3>1, <3>2
    <3>4. Cardinality(Covered \cup T) = Cardinality(Covered) + Cardinality(T)
      BY <2>1, <3>3, TogetherAre
    <3> QED
      BY <3>2, <3>3, <3>4
  <2> QED
    BY <1>10, <2>1, <2>2
<1>13. ASSUME NEW t \in f + 1 .. f + n
       PROVE  t \in TextIds /\ x.got[t - f] \in TextIds /\ (~short => x.got[t - f] = t)
  <2>1. t - f \in 1 .. n /\ f + (t - f) = t /\ t \in TextIds
    BY <1>1, <1>3, <1>9 DEF TextIds
  <2>2. x.got[t - f] \in TextIds
    BY <1>3, <2>1, ElementOfSeq
  <2> QED
    BY <1>2, <2>1, <2>2 DEF Full
<1>14. stored' \in [TextIds -> TextIds \cup {NoVector}]
  BY <1>13 DEF KInv
<1>15. ~short' => \A t \in TextIds : stored'[t] = IF t \in Covered' THEN t ELSE NoVector
  BY <1>1, <1>10, <1>13 DEF Embeds
<1>16. KInv'
  <2>1. Embeds'
    BY <1>1, <1>6, <1>8, <1>12, <1>15 DEF Embeds
  <2> QED
    BY <1>1, <1>14, <2>1 DEF KInv
<1>17. CASE short
  <2>1. Phase = "givenUp" /\ Phase' = "givenUp"
    BY <1>1, <1>17, PhaseIs, NextPhaseIs
  <2> QED
    BY <1>14, <1>16, <2>1, IsGivenUp
<1>18. CASE ~short
  <2>1. Phase = "asked" /\ Phase' = "asked"
    BY <1>1, <1>18, PhaseIs, NextPhaseIs
  <2>2. \A t \in f + 1 .. f + n : t \in 1 .. emb.count /\ stored[t] = NoVector
    BY <1>1, <1>9, <1>11, <1>13, <1>18 DEF Embeds
  <2>3. stored' = [t \in TextIds |-> IF t \in f + 1 .. f + n THEN t ELSE stored[t]]
    BY <1>13, <1>18
  <2>4. emb.state # "idle"
    OBVIOUS
  <2>5. Promise!Deliver
    BY <2>1, <2>2, <2>3, <2>4 DEF Promise!Deliver, Promise!NoVector, NoVector
  <2> QED
    BY <1>16, <2>5 DEF Promised, Promise!Next
<1> QED
  BY <1>1, <1>17, <1>18

\* A batch is joined, or ends the run.
LEMMA JoinsKeep ==
  ASSUME KInv, NEW b \in Tasks, JoinNext(b)
  PROVE  KInv' /\ Promised
<1>1. emb.state = "embedding" /\ emb \in Run /\ Embeds /\ b \in Batches /\ short' = short
  BY DEF JoinNext, KInv, Run, Embeds
<1>2. PICK x : x = task[b]
  OBVIOUS
<1>3. PICK f \in Nat, n \in Nat : f = FirstText(b) /\ n = Len(x.got)
  BY <1>1, <1>2, BatchIs DEF Embeds, Goes, Doing
<1>4. PICK last : last = Smaller(f + n, emb.count)
  OBVIOUS
<1>5. last \in Nat
  BY <1>1, <1>3, <1>4 DEF Smaller, Run
<1>6. CASE x.pc = "answered" /\ last - f = n
  <2>1. last = f + n
    BY <1>3, <1>5, <1>6
  <2>2. /\ stored' = [t \in TextIds |-> IF t \in f + 1 .. last THEN x.got[t - f] ELSE stored[t]]
        /\ count' = count + n /\ UNCHANGED emb
        /\ task' = [task EXCEPT ![b].pc = "joined"]
    BY <1>2, <1>3, <1>4, <1>6 DEF JoinNext
  <2>3. stored' = [t \in TextIds |-> IF t \in f + 1 .. f + n THEN x.got[t - f] ELSE stored[t]]
    BY <2>1, <2>2
  <2>4. Commits(b, x, f, n)
    BY <1>1, <1>2, <1>3, <1>6, <2>2, <2>3 DEF Commits
  <2> QED
    BY <1>1, <2>4, JoinsAnswered
<1>7. CASE ~(x.pc = "answered" /\ last - f = n)
  <2>1. Fail /\ UNCHANGED <<stored, short>>
    BY <1>2, <1>3, <1>4, <1>7 DEF JoinNext
  <2> QED
    BY <1>1, <2>1, FailsGivesUp
<1> QED
  BY <1>6, <1>7

\* A run that ends well: what is stored is right, and is all there is to store.
LEMMA EndsWell ==
  ASSUME KInv, emb \in Run, emb.state = "embedding", ~short,
         emb' = [emb EXCEPT !.state = "done"], UNCHANGED short,
         stored' = [t \in TextIds |-> IF t \in 1 .. emb.count THEN t ELSE stored[t]]
  PROVE  KInv' /\ Promised
<1>1. /\ emb' \in Run /\ emb'.state = "done" /\ emb'.count = emb.count /\ emb'.mode = emb.mode
      /\ Embeds /\ 1 .. emb.count \subseteq TextIds
  BY EmbeddingAssumption DEF KInv, Run, TextIds
<1>2. stored' \in [TextIds -> TextIds \cup {NoVector}]
  BY <1>1 DEF KInv
<1>3. KInv'
  BY <1>1, <1>2 DEF KInv
<1>4. Phase = "asked" /\ Phase' = "done"
  BY <1>1, PhaseIs, NextPhaseIs
<1>5. \A t \in 1 .. emb.count : stored[t] \in {NoVector, t}
  BY <1>1 DEF Embeds
<1>6. Promise!Complete
  BY <1>1, <1>4, <1>5 DEF Promise!Complete, Promise!NoVector, NoVector
<1> QED
  BY <1>3, <1>6 DEF Promised, Promise!Next

\* When every batch is in and as many vectors as texts, no text was left out.
LEMMA ReportKeeps ==
  ASSUME KInv, Report
  PROVE  KInv' /\ Promised
<1>1. /\ emb.state = "embedding" /\ emb \in Run /\ Embeds
      /\ short' = short /\ stored' = stored /\ short \in BOOLEAN
      /\ \A b \in Batches : task[b].pc = "joined" /\ Goes(b, task[b])
  BY DEF Report, KInv, Run, Embeds
<1>2. CASE count # emb.count
  BY <1>1, <1>2, FailsGivesUp DEF Report
<1>3. CASE count = emb.count
  <2>1. Covered = 1 .. emb.count
    <3>1. emb.count \in Nat
      BY <1>1 DEF Run
    <3> QED
      BY <1>1, <1>3, <3>1, CoveredIs DEF Embeds
  <2>2. ~short
    <3> SUFFICES ASSUME NEW b \in Batches, Lacking(b, task[b]) PROVE FALSE
      BY <1>1 DEF Embeds
    <3>1. Due(b, task[b]) = Len(TextsOf(b)) /\ Len(task[b].got) \in Nat
      BY <1>1 DEF Due, Goes, Doing
    <3>2. PICK f \in Nat, n \in Nat \ {0} :
            f = FirstText(b) /\ n = Len(TextsOf(b)) /\ f + n <= emb.count
      BY <1>1, BatchIs
    <3>3. PICK m \in Nat : m = Len(task[b].got) /\ m < n
      BY <3>1, <3>2 DEF Lacking
    <3>4. f + n \in 1 .. emb.count
      BY <1>1, <3>2 DEF Run
    <3>5. PICK c \in Batches : FirstText(c) < f + n /\ f + n <= FirstText(c) + Len(task[c].got)
      BY <2>1, <3>4 DEF Covered
    <3>6. /\ Due(c, task[c]) = Len(TextsOf(c)) /\ Len(task[c].got) \in Nat
          /\ Len(task[c].got) <= Len(TextsOf(c))
      BY <1>1 DEF Due, Goes, Doing
    <3>7. FirstText(c) \in Nat /\ Len(TextsOf(c)) \in Nat
      BY <1>1, BatchIs
    <3>8. c # b
      BY <3>2, <3>3, <3>5
    <3>9. c < b \/ b < c
      BY <1>1, <3>8, BatchesAreNumbers
    <3>10. CASE c < b
      <4>1. FirstText(c) + Len(TextsOf(c)) <= f
        BY <1>1, <3>2, <3>10, EachInItsBatch
      <4> QED
        BY <3>2, <3>5, <3>6, <3>7, <4>1
    <3>11. CASE b < c
      <4>1. f + n <= FirstText(c)
        BY <1>1, <3>2, <3>11, EachInItsBatch
      <4> QED
        BY <3>2, <3>5, <3>7, <4>1
    <3> QED
      BY <3>9, <3>10, <3>11
  <2>3. stored' = [t \in TextIds |-> IF t \in 1 .. emb.count THEN t ELSE stored[t]]
    BY <1>1, <2>1, <2>2 DEF Embeds, KInv
  <2>4. emb' = [emb EXCEPT !.state = "done"]
    BY <1>3 DEF Report
  <2> QED
    BY <1>1, <2>2, <2>3, <2>4, EndsWell
<1> QED
  BY <1>2, <1>3

\* A search is given the vector of its query.
LEMMA AnswerKeeps ==
  ASSUME KInv, NEW b \in Tasks, AnswerQuery(b)
  PROVE  KInv' /\ Promised
<1>1. /\ emb.state = "embedding" /\ emb \in Run /\ Embeds /\ short' = short /\ short \in BOOLEAN
      /\ emb.mode = "query" /\ emb.count = 1 /\ b \in Batches
  BY DEF AnswerQuery, KInv, Run, Embeds
<1>2. CASE task[b].pc # "answered"
  BY <1>1, <1>2, FailsGivesUp DEF AnswerQuery
<1>3. CASE task[b].pc = "answered"
  <2>1. ~short /\ Full(b, task[b])
    BY <1>1 DEF Embeds
  <2>2. task[b].got[1] = 1
    <3>1. Due(b, task[b]) = Len(TextsOf(b))
      BY <1>3 DEF Due
    <3>2. PICK f \in Nat, n \in Nat \ {0} : f = FirstText(b) /\ n = Len(TextsOf(b)) /\ f + n <= 1
      BY <1>1, BatchIs
    <3>3. f = 0 /\ n = 1
      BY <3>2
    <3> QED
      BY <2>1, <3>1, <3>2, <3>3 DEF Full
  <2>3. stored' = [stored EXCEPT ![1] = 1] /\ emb' = [emb EXCEPT !.state = "done"]
    BY <1>3, <2>2 DEF AnswerQuery
  <2>4. stored' = [t \in TextIds |-> IF t \in 1 .. emb.count THEN t ELSE stored[t]]
    <3>1. \A t \in TextIds : t \in 1 .. emb.count <=> t = 1
      BY <1>1 DEF TextIds
    <3>2. DOMAIN stored = TextIds
      BY DEF KInv
    <3>3. stored = [t \in TextIds |-> stored[t]]
      BY DEF KInv
    <3> QED
      BY <2>3, <3>1, <3>2, <3>3
  <2> QED
    BY <1>1, <2>1, <2>3, <2>4, EndsWell
<1> QED
  BY <1>2, <1>3

-----------------------------------------------------------------------------
\* The tasks begin with nothing.
LEMMA StartsAnew ==
  ASSUME KInv, emb.state \in {"building", "loading"}, Start
  PROVE  KInv' /\ Promised
<1>1. emb \in Run /\ Untouched
  BY DEF KInv
<1>2. /\ emb' \in Run /\ emb'.state = "embedding" /\ emb'.count = emb.count /\ emb'.mode = emb.mode
      /\ short' = short /\ stored' = stored /\ count' = count
      /\ task' = [b \in Batches |-> IF emb.mode = "index" THEN Queued ELSE [Queued EXCEPT !.pc = "asking"]]
  BY <1>1 DEF Start, Run
<1>3. Batches' = Batches /\ Tasks' = Batches
  BY <1>2, SameBatches DEF Tasks
<1>4. ASSUME NEW b \in Batches
      PROVE  /\ Goes(b, task'[b]) /\ Full(b, task'[b]) /\ task'[b].pc # "joined"
  <2>1. PICK x \in Doing : /\ x = task'[b] /\ x.pc \in {"queued", "asking"}
                           /\ x.request = 1 /\ x.got = <<>>
    <3>1. Queued \in Doing /\ [Queued EXCEPT !.pc = "asking"] \in Doing
      <4>1. PICK e \in Seq(TextIds) : e = <<>>
        <5>1. <<>> \in Seq(TextIds)
          BY EmptySeq, Zenon
        <5> QED
          BY <5>1, Zenon
      <4>2. Queued = [pc |-> "queued", request |-> 1, attempt |-> 0, asks |-> 0, got |-> e]
        BY <4>1 DEF Queued
      <4> QED
        BY <4>2 DEF Doing
    <3>2. /\ Queued.pc = "queued" /\ Queued.request = 1 /\ Queued.got = <<>>
          /\ LET a == [Queued EXCEPT !.pc = "asking"]
             IN a.pc = "asking" /\ a.request = 1 /\ a.got = <<>>
      BY DEF Queued
    <3>3. task'[b] = Queued \/ task'[b] = [Queued EXCEPT !.pc = "asking"]
      BY <1>2
    <3> QED
      BY <3>1, <3>2, <3>3
  <2>2. RequestSize \in Nat \ {0} /\ (1 - 1) * RequestSize = 0
    BY EmbeddingAssumption
  <2>3. Due(b, x) = 0
    BY <2>1, <2>2 DEF Due
  <2>4. 1 \in 1 .. PieceCount(TextsOf(b), RequestSize)
    <3>1. PICK n \in Nat \ {0} : n = Len(TextsOf(b))
      BY <1>1, BatchIs
    <3>2. /\ (n + RequestSize - 1) \div RequestSize \in Nat
          /\ 1 <= (n + RequestSize - 1) \div RequestSize
      BY <2>2, PieceBegins
    <3> QED
      BY <3>1, <3>2 DEF PieceCount
  <2> QED
    BY <2>1, <2>3, <2>4, EmptySeq DEF Goes, Full
<1>5. /\ \A b \in Batches' : Goes(b, task[b])'
      /\ \A b \in Batches' : Full(b, task[b])'
  <2>1. \A b \in Batches : Goes(b, task'[b]) /\ Full(b, task'[b])
    BY <1>4
  <2> QED
    BY <1>2, <1>3, <2>1, SameBatches
<1>6. Covered' = {}
  BY <1>3, <1>4 DEF Covered
<1>7. Embeds'
  <2>1. Cardinality(Covered') = 0
    BY <1>6, FS_EmptySet
  <2>2. ~short' /\ count' = 0 /\ \A t \in TextIds : stored'[t] = NoVector
    BY <1>1, <1>2 DEF Untouched
  <2> QED
    BY <1>3, <1>5, <1>6, <2>1, <2>2 DEF Embeds
<1>8. KInv'
  BY <1>1, <1>2, <1>7 DEF KInv, Run
<1>9. Phase = "asked" /\ Phase' = "asked"
  BY <1>1, <1>2, PhaseIs, NextPhaseIs DEF Untouched
<1> QED
  BY <1>2, <1>8, <1>9, NothingHappens

\* Up to the first task: the promise is asked for, or given up.
LEMMA BuildingAsks ==
  ASSUME KInv,
         \/ CreateEmbedder
         \/ GeminiNew \/ OpenAiNew \/ OpenRouterNew \/ OllamaNew
         \/ OnnxRead \/ OnnxNew \/ OnnxTimesOut
  PROVE  KInv' /\ Promised
<1>1. CASE CreateEmbedder
  <2>1. /\ emb.state = "idle" /\ emb' \in Run /\ emb'.state = "building"
        /\ emb'.mode = "query" => emb'.count = 1
        /\ UNCHANGED <<task, stored, count, short>>
    BY <1>1 DEF CreateEmbedder, Run
  <2>2. Untouched /\ task = <<>>
    BY <2>1 DEF KInv
  <2>3. KInv'
    BY <2>1, <2>2 DEF KInv, Untouched
  <2>4. Phase = "idle" /\ Phase' = "asked"
    BY <2>1, PhaseIs, NextPhaseIs
  <2>5. 1 .. emb'.count \in SUBSET TextIds
    BY <2>1, EmbeddingAssumption DEF Run, TextIds
  <2>6. Promise!Ask
    BY <2>1, <2>4, <2>5 DEF Promise!Ask
  <2> QED
    BY <2>3, <2>6 DEF Promised, Promise!Next
<1>2. ASSUME emb.state \in {"building", "loading"}, Fail, UNCHANGED <<task, stored, count, short>>
      PROVE  KInv' /\ Promised
  <2>1. emb \in Run
    BY <1>2 DEF KInv
  <2> QED
    BY <1>2, <2>1, FailsGivesUp
<1>3. ASSUME NEW provider, Construct(provider) PROVE KInv' /\ Promised
  BY <1>2, <1>3, StartsAnew DEF Construct
<1>4. CASE OnnxRead
  <2>1. CASE emb.accepted
    <3>1. /\ emb \in Run /\ emb.state = "building" /\ Untouched
          /\ emb' = [emb EXCEPT !.state = "loading"] /\ UNCHANGED <<task, stored, count, short>>
      BY <1>4, <2>1 DEF KInv, OnnxRead
    <3>2. emb' \in Run /\ emb'.state = "loading" /\ emb'.count = emb.count /\ emb'.mode = emb.mode
      BY <3>1 DEF Run
    <3>3. KInv'
      BY <3>1, <3>2 DEF KInv, Untouched
    <3>4. Phase = "asked" /\ Phase' = "asked"
      BY <3>1, <3>2, PhaseIs, NextPhaseIs
    <3> QED
      BY <3>1, <3>2, <3>3, <3>4, NothingHappens
  <2>2. CASE ~emb.accepted
    BY <1>2, <1>4, <2>2 DEF OnnxRead
  <2> QED
    BY <2>1, <2>2
<1>5. CASE OnnxNew
  BY <1>2, <1>5, StartsAnew DEF OnnxNew
<1>6. CASE OnnxTimesOut
  BY <1>2, <1>6 DEF OnnxTimesOut
<1> QED
  BY <1>1, <1>3, <1>4, <1>5, <1>6 DEF GeminiNew, OpenAiNew, OpenRouterNew, OllamaNew

\* The invariant and the promise, over every step.
LEMMA EveryStepKeeps == KInv /\ [EmbNext]_embVars => KInv' /\ Promised
<1> SUFFICES ASSUME KInv, [EmbNext]_embVars PROVE KInv' /\ Promised
  OBVIOUS
<1>1. CASE UNCHANGED embVars
  <2>1. KInv'
    BY <1>1 DEF embVars, KInv, Embeds, Untouched, Tasks, Batches, AllTexts, Covered, Goes, Full,
                Lacking, Due, TextsOf
  <2>2. UNCHANGED Promise!allVars
    BY <1>1 DEF embVars, Promise!allVars, Phase
  <2> QED
    BY <2>1, <2>2 DEF Promised
<1>2. ASSUME NEW b \in Tasks, Acquire(b) \/ WakeUp(b) PROVE KInv' /\ Promised
  <2>1. emb.state = "embedding"
    BY <1>2 DEF Acquire, WakeUp
  <2> QED
    BY <1>2, <2>1, RestsDo
<1> QED
  BY <1>1, <1>2, BuildingAsks, ProvidersKeep, JoinsKeep, AnswerKeeps, ReportKeeps
  DEF EmbNext, EmbStep

\* Whatever the provider, the order its answers come in and the batches that
\* are done first, every step of an embedding is one that the promise allows.
THEOREM EmbeddingRefinesThePromise ==
  EmbSpec => Promise!Init /\ [][Promise!Next]_(Promise!allVars)
<1>1. EmbInit => KInv /\ Promise!Init
  <2> SUFFICES ASSUME EmbInit PROVE KInv /\ Promise!Init
    OBVIOUS
  <2>1. KInv
    BY DEF EmbInit, KInv, Untouched
  <2>2. Promise!Init
    BY PhaseIs DEF EmbInit, Promise!Init, Promise!NoVector, NoVector
  <2> QED
    BY <2>1, <2>2
<1>2. KInv /\ [EmbNext]_embVars => KInv' /\ [Promise!Next]_(Promise!allVars)
  BY EveryStepKeeps DEF Promised
<1> QED
  BY <1>1, <1>2, PTL DEF EmbSpec
=============================================================================
