----------------------------- MODULE StorePort -----------------------------
(***************************************************************************)
(* The two stores behind the trait Store: SqliteStore                       *)
(* (src/store/sqlite.rs), on the tables of module ChunkStore, and LanceStore *)
(* (src/store/lancedb.rs), which keeps maps in memory.  Both are given the   *)
(* same calls.  A call holds the store's lock, and nothing is interrupted   *)
(* here: module ChunkStore is about that.  File records, meta and the graph  *)
(* are tables, or maps, of their own, and left out; what LanceStore keeps in *)
(* fts_content is read by nobody.                                          *)
(***************************************************************************)
EXTENDS Naturals, FiniteSets

CONSTANTS
  Ids,          \* chunk ids
  Owner,        \* the file of each
  Texts,        \* contents and embeddings
  NoText,
  MaxVectors,   \* bound: vector rowids the tables hand out
  MaxRows       \* bound: rowids of the chunks table

ASSUME PortAssumption ==
  /\ IsFiniteSet(Ids) /\ NoText \notin Texts
  /\ MaxVectors \in Nat /\ MaxRows \in Nat

VARIABLES
  sqlite,       \* the tables
  lance,        \* LanceState: the maps chunks and vectors
  answers       \* the number that the last call of each returned, if it was one

portVars == <<sqlite, lance, answers>>

Sql == INSTANCE ChunkStore WITH
         ChunkId <- Ids, Path <- {Owner[i] : i \in Ids}, FileOf <- Owner, Text <- Texts,
         Conn <- {}, CanAbort <- FALSE, CanRecreate <- FALSE,
         MaxVec <- MaxVectors, MaxRowid <- MaxRows, db <- sqlite, job <- <<>>

\* The calls that return no number.
Done == [sqlite |-> 0, lance |-> 0]

PortInit ==
  /\ sqlite = Sql!EmptyDatabase
  /\ lance = [chunks |-> [i \in Ids |-> NoText], vectors |-> [i \in Ids |-> NoText]]
  /\ answers = Done

-----------------------------------------------------------------------------
(* The calls, on each. *)

SqlitePutChunk(i, t) ==
  \E n \in 1 .. MaxRows :
    Sql!IsNewRowid(sqlite, n) /\ sqlite' = Sql!InsertChunk(sqlite, i, t, n)

LancePutChunk(i, t) == lance' = [lance EXCEPT !.chunks[i] = t]

PutChunk(i, t) ==
  /\ SqlitePutChunk(i, t)
  /\ LancePutChunk(i, t)
  /\ answers' = Done

\* put_fts_entry: the chunk again, with its text, where a trigger keeps the index.
PutFtsEntry(i, t) ==
  /\ SqlitePutChunk(i, t)
  /\ answers' = Done
  /\ UNCHANGED lance

\* Without the chunk the mapping breaks the foreign key: the call fails after
\* the vector is in.
SqlitePutVector(i, t) ==
  /\ sqlite.seq < MaxVectors
  /\ LET stored == Sql!InsertVector(sqlite, i, t)
     IN sqlite' = IF Sql!RowsOf(sqlite, i) = {} THEN [stored EXCEPT !.map = sqlite.map]
                  ELSE stored

LancePutVector(i, t) == lance' = [lance EXCEPT !.vectors[i] = t]

PutVector(i, t) ==
  /\ SqlitePutVector(i, t)
  /\ LancePutVector(i, t)
  /\ answers' = Done

\* delete_vectors_for_chunk
DeleteVectorsForChunk(i) ==
  /\ sqlite' = Sql!DeleteMapOf(Sql!DeleteVecOf(sqlite, {i}), {i})
  /\ lance' = [lance EXCEPT !.vectors[i] = NoText]
  /\ answers' = Done

IdsOf(paths) == {i \in Ids : Owner[i] \in paths}

\* Mutant: the vectors stay, and come back with the chunks.
LanceWithoutKeepingVectors(paths) ==
  [lance EXCEPT !.chunks = [i \in Ids |-> IF i \in IdsOf(paths) THEN NoText ELSE @[i]]]

\* The vectors of the chunks that are there, one by one.
LanceWithout(paths) ==
  LET gone == {i \in IdsOf(paths) : lance.chunks[i] # NoText}
      Kept(f) == [i \in Ids |-> IF i \in gone THEN NoText ELSE f[i]]
  IN [lance EXCEPT !.chunks = Kept(@), !.vectors = Kept(@)]

SqliteWithout(paths) ==
  LET ids == Sql!IdsIn(sqlite, paths)
  IN Sql!DeleteChunksOf(Sql!DeleteMapOf(Sql!DeleteVecOf(sqlite, ids), ids), ids)

\* How many chunks of these files each of them deletes.
Deleted(paths) ==
  [sqlite |-> Cardinality({r \in sqlite.chunks : Owner[r.id] \in paths}),
   lance  |-> Cardinality({i \in IdsOf(paths) : lance.chunks[i] # NoText})]

DeleteChunksForFile(p) ==
  /\ sqlite' = SqliteWithout({p})
  /\ lance' = LanceWithout({p})
  /\ answers' = Deleted({p})

DeleteStaleChunks(valid) ==
  LET stale == {Owner[i] : i \in Ids} \ valid
  IN /\ sqlite' = Sql!DeleteUnownedVec(SqliteWithout(stale))
     /\ lance' = LanceWithout(stale)
     /\ answers' = Deleted(stale)

CountChunks ==
  /\ answers' = [sqlite |-> Cardinality(sqlite.chunks),
                 lance  |-> Cardinality({i \in Ids : lance.chunks[i] # NoText})]
  /\ UNCHANGED <<sqlite, lance>>

PortNext ==
  \/ \E i \in Ids, t \in Texts : PutChunk(i, t) \/ PutVector(i, t) \/ PutFtsEntry(i, t)
  \/ \E i \in Ids : DeleteVectorsForChunk(i)
  \/ \E p \in {Owner[i] : i \in Ids} : DeleteChunksForFile(p)
  \/ \E valid \in SUBSET {Owner[i] : i \in Ids} : DeleteStaleChunks(valid)
  \/ CountChunks

PortSpec == PortInit /\ [][PortNext]_portVars

-----------------------------------------------------------------------------
(* What a search finds. *)

The(S) == IF S = {} THEN NoText ELSE CHOOSE x \in S : TRUE

\* A row that the full text index has, and has by its own text.
SqliteText(d, i) ==
  The({r.text : r \in {x \in Sql!RowsOf(d, i) : Sql!PostingOf(x) \in d.fts}})

\* search_similar: the row of the mapping.
SqliteVector(d, i) ==
  The({v.emb : v \in {x \in d.vec : x.rowid \in Sql!MappedRowids(d, i)}})

\* LanceStore::search_dense: the vectors of the chunks there are.
LanceVector(i) == IF lance.chunks[i] = NoText THEN NoText ELSE lance.vectors[i]
LanceEarly(i)  == IF lance.chunks[i] = NoText THEN lance.vectors[i] ELSE NoText

SqlitePort == INSTANCE StoreContract WITH
  chunk  <- [i \in Ids |-> SqliteText(sqlite, i)],
  vector <- [i \in Ids |-> SqliteVector(sqlite, i)],
  early  <- [i \in Ids |-> NoText],
  answer <- answers.sqlite

LancePort == INSTANCE StoreContract WITH
  chunk  <- lance.chunks,
  vector <- [i \in Ids |-> LanceVector(i)],
  early  <- [i \in Ids |-> LanceEarly(i)],
  answer <- answers.lance

\* Each of the two stores, given any calls in any order, those the engine never
\* makes included, is a store as the trait describes it: a search finds the
\* chunks that were put last with the vectors that were put last for them, and
\* none that was deleted, and deletions and counts tell how many chunks there
\* were (store/store.rs:30-99).
StoresKeepTheContract == SqlitePort!Spec /\ LancePort!Spec
=============================================================================
