--------------------------- MODULE StoreContract ---------------------------
(***************************************************************************)
(* What the trait Store promises (src/store/store.rs), whatever is behind   *)
(* it: the text of every chunk and the vector a dense search finds it by.   *)
(* Putting a chunk again may drop its vector; a vector that is put before   *)
(* its chunk is refused or waits; an entry of the lexical index is the     *)
(* chunk's text again, or nothing that a search reads.                     *)
(***************************************************************************)
EXTENDS Naturals, FiniteSets

CONSTANTS Ids, Owner, Texts, NoText

VARIABLES chunk, vector, early, answer

contractVars == <<chunk, vector, early, answer>>

Init == /\ chunk = [i \in Ids |-> NoText]
        /\ vector = [i \in Ids |-> NoText]
        /\ early = [i \in Ids |-> NoText]
        /\ answer = 0

Without(f, S) == [i \in Ids |-> IF i \in S THEN NoText ELSE f[i]]

PutChunk(i, t) ==
  /\ chunk' = [chunk EXCEPT ![i] = t]
  /\ \E v \in {vector[i], early[i], NoText} : vector' = [vector EXCEPT ![i] = v]
  /\ early' = Without(early, {i})
  /\ answer' = 0

\* The chunk is put, or nothing happens.
PutEntry(i, t) ==
  \/ PutChunk(i, t)
  \/ answer' = 0 /\ UNCHANGED <<chunk, vector, early>>

PutVector(i, t) ==
  /\ IF chunk[i] # NoText
     THEN vector' = [vector EXCEPT ![i] = t] /\ UNCHANGED early
     ELSE early' = [early EXCEPT ![i] = t] /\ UNCHANGED vector
  /\ answer' = 0
  /\ UNCHANGED chunk

DeleteVector(i) ==
  /\ vector' = Without(vector, {i})
  /\ early' = Without(early, {i})
  /\ answer' = 0
  /\ UNCHANGED chunk

There(S) == {i \in S : chunk[i] # NoText}

\* The chunks of a file, or those of the files that are not valid.
DeleteChunksOf(paths) ==
  LET gone == {i \in Ids : Owner[i] \in paths}
  IN /\ chunk' = Without(chunk, gone)
     /\ vector' = Without(vector, gone)
     /\ answer' = Cardinality(There(gone))
     /\ UNCHANGED early

CountChunks ==
  /\ answer' = Cardinality(There(Ids))
  /\ UNCHANGED <<chunk, vector, early>>

Next ==
  \/ \E i \in Ids, t \in Texts : PutChunk(i, t) \/ PutEntry(i, t) \/ PutVector(i, t)
  \/ \E i \in Ids : DeleteVector(i)
  \/ \E paths \in SUBSET {Owner[i] : i \in Ids} : DeleteChunksOf(paths)
  \/ CountChunks

Spec == Init /\ [][Next]_contractVars
=============================================================================
