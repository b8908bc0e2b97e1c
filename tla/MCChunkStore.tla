---------------------------- MODULE MCChunkStore ----------------------------
(* Instances of ChunkStore for TLC: two files, one of two chunks. *)
EXTENDS ChunkStore, TLC

CONSTANTS a1, a2, b1, fa, fb

MCChunkId == {a1, a2, b1}
MCPath    == {fa, fb}
MCFileOf  == (a1 :> fa) @@ (a2 :> fa) @@ (b1 :> fb)

Symm == Permutations(Text) \cup Permutations(Conn)

=============================================================================
