------------------------------ MODULE MCIndexer ------------------------------
(* Instances of Indexer for TLC. *)
EXTENDS Indexer, TLC

CONSTANTS v1, v2, vb, s1, s2, a, b, up, down

P(s, t, c) == [slot |-> s, text |-> t, ctx |-> c]

MCText    == {a, b}
MCContext == {up, down}

\* v2 changed the first chunk of v1, in as many bytes, and lost the second;
\* vb is binary.
MCSlot     == {s1, s2}
MCVersion  == {v1, v2, vb}
MCReadable == {v1, v2}
MCLayout ==
  (v1 :> {P(s1, a, up), P(s2, a, up)}) @@ (v2 :> {P(s1, b, up)}) @@ (vb :> {})
MCSize == (v1 :> 1) @@ (v2 :> 1) @@ (vb :> 1)

\* The same two, without the binary version.
MCVersion2 == {v1, v2}
MCLayout2  == (v1 :> {P(s1, a, up), P(s2, a, up)}) @@ (v2 :> {P(s1, b, up)})
MCSize2    == (v1 :> 1) @@ (v2 :> 1)

Symm == Permutations(File)

=============================================================================
