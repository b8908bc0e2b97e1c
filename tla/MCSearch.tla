----------------------------- MODULE MCSearch -----------------------------
(* Two workspaces with the same three files.  The first one holds any rows  *)
(* of them, the second one none or the last file; while the first file is   *)
(* edited, both hold all.                                                   *)
EXTENDS Search, TLC

CONSTANTS k1, k2, k3, w1, w2

MCKeyOrder == <<k1, k2, k3>>
MCWorkspace == <<w1, w2>>
MCEdited == <<w1, k1>>
MCRow ==
  [vec : 0 .. 2, words : 0 .. 1, live : {TRUE}] \cup {[vec |-> 2, words |-> 0, live |-> FALSE]}
MCPlainRow == [vec |-> 1, words |-> 1, live |-> TRUE]
MCNoRow == [vec |-> 0, words |-> 0, live |-> TRUE]
MCContents ==
  {[w \in {w1, w2} |-> IF w = w1 THEN f ELSE [k \in Key |-> IF k \in other THEN MCPlainRow ELSE MCNoRow]] :
     f \in [Key -> MCRow], other \in {{}, {k3}}}
MCOptions ==
  {[limit |-> 1, threshold |-> 0, filter |-> "language"], [limit |-> 2, threshold |-> 2, filter |-> "path"],
   [limit |-> 3, threshold |-> 0, filter |-> "none"]}
=============================================================================
