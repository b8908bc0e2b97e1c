----------------------------- MODULE MCAutoSync -----------------------------
(* Instances of AutoSync for TLC: the versions and layouts of MCIndexer. *)
EXTENDS AutoSync, MCIndexer

\* What the user does.
InPlace    == {"write", "create", "remove"}
NoCreation == {"write", "remove", "move"}
Writes     == {"write"}
Moves      == {"move"}

=============================================================================
