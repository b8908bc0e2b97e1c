---------------------------- MODULE MCWorkspaces ----------------------------
(* Two roots; the server is started in the first, the client names both.   *)
EXTENDS Workspaces, TLC

CONSTANTS a, b, pa, pb

MCNamed == <<a, b>>
MCOrder == <<a, b>>
MCFilesOf == (a :> {pa}) @@ (b :> {pb})
MCSpotOf == [v \in 1 .. 4 |-> (v + 1) \div 2]   \* 1 and 2 have theirs at one place, 3 and 4 at another
AllHitches == {"sync", "load", "late"}
=============================================================================
