------------------------------ MODULE EmbedAll ------------------------------
(***************************************************************************)
(* What embedding promises to the indexer and to a search, whatever the    *)
(* provider behind it: a request over a set of texts gives each text its   *)
(* own vector, a few at a time, and it ends.  It may also be given up at   *)
(* any moment; nothing is promised of the vectors of a request that was.   *)
(***************************************************************************)
EXTENDS Naturals

CONSTANT Texts

NoVector == 0

VARIABLES phase, asked, vector

allVars == <<phase, asked, vector>>

Init == /\ phase = "idle"
        /\ asked = {}
        /\ vector = [t \in Texts |-> NoVector]

Ask == /\ phase = "idle"
       /\ \E S \in SUBSET Texts : asked' = S
       /\ phase' = "asked"
       /\ UNCHANGED vector

Deliver == /\ phase = "asked"
           /\ \E S \in SUBSET {t \in asked : vector[t] = NoVector} :
                vector' = [t \in Texts |-> IF t \in S THEN t ELSE vector[t]]
           /\ UNCHANGED <<phase, asked>>

Complete == /\ phase = "asked"
            /\ \A t \in asked : vector[t] \in {NoVector, t}
            /\ phase' = "done"
            /\ vector' = [t \in Texts |-> IF t \in asked THEN t ELSE vector[t]]
            /\ UNCHANGED asked

GiveUp == /\ phase = "asked"
          /\ phase' = "givenUp"
          /\ vector' \in [Texts -> Texts \cup {NoVector}]
          /\ UNCHANGED asked

Leftovers == /\ phase = "givenUp"
             /\ vector' \in [Texts -> Texts \cup {NoVector}]
             /\ UNCHANGED <<phase, asked>>

Next == Ask \/ Deliver \/ Complete \/ GiveUp \/ Leftovers

\* A request does not stay open: it is completed or given up.
Spec == Init /\ [][Next]_allVars /\ WF_allVars(Deliver \/ Complete \/ GiveUp)
=============================================================================
