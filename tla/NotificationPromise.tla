------------------------ MODULE NotificationPromise ------------------------
(***************************************************************************)
(* What the rest of the system may expect of the notification pipeline:    *)
(* an event of a committed request either puts one notification into the   *)
(* inbox of each of its receivers, all at once, or it is lost for all of   *)
(* them; one of the two happens, and only once.                            *)
(***************************************************************************)
EXTENDS Naturals

CONSTANTS Events, Users

VARIABLES fate,     \* "none", "owed" (committed), "told", "lost"
          inbox     \* inbox[e][u]: notifications of event e that u has

pvars == <<fate, inbox>>

Init ==
    /\ fate = [e \in Events |-> "none"]
    /\ inbox = [e \in Events |-> [u \in Users |-> 0]]

Owe(e) ==
    /\ fate[e] = "none"
    /\ fate' = [fate EXCEPT ![e] = "owed"]
    /\ UNCHANGED inbox

Tell(e, R) ==
    /\ fate[e] = "owed"
    /\ fate' = [fate EXCEPT ![e] = "told"]
    /\ inbox' = [inbox EXCEPT ![e] = [u \in Users |-> IF u \in R THEN 1 ELSE 0]]

Lose(e) ==
    /\ fate[e] = "owed"
    /\ fate' = [fate EXCEPT ![e] = "lost"]
    /\ UNCHANGED inbox

Settle(e) == Lose(e) \/ \E R \in SUBSET Users : Tell(e, R)

\* A crash loses any number of events at once.
LoseMany(S) ==
    /\ \A e \in S : fate[e] = "owed"
    /\ fate' = [e \in Events |-> IF e \in S THEN "lost" ELSE fate[e]]
    /\ UNCHANGED inbox

Next ==
    \/ \E e \in Events : Owe(e) \/ Settle(e)
    \/ \E S \in SUBSET Events : LoseMany(S)

\* What may happen, without what must.
SafeSpec == Init /\ [][Next]_pvars

\* Every owed event is settled in the end.
Spec == SafeSpec /\ \A e \in Events : fate[e] = "owed" ~> fate[e] # "owed"
=============================================================================
