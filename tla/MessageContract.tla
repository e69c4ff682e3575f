--------------------------- MODULE MessageContract ---------------------------
(***************************************************************************)
(* What the outbox promises about one outbound message, whichever workers  *)
(* carry it: it is submitted once and concluded at most once; a copy       *)
(* reaches the customer only while every earlier copy is excused, that is, *)
(* while its acknowledgement never made it back to the row.                *)
(***************************************************************************)
EXTENDS Naturals

CONSTANT Messages

VARIABLES phase, copies, excused

contract == <<phase, copies, excused>>

Init == /\ phase = [m \in Messages |-> "new"]
        /\ copies = [m \in Messages |-> 0]
        /\ excused = [m \in Messages |-> 0]

Submit(m) == /\ phase[m] = "new"
             /\ phase' = [phase EXCEPT ![m] = "open"]
             /\ UNCHANGED <<copies, excused>>

\* One operator command may conclude several messages at once.
Conclude(S) == /\ S # {}
               /\ \A m \in S : phase[m] = "open"
               /\ phase' = [m \in Messages |-> IF m \in S THEN "closed" ELSE phase[m]]
               /\ UNCHANGED <<copies, excused>>

Copy(m) == /\ phase[m] # "new"
           /\ copies[m] <= excused[m]
           /\ copies' = [copies EXCEPT ![m] = @ + 1]
           /\ \/ UNCHANGED excused
              \/ excused' = [excused EXCEPT ![m] = @ + 1]
           /\ UNCHANGED phase

\* The worker that knew of the copy dies, or cannot write it down.
Excuse(m) == /\ copies[m] > 0
             /\ excused' = [excused EXCEPT ![m] = @ + 1]
             /\ UNCHANGED <<phase, copies>>

Next == \/ \E m \in Messages : Submit(m) \/ Copy(m) \/ Excuse(m)
        \/ \E S \in SUBSET Messages : Conclude(S)

Spec == Init /\ [][Next]_contract
=============================================================================
