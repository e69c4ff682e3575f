-------------------------- MODULE InboundContract --------------------------
(***************************************************************************)
(* What the webhook promises of the messages customers send, whatever Meta *)
(* repeats and whatever fails: a message is admitted while it is not in    *)
(* the timeline, one that is there only by an excused mistake; it is       *)
(* stored before the agent's cycle runs for it, once per admission; the    *)
(* customer of a conversation is found or made before the conversation has *)
(* it, and is not lost again; a payload is acknowledged when all of it is  *)
(* stored.                                                                 *)
(***************************************************************************)
EXTENDS Naturals

CONSTANTS Messages, From, Rejected, Payloads, Requests

VARIABLES
  admitted,   \* admitted[q]: the message request q works on, until it is stored
  committed,  \* committed[q]: the message q has stored, until its cycle has run
  stored,     \* messages in the timeline
  cycles,     \* cycles[m]: how many cycles ran for m
  excused,    \* messages taken for new although nobody knows whether they are
  answered,   \* payloads acknowledged
  customer,   \* contacts that are customers
  identity,   \* contacts whose number leads to their customer
  linked      \* contacts whose conversation has its customer

people == <<customer, identity, linked>>
contract == <<admitted, committed, stored, cycles, excused, answered, people>>

Init == /\ admitted = [q \in Requests |-> {}] /\ committed = [q \in Requests |-> {}]
        /\ stored = {} /\ cycles = [m \in Messages |-> 0] /\ excused = {} /\ answered = {}
        /\ customer = {} /\ identity = {} /\ linked = {}

Admit(q, m) == /\ admitted[q] = {} /\ committed[q] = {}
               /\ m \notin Rejected
               /\ \/ m \notin stored /\ UNCHANGED excused
                  \/ excused' = excused \cup {m}
               /\ admitted' = [admitted EXCEPT ![q] = {m}]
               /\ UNCHANGED <<committed, stored, cycles, answered, people>>

\* The request may fail just after it made the customer.
Register(q, m) == /\ m \in admitted[q] /\ From[m] \notin customer
                  /\ customer' = customer \cup {From[m]}
                  /\ \/ UNCHANGED admitted
                     \/ admitted' = [admitted EXCEPT ![q] = {}]
                  /\ UNCHANGED <<committed, stored, cycles, excused, answered, identity, linked>>

Identify(q, m) == /\ m \in admitted[q] /\ From[m] \in customer
                  /\ identity' = identity \cup {From[m]}
                  /\ UNCHANGED <<admitted, committed, stored, cycles, excused, answered,
                                 customer, linked>>

Store(q, m) == /\ m \in admitted[q]
               /\ stored' = stored \cup {m}
               /\ \/ UNCHANGED linked
                  \/ From[m] \in identity /\ linked' = linked \cup {From[m]}
               /\ admitted' = [admitted EXCEPT ![q] = {}]
               /\ committed' = [committed EXCEPT ![q] = {m}]
               /\ UNCHANGED <<cycles, excused, answered, customer, identity>>

Run(q, m) == /\ m \in committed[q]
             /\ cycles' = [cycles EXCEPT ![m] = @ + 1]
             /\ committed' = [committed EXCEPT ![q] = {}]
             /\ UNCHANGED <<admitted, stored, excused, answered, people>>

GiveUp(q) == /\ admitted' = [admitted EXCEPT ![q] = {}]
             /\ committed' = [committed EXCEPT ![q] = {}]
             /\ UNCHANGED <<stored, cycles, excused, answered, people>>

Acknowledge(p) == /\ p \ Rejected \subseteq stored
                  /\ answered' = answered \cup {p}
                  /\ UNCHANGED <<admitted, committed, stored, cycles, excused, people>>

Next == \/ \E q \in Requests : GiveUp(q)
        \/ \E q \in Requests, m \in Messages :
             Admit(q, m) \/ Register(q, m) \/ Identify(q, m) \/ Store(q, m) \/ Run(q, m)
        \/ \E p \in Payloads : Acknowledge(p)

Spec == Init /\ [][Next]_contract
=============================================================================
