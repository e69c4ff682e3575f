-------------------------- MODULE RequestContract --------------------------
(***************************************************************************)
(* What the CRM promises about one request of a customer, whoever works on *)
(* it: its status changes for a reason that is already on its trail, what  *)
(* is resolved or cancelled stays so, the customer agrees to one quote for *)
(* good, and the request is chased once at most.                           *)
(***************************************************************************)
EXTENDS Naturals

CONSTANTS Requests, Offers

\* A reason is on a request's trail before anybody acts on it: its kind needs facts, the
\* customer came back to it or withdrew it, the event that answers it or the escalation
\* is recorded, an operator closed an escalation.
Reasons == {"needs_facts", "continued", "withdrawn", "answered", "escalated", "closed"}

VARIABLES
  status,  \* the request's status
  trail,   \* the reasons recorded so far
  agreed,  \* the quote versions the customer accepted
  chase,   \* its follow-up
  runs     \* how often it was chased

contract == <<status, trail, agreed, chase, runs>>

Init == /\ status = [r \in Requests |-> "none"]
        /\ trail = [r \in Requests |-> {}]
        /\ agreed = [r \in Requests |-> {}]
        /\ chase = [r \in Requests |-> "none"]
        /\ runs = [r \in Requests |-> 0]

Becomes(r, from, to) == /\ status[r] \in from
                        /\ status' = [status EXCEPT ![r] = to]
                        /\ UNCHANGED <<trail, agreed, chase, runs>>

Open == {"active", "waiting_customer", "waiting_human"}

Create(r) == Becomes(r, {"none"}, "detected")
Start(r) == Becomes(r, {"detected"}, "active")
Ask(r) == "needs_facts" \in trail[r] /\ Becomes(r, {"active"}, "waiting_customer")
Resume(r) == "continued" \in trail[r] /\ Becomes(r, {"waiting_customer"}, "active")
HandOver(r) == "escalated" \in trail[r] /\ Becomes(r, {"active", "waiting_customer"}, "waiting_human")
Return(r) == "closed" \in trail[r] /\ Becomes(r, {"waiting_human"}, "active")
Resolve(r) == trail[r] \cap {"answered", "closed"} # {} /\ Becomes(r, Open, "resolved")
Cancel(r) == "withdrawn" \in trail[r] /\ Becomes(r, Open \cup {"detected"}, "cancelled")

\* Reasons are added and never removed.
Learn(r, reason) == /\ UNCHANGED <<status, agreed, chase, runs>>
                    /\ trail' = [trail EXCEPT ![r] = @ \cup {reason}]

Agree(r, v) == /\ status[r] # "none" /\ agreed[r] = {}
               /\ agreed' = [agreed EXCEPT ![r] = {v}]
               /\ UNCHANGED <<status, trail, chase, runs>>

Schedule(r) == /\ status[r] # "none" /\ chase[r] = "none"
               /\ chase' = [chase EXCEPT ![r] = "scheduled"]
               /\ UNCHANGED <<status, trail, agreed, runs>>
Drop(r) == /\ chase[r] = "scheduled"
           /\ chase' = [chase EXCEPT ![r] = "cancelled"]
           /\ UNCHANGED <<status, trail, agreed, runs>>
Chase(r) == /\ chase[r] = "scheduled"
            /\ chase' = [chase EXCEPT ![r] = "executed"]
            /\ runs' = [runs EXCEPT ![r] = @ + 1]
            /\ UNCHANGED <<status, trail, agreed>>

Move(r) == \/ Create(r) \/ Start(r) \/ Ask(r) \/ Resume(r) \/ HandOver(r)
           \/ Return(r) \/ Resolve(r) \/ Cancel(r)

Next ==
  /\ contract' # contract
  /\ \E r \in Requests :
       \/ Move(r)
       \/ \E reason \in Reasons : Learn(r, reason)
       \/ \E v \in Offers : Agree(r, v)
       \/ Schedule(r) \/ Drop(r) \/ Chase(r)

Spec == Init /\ [][Next]_contract
=============================================================================
