---------------------------- MODULE RequestTable ----------------------------
(***************************************************************************)
(* The tables behind conversation requests: crm_conversation_requests with *)
(* its events and facts, and the two operations every writer goes through:  *)
(* the compare-and-swap transition and the reduction, which loads the       *)
(* request, then its events and facts, decides, and writes the decision     *)
(* only if the status is still the one it loaded.                           *)
(***************************************************************************)
EXTENDS Naturals

CONSTANTS
  Turns,        \* inbound messages; a request is named by the turn that creates it
  Kinds,        \* intents the planner detects, a subset of AllKinds
  Cycles,       \* executions of runMultiRequestAutonomousCycle
  TurnOf,       \* TurnOf[c]: the message that cycle c handles
  Operators,    \* people who resolve escalations
  Sellers,      \* executions of the quote operations
  Ticks,        \* executions of runRequestFollowupTick
  MaxVersions,  \* bound: quote versions of a request
  MaxFaults     \* bound: failed statements, failed reads and crashes

AllKinds == {"information", "order", "warranty", "quote", "complaint"}
Workers == Cycles \cup Operators \cup Sellers \cup Ticks

ASSUME KindsAssumption == Kinds \subseteq AllKinds
ASSUME CyclesAssumption == TurnOf \in [Cycles -> Turns]
ASSUME WorkersAssumption == /\ Cycles \cap (Operators \cup Sellers \cup Ticks) = {}
                            /\ Operators \cap (Sellers \cup Ticks) = {}
                            /\ Sellers \cap Ticks = {}
ASSUME BoundsAssumption == MaxVersions \in Nat /\ MaxFaults \in Nat

VARIABLES
  plan,      \* plan[t]: the operation in crm_ai_turn_plans for t, or NoPlan
  stage,     \* stage[t]: the status of that row
  status,    \* status[r]: crm_conversation_requests.status, "none" without a row
  events,    \* events[r]: the types in crm_request_events that conditions look for
  fact,      \* the requests with an active version of the fact of their kind
  open,      \* open[r]: escalations of r that are not closed
  closed,    \* the requests with an escalation that an operator closed
  deferred,  \* the requests with a deferred action
  quotes,    \* quotes[r]: the statuses of its versions, oldest first
  followup,  \* followup[r]: its row in crm_agent_actions, "none" without one
  replied,   \* the requests the customer wrote about since that row was made
  runs,      \* runs[r]: follow-ups of r that were executed
  worker,    \* worker[w]: where w stands
  faults     \* faults so far

planning == <<plan, stage>>
desk == <<open, closed, deferred, quotes, followup, replied, runs>>
vars == <<planning, status, events, fact, desk, worker, faults>>

\* waiting_system, partially_resolved and unresolvable are never written.
Statuses == {"detected", "active", "waiting_customer", "waiting_human", "resolved", "cancelled"}
Closed == {"resolved", "cancelled"}

\* REQUEST_LIFECYCLE_ALLOWED_TRANSITIONS.
Allowed ==
  {"detected"} \X {"active", "cancelled"}
  \cup {"active"} \X {"waiting_customer", "waiting_human", "resolved", "cancelled"}
  \cup {"waiting_customer"} \X {"active", "waiting_human", "resolved", "cancelled"}
  \cup {"waiting_human"} \X {"active", "resolved", "cancelled"}
  \cup {"resolved"} \X {"active"}

\* REQUEST_DEFINITIONS: nine definitions of five shapes.  Information is asked for by
\* product_information, maintenance_information and general_question; quote and
\* complaint stand for two definitions each.
ResolvedBy(k) ==
  CASE k = "quote" -> {"quote_sent"}
    [] k = "complaint" -> {}
    [] k = "order" -> {"order_status_provided"}
    [] k \in {"information", "warranty"} -> {"information_provided"}
NeedsFact(k) == k \in {"order", "quote"}
EscalatesItself(k) == k = "complaint"

\* primaryCapability; the text of the message stands in for the fact of an information
\* request only, and the event of an answer goes by the capability (eventTypeFor).
HasCapability(k) == k \in {"information", "order", "warranty"}
NeedsInput(k) == k \in {"order", "warranty"}
Emits(k) == IF k = "information" THEN "information_provided" ELSE "order_status_provided"

NoPlan == [op |-> "none", req |-> 0, kind |-> "", fact |-> FALSE]
Fault == faults < MaxFaults /\ faults' = faults + 1
Kind(r) == plan[r].kind

-----------------------------------------------------------------------------
(* transitionConversationRequest. *)

\* (A mutation: the UPDATE without "AND status = ?".)
Overwrite(r, from, to) ==
  status' = [status EXCEPT ![r] = IF <<from, to>> \in Allowed THEN to ELSE @]
Transition(r, from, to) ==
  status' = [status EXCEPT ![r] = IF @ = from /\ <<from, to>> \in Allowed THEN to ELSE @]

-----------------------------------------------------------------------------
(* applyRequestReduction. *)

\* evaluateRequestReduction: the desired status, or the one there is.  (A
\* mutation: a request that misses a fact stays active.)
NeverWaits(k, now, seen, known) ==
  IF now \in Closed THEN now
  ELSE IF "escalated" \in seen /\ now # "waiting_human" THEN "waiting_human"
  ELSE IF ResolvedBy(k) \cap seen # {} THEN "resolved"
  ELSE now
Evaluate(k, now, seen, known) ==
  IF now \in Closed THEN now
  ELSE IF "escalated" \in seen /\ now # "waiting_human" THEN "waiting_human"
  ELSE IF ResolvedBy(k) \cap seen # {} THEN "resolved"
  ELSE IF now = "active" /\ NeedsFact(k) /\ ~known THEN "waiting_customer"
  ELSE now

\* A reduction inside escalateRequest is followed by the one of the cycle.
Reduced(rec) ==
  [rec EXCEPT !.pc = IF rec.then = "again" THEN "load" ELSE rec.then,
              !.then = IF rec.then = "again" THEN "mark" ELSE "",
              !.from = "none", !.to = "none"]

\* A request that cannot be loaded is left as it is.
LoadRequest(w) ==
  LET rec == worker[w]
  IN /\ rec.pc = "load"
     /\ \/ /\ worker' = [worker EXCEPT ![w] = [rec EXCEPT !.pc = "read", !.from = status[rec.req]]]
           /\ UNCHANGED faults
        \/ Fault /\ worker' = [worker EXCEPT ![w] = Reduced(rec)]
     /\ UNCHANGED <<planning, status, events, fact, desk>>

\* A read that fails finds no events and no facts.
ReadTrail(w) ==
  LET rec == worker[w]
      Decide(seen, known) ==
        LET to == Evaluate(Kind(rec.req), rec.from, seen, known)
        IN worker' = [worker EXCEPT ![w] =
             IF to = rec.from THEN Reduced(rec) ELSE [rec EXCEPT !.pc = "swap", !.to = to]]
  IN /\ rec.pc = "read"
     /\ \/ Decide(events[rec.req], rec.req \in fact) /\ UNCHANGED faults
        \/ Decide({}, rec.req \in fact) /\ Fault
        \/ Decide(events[rec.req], FALSE) /\ Fault
     /\ UNCHANGED <<planning, status, events, fact, desk>>

\* The swap; when it fails or is lost, the reduction is over all the same.
SwapStatus(w) ==
  LET rec == worker[w]
  IN /\ rec.pc = "swap"
     /\ \/ Transition(rec.req, rec.from, rec.to) /\ UNCHANGED faults
        \/ Fault /\ UNCHANGED status
     /\ worker' = [worker EXCEPT ![w] = Reduced(rec)]
     /\ UNCHANGED <<planning, events, fact, desk>>

Reduction(w) == LoadRequest(w) \/ ReadTrail(w) \/ SwapStatus(w)
=============================================================================
