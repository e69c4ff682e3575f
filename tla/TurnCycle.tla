----------------------------- MODULE TurnCycle -----------------------------
(***************************************************************************)
(* runMultiRequestAutonomousCycle for one inbound message: read the open    *)
(* requests, take the stored plan of the message or store one, apply its    *)
(* operation, store its fact, activate, reduce, do the automatic work of    *)
(* the request's definition, reduce again, mark the plan.  A plan has one   *)
(* operation here.  Cycles of one message may overlap: they are retries and *)
(* duplicate deliveries.                                                    *)
(***************************************************************************)
EXTENDS RequestTable

IsOpen(r) == status[r] \notin {"none"} \cup Closed
Goto(c, pc) == worker' = [worker EXCEPT ![c].pc = pc]
Turn(c) == TurnOf[c]
Op(c) == worker[c].op

-----------------------------------------------------------------------------
(* The plan. *)

\* listActiveConversationRequests: a failed read finds none.
BeginCycle(c) ==
  /\ worker[c].pc = "begin"
  /\ \/ /\ worker' = [worker EXCEPT ![c].pc = "lookup",
                                    ![c].open = {r \in Turns : IsOpen(r)}]
        /\ UNCHANGED faults
     \/ Fault /\ Goto(c, "lookup")
  /\ UNCHANGED <<planning, status, events, fact, desk>>

\* loadExistingTurnPlan: a failed read finds none.
LookUpPlan(c) ==
  /\ worker[c].pc = "lookup"
  /\ \/ /\ IF plan[Turn(c)] = NoPlan
           THEN Goto(c, "choose")
           ELSE worker' = [worker EXCEPT ![c].pc = "apply", ![c].op = plan[Turn(c)],
                                         ![c].req = plan[Turn(c)].req, ![c].open = {}]
        /\ UNCHANGED faults
     \/ Fault /\ Goto(c, "choose")
  /\ UNCHANGED <<planning, status, events, fact, desk>>

\* linkRequestsToIntents: what a detection may become.  A new request is named by
\* its creation key, which derives from the message.
Operations(t, candidates) ==
  {[op |-> "create", req |-> t, kind |-> k, fact |-> f] : k \in Kinds, f \in BOOLEAN}
  \cup {[op |-> o, req |-> r, kind |-> Kind(r), fact |-> f] :
         o \in {"continue", "modify", "cancel"}, r \in candidates, f \in BOOLEAN}

\* The provider's output is stored unless another cycle stored its own first; the
\* stored plan counts.  (A mutation: each cycle goes on with its own output.)
OwnPlan(stored, own) == own
StoredPlan(stored, own) == IF stored = NoPlan THEN own ELSE stored

StorePlan(c, own) ==
  LET t == Turn(c)
      taken == StoredPlan(plan[t], own)
  IN /\ worker[c].pc = "choose"
     /\ own \in Operations(t, worker[c].open)
     /\ plan' = [plan EXCEPT ![t] = IF @ = NoPlan THEN own ELSE @]
     /\ stage' = [stage EXCEPT ![t] = IF @ = "none" THEN "planned" ELSE @]
     /\ worker' = [worker EXCEPT ![c].pc = "apply", ![c].op = taken,
                                 ![c].req = taken.req, ![c].open = {}]
     /\ UNCHANGED <<status, events, fact, desk, faults>>

-----------------------------------------------------------------------------
(* persistRequestOperations, persistProposedFacts and reduceRequests. *)

\* A create that finds its creation key loads the request it made before.  (A
\* mutation: the row is loaded and never inserted.)
OnlyLoads(o, s) == s
LoadsOrCreates(o, s) == IF o = "create" /\ s = "none" THEN "detected" ELSE s

\* The link of a continued or modified request counts as a reply of the customer.
Apply(c) ==
  LET r == worker[c].req
      now == LoadsOrCreates(Op(c).op, status[r])
  IN /\ worker[c].pc = "apply"
     /\ status' = [status EXCEPT ![r] = now]
     /\ replied' = IF Op(c).op \in {"continue", "modify"} /\ followup[r] # "none"
                   THEN replied \cup {r} ELSE replied
     /\ worker' = [worker EXCEPT ![c].from = now,
          ![c].pc = IF Op(c).op = "cancel" /\ now # "cancelled" THEN "cancel" ELSE "facts"]
     /\ UNCHANGED <<planning, events, fact, open, closed, deferred, quotes, followup, runs, faults>>

\* An operation that fails is the only one of its plan: nothing is reduced and
\* the plan is marked failed.
ApplyFails(c) ==
  /\ worker[c].pc = "apply" /\ Fault
  /\ worker' = [worker EXCEPT ![c].pc = "mark", ![c].failed = TRUE]
  /\ UNCHANGED <<planning, status, events, fact, desk>>

CancelRequest(c) ==
  /\ worker[c].pc = "cancel"
  /\ \/ Transition(worker[c].req, worker[c].from, "cancelled") /\ UNCHANGED faults
     \/ Fault /\ UNCHANGED status
  /\ Goto(c, "facts")
  /\ UNCHANGED <<planning, events, fact, desk>>

StoreFact(c) ==
  /\ worker[c].pc = "facts"
  /\ \/ fact' = (IF Op(c).fact THEN fact \cup {worker[c].req} ELSE fact) /\ UNCHANGED faults
     \/ Fault /\ UNCHANGED fact
  /\ Goto(c, "activate")
  /\ UNCHANGED <<planning, status, events, desk>>

\* reduceRequests decides on the status that Apply loaded.
Activates(o, from) ==
  \/ o # "cancel" /\ from = "detected"
  \/ o \in {"continue", "modify"} /\ from = "waiting_customer"

Activate(c) ==
  LET from == worker[c].from
  IN /\ worker[c].pc = "activate"
     /\ \/ /\ IF Activates(Op(c).op, from) THEN Transition(worker[c].req, from, "active")
              ELSE UNCHANGED status
           /\ UNCHANGED faults
        \/ Fault /\ UNCHANGED status
     /\ worker' = [worker EXCEPT ![c].pc = "load", ![c].then = "execute", ![c].from = "none"]
     /\ UNCHANGED <<planning, events, fact, desk>>

-----------------------------------------------------------------------------
(* executeRequestTurn. *)

\* After work that was attempted the request is reduced once more.
Work(c, pc) == worker' = [worker EXCEPT ![c].pc = pc, ![c].then = IF pc = "load" THEN "mark" ELSE ""]

\* no_input_available and skipped_invalid_input: nothing was attempted, and nothing is
\* reduced again.
Skip(c) == worker' = [worker EXCEPT ![c].pc = "mark", ![c].then = "", ![c].skipped = TRUE]

\* What the definition of an active request asks for.
DueWork(r) ==
  IF status[r] # "active" THEN "mark"
  ELSE IF EscalatesItself(Kind(r)) /\ open[r] = 0 THEN "escalate"
  ELSE IF HasCapability(Kind(r)) THEN "capability"
  ELSE "mark"

\* The input of the capability: a fact, whose value nobody has checked and may be blank,
\* or the text, which is not (a message without text has no detections).
HasInput(r) == r \in fact \/ ~NeedsInput(Kind(r))
LacksInput(r) == r \in fact \/ NeedsInput(Kind(r))

\* Nothing is done if a read fails.
Execute(c) ==
  LET r == worker[c].req
  IN /\ worker[c].pc = "execute"
     /\ \/ /\ DueWork(r) = "capability" => HasInput(r)
           /\ Work(c, DueWork(r)) /\ UNCHANGED faults
        \/ DueWork(r) = "capability" /\ LacksInput(r) /\ Skip(c) /\ UNCHANGED faults
        \/ Work(c, "mark") /\ Fault
     /\ UNCHANGED <<planning, status, events, fact, desk>>

\* A capability answers, is unavailable and its action is deferred, or finds its input
\* invalid.  (Those there are refuse a blank input only, which Execute has ruled out.)
UseCapability(c) ==
  LET r == worker[c].req
  IN /\ worker[c].pc = "capability"
     /\ \/ /\ events' = [events EXCEPT ![r] = @ \cup {Emits(Kind(r))}]
           /\ Work(c, "load") /\ UNCHANGED <<deferred, faults>>
        \/ deferred' = deferred \cup {r} /\ Work(c, "load") /\ UNCHANGED <<events, faults>>
        \/ Skip(c) /\ UNCHANGED <<events, deferred, faults>>
        \/ Fault /\ Work(c, "load") /\ UNCHANGED <<events, deferred>>
     /\ UNCHANGED <<planning, status, fact, open, closed, quotes, followup, replied, runs>>

\* escalateRequest: the insert is ignored if an escalation is open.  (A mutation:
\* without the unique key it never is.)
AlwaysInserts(n) == n + 1
InsertEscalation(n) == IF n = 0 THEN 1 ELSE n

Escalate(c) ==
  LET r == worker[c].req
  IN /\ worker[c].pc = "escalate"
     /\ \/ /\ open' = [open EXCEPT ![r] = InsertEscalation(@)]
           /\ Work(c, IF open'[r] # open[r] THEN "event" ELSE "load")
           /\ UNCHANGED faults
        \/ Fault /\ Work(c, "load") /\ UNCHANGED open
     /\ UNCHANGED <<planning, status, events, fact, closed, deferred, quotes, followup, replied, runs>>

AppendEscalated(c) ==
  LET r == worker[c].req
  IN /\ worker[c].pc = "event"
     /\ \/ events' = [events EXCEPT ![r] = @ \cup {"escalated"}] /\ UNCHANGED faults
        \/ Fault /\ UNCHANGED events
     /\ worker' = [worker EXCEPT ![c].pc = "load", ![c].then = "again"]
     /\ UNCHANGED <<planning, status, fact, desk>>

\* markTurnPlanExecuted or markTurnPlanFailed, by compare-and-swap.
MarkPlan(c) ==
  LET t == Turn(c)
  IN /\ worker[c].pc = "mark"
     /\ \/ /\ stage' = [stage EXCEPT ![t] =
                IF @ # "planned" THEN @ ELSE IF worker[c].failed THEN "failed" ELSE "executed"]
           /\ UNCHANGED faults
        \/ Fault /\ UNCHANGED stage
     /\ Goto(c, "done")
     /\ UNCHANGED <<plan, status, events, fact, desk>>

CycleStep(c) ==
  \/ BeginCycle(c) \/ LookUpPlan(c)
  \/ \E own \in Operations(Turn(c), worker[c].open) : StorePlan(c, own)
  \/ Apply(c) \/ ApplyFails(c) \/ CancelRequest(c) \/ StoreFact(c) \/ Activate(c)
  \/ Reduction(c)
  \/ Execute(c) \/ UseCapability(c) \/ Escalate(c) \/ AppendEscalated(c)
  \/ MarkPlan(c)
=============================================================================
