---------------------------- MODULE RequestDesk ----------------------------
(***************************************************************************)
(* What happens to a request outside a turn: an operator resolves its       *)
(* escalation, quotes are drafted, sent and decided, and a follow-up is     *)
(* scheduled and taken by a tick.                                           *)
(***************************************************************************)
EXTENDS RequestTable, Sequences

Idle(w) == worker[w].pc = "idle"
Start(w, pc, r) == worker' = [worker EXCEPT ![w].pc = pc, ![w].req = r]
Step(w, pc) == worker' = [worker EXCEPT ![w].pc = pc]
\* A worker that has nothing in hand.
Rest(pc) == [pc |-> pc, op |-> NoPlan, req |-> 0, open |-> {},
             from |-> "none", to |-> "none", then |-> "", failed |-> FALSE, skipped |-> FALSE]
Finish(w) == worker' = [worker EXCEPT ![w] = Rest("idle")]
Exists(r) == status[r] # "none"

-----------------------------------------------------------------------------
(* resolveRequestEscalation: close the escalation, then move the request. *)

\* "to" holds the outcome: resolved_request or returned_to_ai.
CloseEscalation(o, r, outcome) ==
  /\ Idle(o) /\ open[r] > 0
  /\ open' = [open EXCEPT ![r] = @ - 1] /\ closed' = closed \cup {r}
  /\ worker' = [worker EXCEPT ![o].pc = "answer", ![o].req = r, ![o].to = outcome]
  /\ UNCHANGED <<planning, status, events, fact, deferred, quotes, followup, replied, runs, faults>>

LoadEscalated(o) ==
  LET rec == worker[o]
  IN /\ rec.pc = "answer"
     /\ \/ worker' = [worker EXCEPT ![o].pc = "move", ![o].from = status[rec.req]] /\ UNCHANGED faults
        \/ Finish(o) /\ Fault
     /\ UNCHANGED <<planning, status, events, fact, desk>>

MoveEscalated(o) ==
  LET rec == worker[o]
  IN /\ rec.pc = "move"
     /\ \/ /\ IF rec.to = "resolved" \/ rec.from = "waiting_human"
              THEN Transition(rec.req, rec.from, rec.to)
              ELSE UNCHANGED status
           /\ UNCHANGED faults
        \/ Fault /\ UNCHANGED status
     /\ Finish(o)
     /\ UNCHANGED <<planning, events, fact, desk>>

OperatorStep(o) ==
  \/ \E r \in Turns, outcome \in {"resolved", "active"} : CloseEscalation(o, r, outcome)
  \/ LoadEscalated(o) \/ MoveEscalated(o)

-----------------------------------------------------------------------------
(* crm_quotes. *)

\* active_marker: at most one version of a request is one of these.
Current == {"draft", "sent", "accepted"}
Versions(r) == DOMAIN quotes[r]
SetVersion(r, v, s) == quotes' = [quotes EXCEPT ![r][v] = s]

\* createQuoteDraft looks for an accepted quote first; a failed read finds none.
CheckQuote(s, r) ==
  /\ Idle(s) /\ Exists(r) /\ Kind(r) = "quote" /\ Len(quotes[r]) < MaxVersions
  /\ \/ /\ \A v \in Versions(r) : quotes[r][v] # "accepted"
        /\ UNCHANGED faults
     \/ Fault
  /\ Start(s, "draft", r)
  /\ UNCHANGED <<planning, status, events, fact, desk>>

\* Its transaction: supersede what is open and insert a draft; the unique key
\* rolls it back if a version is current still.  (A mutation: no unique key.)
Superseded(old) == [v \in DOMAIN old |-> IF old[v] \in {"draft", "sent"} THEN "superseded" ELSE old[v]]
AlwaysDrafts(old) == Append(Superseded(old), "draft")
WithDraft(old) ==
  IF \E v \in DOMAIN old : Superseded(old)[v] \in Current
  THEN old
  ELSE Append(Superseded(old), "draft")

DraftQuote(s) ==
  LET r == worker[s].req
  IN /\ worker[s].pc = "draft" /\ Len(quotes[r]) < MaxVersions
     /\ \/ quotes' = [quotes EXCEPT ![r] = WithDraft(@)] /\ UNCHANGED faults
        \/ Fault /\ UNCHANGED quotes
     /\ Finish(s)
     /\ UNCHANGED <<planning, status, events, fact, open, closed, deferred, followup, replied, runs>>

\* markQuoteSent: swap, event, reduction.
MarkQuoteSent(s, r, v) ==
  /\ Idle(s) /\ v \in Versions(r) /\ quotes[r][v] = "draft"
  /\ SetVersion(r, v, "sent")
  /\ Start(s, "sent", r)
  /\ UNCHANGED <<planning, status, events, fact, open, closed, deferred, followup, replied, runs, faults>>

AppendSent(s) ==
  LET r == worker[s].req
  IN /\ worker[s].pc = "sent"
     /\ \/ events' = [events EXCEPT ![r] = @ \cup {"quote_sent"}] /\ UNCHANGED faults
        \/ Fault /\ UNCHANGED events
     /\ worker' = [worker EXCEPT ![s].pc = "load", ![s].then = "idle"]
     /\ UNCHANGED <<planning, status, fact, desk>>

\* recordQuoteDecision and expireQuote.  (A mutation: any version may expire.)
ExpiresAlways(s) == s \in {"draft", "sent", "accepted"}
Expires(s) == s \in {"draft", "sent"}

DecideQuote(r, v) ==
  /\ v \in Versions(r)
  /\ \/ quotes[r][v] = "sent" /\ \E d \in {"accepted", "rejected"} : SetVersion(r, v, d)
     \/ Expires(quotes[r][v]) /\ SetVersion(r, v, "expired")
  /\ UNCHANGED <<planning, status, events, fact, open, closed, deferred, followup, replied, runs, worker, faults>>

SellerStep(s) ==
  \/ \E r \in Turns : CheckQuote(s, r)
  \/ DraftQuote(s) \/ AppendSent(s)
  \/ \E r \in Turns : \E v \in Versions(r) : MarkQuoteSent(s, r, v)
  \/ Reduction(s)

-----------------------------------------------------------------------------
(* Request follow-ups. *)

\* scheduleRequestFollowup, for kinds with a follow-up policy.
Schedule(r) ==
  /\ Exists(r) /\ Kind(r) = "quote" /\ followup[r] = "none"
  /\ followup' = [followup EXCEPT ![r] = "scheduled"]
  /\ UNCHANGED <<planning, status, events, fact, open, closed, deferred, quotes, replied, runs, worker, faults>>

\* runRequestFollowupTick, row by row: load the request, look for a reply, claim.
TickTakes(k, r) ==
  /\ Idle(k) /\ followup[r] = "scheduled"
  /\ Start(k, "check", r)
  /\ UNCHANGED <<planning, status, events, fact, desk, faults>>

Unwelcome(s) == s \in Closed \cup {"waiting_human"}

TickChecks(k) ==
  LET r == worker[k].req
  IN /\ worker[k].pc = "check"
     /\ \/ Step(k, IF Unwelcome(status[r]) THEN "drop" ELSE "links") /\ UNCHANGED faults
        \/ Step(k, "drop") /\ Fault
     /\ UNCHANGED <<planning, status, events, fact, desk>>

\* A failed read of the links finds no reply.
TickReads(k) ==
  LET r == worker[k].req
  IN /\ worker[k].pc = "links"
     /\ \/ Step(k, IF r \in replied THEN "drop" ELSE "claim") /\ UNCHANGED faults
        \/ Step(k, "claim") /\ Fault
     /\ UNCHANGED <<planning, status, events, fact, desk>>

\* Both updates ask for status = 'scheduled'.  (A mutation: the claim does not.)
AlwaysClaims(s) == s # "none"
Claims(s) == s = "scheduled"

TickDrops(k) ==
  LET r == worker[k].req
  IN /\ worker[k].pc = "drop"
     /\ \/ /\ followup' = [followup EXCEPT ![r] = IF @ = "scheduled" THEN "cancelled" ELSE @]
           /\ UNCHANGED faults
        \/ Fault /\ UNCHANGED followup
     /\ Finish(k)
     /\ UNCHANGED <<planning, status, events, fact, open, closed, deferred, quotes, replied, runs>>

TickClaims(k) ==
  LET r == worker[k].req
  IN /\ worker[k].pc = "claim"
     /\ \/ /\ IF Claims(followup[r])
              THEN /\ followup' = [followup EXCEPT ![r] = "executed"]
                   /\ runs' = [runs EXCEPT ![r] = @ + 1]
              ELSE UNCHANGED <<followup, runs>>
           /\ UNCHANGED faults
        \/ Fault /\ UNCHANGED <<followup, runs>>
     /\ Finish(k)
     /\ UNCHANGED <<planning, status, events, fact, open, closed, deferred, quotes, replied>>

TickStep(k) ==
  \/ \E r \in Turns : TickTakes(k, r)
  \/ TickChecks(k) \/ TickReads(k) \/ TickDrops(k) \/ TickClaims(k)
=============================================================================
