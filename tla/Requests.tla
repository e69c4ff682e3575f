------------------------------ MODULE Requests ------------------------------
(***************************************************************************)
(* The requests of a conversation: turn cycles, operators, quotes and       *)
(* follow-ups work on them at once.  A cycle may stop between any two of    *)
(* its statements; what it left is taken up by the next cycle of its turn.  *)
(***************************************************************************)
EXTENDS TurnCycle, RequestDesk

\* A cycle runs once; everybody else goes back to idle.
Init ==
  /\ plan = [t \in Turns |-> NoPlan] /\ stage = [t \in Turns |-> "none"]
  /\ status = [r \in Turns |-> "none"] /\ events = [r \in Turns |-> {}]
  /\ fact = {} /\ open = [r \in Turns |-> 0] /\ closed = {} /\ deferred = {}
  /\ quotes = [r \in Turns |-> <<>>]
  /\ followup = [r \in Turns |-> "none"] /\ replied = {} /\ runs = [r \in Turns |-> 0]
  /\ worker = [w \in Workers |-> Rest(IF w \in Cycles THEN "begin" ELSE "idle")]
  /\ faults = 0

Resting(w) == worker[w].pc \in {"begin", "done", "idle"}
AllRest == \A w \in Workers : Resting(w)

Crash(w) ==
  /\ ~Resting(w) /\ Fault
  /\ worker' = [worker EXCEPT ![w] = Rest(IF w \in Cycles THEN "done" ELSE "idle")]
  /\ UNCHANGED <<planning, status, events, fact, desk>>

Next ==
  \/ \E c \in Cycles : CycleStep(c)
  \/ \E o \in Operators : OperatorStep(o)
  \/ \E s \in Sellers : SellerStep(s)
  \/ \E k \in Ticks : TickStep(k)
  \/ \E r \in Turns : Schedule(r) \/ \E v \in Versions(r) : DecideQuote(r, v)
  \/ \E w \in Workers : Crash(w)

Spec == Init /\ [][Next]_vars

-----------------------------------------------------------------------------
Plans == [op : {"none", "create", "continue", "modify", "cancel"}, req : Turns \cup {0},
          kind : AllKinds \cup {""}, fact : BOOLEAN]
Events == {"escalated", "information_provided", "order_status_provided", "quote_sent"}
CyclePcs == {"begin", "lookup", "choose", "apply", "cancel", "facts", "activate", "load", "read",
             "swap", "execute", "capability", "escalate", "event", "mark", "done"}
DeskPcs == {"idle", "answer", "move", "draft", "sent", "load", "read", "swap",
            "check", "links", "drop", "claim"}
WorkerRecords ==
  [pc : CyclePcs \cup DeskPcs, op : Plans, req : Turns \cup {0}, open : SUBSET Turns,
   from : Statuses \cup {"none"}, to : Statuses \cup {"none"},
   then : {"", "execute", "again", "mark", "idle"}, failed : BOOLEAN,
   skipped : BOOLEAN]

\* The shape of the tables and of the workers: a worker that is past its plan has a
\* request, and what a reduction is about to write is a legal move from what it loaded.
RequestTypeOK ==
  /\ plan \in [Turns -> Plans] /\ stage \in [Turns -> {"none", "planned", "executed", "failed"}]
  /\ status \in [Turns -> Statuses \cup {"none"}]
  /\ events \in [Turns -> SUBSET Events]
  /\ fact \subseteq Turns /\ closed \subseteq Turns /\ deferred \subseteq Turns /\ replied \subseteq Turns
  /\ open \in [Turns -> Nat] /\ runs \in [Turns -> Nat]
  /\ quotes \in [Turns -> Seq(Current \cup {"rejected", "superseded", "expired"})]
  /\ followup \in [Turns -> {"none", "scheduled", "cancelled", "executed"}]
  /\ worker \in [Workers -> WorkerRecords]
  /\ \A w \in Workers : worker[w].pc \in {"read", "swap"} => worker[w].from \in Statuses
  /\ faults \in 0..MaxFaults

\* A request moves only along the table of conversation-request/constants.ts, whoever
\* moves it and whatever it had read before: cancelled is final for everyone.
StatusFollowsTable ==
  [][\A r \in Turns : status'[r] # status[r] /\ status[r] # "none" =>
        <<status[r], status'[r]>> \in Allowed]_status

\* A request never has two open escalations, although looking for one and inserting
\* one are two statements of escalateRequest.
OneOpenEscalation == \A r \in Turns : open[r] <= 1

\* Overlapping cycles of a message work on one stored operation: the output of a
\* second provider call is discarded.
PlanIsShared == \A c \in Cycles : Op(c) # NoPlan => Op(c) = plan[Turn(c)]

\* Two ways in which a request stays active with nothing deferred: a cycle has reported
\* that there was nothing to call its capability with, or the answer came as an event
\* that does not resolve its kind (a warranty, whose capability is find_order).
Skipped(r) == \E c \in Cycles : worker[c].req = r /\ worker[c].skipped
AnsweredInVain(r) == HasCapability(Kind(r)) /\ Emits(Kind(r)) \in events[r] \ ResolvedBy(Kind(r))

\* Without faults a quiet conversation has no request whose fate is unknown: none is left
\* detected; an active one has the facts it must have, and its work was deferred, or is
\* a quote to be made, or was left in one of those two ways; and one with an open
\* escalation is parked or closed; unless an operator has closed an escalation of it.
RequestsAreAccountedFor ==
  faults = 0 /\ AllRest =>
    \A r \in Turns :
      /\ status[r] # "detected"
      /\ status[r] = "active" /\ r \notin closed =>
           /\ NeedsFact(Kind(r)) => r \in fact
           /\ r \in deferred \/ Kind(r) = "quote" \/ Skipped(r) \/ AnsweredInVain(r)
      /\ open[r] > 0 => r \in closed \/ status[r] \in Closed \cup {"waiting_human"}

\* A request has one current quote at most, and an accepted one is never replaced,
\* although createQuoteDraft looks for it before its transaction.
OneCurrentQuote ==
  \A r \in Turns : \A u, v \in Versions(r) :
    quotes[r][u] \in Current /\ quotes[r][v] \in Current => u = v
AcceptedIsKept ==
  [][\A r \in Turns : \A v \in Versions(r) :
        quotes[r][v] = "accepted" => quotes'[r][v] = "accepted"]_quotes

\* A follow-up is executed once, however many ticks have selected it.
FollowupRunsOnce == \A r \in Turns : runs[r] <= 1

-----------------------------------------------------------------------------
(* The promise the requests keep towards the rest of the system. *)

\* What is recorded about r: in the plans of the turns, in its events, by operators.
PlannedFor(r, ops) == \E t \in Turns : plan[t].req = r /\ plan[t].op \in ops
Reason(name, recorded) == IF recorded THEN {name} ELSE {}
Trail(r) ==
  Reason("needs_facts", plan[r].op = "create" /\ NeedsFact(Kind(r)))
  \cup Reason("continued", PlannedFor(r, {"continue", "modify"}))
  \cup Reason("withdrawn", PlannedFor(r, {"cancel"}))
  \cup Reason("answered", plan[r].op = "create" /\ ResolvedBy(Kind(r)) \cap events[r] # {})
  \cup Reason("escalated", "escalated" \in events[r])
  \cup Reason("closed", r \in closed)
Agreed(r) == {v \in Versions(r) : quotes[r][v] = "accepted"}

Contract == INSTANCE RequestContract
            WITH Requests <- Turns, Offers <- 1..MaxVersions, trail <- [r \in Turns |-> Trail(r)],
                 agreed <- [r \in Turns |-> Agreed(r)], chase <- followup

\* Whoever works on a request, and whatever was read, lost or left undone: its status
\* changes for a reason that is recorded, what is resolved or cancelled stays so, the
\* customer agrees to one quote for good, and the request is chased once at most.
KeepsRequestContract == Contract!Spec

-----------------------------------------------------------------------------
(* What the code's comments claim, and it does not do. *)

\* A follow-up is only executed while the request is workable and no human owns it.
FollowupIsWelcome ==
  [][\A r \in Turns : runs'[r] > runs[r] => ~Unwelcome(status[r])]_runs

\* A lost swap is harmless: what the winner wrote is what the loser would have.
ConflictIsHarmless ==
  faults = 0 /\ AllRest => \A r \in Turns : status[r] \notin {"none", "active"} =>
    Evaluate(Kind(r), status[r], events[r], r \in fact) = status[r]
=============================================================================
