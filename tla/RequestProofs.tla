--------------------------- MODULE RequestProofs ---------------------------
(***************************************************************************)
(* What holds of conversation requests for any number of messages, cycles, *)
(* operators, sellers, ticks, versions and faults.                         *)
(***************************************************************************)
EXTENDS Requests, TLAPS

Columns == Statuses \cup {"none"}
QuoteStatuses == Current \cup {"rejected", "superseded", "expired"}

\* From here on a worker works on a request that has a row.
Working == {"cancel", "facts", "activate", "load", "read", "swap", "execute", "capability",
            "escalate", "event", "draft", "sent"}

\* What a worker x relies on between its statements, rows being the
\* statuses of the requests.
Knows(x, rows) ==
  /\ x.pc \in Working => x.req \in Turns /\ rows[x.req] # "none"
  /\ x.pc \in {"check", "links", "drop", "claim", "answer", "move", "apply"} => x.req \in Turns
  /\ x.pc = "apply" /\ x.op.op # "create" => rows[x.req] # "none"
  /\ x.pc = "apply" => x.op # NoPlan
  /\ x.pc \in {"load", "read", "swap"} => x.then # ""
  /\ x.pc \in {"read", "swap"} => x.from \in Statuses
  /\ \A r \in x.open : rows[r] # "none"

\* A stored plan that does not create its request is about one that exists, and only
\* such a request has quotes.
PlanKnows(t) == plan[t] # NoPlan => /\ plan[t].req \in Turns
                                    /\ plan[t].op # "create" => status[plan[t].req] # "none"
QuotesKnow(r) == quotes[r] # << >> => status[r] # "none"

RequestInv ==
  /\ RequestTypeOK
  /\ \A w \in Workers : Knows(worker[w], status)
  /\ \A t \in Turns : PlanKnows(t)
  /\ \A r \in Turns : QuotesKnow(r)

-----------------------------------------------------------------------------
(* The operators of the model. *)

LEMMA AllowedAreStatuses == Allowed \subseteq Statuses \X Statuses
  BY DEF Allowed, Statuses

LEMMA EvaluateIsAStatus ==
  ASSUME NEW k, NEW now \in Statuses, NEW seen, NEW known
  PROVE  Evaluate(k, now, seen, known) \in Statuses
  BY DEF Evaluate, Statuses

\* A transition moves one request along the table, or none.
LEMMA TransitionFollowsTable ==
  ASSUME status \in [Turns -> Columns], NEW r, NEW from, NEW to, Transition(r, from, to)
  PROVE  /\ status' \in [Turns -> Columns]
         /\ \A q \in Turns : status'[q] # status[q] => <<status[q], status'[q]>> \in Allowed
  <1>1. <<from, to>> \in Allowed => from \in Statuses /\ to \in Statuses BY AllowedAreStatuses
  <1> QED BY <1>1 DEF Transition, Columns

LEMMA SupersededIsShaped ==
  ASSUME NEW old \in Seq(QuoteStatuses)
  PROVE  /\ Superseded(old) \in Seq(QuoteStatuses) /\ Len(Superseded(old)) = Len(old)
         /\ \A v \in 1..Len(old) :
              Superseded(old)[v] = IF old[v] \in {"draft", "sent"} THEN "superseded" ELSE old[v]
  <1>1. DOMAIN old = 1..Len(old) /\ Len(old) \in Nat /\ \A v \in 1..Len(old) : old[v] \in QuoteStatuses
    OBVIOUS
  <1>2. Superseded(old) \in [1..Len(old) -> QuoteStatuses]
    BY <1>1 DEF Superseded, QuoteStatuses
  <1>3. Superseded(old) \in Seq(QuoteStatuses) /\ Len(Superseded(old)) = Len(old)
    BY <1>1, <1>2
  <1> QED BY <1>1, <1>3 DEF Superseded

\* A draft replaces what is open and leaves an accepted version alone; the result has
\* one current version at most.
OneCurrent(q) == \A u, v \in DOMAIN q : q[u] \in Current /\ q[v] \in Current => u = v

LEMMA DraftsAreCurrent ==
  ASSUME NEW old \in Seq(QuoteStatuses), OneCurrent(old)
  PROVE  /\ WithDraft(old) \in Seq(QuoteStatuses) /\ OneCurrent(WithDraft(old))
         /\ \A v \in DOMAIN old : old[v] = "accepted" =>
              v \in DOMAIN WithDraft(old) /\ WithDraft(old)[v] = "accepted"
  <1> DEFINE s == Superseded(old)
  <1>1. /\ s \in Seq(QuoteStatuses) /\ Len(s) = Len(old) /\ Len(old) \in Nat
        /\ \A v \in 1..Len(old) : s[v] = IF old[v] \in {"draft", "sent"} THEN "superseded" ELSE old[v]
        /\ DOMAIN old = 1..Len(old) /\ DOMAIN s = 1..Len(old)
    BY SupersededIsShaped
  <1>2. CASE \E v \in DOMAIN old : s[v] \in Current
    BY <1>2 DEF WithDraft
  <1>3. CASE ~ \E v \in DOMAIN old : s[v] \in Current
    <2>1. WithDraft(old) = Append(s, "draft") BY <1>3 DEF WithDraft
    <2> HIDE DEF s
    <2>2. /\ WithDraft(old) \in Seq(QuoteStatuses) /\ Len(WithDraft(old)) = Len(old) + 1
          /\ DOMAIN WithDraft(old) = 1..(Len(old) + 1)
          /\ \A v \in 1..Len(old) : WithDraft(old)[v] = s[v]
      BY <1>1, <2>1 DEF QuoteStatuses, Current
    <2>3. \A v \in 1..Len(old) : WithDraft(old)[v] \notin Current BY <1>1, <1>3, <2>2
    <2>4. OneCurrent(WithDraft(old))
      <3> SUFFICES ASSUME NEW u \in DOMAIN WithDraft(old), NEW v \in DOMAIN WithDraft(old),
                          WithDraft(old)[u] \in Current, WithDraft(old)[v] \in Current
                   PROVE  u = v
        BY DEF OneCurrent
      <3>1. u = Len(old) + 1 /\ v = Len(old) + 1 BY <1>1, <2>2, <2>3
      <3> QED BY <3>1
    <2>5. \A v \in DOMAIN old : old[v] # "accepted" BY <1>1, <1>3 DEF Current
    <2> QED BY <2>2, <2>4, <2>5
  <1> QED BY <1>2, <1>3

LEMMA RestIsAWorker ==
  ASSUME NEW pc \in CyclePcs \cup DeskPcs
  PROVE  Rest(pc) \in WorkerRecords
  <1>1. NoPlan \in Plans BY DEF NoPlan, Plans
  <1> QED BY <1>1 DEF Rest, WorkerRecords

LEMMA InitIsInv == Init => RequestInv
  <1> SUFFICES ASSUME Init PROVE RequestInv OBVIOUS
  <1>1. worker \in [Workers -> WorkerRecords]
    <2>1. ASSUME NEW w \in Workers PROVE worker[w] \in WorkerRecords
      BY RestIsAWorker DEF Init, CyclePcs, DeskPcs
    <2> QED BY <2>1 DEF Init
  <1>2. \A w \in Workers : worker[w].pc \notin {"read", "swap"}
    BY DEF Init, Rest
  <1>3. NoPlan \in Plans BY DEF NoPlan, Plans
  <1>4. RequestTypeOK
    BY <1>1, <1>2, <1>3, BoundsAssumption DEF Init, RequestTypeOK
  <1>5. \A w \in Workers : Knows(worker[w], status)
    BY DEF Init, Rest, Knows, Working
  <1> QED BY <1>4, <1>5 DEF Init, RequestInv, PlanKnows, QuotesKnow

-----------------------------------------------------------------------------
(* What a step does to each table. *)

\* A row is made detected or moves along the table of transitions.
StatusMoves ==
  /\ status' \in [Turns -> Columns]
  /\ \A r \in Turns : status'[r] # status[r] =>
       \/ status[r] = "none" /\ status'[r] = "detected"
       \/ <<status[r], status'[r]>> \in Allowed

\* A plan is stored once.
PlansMove ==
  /\ plan' \in [Turns -> Plans] /\ stage' \in [Turns -> {"none", "planned", "executed", "failed"}]
  /\ \A t \in Turns : plan'[t] # plan[t] =>
       /\ plan[t] = NoPlan /\ plan'[t].req \in Turns
       /\ plan'[t].op # "create" => status[plan'[t].req] # "none"

OpenMoves ==
  /\ open' \in [Turns -> Nat]
  /\ \A r \in Turns : open'[r] <= 1 \/ open'[r] <= open[r]

Accepted(q, v) == v \in DOMAIN q /\ q[v] = "accepted"
QuotesMove ==
  /\ quotes' \in [Turns -> Seq(QuoteStatuses)]
  /\ \A r \in Turns : quotes'[r] # quotes[r] => status[r] # "none"
  /\ \A r \in Turns : OneCurrent(quotes[r]) =>
       /\ OneCurrent(quotes'[r])
       /\ \A v \in Versions(r) : Accepted(quotes[r], v) => Accepted(quotes'[r], v)

\* A follow-up was executed as often as its row says.
Ran(r) == runs[r] = IF followup[r] = "executed" THEN 1 ELSE 0
FollowupsMove ==
  /\ followup' \in [Turns -> {"none", "scheduled", "cancelled", "executed"}]
  /\ runs' \in [Turns -> Nat]
  /\ \A r \in Turns : Ran(r) => Ran(r)'

SetsMove ==
  /\ events' \in [Turns -> SUBSET Events]
  /\ fact' \subseteq Turns /\ closed' \subseteq Turns
  /\ deferred' \subseteq Turns /\ replied' \subseteq Turns
  /\ faults' \in 0..MaxFaults

TablesMove == StatusMoves /\ PlansMove /\ OpenMoves /\ QuotesMove /\ FollowupsMove /\ SetsMove

\* The types of the tables under the invariant.
LEMMA TableTypes ==
  ASSUME RequestInv
  PROVE  /\ plan \in [Turns -> Plans]
         /\ stage \in [Turns -> {"none", "planned", "executed", "failed"}]
         /\ status \in [Turns -> Columns] /\ events \in [Turns -> SUBSET Events]
         /\ fact \subseteq Turns /\ closed \subseteq Turns
         /\ deferred \subseteq Turns /\ replied \subseteq Turns
         /\ open \in [Turns -> Nat] /\ runs \in [Turns -> Nat]
         /\ quotes \in [Turns -> Seq(QuoteStatuses)]
         /\ followup \in [Turns -> {"none", "scheduled", "cancelled", "executed"}]
         /\ worker \in [Workers -> WorkerRecords]
         /\ faults \in 0..MaxFaults
  BY DEF RequestInv, RequestTypeOK, Columns, QuoteStatuses, Events

LEMMA FaultsBounded ==
  ASSUME RequestInv, Fault \/ UNCHANGED faults
  PROVE  faults' \in 0..MaxFaults
  BY TableTypes, BoundsAssumption DEF Fault

\* Tables a step does not write.
LEMMA StillStatus ==
  ASSUME RequestInv, UNCHANGED status PROVE StatusMoves
  BY TableTypes DEF StatusMoves
LEMMA StillPlans ==
  ASSUME RequestInv, UNCHANGED planning PROVE PlansMove
  BY TableTypes DEF PlansMove, planning
LEMMA StillOpen ==
  ASSUME RequestInv, UNCHANGED open PROVE OpenMoves
  BY TableTypes DEF OpenMoves
LEMMA StillQuotes ==
  ASSUME RequestInv, UNCHANGED quotes PROVE QuotesMove
  BY TableTypes DEF QuotesMove
LEMMA StillFollowups ==
  ASSUME RequestInv, UNCHANGED <<followup, runs>> PROVE FollowupsMove
  BY TableTypes DEF FollowupsMove, Ran
LEMMA StillSets ==
  ASSUME RequestInv, UNCHANGED <<events, fact, closed, deferred, replied>>,
         Fault \/ UNCHANGED faults
  PROVE  SetsMove
  BY TableTypes, FaultsBounded DEF SetsMove
LEMMA StillDesk ==
  ASSUME RequestInv, UNCHANGED desk
  PROVE  OpenMoves /\ QuotesMove /\ FollowupsMove /\ UNCHANGED <<closed, deferred, replied>>
  BY StillOpen, StillQuotes, StillFollowups DEF desk

LEMMA TransitionMoves ==
  ASSUME RequestInv, NEW r, NEW from, NEW to, Transition(r, from, to)
  PROVE  StatusMoves
  BY TableTypes, TransitionFollowsTable DEF StatusMoves

\* Reads, and writes to a worker alone.
LEMMA ReadsMoveNothing ==
  ASSUME RequestInv, UNCHANGED <<planning, status, events, fact, desk>>,
         Fault \/ UNCHANGED faults
  PROVE  TablesMove
  BY StillStatus, StillPlans, StillDesk, StillSets DEF TablesMove

\* Writes to the status alone.
LEMMA TransitionsMoveStatus ==
  ASSUME RequestInv, NEW r, NEW from, NEW to, Transition(r, from, to) \/ UNCHANGED status,
         UNCHANGED <<planning, events, fact, desk>>, Fault \/ UNCHANGED faults
  PROVE  TablesMove
  BY TransitionMoves, StillStatus, StillPlans, StillDesk, StillSets DEF TablesMove

LEMMA ReductionsMoveTables ==
  ASSUME RequestInv, NEW w \in Workers, Reduction(w)
  PROVE  TablesMove
  <1>1. CASE LoadRequest(w) BY <1>1, ReadsMoveNothing DEF LoadRequest
  <1>2. CASE ReadTrail(w) BY <1>2, ReadsMoveNothing DEF ReadTrail
  <1>3. CASE SwapStatus(w) BY <1>3, TransitionsMoveStatus DEF SwapStatus
  <1> QED BY <1>1, <1>2, <1>3 DEF Reduction

LEMMA OperationsArePlans ==
  ASSUME RequestInv, NEW t \in Turns, NEW candidates \in SUBSET Turns,
         NEW own \in Operations(t, candidates)
  PROVE  /\ own \in Plans /\ own # NoPlan /\ own.req \in Turns
         /\ own.op # "create" => own.req \in candidates
  <1>1. CASE \E k \in Kinds, f \in BOOLEAN :
               own = [op |-> "create", req |-> t, kind |-> k, fact |-> f]
    <2>1. PICK k \in Kinds, f \in BOOLEAN :
            own = [op |-> "create", req |-> t, kind |-> k, fact |-> f]
      BY <1>1
    <2>2. k \in AllKinds BY KindsAssumption
    <2>3. own \in Plans BY <2>1, <2>2 DEF Plans
    <2>4. own.op = "create" /\ own.req = t BY <2>1
    <2>6. NoPlan.op = "none" BY DEF NoPlan
    <2>5. own # NoPlan BY <2>4, <2>6
    <2> QED BY <2>3, <2>4, <2>5
  <1>2. CASE \E o \in {"continue", "modify", "cancel"}, r \in candidates, f \in BOOLEAN :
               own = [op |-> o, req |-> r, kind |-> Kind(r), fact |-> f]
    <2>1. PICK o \in {"continue", "modify", "cancel"}, r \in candidates, f \in BOOLEAN :
            own = [op |-> o, req |-> r, kind |-> Kind(r), fact |-> f]
      BY <1>2
    <2>2. plan[r] \in Plans BY TableTypes
    <2>3. Kind(r) \in AllKinds \cup {""} BY <2>2 DEF Kind, Plans
    <2> QED BY <2>1, <2>3 DEF Plans, NoPlan
  <1> QED BY <1>1, <1>2 DEF Operations

\* The parts of a worker.
LEMMA WorkerFields ==
  ASSUME NEW x \in WorkerRecords
  PROVE  /\ x = [pc |-> x.pc, op |-> x.op, req |-> x.req, open |-> x.open,
                 from |-> x.from, to |-> x.to, then |-> x.then, failed |-> x.failed,
                 skipped |-> x.skipped]
         /\ x.pc \in CyclePcs \cup DeskPcs /\ x.op \in Plans /\ x.req \in Turns \cup {0}
         /\ x.open \in SUBSET Turns
         /\ x.from \in Statuses \cup {"none"} /\ x.to \in Statuses \cup {"none"}
         /\ x.then \in {"", "execute", "again", "mark", "idle"} /\ x.failed \in BOOLEAN
         /\ x.skipped \in BOOLEAN
  BY DEF WorkerRecords

LEMMA WorkerFacts ==
  ASSUME RequestInv, NEW w \in Workers
  PROVE  /\ worker[w] \in WorkerRecords /\ Knows(worker[w], status)
         /\ worker[w].req \in Turns \cup {0} /\ worker[w].open \in SUBSET Turns
         /\ worker[w].op \in Plans
  BY TableTypes, WorkerFields DEF RequestInv

LEMMA CyclesAreWorkers ==
  ASSUME NEW c \in Cycles PROVE c \in Workers /\ Turn(c) \in Turns
  BY CyclesAssumption DEF Workers, Turn

LEMMA StoresMovePlans ==
  ASSUME RequestInv, NEW c \in Cycles, NEW own \in Operations(Turn(c), worker[c].open),
         StorePlan(c, own)
  PROVE  TablesMove
  <1>1. /\ own \in Plans /\ own # NoPlan /\ own.req \in Turns
        /\ own.op # "create" => own.req \in worker[c].open
    BY CyclesAreWorkers, WorkerFacts, OperationsArePlans
  <1>2. own.op # "create" => status[own.req] # "none"
    BY <1>1, CyclesAreWorkers, WorkerFacts DEF Knows
  <1>3. PlansMove
    BY <1>1, <1>2, CyclesAreWorkers, TableTypes DEF StorePlan, PlansMove
  <1> QED BY <1>3, StillStatus, StillDesk, StillSets DEF StorePlan, TablesMove

LEMMA AppliesMoveTables ==
  ASSUME RequestInv, NEW c \in Cycles, Apply(c)
  PROVE  TablesMove
  <1> DEFINE r == worker[c].req
  <1>1. r \in Turns /\ c \in Workers
    BY CyclesAreWorkers, WorkerFacts DEF Apply, Knows
  <1>2. StatusMoves BY <1>1, TableTypes DEF Apply, StatusMoves, LoadsOrCreates, Columns, Statuses
  <1>3. replied' \subseteq Turns BY <1>1, TableTypes DEF Apply
  <1>4. SetsMove BY <1>3, TableTypes DEF Apply, SetsMove
  <1> QED BY <1>2, <1>4, StillPlans, StillOpen, StillQuotes, StillFollowups DEF Apply, TablesMove

\* The event of an answer is one of those there are.
LEMMA EmitsAnEvent == \A k : Emits(k) \in Events
  BY DEF Emits, Events

LEMMA CyclesMoveTables ==
  ASSUME RequestInv, NEW c \in Cycles, CycleStep(c)
  PROVE  TablesMove
  <1>1. c \in Workers /\ Turn(c) \in Turns BY CyclesAreWorkers
  <1>2. worker[c].req \in Turns \cup {0} BY <1>1, WorkerFacts
  <1>3. CASE BeginCycle(c) BY <1>3, ReadsMoveNothing DEF BeginCycle
  <1>4. CASE LookUpPlan(c) BY <1>4, ReadsMoveNothing DEF LookUpPlan
  <1>5. CASE \E own \in Operations(Turn(c), worker[c].open) : StorePlan(c, own)
    BY <1>5, StoresMovePlans
  <1>6. CASE Apply(c) BY <1>6, AppliesMoveTables
  <1>7. CASE ApplyFails(c) BY <1>7, ReadsMoveNothing DEF ApplyFails
  <1>8. CASE CancelRequest(c) BY <1>8, TransitionsMoveStatus DEF CancelRequest
  <1>9. CASE StoreFact(c)
    <2>1. worker[c].req \in Turns
      BY <1>1, <1>9, WorkerFacts DEF StoreFact, Knows, Working
    <2>2. fact' \subseteq Turns BY <1>9, <2>1, TableTypes DEF StoreFact
    <2>3. SetsMove BY <1>9, <2>2, TableTypes, FaultsBounded DEF StoreFact, SetsMove, desk
    <2> QED BY <1>9, <2>3, StillStatus, StillPlans, StillDesk DEF StoreFact, TablesMove
  <1>10. CASE Activate(c) BY <1>10, TransitionsMoveStatus DEF Activate
  <1>11. CASE Reduction(c) BY <1>1, <1>11, ReductionsMoveTables
  <1>12. CASE Execute(c) BY <1>12, ReadsMoveNothing DEF Execute
  <1>13. CASE UseCapability(c)
    <2>1. worker[c].req \in Turns
      BY <1>1, <1>13, WorkerFacts DEF UseCapability, Knows, Working
    <2>2. \/ /\ UNCHANGED deferred
             /\ \E e \in Events : events' = [events EXCEPT ![worker[c].req] = @ \cup {e}]
          \/ deferred' = deferred \cup {worker[c].req} /\ UNCHANGED events
          \/ UNCHANGED <<events, deferred>>
      BY <1>13, EmitsAnEvent DEF UseCapability
    <2>5. events' \in [Turns -> SUBSET Events] BY <2>1, <2>2, TableTypes
    <2>4. deferred' \subseteq Turns BY <2>1, <2>2, TableTypes
    <2>3. SetsMove BY <1>13, <2>4, <2>5, TableTypes, FaultsBounded DEF UseCapability, SetsMove
    <2> QED BY <1>13, <2>3, StillStatus, StillPlans, StillOpen, StillQuotes, StillFollowups
            DEF UseCapability, TablesMove
  <1>14. CASE Escalate(c)
    <2>1. worker[c].req \in Turns
      BY <1>1, <1>14, WorkerFacts DEF Escalate, Knows, Working
    <2>2. UNCHANGED open \/ open' = [open EXCEPT ![worker[c].req] = InsertEscalation(@)]
      BY <1>14 DEF Escalate
    <2>4. open \in [Turns -> Nat] BY TableTypes
    <2>3. OpenMoves BY <2>1, <2>2, <2>4 DEF OpenMoves, InsertEscalation
    <2> QED BY <1>14, <2>3, StillStatus, StillPlans, StillQuotes, StillFollowups, StillSets
            DEF Escalate, TablesMove
  <1>15. CASE AppendEscalated(c)
    <2>1. worker[c].req \in Turns
      BY <1>1, <1>15, WorkerFacts DEF AppendEscalated, Knows, Working
    <2>2. events' \in [Turns -> SUBSET Events]
      BY ZenonT(60), <1>15, <2>1, TableTypes DEF AppendEscalated, Events
    <2>3. SetsMove BY <1>15, <2>2, TableTypes, FaultsBounded DEF AppendEscalated, SetsMove, desk
    <2> QED BY <1>15, <2>3, StillStatus, StillPlans, StillDesk DEF AppendEscalated, TablesMove
  <1>16. CASE MarkPlan(c)
    <2>1. PlansMove BY <1>1, <1>16, TableTypes DEF MarkPlan, PlansMove
    <2> QED BY <1>16, <2>1, StillStatus, StillDesk, StillSets DEF MarkPlan, TablesMove, desk
  <1> QED BY <1>3, <1>4, <1>5, <1>6, <1>7, <1>8, <1>9, <1>10, <1>11, <1>12, <1>13, <1>14,
             <1>15, <1>16 DEF CycleStep

LEMMA OperatorsMoveTables ==
  ASSUME RequestInv, NEW o \in Operators, OperatorStep(o)
  PROVE  TablesMove
  <1>1. CASE \E r \in Turns, outcome \in {"resolved", "active"} : CloseEscalation(o, r, outcome)
    <2>1. PICK r \in Turns, outcome \in {"resolved", "active"} : CloseEscalation(o, r, outcome)
      BY <1>1
    <2>2. OpenMoves /\ closed' \subseteq Turns
      BY <2>1, TableTypes DEF CloseEscalation, OpenMoves
    <2>3. SetsMove BY <2>1, <2>2, TableTypes DEF CloseEscalation, SetsMove
    <2> QED BY <2>1, <2>2, <2>3, StillStatus, StillPlans, StillQuotes, StillFollowups
            DEF CloseEscalation, TablesMove
  <1>2. CASE LoadEscalated(o) BY <1>2, ReadsMoveNothing DEF LoadEscalated
  <1>3. CASE MoveEscalated(o) BY <1>3, TransitionsMoveStatus DEF MoveEscalated
  <1> QED BY <1>1, <1>2, <1>3 DEF OperatorStep

\* A new status of one version, other than the current ones.
LEMMA VersionsMove ==
  ASSUME RequestInv, NEW r \in Turns, NEW v \in Versions(r), NEW new \in QuoteStatuses,
         quotes[r][v] # "accepted", quotes[r][v] \in Current, SetVersion(r, v, new)
  PROVE  QuotesMove
  <1> DEFINE old == quotes[r]
             q == [old EXCEPT ![v] = new]
  <1>1. old \in Seq(QuoteStatuses) /\ v \in 1..Len(old) /\ DOMAIN old = 1..Len(old)
    BY TableTypes DEF Versions
  <1>2. q \in Seq(QuoteStatuses) /\ DOMAIN q = DOMAIN old BY <1>1
  <1>3. quotes' = [quotes EXCEPT ![r] = q] BY DEF SetVersion
  <1>4. old # << >> BY <1>1
  <1>5. status[r] # "none" BY <1>4 DEF RequestInv, QuotesKnow
  <1>6. ASSUME OneCurrent(old) PROVE OneCurrent(q)
    BY <1>1, <1>2, <1>6 DEF OneCurrent
  <1>7. \A u \in DOMAIN old : Accepted(old, u) => Accepted(q, u) BY <1>1, <1>2 DEF Accepted
  <1>8. quotes \in [Turns -> Seq(QuoteStatuses)] BY TableTypes
  <1> HIDE DEF q, old
  <1>9. quotes'[r] = q /\ \A p \in Turns : p # r => quotes'[p] = quotes[p] BY <1>3, <1>8
  <1>10. quotes' \in [Turns -> Seq(QuoteStatuses)] BY <1>2, <1>3, <1>8
  <1> QED BY <1>5, <1>6, <1>7, <1>9, <1>10 DEF QuotesMove, Versions, old

LEMMA QuoteStatusesAre ==
  {"draft", "sent", "accepted", "rejected", "superseded", "expired"} = QuoteStatuses
  BY DEF QuoteStatuses, Current

LEMMA DraftsMoveQuotes ==
  ASSUME RequestInv, NEW r \in Turns, status[r] # "none",
         quotes' = [quotes EXCEPT ![r] = WithDraft(@)]
  PROVE  QuotesMove
  <1>1. quotes \in [Turns -> Seq(QuoteStatuses)] BY TableTypes
  <1>2. WithDraft(quotes[r]) \in Seq(QuoteStatuses)
    <2>1. Superseded(quotes[r]) \in Seq(QuoteStatuses) BY <1>1, SupersededIsShaped
    <2>2. Append(Superseded(quotes[r]), "draft") \in Seq(QuoteStatuses)
      BY <2>1, QuoteStatusesAre
    <2> QED BY <1>1, <2>2 DEF WithDraft
  <1>3. quotes'[r] = WithDraft(quotes[r]) /\ \A p \in Turns : p # r => quotes'[p] = quotes[p]
    BY <1>1
  <1>4. quotes' \in [Turns -> Seq(QuoteStatuses)] BY <1>1, <1>2
  <1>5. ASSUME OneCurrent(quotes[r])
        PROVE  /\ OneCurrent(quotes'[r])
               /\ \A v \in Versions(r) : Accepted(quotes[r], v) => Accepted(quotes'[r], v)
    BY <1>1, <1>3, <1>5, DraftsAreCurrent DEF Accepted, Versions
  <1> QED BY <1>3, <1>4, <1>5 DEF QuotesMove, Versions, Accepted

LEMMA DecisionsMoveTables ==
  ASSUME RequestInv, NEW r \in Turns, NEW v \in Versions(r), DecideQuote(r, v)
  PROVE  TablesMove
  <1>1. QuotesMove
    <2>1. CASE quotes[r][v] = "sent" /\ \E d \in {"accepted", "rejected"} : SetVersion(r, v, d)
      <3>1. PICK d \in {"accepted", "rejected"} : SetVersion(r, v, d) BY <2>1
      <3> QED BY <2>1, <3>1, VersionsMove, QuoteStatusesAre DEF Current
    <2>2. CASE Expires(quotes[r][v]) /\ SetVersion(r, v, "expired")
      <3>1. quotes[r][v] \in {"draft", "sent"} BY <2>2 DEF Expires
      <3> QED BY <2>2, <3>1, VersionsMove, QuoteStatusesAre DEF Current
    <2> QED BY <2>1, <2>2 DEF DecideQuote
  <1> QED BY <1>1, StillStatus, StillPlans, StillOpen, StillFollowups, StillSets
          DEF DecideQuote, TablesMove

LEMMA SellersMoveTables ==
  ASSUME RequestInv, NEW s \in Sellers, SellerStep(s)
  PROVE  TablesMove
  <1>1. s \in Workers BY DEF Workers
  <1>2. CASE \E r \in Turns : CheckQuote(s, r) BY <1>2, ReadsMoveNothing DEF CheckQuote
  <1>3. CASE DraftQuote(s)
    <2>1. worker[s].req \in Turns /\ status[worker[s].req] # "none"
      BY <1>1, <1>3, WorkerFacts DEF DraftQuote, Knows, Working
    <2>2. UNCHANGED quotes \/ quotes' = [quotes EXCEPT ![worker[s].req] = WithDraft(@)]
      BY <1>3 DEF DraftQuote
    <2>3. QuotesMove BY <2>1, <2>2, DraftsMoveQuotes, StillQuotes
    <2> QED BY <1>3, <2>3, StillStatus, StillPlans, StillOpen, StillFollowups, StillSets
            DEF DraftQuote, TablesMove
  <1>4. CASE AppendSent(s)
    <2>1. worker[s].req \in Turns
      BY <1>1, <1>4, WorkerFacts DEF AppendSent, Knows, Working
    <2>4. UNCHANGED events \/ events' = [events EXCEPT ![worker[s].req] = @ \cup {"quote_sent"}]
      BY <1>4 DEF AppendSent
    <2>5. events \in [Turns -> SUBSET Events] BY TableTypes
    <2>2. events' \in [Turns -> SUBSET Events] BY <2>1, <2>4, <2>5 DEF Events
    <2>3. SetsMove BY <1>4, <2>2, TableTypes, FaultsBounded DEF AppendSent, SetsMove, desk
    <2> QED BY <1>4, <2>3, StillStatus, StillPlans, StillDesk DEF AppendSent, TablesMove
  <1>5. CASE \E r \in Turns : \E v \in Versions(r) : MarkQuoteSent(s, r, v)
    <2>1. PICK r \in Turns : \E v \in Versions(r) : MarkQuoteSent(s, r, v) BY <1>5
    <2>3. PICK v \in Versions(r) : MarkQuoteSent(s, r, v) BY <2>1
    <2>2. QuotesMove BY <2>3, VersionsMove, QuoteStatusesAre DEF MarkQuoteSent, Current
    <2> QED BY <2>3, <2>2, StillStatus, StillPlans, StillOpen, StillFollowups, StillSets
            DEF MarkQuoteSent, TablesMove
  <1>6. CASE Reduction(s) BY <1>1, <1>6, ReductionsMoveTables
  <1> QED BY <1>2, <1>3, <1>4, <1>5, <1>6 DEF SellerStep

LEMMA TicksMoveTables ==
  ASSUME RequestInv, NEW k \in Ticks, TickStep(k)
  PROVE  TablesMove
  <1>1. CASE \E r \in Turns : TickTakes(k, r) BY <1>1, ReadsMoveNothing DEF TickTakes
  <1>2. CASE TickChecks(k) BY <1>2, ReadsMoveNothing DEF TickChecks
  <1>3. CASE TickReads(k) BY <1>3, ReadsMoveNothing DEF TickReads
  <1>4. k \in Workers BY DEF Workers
  <1>5. CASE TickDrops(k)
    <2>1. worker[k].req \in Turns BY <1>4, <1>5, WorkerFacts DEF TickDrops, Knows
    <2>2. FollowupsMove BY ZenonT(60), <1>5, <2>1, TableTypes DEF TickDrops, FollowupsMove, Ran
    <2> QED BY <1>5, <2>2, StillStatus, StillPlans, StillOpen, StillQuotes, StillSets
            DEF TickDrops, TablesMove
  <1>6. CASE TickClaims(k)
    <2>1. worker[k].req \in Turns BY <1>4, <1>6, WorkerFacts DEF TickClaims, Knows
    <2>2. \/ UNCHANGED <<followup, runs>>
          \/ /\ followup[worker[k].req] = "scheduled"
             /\ followup' = [followup EXCEPT ![worker[k].req] = "executed"]
             /\ runs' = [runs EXCEPT ![worker[k].req] = @ + 1]
      BY <1>6 DEF TickClaims, Claims
    <2>4. /\ followup \in [Turns -> {"none", "scheduled", "cancelled", "executed"}]
          /\ runs \in [Turns -> Nat]
      BY TableTypes
    <2>3. FollowupsMove BY <2>1, <2>2, <2>4 DEF FollowupsMove, Ran
    <2> QED BY <1>6, <2>3, StillStatus, StillPlans, StillOpen, StillQuotes, StillSets
            DEF TickClaims, TablesMove
  <1> QED BY <1>1, <1>2, <1>3, <1>5, <1>6 DEF TickStep

LEMMA StepsMoveTables ==
  ASSUME RequestInv, Next
  PROVE  TablesMove
  <1>1. CASE \E c \in Cycles : CycleStep(c) BY <1>1, CyclesMoveTables
  <1>2. CASE \E o \in Operators : OperatorStep(o) BY <1>2, OperatorsMoveTables
  <1>3. CASE \E s \in Sellers : SellerStep(s) BY <1>3, SellersMoveTables
  <1>4. CASE \E k \in Ticks : TickStep(k) BY <1>4, TicksMoveTables
  <1>5. CASE \E r \in Turns : Schedule(r) \/ \E v \in Versions(r) : DecideQuote(r, v)
    <2>1. PICK r \in Turns : Schedule(r) \/ \E v \in Versions(r) : DecideQuote(r, v) BY <1>5
    <2>2. CASE Schedule(r)
      <3>1. FollowupsMove BY <2>2, TableTypes DEF Schedule, FollowupsMove, Ran
      <3> QED BY <2>2, <3>1, StillStatus, StillPlans, StillOpen, StillQuotes, StillSets
              DEF Schedule, TablesMove
    <2> QED BY <2>1, <2>2, DecisionsMoveTables
  <1>6. CASE \E w \in Workers : Crash(w) BY <1>6, ReadsMoveNothing DEF Crash
  <1> QED BY <1>1, <1>2, <1>3, <1>4, <1>5, <1>6 DEF Next

-----------------------------------------------------------------------------
(* What a step does to the workers. *)

WorkerStep(w) ==
  \E y \in WorkerRecords : worker' = [worker EXCEPT ![w] = y] /\ Knows(y, status')

\* Requests do not lose their rows.
LEMMA RowsStay ==
  ASSUME RequestInv, StatusMoves, NEW r \in Turns, status[r] # "none"
  PROVE  status'[r] # "none"
  <1>1. "none" \notin Statuses BY DEF Statuses
  <1> QED BY <1>1, AllowedAreStatuses DEF StatusMoves

LEMMA KnowledgeStays ==
  ASSUME RequestInv, StatusMoves, NEW x \in WorkerRecords, Knows(x, status)
  PROVE  Knows(x, status')
  <1>1. /\ x.open \in SUBSET Turns
        /\ x.pc = "apply" => x.req \in Turns
    BY WorkerFields DEF Knows
  <1> QED BY <1>1, RowsStay DEF Knows

LEMMA StatusTypes ==
  ASSUME RequestInv
  PROVE  status \in [Turns -> Columns]
  BY TableTypes

\* A worker that has finished, or has nothing in hand, relies on nothing.
LEMMA RestingSteps ==
  ASSUME RequestInv, NEW w \in Workers, NEW pc \in {"begin", "done", "idle"},
         worker' = [worker EXCEPT ![w] = Rest(pc)]
  PROVE  WorkerStep(w)
  <1>1. Rest(pc) \in WorkerRecords BY RestIsAWorker DEF CyclePcs, DeskPcs
  <1>2. Knows(Rest(pc), status') BY DEF Knows, Rest, Working
  <1> QED BY <1>1, <1>2 DEF WorkerStep

\* Program counters at which a worker relies on nothing but the requests it has read.
Free == {"begin", "lookup", "choose", "mark", "done", "idle"}

\* Only the program counter moves, and it moves to a place that relies on no more.
LEMMA GotoSteps ==
  ASSUME RequestInv, StatusMoves, NEW w \in Workers, NEW pc \in CyclePcs \cup DeskPcs,
         worker' = [worker EXCEPT ![w].pc = pc],
         \/ pc \in Free
         \/ pc \in Working \ {"load", "read", "swap"} /\ worker[w].pc \in Working
         \/ pc \in {"check", "links", "drop", "claim"}
              /\ worker[w].pc \in {"check", "links", "drop", "claim"}
  PROVE  WorkerStep(w)
  <1> DEFINE x == worker[w]
             y == [x EXCEPT !.pc = pc]
  <1>1. x \in WorkerRecords /\ Knows(x, status') BY WorkerFacts, KnowledgeStays
  <1>2. y \in WorkerRecords BY <1>1 DEF WorkerRecords
  <1>3. worker' = [worker EXCEPT ![w] = y] BY <1>1
  <1>4. y.pc = pc /\ y.req = x.req /\ y.open = x.open /\ y.op = x.op
    BY <1>1 DEF WorkerRecords
  <1>5. Knows(y, status') BY <1>1, <1>4 DEF Knows, Working, Free
  <1> QED BY <1>2, <1>3, <1>5 DEF WorkerStep

\* The end of a reduction.
LEMMA ReducedSteps ==
  ASSUME RequestInv, StatusMoves, NEW w \in Workers, worker[w].pc \in {"load", "read", "swap"},
         worker' = [worker EXCEPT ![w] = Reduced(worker[w])]
  PROVE  WorkerStep(w)
  <1> DEFINE x == worker[w]
             y == Reduced(x)
  <1>1. x \in WorkerRecords /\ Knows(x, status') /\ x.then \in {"execute", "again", "mark", "idle"}
    BY WorkerFacts, WorkerFields, KnowledgeStays DEF Knows
  <1>2. y \in WorkerRecords BY ZenonT(60), <1>1 DEF WorkerRecords, Reduced, CyclePcs, DeskPcs
  <1>3. /\ y.pc = IF x.then = "again" THEN "load" ELSE x.then
        /\ y.req = x.req /\ y.open = x.open /\ y.op = x.op
        /\ y.then = IF x.then = "again" THEN "mark" ELSE ""
    BY <1>1 DEF WorkerRecords, Reduced
  <1> HIDE DEF y
  <1>4. Knows(y, status') BY <1>1, <1>3 DEF Knows, Working
  <1> QED BY <1>2, <1>4 DEF WorkerStep, y

LEMMA ReductionsMoveWorkers ==
  ASSUME RequestInv, StatusMoves, NEW w \in Workers, Reduction(w)
  PROVE  WorkerStep(w)
  <1> DEFINE x == worker[w]
  <1>1. /\ x \in WorkerRecords /\ Knows(x, status) /\ Knows(x, status')
        /\ x.pc \in {"load", "read", "swap"} /\ x.req \in Turns
    BY WorkerFacts, KnowledgeStays DEF Reduction, LoadRequest, ReadTrail, SwapStatus, Knows, Working
  <1>2. CASE worker' = [worker EXCEPT ![w] = Reduced(x)] BY <1>1, <1>2, ReducedSteps
  <1>3. CASE /\ x.pc = "load"
             /\ worker' = [worker EXCEPT ![w] = [x EXCEPT !.pc = "read", !.from = status[x.req]]]
    <2> DEFINE y == [x EXCEPT !.pc = "read", !.from = status[x.req]]
    <2>1. status[x.req] \in Statuses
      BY <1>1, <1>3, StatusTypes DEF Knows, Working, Columns
    <2>2. y \in WorkerRecords BY <1>1, <2>1 DEF WorkerRecords, CyclePcs
    <2>3. /\ y.pc = "read" /\ y.req = x.req /\ y.open = x.open /\ y.op = x.op
          /\ y.then = x.then /\ y.from = status[x.req]
      BY <1>1 DEF WorkerRecords
    <2>4. Knows(y, status') BY <1>1, <1>3, <2>1, <2>3 DEF Knows, Working
    <2> QED BY <1>3, <2>2, <2>4 DEF WorkerStep
  <1>4. CASE /\ x.pc = "read"
             /\ \E seen, known : worker' = [worker EXCEPT ![w] =
                  [x EXCEPT !.pc = "swap", !.to = Evaluate(Kind(x.req), x.from, seen, known)]]
    <2>1. PICK seen, known : worker' = [worker EXCEPT ![w] =
            [x EXCEPT !.pc = "swap", !.to = Evaluate(Kind(x.req), x.from, seen, known)]]
      BY <1>4
    <2> DEFINE to == Evaluate(Kind(x.req), x.from, seen, known)
               y == [x EXCEPT !.pc = "swap", !.to = to]
    <2>2. x.from \in Statuses BY <1>1, <1>4 DEF Knows
    <2>3. to \in Statuses BY <2>2, EvaluateIsAStatus
    <2> HIDE DEF to
    <2>4. y \in WorkerRecords BY <1>1, <2>3 DEF WorkerRecords, CyclePcs
    <2>5. /\ y.pc = "swap" /\ y.req = x.req /\ y.open = x.open /\ y.op = x.op
          /\ y.then = x.then /\ y.from = x.from
      BY <1>1 DEF WorkerRecords
    <2>6. Knows(y, status') BY <1>1, <1>4, <2>2, <2>5 DEF Knows, Working
    <2> QED BY <2>1, <2>4, <2>6 DEF WorkerStep, to
  <1>5. CASE LoadRequest(w) BY <1>2, <1>3, <1>5 DEF LoadRequest
  <1>6. CASE ReadTrail(w) BY <1>2, <1>4, <1>6 DEF ReadTrail
  <1>7. CASE SwapStatus(w) BY <1>2, <1>7 DEF SwapStatus
  <1> QED BY <1>5, <1>6, <1>7 DEF Reduction

LEMMA BeginsMoveWorkers ==
  ASSUME RequestInv, StatusMoves, UNCHANGED status, NEW c \in Workers, BeginCycle(c)
  PROVE  WorkerStep(c)
  <1>1. CASE worker' = [worker EXCEPT ![c].pc = "lookup"]
    BY <1>1, GotoSteps DEF Free, CyclePcs
  <1>2. CASE worker' = [worker EXCEPT ![c].pc = "lookup", ![c].open = {r \in Turns : IsOpen(r)}]
    <2> DEFINE x == worker[c]
               found == {r \in Turns : IsOpen(r)}
               y == [x EXCEPT !.pc = "lookup", !.open = found]
    <2>1. x \in WorkerRecords BY WorkerFacts
    <2>2. found \in SUBSET Turns /\ \A r \in found : status[r] # "none" BY DEF IsOpen
    <2> HIDE DEF found
    <2>3. y \in WorkerRecords BY <2>1, <2>2 DEF WorkerRecords, CyclePcs
    <2>4. y.pc = "lookup" /\ y.open = found BY <2>1 DEF WorkerRecords
    <2>5. Knows(y, status') BY <2>2, <2>4 DEF Knows, Working
    <2> QED BY <1>2, <2>1, <2>3, <2>5 DEF WorkerStep, found
  <1> QED BY <1>1, <1>2 DEF BeginCycle, Goto

\* A worker takes up a plan that is good.
LEMMA PlanTakers ==
  ASSUME RequestInv, UNCHANGED status, NEW c \in Workers, NEW p \in Plans,
         p # NoPlan, p.req \in Turns, p.op # "create" => status[p.req] # "none",
         worker' = [worker EXCEPT ![c].pc = "apply", ![c].op = p, ![c].req = p.req, ![c].open = {}]
  PROVE  WorkerStep(c)
  <1> DEFINE x == worker[c]
             y == [x EXCEPT !.pc = "apply", !.op = p, !.req = p.req, !.open = {}]
  <1>1. x \in WorkerRecords BY WorkerFacts
  <1>2. y \in WorkerRecords BY <1>1 DEF WorkerRecords, CyclePcs
  <1>3. y.pc = "apply" /\ y.op = p /\ y.req = p.req /\ y.open = {} BY <1>1 DEF WorkerRecords
  <1>4. Knows(y, status') BY <1>3 DEF Knows, Working
  <1> QED BY <1>2, <1>4 DEF WorkerStep

LEMMA StoresMoveWorkers ==
  ASSUME RequestInv, NEW c \in Cycles, NEW own \in Operations(Turn(c), worker[c].open),
         StorePlan(c, own)
  PROVE  WorkerStep(c)
  <1> DEFINE taken == StoredPlan(plan[Turn(c)], own)
  <1>1. c \in Workers /\ Turn(c) \in Turns BY CyclesAreWorkers
  <1>2. /\ own \in Plans /\ own # NoPlan /\ own.req \in Turns
        /\ own.op # "create" => own.req \in worker[c].open
    BY <1>1, WorkerFacts, OperationsArePlans
  <1>3. own.op # "create" => status[own.req] # "none" BY <1>1, <1>2, WorkerFacts DEF Knows
  <1>4. /\ taken \in Plans /\ taken # NoPlan /\ taken.req \in Turns
        /\ taken.op # "create" => status[taken.req] # "none"
    BY <1>1, <1>2, <1>3, TableTypes DEF StoredPlan, RequestInv, PlanKnows
  <1> QED BY <1>1, <1>4, PlanTakers DEF StorePlan

LEMMA LookUpsMoveWorkers ==
  ASSUME RequestInv, StatusMoves, NEW c \in Cycles, LookUpPlan(c)
  PROVE  WorkerStep(c)
  <1>1. c \in Workers /\ Turn(c) \in Turns BY CyclesAreWorkers
  <1>2. CASE worker' = [worker EXCEPT ![c].pc = "choose"]
    BY <1>1, <1>2, GotoSteps DEF Free, CyclePcs
  <1>3. CASE /\ plan[Turn(c)] # NoPlan
             /\ worker' = [worker EXCEPT ![c].pc = "apply", ![c].op = plan[Turn(c)],
                                         ![c].req = plan[Turn(c)].req, ![c].open = {}]
    <2>1. plan[Turn(c)] \in Plans /\ PlanKnows(Turn(c)) BY <1>1, TableTypes DEF RequestInv
    <2> QED BY <1>1, <1>3, <2>1, PlanTakers DEF PlanKnows, LookUpPlan
  <1> QED BY <1>2, <1>3 DEF LookUpPlan, Goto

LEMMA AppliesMoveWorkers ==
  ASSUME RequestInv, StatusMoves, NEW c \in Workers, Apply(c)
  PROVE  WorkerStep(c)
  <1> DEFINE x == worker[c]
             now == LoadsOrCreates(Op(c).op, status[x.req])
             pc == IF Op(c).op = "cancel" /\ now # "cancelled" THEN "cancel" ELSE "facts"
             y == [x EXCEPT !.from = now, !.pc = pc]
  <1>1. x \in WorkerRecords /\ x.req \in Turns /\ Knows(x, status')
    BY WorkerFacts, KnowledgeStays DEF Apply, Knows
  <1>2. now \in Statuses
    BY <1>1, WorkerFacts, StatusTypes DEF Apply, Knows, LoadsOrCreates, Columns, Statuses, Op
  <1>3. status'[x.req] = now BY <1>1, StatusTypes DEF Apply
  <1>4. pc \in {"cancel", "facts"} OBVIOUS
  <1> HIDE DEF now, pc
  <1>5. y \in WorkerRecords BY <1>1, <1>2, <1>4 DEF WorkerRecords, CyclePcs
  <1>6. y.pc = pc /\ y.req = x.req /\ y.open = x.open BY <1>1 DEF WorkerRecords
  <1>7. Knows(y, status') BY <1>1, <1>2, <1>3, <1>4, <1>6 DEF Knows, Working, Statuses
  <1>8. worker' = [worker EXCEPT ![c] = y]
    <2>1. worker' = [worker EXCEPT ![c].from = now, ![c].pc = pc] BY DEF Apply, now, pc
    <2> QED BY <2>1
  <1> QED BY <1>5, <1>7, <1>8 DEF WorkerStep

\* Work that was done, or that has failed: the worker goes to reduce, or to mark.
LEMMA ReduceNextSteps ==
  ASSUME RequestInv, StatusMoves, NEW w \in Workers, worker[w].pc \in Working,
         NEW then \in {"execute", "again", "mark", "idle"},
         \/ worker' = [worker EXCEPT ![w].pc = "load", ![w].then = then]
         \/ worker' = [worker EXCEPT ![w].pc = "load", ![w].then = then, ![w].from = "none"]
  PROVE  WorkerStep(w)
  <1> DEFINE x == worker[w]
             y == [x EXCEPT !.pc = "load", !.then = then]
             z == [x EXCEPT !.pc = "load", !.then = then, !.from = "none"]
  <1>1. x \in WorkerRecords /\ Knows(x, status') BY WorkerFacts, KnowledgeStays
  <1>2. y \in WorkerRecords /\ z \in WorkerRecords BY <1>1 DEF WorkerRecords, CyclePcs
  <1>3. /\ y.pc = "load" /\ y.req = x.req /\ y.open = x.open /\ y.then = then
        /\ z.pc = "load" /\ z.req = x.req /\ z.open = x.open /\ z.then = then
    BY <1>1 DEF WorkerRecords
  <1>4. Knows(y, status') /\ Knows(z, status') BY <1>1, <1>3 DEF Knows, Working
  <1>5. worker' = [worker EXCEPT ![w] = y] \/ worker' = [worker EXCEPT ![w] = z] OBVIOUS
  <1> QED BY <1>2, <1>4, <1>5 DEF WorkerStep

LEMMA WorkSteps ==
  ASSUME RequestInv, StatusMoves, NEW c \in Workers, worker[c].pc \in Working,
         NEW pc \in {"load", "mark", "escalate", "capability", "event"}, Work(c, pc)
  PROVE  WorkerStep(c)
  <1>1. CASE pc = "load" BY <1>1, ReduceNextSteps DEF Work
  <1>2. CASE pc # "load"
    <2> DEFINE x == worker[c]
               y == [x EXCEPT !.pc = pc, !.then = ""]
    <2>1. x \in WorkerRecords /\ Knows(x, status') BY WorkerFacts, KnowledgeStays
    <2>2. y \in WorkerRecords BY <2>1 DEF WorkerRecords, CyclePcs
    <2>3. y.pc = pc /\ y.req = x.req /\ y.open = x.open BY <2>1 DEF WorkerRecords
    <2>4. Knows(y, status') BY <1>2, <2>1, <2>3 DEF Knows, Working
    <2>5. worker' = [worker EXCEPT ![c] = y] BY <1>2 DEF Work
    <2> QED BY <2>2, <2>4, <2>5 DEF WorkerStep
  <1> QED BY <1>1, <1>2

LEMMA SkipSteps ==
  ASSUME RequestInv, StatusMoves, NEW c \in Workers, Skip(c)
  PROVE  WorkerStep(c)
  <1> DEFINE x == worker[c]
             y == [x EXCEPT !.pc = "mark", !.then = "", !.skipped = TRUE]
  <1>1. x \in WorkerRecords /\ Knows(x, status') BY WorkerFacts, KnowledgeStays
  <1>2. y \in WorkerRecords BY <1>1 DEF WorkerRecords, CyclePcs
  <1>3. y.pc = "mark" /\ y.open = x.open BY <1>1 DEF WorkerRecords
  <1>4. Knows(y, status') BY <1>1, <1>3 DEF Knows, Working
  <1> QED BY <1>2, <1>4 DEF WorkerStep, Skip

LEMMA CyclesMoveWorkers ==
  ASSUME RequestInv, StatusMoves, NEW c \in Cycles, CycleStep(c)
  PROVE  WorkerStep(c)
  <1>1. c \in Workers BY CyclesAreWorkers
  <1>2. CASE BeginCycle(c) BY <1>1, <1>2, BeginsMoveWorkers DEF BeginCycle
  <1>3. CASE LookUpPlan(c) BY <1>3, LookUpsMoveWorkers
  <1>4. CASE \E own \in Operations(Turn(c), worker[c].open) : StorePlan(c, own)
    BY <1>4, StoresMoveWorkers
  <1>5. CASE Apply(c) BY <1>1, <1>5, AppliesMoveWorkers
  <1>6. CASE ApplyFails(c)
    <2> DEFINE x == worker[c]
               y == [x EXCEPT !.pc = "mark", !.failed = TRUE]
    <2>1. x \in WorkerRecords /\ Knows(x, status') BY <1>1, WorkerFacts, KnowledgeStays
    <2>2. y \in WorkerRecords BY <2>1 DEF WorkerRecords, CyclePcs
    <2>3. y.pc = "mark" /\ y.open = x.open BY <2>1 DEF WorkerRecords
    <2>4. Knows(y, status') BY <2>1, <2>3 DEF Knows, Working
    <2> QED BY <1>6, <2>2, <2>4 DEF WorkerStep, ApplyFails
  <1>7. CASE CancelRequest(c)
    BY <1>1, <1>7, GotoSteps DEF CancelRequest, Goto, Working, CyclePcs
  <1>8. CASE StoreFact(c)
    BY <1>1, <1>8, GotoSteps DEF StoreFact, Goto, Working, CyclePcs
  <1>9. CASE Activate(c)
    BY <1>1, <1>9, ReduceNextSteps DEF Activate, Working
  <1>10. CASE Reduction(c) BY <1>1, <1>10, ReductionsMoveWorkers
  <1>11. CASE Execute(c)
    <2>1. DueWork(worker[c].req) \in {"mark", "escalate", "capability"} BY DEF DueWork
    <2>2. Skip(c) \/ \E pc \in {"mark", "escalate", "capability"} : Work(c, pc)
      BY <1>11, <2>1 DEF Execute
    <2> QED BY <1>1, <1>11, <2>2, WorkSteps, SkipSteps DEF Execute, Working
  <1>12. CASE UseCapability(c)
    BY <1>1, <1>12, WorkSteps, SkipSteps DEF UseCapability, Working
  <1>13. CASE Escalate(c)
    <2>1. Work(c, "event") \/ Work(c, "load") BY <1>13 DEF Escalate
    <2>2. worker[c].pc \in Working BY <1>13 DEF Escalate, Working
    <2> QED BY <1>1, <2>1, <2>2, WorkSteps
  <1>14. CASE AppendEscalated(c)
    BY <1>1, <1>14, ReduceNextSteps DEF AppendEscalated, Working
  <1>15. CASE MarkPlan(c)
    BY <1>1, <1>15, GotoSteps DEF MarkPlan, Goto, Free, CyclePcs
  <1> QED BY <1>2, <1>3, <1>4, <1>5, <1>6, <1>7, <1>8, <1>9, <1>10, <1>11, <1>12, <1>13, <1>14,
             <1>15 DEF CycleStep

LEMMA FinishSteps ==
  ASSUME RequestInv, NEW w \in Workers, Finish(w)
  PROVE  WorkerStep(w)
  BY RestingSteps DEF Finish

\* An idle worker takes up a request.
LEMMA StartSteps ==
  ASSUME RequestInv, StatusMoves, NEW w \in Workers, NEW r \in Turns,
         NEW pc \in {"draft", "sent", "check"}, Start(w, pc, r),
         pc # "check" => status[r] # "none"
  PROVE  WorkerStep(w)
  <1> DEFINE x == worker[w]
             y == [x EXCEPT !.pc = pc, !.req = r]
  <1>1. x \in WorkerRecords /\ Knows(x, status') BY WorkerFacts, KnowledgeStays
  <1>2. y \in WorkerRecords BY <1>1 DEF WorkerRecords, DeskPcs
  <1>3. y.pc = pc /\ y.req = r /\ y.open = x.open BY <1>1 DEF WorkerRecords
  <1>4. pc # "check" => status'[r] # "none" BY RowsStay
  <1>5. Knows(y, status') BY <1>1, <1>3, <1>4 DEF Knows, Working
  <1> QED BY <1>2, <1>5 DEF WorkerStep, Start

LEMMA OperatorsMoveWorkers ==
  ASSUME RequestInv, StatusMoves, NEW o \in Operators, OperatorStep(o)
  PROVE  WorkerStep(o)
  <1> DEFINE x == worker[o]
  <1>1. o \in Workers BY DEF Workers
  <1>2. x \in WorkerRecords /\ Knows(x, status') BY <1>1, WorkerFacts, KnowledgeStays
  <1>3. CASE \E r \in Turns, outcome \in {"resolved", "active"} : CloseEscalation(o, r, outcome)
    <2>1. PICK r \in Turns, outcome \in {"resolved", "active"} : CloseEscalation(o, r, outcome)
      BY <1>3
    <2> DEFINE y == [x EXCEPT !.pc = "answer", !.req = r, !.to = outcome]
    <2>2. y \in WorkerRecords BY <1>2 DEF WorkerRecords, DeskPcs, Statuses
    <2>3. y.pc = "answer" /\ y.req = r /\ y.open = x.open BY <1>2 DEF WorkerRecords
    <2>4. Knows(y, status') BY <1>2, <2>3 DEF Knows, Working
    <2> QED BY <2>1, <2>2, <2>4 DEF WorkerStep, CloseEscalation
  <1>4. CASE LoadEscalated(o)
    <2>1. CASE worker' = [worker EXCEPT ![o].pc = "move", ![o].from = status[x.req]]
      <3> DEFINE y == [x EXCEPT !.pc = "move", !.from = status[x.req]]
      <3>1. x.pc = "answer" /\ x.req \in Turns
        BY <1>1, <1>4, WorkerFacts DEF LoadEscalated, Knows
      <3>2. status[x.req] \in Columns BY <3>1, StatusTypes
      <3>3. y \in WorkerRecords BY <1>2, <3>2 DEF WorkerRecords, DeskPcs, Columns
      <3>4. y.pc = "move" /\ y.req = x.req /\ y.open = x.open BY <1>2 DEF WorkerRecords
      <3>5. Knows(y, status') BY <1>2, <3>1, <3>4 DEF Knows, Working
      <3> QED BY <2>1, <3>3, <3>5 DEF WorkerStep
    <2> QED BY <1>1, <1>4, <2>1, FinishSteps DEF LoadEscalated
  <1>5. CASE MoveEscalated(o) BY <1>1, <1>5, FinishSteps DEF MoveEscalated
  <1> QED BY <1>3, <1>4, <1>5 DEF OperatorStep

LEMMA SellersMoveWorkers ==
  ASSUME RequestInv, StatusMoves, NEW s \in Sellers, SellerStep(s)
  PROVE  WorkerStep(s)
  <1>1. s \in Workers BY DEF Workers
  <1>2. CASE \E r \in Turns : CheckQuote(s, r)
    BY <1>1, <1>2, StartSteps DEF CheckQuote, Exists
  <1>3. CASE DraftQuote(s) BY <1>1, <1>3, FinishSteps DEF DraftQuote
  <1>4. CASE AppendSent(s)
    BY <1>1, <1>4, ReduceNextSteps DEF AppendSent, Working
  <1>5. CASE \E r \in Turns : \E v \in Versions(r) : MarkQuoteSent(s, r, v)
    <2>1. PICK r \in Turns : \E v \in Versions(r) : MarkQuoteSent(s, r, v) BY <1>5
    <2>2. quotes[r] # << >> BY <2>1 DEF Versions
    <2>3. status[r] # "none" BY <2>2 DEF RequestInv, QuotesKnow
    <2> QED BY <1>1, <2>1, <2>3, StartSteps DEF MarkQuoteSent
  <1>6. CASE Reduction(s) BY <1>1, <1>6, ReductionsMoveWorkers
  <1> QED BY <1>2, <1>3, <1>4, <1>5, <1>6 DEF SellerStep

LEMMA TicksMoveWorkers ==
  ASSUME RequestInv, StatusMoves, NEW k \in Ticks, TickStep(k)
  PROVE  WorkerStep(k)
  <1>1. k \in Workers BY DEF Workers
  <1>2. CASE \E r \in Turns : TickTakes(k, r) BY <1>1, <1>2, StartSteps DEF TickTakes
  <1>3. CASE TickChecks(k)
    <2>1. PICK pc \in {"drop", "links"} : Step(k, pc) BY <1>3 DEF TickChecks
    <2> QED BY <1>1, <1>3, <2>1, GotoSteps DEF TickChecks, Step, DeskPcs
  <1>4. CASE TickReads(k)
    <2>1. PICK pc \in {"drop", "claim"} : Step(k, pc) BY <1>4 DEF TickReads
    <2> QED BY <1>1, <1>4, <2>1, GotoSteps DEF TickReads, Step, DeskPcs
  <1>5. CASE TickDrops(k) BY <1>1, <1>5, FinishSteps DEF TickDrops
  <1>6. CASE TickClaims(k) BY <1>1, <1>6, FinishSteps DEF TickClaims
  <1> QED BY <1>2, <1>3, <1>4, <1>5, <1>6 DEF TickStep

LEMMA StepsMoveWorkers ==
  ASSUME RequestInv, StatusMoves, Next
  PROVE  UNCHANGED worker \/ \E w \in Workers : WorkerStep(w)
  <1>1. CASE \E c \in Cycles : CycleStep(c) BY <1>1, CyclesMoveWorkers DEF Workers
  <1>2. CASE \E o \in Operators : OperatorStep(o) BY <1>2, OperatorsMoveWorkers DEF Workers
  <1>3. CASE \E s \in Sellers : SellerStep(s) BY <1>3, SellersMoveWorkers DEF Workers
  <1>4. CASE \E k \in Ticks : TickStep(k) BY <1>4, TicksMoveWorkers DEF Workers
  <1>5. CASE \E r \in Turns : Schedule(r) \/ \E v \in Versions(r) : DecideQuote(r, v)
    BY <1>5 DEF Schedule, DecideQuote
  <1>6. CASE \E w \in Workers : Crash(w)
    <2>1. PICK w \in Workers : Crash(w) BY <1>6
    <2>2. PICK pc \in {"done", "idle"} : worker' = [worker EXCEPT ![w] = Rest(pc)]
      BY <2>1 DEF Crash
    <2> QED BY <2>2, RestingSteps
  <1> QED BY <1>1, <1>2, <1>3, <1>4, <1>5, <1>6 DEF Next

-----------------------------------------------------------------------------
(* The invariant. *)

LEMMA NextKeepsInv ==
  ASSUME RequestInv, Next
  PROVE  RequestInv'
  <1>1. TablesMove BY StepsMoveTables
  <1>2. StatusMoves /\ PlansMove /\ OpenMoves /\ QuotesMove /\ FollowupsMove /\ SetsMove
    BY <1>1 DEF TablesMove
  <1>3. \A r \in Turns : status[r] # "none" => status'[r] # "none" BY <1>2, RowsStay
  <1>4. worker' \in [Workers -> WorkerRecords] /\ \A w \in Workers : Knows(worker'[w], status')
    <2>1. worker \in [Workers -> WorkerRecords] BY TableTypes
    <2>2. \A w \in Workers : Knows(worker[w], status')
      BY <1>2, WorkerFacts, KnowledgeStays
    <2>3. CASE UNCHANGED worker BY <2>1, <2>2, <2>3
    <2>4. CASE \E w \in Workers : WorkerStep(w)
      <3>1. PICK w \in Workers, y \in WorkerRecords :
              worker' = [worker EXCEPT ![w] = y] /\ Knows(y, status')
        BY <2>4 DEF WorkerStep
      <3>2. \A v \in Workers : worker'[v] = IF v = w THEN y ELSE worker[v] BY <2>1, <3>1
      <3>3. worker' \in [Workers -> WorkerRecords] BY <2>1, <3>1
      <3> QED BY <2>2, <3>1, <3>2, <3>3
    <2> QED BY <1>2, <2>3, <2>4, StepsMoveWorkers
  <1>5. RequestTypeOK'
    <2>1. \A w \in Workers : worker'[w].pc \in {"read", "swap"} => worker'[w].from \in Statuses
      BY <1>4 DEF Knows
    <2> QED BY <1>2, <1>4, <2>1 DEF RequestTypeOK, StatusMoves, PlansMove, OpenMoves, QuotesMove,
                FollowupsMove, SetsMove, Columns, Events, QuoteStatuses
  <1>6. \A t \in Turns : PlanKnows(t)'
    <2> SUFFICES ASSUME NEW t \in Turns, plan'[t] # NoPlan
                 PROVE  /\ plan'[t].req \in Turns
                        /\ plan'[t].op # "create" => status'[plan'[t].req] # "none"
      BY DEF PlanKnows
    <2>1. CASE plan'[t] = plan[t] BY <1>3, <2>1 DEF RequestInv, PlanKnows
    <2>2. CASE plan'[t] # plan[t] BY <1>2, <1>3, <2>2 DEF PlansMove
    <2> QED BY <2>1, <2>2
  <1>7. \A r \in Turns : QuotesKnow(r)'
    BY <1>2, <1>3 DEF QuotesMove, QuotesKnow, RequestInv
  <1> QED BY <1>4, <1>5, <1>6, <1>7 DEF RequestInv

LEMMA InvHolds == Spec => []RequestInv
  <1>1. RequestInv /\ [Next]_vars => RequestInv'
    <2>1. ASSUME RequestInv, UNCHANGED vars PROVE RequestInv'
      BY <2>1 DEF vars, planning, desk, RequestInv, RequestTypeOK, PlanKnows, QuotesKnow, Versions
    <2> QED BY <2>1, NextKeepsInv
  <1> QED BY <1>1, InitIsInv, PTL DEF Spec

\* Every reachable state has the declared types: a worker that has read a request
\* holds one of its statuses, and every plan and quote is about a request with a row.
THEOREM RequestTypeCorrectness == Spec => []RequestTypeOK
  <1>1. RequestInv => RequestTypeOK BY DEF RequestInv
  <1> QED BY <1>1, InvHolds, PTL

\* A request that has a row is moved along the table only, by whoever moves it and
\* whatever it had read: a cancelled request is moved by nobody.
FollowsTable == \A r \in Turns : status'[r] # status[r] /\ status[r] # "none" =>
                  <<status[r], status'[r]>> \in Allowed

THEOREM TransitionsFollowTheTable == Spec => StatusFollowsTable
  <1>1. RequestInv /\ [Next]_vars => [FollowsTable]_status
    <2>1. ASSUME RequestInv, Next PROVE FollowsTable
      BY <2>1, StepsMoveTables DEF TablesMove, StatusMoves, FollowsTable
    <2> QED BY <2>1 DEF vars
  <1>2. StatusFollowsTable <=> [][FollowsTable]_status BY DEF StatusFollowsTable, FollowsTable
  <1> QED BY <1>1, <1>2, InvHolds, PTL DEF Spec

\* A request never has two open escalations: the insert that finds one is ignored.
THEOREM EscalationsAreSingle == Spec => []OneOpenEscalation
  <1>1. Init => OneOpenEscalation
    <2> SUFFICES ASSUME Init, NEW r \in Turns PROVE open[r] <= 1 BY DEF OneOpenEscalation
    <2>1. open[r] = 0 BY DEF Init
    <2> QED BY <2>1
  <1>2. RequestInv /\ OneOpenEscalation /\ [Next]_vars => OneOpenEscalation'
    <2> SUFFICES ASSUME RequestInv, OneOpenEscalation, [Next]_vars PROVE OneOpenEscalation'
      OBVIOUS
    <2>1. CASE UNCHANGED vars BY <2>1 DEF vars, desk, OneOpenEscalation
    <2>2. CASE Next
      <3>1. OpenMoves BY <2>2, StepsMoveTables DEF TablesMove
      <3>2. open \in [Turns -> Nat] BY TableTypes
      <3> QED BY <3>1, <3>2 DEF OpenMoves, OneOpenEscalation
    <2> QED BY <2>1, <2>2
  <1> QED BY <1>1, <1>2, InvHolds, PTL DEF Spec

\* Every request has one current quote at most.
SingleQuotes == \A r \in Turns : OneCurrent(quotes[r])
QuoteInv == RequestInv /\ SingleQuotes

LEMMA QuoteInvHolds == Spec => []QuoteInv
  <1>1. Init => QuoteInv BY InitIsInv DEF QuoteInv, Init, SingleQuotes, OneCurrent
  <1>2. QuoteInv /\ [Next]_vars => QuoteInv'
    <2> SUFFICES ASSUME QuoteInv, [Next]_vars PROVE QuoteInv' OBVIOUS
    <2>1. CASE UNCHANGED vars
      BY <2>1 DEF vars, planning, desk, QuoteInv, SingleQuotes, OneCurrent,
                  RequestInv, RequestTypeOK, PlanKnows, QuotesKnow, Versions
    <2>2. CASE Next
      <3>1. RequestInv /\ SingleQuotes BY DEF QuoteInv
      <3>2. QuotesMove BY <2>2, <3>1, StepsMoveTables DEF TablesMove
      <3>3. SingleQuotes' BY <3>1, <3>2 DEF QuotesMove, SingleQuotes
      <3> QED BY <2>2, <3>1, <3>3, NextKeepsInv DEF QuoteInv
    <2> QED BY <2>1, <2>2
  <1> QED BY <1>1, <1>2, PTL DEF Spec

\* The unique key does what createQuoteDraft's look before its transaction cannot.
THEOREM QuotesAreSingle == Spec => []OneCurrentQuote
  <1>1. QuoteInv => OneCurrentQuote
    BY DEF QuoteInv, SingleQuotes, OneCurrent, OneCurrentQuote, Versions
  <1> QED BY <1>1, QuoteInvHolds, PTL

KeepsAccepted == \A r \in Turns : \A v \in Versions(r) :
                   quotes[r][v] = "accepted" => quotes'[r][v] = "accepted"

\* A quote the customer accepted stays accepted, whoever drafts, sends or expires.
THEOREM AcceptedQuotesAreKept == Spec => AcceptedIsKept
  <1>1. QuoteInv /\ [Next]_vars => [KeepsAccepted]_quotes
    <2>1. ASSUME QuoteInv, Next PROVE KeepsAccepted
      <3>1. RequestInv /\ SingleQuotes BY <2>1 DEF QuoteInv
      <3>2. QuotesMove BY <2>1, <3>1, StepsMoveTables DEF TablesMove
      <3> QED BY <3>1, <3>2 DEF QuotesMove, SingleQuotes, KeepsAccepted, Accepted, Versions
    <2> QED BY <2>1 DEF vars, desk
  <1>2. AcceptedIsKept <=> [][KeepsAccepted]_quotes BY DEF AcceptedIsKept, KeepsAccepted
  <1> QED BY <1>1, <1>2, QuoteInvHolds, PTL DEF Spec

RunsCounted == \A r \in Turns : Ran(r)
FollowupInv == RequestInv /\ RunsCounted

\* A follow-up of a request is executed once, however many ticks have selected it.
THEOREM RequestFollowupsRunOnce == Spec => []FollowupRunsOnce
  <1>1. Init => FollowupInv BY InitIsInv DEF FollowupInv, Init, RunsCounted, Ran
  <1>2. FollowupInv /\ [Next]_vars => FollowupInv'
    <2> SUFFICES ASSUME FollowupInv, [Next]_vars PROVE FollowupInv' OBVIOUS
    <2>1. CASE UNCHANGED vars
      BY <2>1 DEF vars, planning, desk, FollowupInv, RunsCounted, Ran,
                  RequestInv, RequestTypeOK, PlanKnows, QuotesKnow, Versions
    <2>2. CASE Next
      <3>1. RequestInv /\ RunsCounted BY DEF FollowupInv
      <3>2. FollowupsMove BY <2>2, <3>1, StepsMoveTables DEF TablesMove
      <3>3. RunsCounted' BY <3>1, <3>2 DEF FollowupsMove, RunsCounted
      <3> QED BY <2>2, <3>1, <3>3, NextKeepsInv DEF FollowupInv
    <2> QED BY <2>1, <2>2
  <1>3. FollowupInv => FollowupRunsOnce
    <2> SUFFICES ASSUME FollowupInv, NEW r \in Turns PROVE runs[r] <= 1 BY DEF FollowupRunsOnce
    <2>1. runs[r] = 0 \/ runs[r] = 1 BY DEF FollowupInv, RunsCounted, Ran
    <2> QED BY <2>1
  <1> QED BY <1>1, <1>2, <1>3, PTL DEF Spec

-----------------------------------------------------------------------------
(* The plan of a turn. *)

\* What a step makes of the plan a cycle has in hand.
OpMoves(c) == worker'[c].op \in {worker[c].op, NoPlan, plan'[Turn(c)]}

LEMMA ReductionsKeepOps ==
  ASSUME RequestInv, NEW c \in Workers, Reduction(c)
  PROVE  worker'[c].op = worker[c].op
  <1>1. worker \in [Workers -> WorkerRecords] /\ worker[c] \in WorkerRecords BY TableTypes
  <1>2. Reduced(worker[c]).op = worker[c].op BY <1>1 DEF Reduced, WorkerRecords
  <1>3. CASE LoadRequest(c) BY ZenonT(60), <1>1, <1>2, <1>3 DEF LoadRequest, WorkerRecords
  <1>4. CASE SwapStatus(c) BY <1>1, <1>2, <1>4 DEF SwapStatus
  <1>5. CASE ReadTrail(c)
    <2>1. PICK to : \/ worker' = [worker EXCEPT ![c] = Reduced(worker[c])]
                    \/ worker' = [worker EXCEPT ![c] = [worker[c] EXCEPT !.pc = "swap", !.to = to]]
      BY <1>5 DEF ReadTrail
    <2> QED BY <1>1, <1>2, <2>1 DEF WorkerRecords
  <1> QED BY <1>3, <1>4, <1>5 DEF Reduction

LEMMA GotoKeepsOps ==
  ASSUME RequestInv, NEW c \in Workers, NEW pc, Goto(c, pc)
  PROVE  OpMoves(c)
  <1>1. worker \in [Workers -> WorkerRecords] /\ worker[c] \in WorkerRecords BY TableTypes
  <1> QED BY <1>1 DEF Goto, OpMoves, WorkerRecords

LEMMA CyclesMoveOps ==
  ASSUME RequestInv, NEW c \in Cycles, CycleStep(c)
  PROVE  OpMoves(c)
  <1>1. /\ c \in Workers /\ worker \in [Workers -> WorkerRecords]
        /\ worker[c] \in WorkerRecords
    BY CyclesAreWorkers, TableTypes
  <1>2. CASE BeginCycle(c) BY ZenonT(60), <1>1, <1>2 DEF BeginCycle, Goto, OpMoves, WorkerRecords
  <1>3. CASE LookUpPlan(c)
    <2>1. CASE Goto(c, "choose") BY <1>1, <2>1, GotoKeepsOps
    <2>2. CASE worker' = [worker EXCEPT ![c].pc = "apply", ![c].op = plan[Turn(c)],
                                        ![c].req = plan[Turn(c)].req, ![c].open = {}]
      <3>1. worker'[c].op = plan[Turn(c)] BY <1>1, <2>2 DEF WorkerRecords
      <3>2. plan' = plan BY <1>3 DEF LookUpPlan, planning
      <3> QED BY <3>1, <3>2 DEF OpMoves
    <2> QED BY <1>3, <2>1, <2>2 DEF LookUpPlan
  <1>4. CASE \E own \in Operations(Turn(c), worker[c].open) : StorePlan(c, own)
    <2>1. PICK own \in Operations(Turn(c), worker[c].open) : StorePlan(c, own) BY <1>4
    <2>2. Turn(c) \in Turns /\ plan \in [Turns -> Plans] BY CyclesAreWorkers, TableTypes
    <2>3. plan'[Turn(c)] = StoredPlan(plan[Turn(c)], own)
      BY <2>1, <2>2 DEF StorePlan, StoredPlan
    <2>4. worker'[c].op = StoredPlan(plan[Turn(c)], own)
      BY <1>1, <2>1 DEF StorePlan, WorkerRecords
    <2> QED BY <2>3, <2>4 DEF OpMoves
  <1>5. CASE CancelRequest(c) \/ StoreFact(c) \/ MarkPlan(c)
    <2>1. PICK pc : Goto(c, pc) BY <1>5 DEF CancelRequest, StoreFact, MarkPlan
    <2> QED BY <1>1, <2>1, GotoKeepsOps
  <1>10. CASE Apply(c)
    <2>1. PICK from, pc : worker' = [worker EXCEPT ![c].from = from, ![c].pc = pc]
      BY <1>10 DEF Apply
    <2> QED BY <1>1, <2>1 DEF OpMoves, WorkerRecords
  <1>6. CASE Reduction(c) BY <1>1, <1>6, ReductionsKeepOps DEF OpMoves
  <1>7. CASE \E pc : Work(c, pc) BY ZenonT(60), <1>1, <1>7 DEF Work, OpMoves, WorkerRecords
  <1>8. CASE AppendEscalated(c) BY <1>1, <1>8 DEF AppendEscalated, OpMoves, WorkerRecords
  <1>11. CASE ApplyFails(c) BY <1>1, <1>11 DEF ApplyFails, OpMoves, WorkerRecords
  <1>12. CASE Activate(c) BY <1>1, <1>12 DEF Activate, OpMoves, WorkerRecords
  <1>13. CASE Skip(c) BY <1>1, <1>13 DEF Skip, OpMoves, WorkerRecords
  <1>9. Execute(c) \/ UseCapability(c) \/ Escalate(c) => Skip(c) \/ \E pc : Work(c, pc)
    <2>1. Execute(c) => Skip(c) \/ \E pc : Work(c, pc) BY DEF Execute
    <2>2. UseCapability(c) => Skip(c) \/ \E pc : Work(c, pc) BY DEF UseCapability
    <2>3. Escalate(c) => \E pc : Work(c, pc) BY DEF Escalate
    <2> QED BY <2>1, <2>2, <2>3
  <1> QED BY <1>2, <1>3, <1>4, <1>5, <1>6, <1>7, <1>8, <1>9, <1>10, <1>11, <1>12,
             <1>13
         DEF CycleStep

\* A worker's step leaves the others alone.
LEMMA OthersStay ==
  ASSUME RequestInv, NEW w \in Workers, NEW c \in Workers, c # w, WorkerStep(w)
  PROVE  worker'[c] = worker[c]
  BY TableTypes DEF WorkerStep

LEMMA StepsMoveOps ==
  ASSUME RequestInv, Next, NEW c \in Cycles
  PROVE  OpMoves(c)
  <1>1. c \in Workers /\ worker \in [Workers -> WorkerRecords] BY CyclesAreWorkers, TableTypes
  <1>2. CASE worker'[c] = worker[c] BY <1>2 DEF OpMoves
  <1>3. CASE \E d \in Cycles : CycleStep(d)
    <2>1. PICK d \in Cycles : CycleStep(d) BY <1>3
    <2>2. CASE d = c BY <2>1, <2>2, CyclesMoveOps
    <2>3. CASE d # c
      <3>1. StatusMoves BY <2>1, CyclesMoveTables DEF TablesMove
      <3>2. WorkerStep(d) BY <2>1, <3>1, CyclesMoveWorkers
      <3> QED BY <1>1, <1>2, <2>3, <3>2, OthersStay, CyclesAreWorkers
    <2> QED BY <2>2, <2>3
  <1>4. CASE \E o \in Operators : OperatorStep(o)
    <2>1. PICK o \in Operators : OperatorStep(o) BY <1>4
    <2>2. o \in Workers /\ o # c BY WorkersAssumption DEF Workers
    <2>3. StatusMoves BY <2>1, OperatorsMoveTables DEF TablesMove
    <2>4. WorkerStep(o) BY <2>1, <2>3, OperatorsMoveWorkers
    <2> QED BY <1>1, <1>2, <2>2, <2>4, OthersStay
  <1>7. CASE \E s \in Sellers : SellerStep(s)
    <2>1. PICK s \in Sellers : SellerStep(s) BY <1>7
    <2>2. s \in Workers /\ s # c BY WorkersAssumption DEF Workers
    <2>3. StatusMoves BY <2>1, SellersMoveTables DEF TablesMove
    <2>4. WorkerStep(s) BY <2>1, <2>3, SellersMoveWorkers
    <2> QED BY <1>1, <1>2, <2>2, <2>4, OthersStay
  <1>8. CASE \E k \in Ticks : TickStep(k)
    <2>1. PICK k \in Ticks : TickStep(k) BY <1>8
    <2>2. k \in Workers /\ k # c BY WorkersAssumption DEF Workers
    <2>3. StatusMoves BY <2>1, TicksMoveTables DEF TablesMove
    <2>4. WorkerStep(k) BY <2>1, <2>3, TicksMoveWorkers
    <2> QED BY <1>1, <1>2, <2>2, <2>4, OthersStay
  <1>5. CASE \E r \in Turns : Schedule(r) \/ \E v \in Versions(r) : DecideQuote(r, v)
    BY <1>2, <1>5 DEF Schedule, DecideQuote
  <1>6. CASE \E w \in Workers : Crash(w)
    <2>0. PICK w \in Workers : \E pc : worker' = [worker EXCEPT ![w] = Rest(pc)] BY <1>6 DEF Crash
    <2>1. PICK pc : worker' = [worker EXCEPT ![w] = Rest(pc)] BY <2>0
    <2>2. CASE w = c
      <3>1. worker'[c] = Rest(pc) BY <1>1, <2>1, <2>2
      <3>2. Rest(pc).op = NoPlan BY DEF Rest
      <3> QED BY <3>1, <3>2 DEF OpMoves
    <2>3. CASE w # c BY <1>1, <1>2, <2>1, <2>3
    <2> QED BY <2>2, <2>3
  <1> QED BY <1>3, <1>4, <1>5, <1>6, <1>7, <1>8 DEF Next

\* Overlapping cycles of a message work on the plan that was stored first.
THEOREM PlansAreShared == Spec => []PlanIsShared
  <1>1. Init => PlanIsShared
    <2> SUFFICES ASSUME Init, NEW c \in Cycles PROVE worker[c].op = NoPlan
      BY DEF PlanIsShared, Op
    <2>1. worker[c] = Rest("begin") BY CyclesAreWorkers DEF Init
    <2>2. Rest("begin").op = NoPlan BY DEF Rest
    <2> QED BY <2>1, <2>2
  <1>2. RequestInv /\ PlanIsShared /\ [Next]_vars => PlanIsShared'
    <2> SUFFICES ASSUME RequestInv, PlanIsShared, [Next]_vars, NEW c \in Cycles,
                        worker'[c].op # NoPlan
                 PROVE  worker'[c].op = plan'[Turn(c)]
      BY DEF PlanIsShared, Op, Turn
    <2>1. CASE UNCHANGED vars BY <2>1 DEF vars, planning, PlanIsShared, Op
    <2>2. CASE Next
      <3>1. PlansMove BY <2>2, StepsMoveTables DEF TablesMove
      <3>2. c \in Workers /\ Turn(c) \in Turns /\ worker \in [Workers -> WorkerRecords]
        BY CyclesAreWorkers, TableTypes
      <3>3. OpMoves(c) BY <2>2, StepsMoveOps
      <3>4. worker[c].op # NoPlan => worker[c].op = plan'[Turn(c)]
        BY <3>1, <3>2 DEF PlanIsShared, Op, PlansMove
      <3> QED BY <3>3, <3>4 DEF OpMoves
    <2> QED BY <2>1, <2>2
  <1> QED BY <1>1, <1>2, InvHolds, PTL DEF Spec

-----------------------------------------------------------------------------
(* Who looks after a request. *)

\* A plan that creates a request is of the turn that names it, and has a kind.
PlanNames(t) == plan[t].op = "create" => plan[t].req = t /\ plan[t].kind \in AllKinds

\* A row was created by the plan of its turn; a complaint needs no facts and so never
\* waits for the customer; only a complaint that was worked on has escalations.
RowKnows(r) ==
  /\ status[r] # "none" => plan[r].op = "create"
  /\ Kind(r) = "complaint" => status[r] # "waiting_customer"
  /\ open[r] > 0 => Kind(r) = "complaint" /\ status[r] \notin {"none", "detected"}

HasFacts(r) == NeedsFact(Kind(r)) => r \in fact
Parked == {"waiting_customer", "waiting_human", "resolved"}

\* What a worker has made sure of before it came to where it stands.
KnowsWork(x) ==
  /\ x.pc = "apply" => x.req = x.op.req
  /\ x.pc = "swap" => x.to \in Parked /\ (x.to = "waiting_customer" => NeedsFact(Kind(x.req)))
  /\ x.pc = "capability" => HasCapability(Kind(x.req)) /\ HasFacts(x.req)
  /\ x.pc \in {"escalate", "event"} =>
       Kind(x.req) = "complaint" /\ status[x.req] \notin {"none", "detected"}
  /\ x.pc \in {"answer", "move"} => x.req \in closed /\ x.to \in {"resolved", "active"}

\* A cycle that has skipped its work has nothing left to do but to mark its plan.
SkipIsLast(x) == x.skipped => x.pc \in {"mark", "done"}

WorkInv ==
  /\ RequestInv /\ PlanIsShared
  /\ \A r \in Turns : PlanNames(r) /\ RowKnows(r)
  /\ \A w \in Workers : KnowsWork(worker[w])
  /\ \A c \in Cycles : SkipIsLast(worker[c])

\* The trail of r holds a reason to move it from active.
Moves(r) == "escalated" \in events[r] \/ ResolvedBy(Kind(r)) \cap events[r] # {}

\* All that the code does for an active request is done.
Settled(r) ==
  /\ open[r] = 0 /\ HasFacts(r)
  /\ r \in deferred \/ Kind(r) = "quote" \/ Skipped(r) \/ AnsweredInVain(r)

\* A cycle x that will activate r, and one that will move r from active or settle it.
Creates(x, r) ==
  x.req = r /\ x.from = "detected" /\ x.op.op # "cancel" /\ x.pc \in {"facts", "activate"}
Serves(x, r) ==
  /\ x.req = r
  /\ \/ x.pc = "event"
     \/ x.pc = "swap" /\ x.from = "active"
     \/ /\ x.pc = "load" \/ (x.pc = "read" /\ x.from = "active")
        /\ Moves(r) \/ (x.then = "execute" /\ open[r] = 0)
     \/ /\ open[r] = 0
        /\ x.pc \in {"capability", "escalate"} \/ (x.pc = "execute" /\ HasFacts(r))

\* Without faults every request that is not parked is in the hands of a cycle, unless
\* it is settled or an operator has closed an escalation of it.
Attended(r) ==
  /\ status[r] = "detected" => \E c \in Cycles : Creates(worker[c], r)
  /\ status[r] = "active" /\ r \notin closed =>
       Settled(r) \/ \E c \in Cycles : Serves(worker[c], r)
AttendedInv == WorkInv /\ (faults = 0 => \A r \in Turns : Attended(r))

\* The tables that only grow.
TrailsGrow ==
  /\ \A r \in Turns : events[r] \subseteq events'[r]
  /\ fact \subseteq fact' /\ closed \subseteq closed' /\ deferred \subseteq deferred'

LEMMA StillTrails ==
  ASSUME UNCHANGED <<events, fact, desk>>
  PROVE  TrailsGrow
  BY DEF TrailsGrow, desk

LEMMA CyclesGrowTrails ==
  ASSUME RequestInv, NEW c \in Cycles, CycleStep(c)
  PROVE  TrailsGrow
  <1>1. c \in Workers /\ events \in [Turns -> SUBSET Events] BY CyclesAreWorkers, TableTypes
  <1>2. CASE Apply(c) BY <1>2 DEF Apply, TrailsGrow
  <1>3. CASE StoreFact(c) BY <1>3 DEF StoreFact, TrailsGrow, desk
  <1>4. CASE UseCapability(c)
    <2>1. worker[c].req \in Turns BY <1>1, <1>4, WorkerFacts DEF UseCapability, Knows, Working
    <2>2. /\ deferred \subseteq deferred' /\ UNCHANGED <<fact, closed>>
          /\ UNCHANGED events \/ \E e : events' = [events EXCEPT ![worker[c].req] = @ \cup {e}]
      BY <1>4 DEF UseCapability
    <2> QED BY <1>1, <2>1, <2>2 DEF TrailsGrow
  <1>5. CASE Escalate(c) BY <1>5 DEF Escalate, TrailsGrow
  <1>6. CASE AppendEscalated(c)
    <2>1. worker[c].req \in Turns BY <1>1, <1>6, WorkerFacts DEF AppendEscalated, Knows, Working
    <2>2. /\ UNCHANGED <<fact, closed, deferred>>
          /\ UNCHANGED events \/ events' = [events EXCEPT ![worker[c].req] = @ \cup {"escalated"}]
      BY <1>6 DEF AppendEscalated, desk
    <2> QED BY <1>1, <2>1, <2>2 DEF TrailsGrow
  <1>7. CASE Reduction(c)
    BY <1>7, StillTrails DEF Reduction, LoadRequest, ReadTrail, SwapStatus
  <1>8. CASE \E own \in Operations(Turn(c), worker[c].open) : StorePlan(c, own)
    BY <1>8, StillTrails DEF StorePlan
  <1> QED BY <1>2, <1>3, <1>4, <1>5, <1>6, <1>7, <1>8, StillTrails
          DEF CycleStep, BeginCycle, LookUpPlan, ApplyFails, CancelRequest, Activate, Execute,
              MarkPlan

LEMMA DeskGrowsTrails ==
  ASSUME RequestInv,
         \/ \E o \in Operators : OperatorStep(o)
         \/ \E s \in Sellers : SellerStep(s)
         \/ \E k \in Ticks : TickStep(k)
         \/ \E r \in Turns : Schedule(r) \/ \E v \in Versions(r) : DecideQuote(r, v)
         \/ \E w \in Workers : Crash(w)
  PROVE  TrailsGrow
  <1>1. CASE \E o \in Operators : OperatorStep(o)
    BY <1>1 DEF OperatorStep, CloseEscalation, LoadEscalated, MoveEscalated, TrailsGrow, desk
  <1>2. CASE \E s \in Sellers : SellerStep(s)
    <2>1. PICK s \in Sellers : SellerStep(s) BY <1>2
    <2>2. CASE AppendSent(s)
      <3>1. worker[s].req \in Turns /\ events \in [Turns -> SUBSET Events]
        BY <2>2, WorkerFacts, TableTypes DEF AppendSent, Knows, Working, Workers
      <3>2. /\ UNCHANGED <<fact, closed, deferred>>
            /\ UNCHANGED events \/ events' = [events EXCEPT ![worker[s].req] = @ \cup {"quote_sent"}]
        BY <2>2 DEF AppendSent, desk
      <3> QED BY <3>1, <3>2 DEF TrailsGrow
    <2>3. CASE ~AppendSent(s)
      BY <2>1, <2>3 DEF SellerStep, CheckQuote, DraftQuote, MarkQuoteSent, Reduction, LoadRequest,
                        ReadTrail, SwapStatus, TrailsGrow, desk
    <2> QED BY <2>2, <2>3
  <1>3. CASE \E k \in Ticks : TickStep(k)
    BY <1>3 DEF TickStep, TickTakes, TickChecks, TickReads, TickDrops, TickClaims, TrailsGrow, desk
  <1>4. CASE \E r \in Turns : Schedule(r) \/ \E v \in Versions(r) : DecideQuote(r, v)
    BY <1>4 DEF Schedule, DecideQuote, TrailsGrow
  <1>5. CASE \E w \in Workers : Crash(w) BY <1>5, StillTrails DEF Crash
  <1> QED BY <1>1, <1>2, <1>3, <1>4, <1>5

LEMMA StepsGrowTrails ==
  ASSUME RequestInv, Next
  PROVE  TrailsGrow
  BY CyclesGrowTrails, DeskGrowsTrails DEF Next

\* Why the status of r changes: a cycle has created it, a cycle that goes on to execute
\* or an operator has made it active, or it was parked, resolved or cancelled.
Executing(x, r) == x.req = r /\ x.pc = "load" /\ x.then = "execute"
StatusReason(r) ==
  \/ /\ status[r] = "none" /\ status'[r] = "detected" /\ plan[r].op = "create"
     /\ \E c \in Cycles : Creates(worker'[c], r)
  \/ /\ status'[r] = "active"
     /\ \/ r \in closed
        \/ /\ status[r] \in {"detected", "waiting_customer"}
           /\ \E c \in Cycles : Executing(worker'[c], r)
  \/ status'[r] = "waiting_customer" /\ NeedsFact(Kind(r))
  \/ status'[r] \in {"waiting_human", "resolved", "cancelled"}

\* Why the open escalations of r change.
OpenReason(r) ==
  \/ r \in closed' /\ open[r] > 0
  \/ /\ open[r] = 0 /\ Kind(r) = "complaint" /\ status[r] \notin {"none", "detected"}
     /\ \E c \in Cycles : worker'[c].req = r /\ worker'[c].pc = "event"

LEMMA TransitionMovesOne ==
  ASSUME RequestInv, NEW r \in Turns, NEW from, NEW to, Transition(r, from, to),
         NEW q \in Turns, status'[q] # status[q]
  PROVE  q = r /\ status[q] = from /\ status'[q] = to
  BY TableTypes DEF Transition

LEMMA SwapsHaveReasons ==
  ASSUME WorkInv, NEW w \in Workers, SwapStatus(w), NEW q \in Turns, status'[q] # status[q]
  PROVE  StatusReason(q)
  <1>1. RequestInv /\ KnowsWork(worker[w]) BY DEF WorkInv
  <1>2. worker[w].req \in Turns BY <1>1, WorkerFacts DEF SwapStatus, Knows, Working
  <1>3. Transition(worker[w].req, worker[w].from, worker[w].to) BY DEF SwapStatus
  <1>4. q = worker[w].req /\ status'[q] = worker[w].to
    BY <1>1, <1>2, <1>3, TransitionMovesOne
  <1> QED BY <1>1, <1>4 DEF SwapStatus, KnowsWork, Parked, StatusReason

LEMMA CyclesHaveReasons ==
  ASSUME WorkInv, NEW c \in Cycles, CycleStep(c), NEW q \in Turns, status'[q] # status[q]
  PROVE  StatusReason(q)
  <1> DEFINE x == worker[c]
  <1>1. /\ RequestInv /\ KnowsWork(x) /\ c \in Workers /\ Turn(c) \in Turns
        /\ x.op # NoPlan => x.op = plan[Turn(c)]
    BY CyclesAreWorkers DEF WorkInv, PlanIsShared, Op
  <1>2. /\ status \in [Turns -> Columns] /\ worker \in [Workers -> WorkerRecords]
        /\ x \in WorkerRecords /\ Knows(x, status)
    BY <1>1, TableTypes, WorkerFacts
  <1>3. CASE Apply(c)
    <2>1. x.req \in Turns /\ x.op # NoPlan BY <1>2, <1>3 DEF Apply, Knows
    <2>2. /\ status' = [status EXCEPT ![x.req] = LoadsOrCreates(x.op.op, status[x.req])]
          /\ q = x.req /\ status[q] = "none" /\ x.op.op = "create" /\ status'[q] = "detected"
      BY <1>2, <1>3, <2>1 DEF Apply, LoadsOrCreates, Op
    <2>3. PlanNames(Turn(c)) BY <1>1 DEF WorkInv
    <2>4. q = Turn(c) /\ plan[q].op = "create"
      BY <1>1, <1>3, <2>1, <2>2, <2>3 DEF KnowsWork, PlanNames, Apply
    <2>5. /\ LoadsOrCreates(Op(c).op, status[x.req]) = "detected"
          /\ worker' = [worker EXCEPT ![c].from = LoadsOrCreates(Op(c).op, status[x.req]),
                                      ![c].pc = "facts"]
      BY <1>3, <2>2 DEF Apply, LoadsOrCreates, Op
    <2>6. /\ worker'[c].req = q /\ worker'[c].from = "detected" /\ worker'[c].pc = "facts"
          /\ worker'[c].op = x.op
      BY <1>1, <1>2, <2>2, <2>5 DEF WorkerRecords
    <2>7. Creates(worker'[c], q) BY <2>2, <2>6 DEF Creates
    <2> QED BY <2>2, <2>4, <2>7 DEF StatusReason
  <1>4. CASE CancelRequest(c)
    <2>1. x.req \in Turns BY <1>2, <1>4 DEF CancelRequest, Knows, Working
    <2> QED BY <1>1, <1>4, <2>1, TransitionMovesOne DEF CancelRequest, StatusReason
  <1>5. CASE Activate(c)
    <2>1. x.req \in Turns BY <1>2, <1>5 DEF Activate, Knows, Working
    <2>2. q = x.req /\ status[q] \in {"detected", "waiting_customer"} /\ status'[q] = "active"
      BY <1>1, <1>5, <2>1, TransitionMovesOne DEF Activate, Activates
    <2>3. worker'[c].req = x.req /\ worker'[c].pc = "load" /\ worker'[c].then = "execute"
      BY <1>1, <1>2, <1>5 DEF Activate, WorkerRecords
    <2> QED BY <2>2, <2>3 DEF StatusReason, Executing
  <1>6. CASE Reduction(c)
    BY <1>1, <1>6, SwapsHaveReasons DEF Reduction, LoadRequest, ReadTrail
  <1>7. CASE UNCHANGED status BY <1>7
  <1>8. CASE \E own \in Operations(Turn(c), x.open) : StorePlan(c, own)
    BY <1>8 DEF StorePlan
  <1> QED BY <1>3, <1>4, <1>5, <1>6, <1>7, <1>8
          DEF CycleStep, BeginCycle, LookUpPlan, ApplyFails, StoreFact, Execute, UseCapability,
              Escalate, AppendEscalated, MarkPlan

LEMMA OperatorsHaveReasons ==
  ASSUME WorkInv, NEW o \in Operators, OperatorStep(o), NEW q \in Turns, status'[q] # status[q]
  PROVE  StatusReason(q)
  <1>1. RequestInv /\ KnowsWork(worker[o]) /\ o \in Workers BY DEF WorkInv, Workers
  <1>2. MoveEscalated(o) BY DEF OperatorStep, CloseEscalation, LoadEscalated
  <1>3. worker[o].req \in Turns BY <1>1, <1>2, WorkerFacts DEF MoveEscalated, Knows
  <1>4. q = worker[o].req /\ status'[q] = worker[o].to
    BY <1>1, <1>2, <1>3, TransitionMovesOne DEF MoveEscalated
  <1> QED BY <1>1, <1>2, <1>4 DEF MoveEscalated, KnowsWork, StatusReason

LEMMA StepsHaveReasons ==
  ASSUME WorkInv, Next, NEW q \in Turns, status'[q] # status[q]
  PROVE  StatusReason(q)
  <1>1. CASE \E c \in Cycles : CycleStep(c) BY <1>1, CyclesHaveReasons
  <1>2. CASE \E o \in Operators : OperatorStep(o) BY <1>2, OperatorsHaveReasons
  <1>3. CASE \E s \in Sellers : SellerStep(s)
    BY <1>3, SwapsHaveReasons
       DEF SellerStep, CheckQuote, DraftQuote, AppendSent, MarkQuoteSent, Reduction, LoadRequest,
           ReadTrail, Workers
  <1>4. CASE \E k \in Ticks : TickStep(k)
    BY <1>4 DEF TickStep, TickTakes, TickChecks, TickReads, TickDrops, TickClaims
  <1>5. CASE \E r \in Turns : Schedule(r) \/ \E v \in Versions(r) : DecideQuote(r, v)
    BY <1>5 DEF Schedule, DecideQuote
  <1>6. CASE \E w \in Workers : Crash(w) BY <1>6 DEF Crash
  <1> QED BY <1>1, <1>2, <1>3, <1>4, <1>5, <1>6 DEF Next

LEMMA OpensHaveReasons ==
  ASSUME WorkInv, Next, NEW q \in Turns, open'[q] # open[q]
  PROVE  OpenReason(q)
  <1>1. RequestInv BY DEF WorkInv
  <1>2. open \in [Turns -> Nat] /\ worker \in [Workers -> WorkerRecords] BY <1>1, TableTypes
  <1>3. CASE \E c \in Cycles : CycleStep(c)
    <2>1. PICK c \in Cycles : CycleStep(c) BY <1>3
    <2>2. Escalate(c)
      BY <2>1 DEF CycleStep, BeginCycle, LookUpPlan, StorePlan, Apply, ApplyFails, CancelRequest,
                  StoreFact, Activate, Reduction, LoadRequest, ReadTrail, SwapStatus, Execute,
                  UseCapability, AppendEscalated, MarkPlan, desk
    <2> DEFINE x == worker[c]
    <2>3. c \in Workers /\ x \in WorkerRecords /\ KnowsWork(x) BY <1>2, CyclesAreWorkers DEF WorkInv
    <2>4. x.req \in Turns BY <1>1, <2>2, <2>3, WorkerFacts DEF Escalate, Knows, Working
    <2>5. open' = [open EXCEPT ![x.req] = InsertEscalation(@)] /\ q = x.req
      BY <1>2, <2>2, <2>4 DEF Escalate
    <2>6. open[q] = 0 BY <1>2, <2>5 DEF InsertEscalation
    <2>7. Work(c, "event") BY <2>2, <2>5 DEF Escalate
    <2>8. worker'[c].req = q /\ worker'[c].pc = "event"
      BY <1>2, <2>3, <2>5, <2>7 DEF Work, WorkerRecords
    <2> QED BY <2>2, <2>3, <2>5, <2>6, <2>8 DEF Escalate, KnowsWork, OpenReason
  <1>4. CASE \E o \in Operators : OperatorStep(o)
    <2>1. PICK o \in Operators : OperatorStep(o) BY <1>4
    <2>2. PICK r \in Turns, outcome \in {"resolved", "active"} : CloseEscalation(o, r, outcome)
      BY <2>1 DEF OperatorStep, LoadEscalated, MoveEscalated, desk
    <2> QED BY <1>2, <2>2 DEF CloseEscalation, OpenReason
  <1>5. CASE \E s \in Sellers : SellerStep(s)
    BY <1>5 DEF SellerStep, CheckQuote, DraftQuote, AppendSent, MarkQuoteSent, Reduction,
                LoadRequest, ReadTrail, SwapStatus, desk
  <1>6. CASE \E k \in Ticks : TickStep(k)
    BY <1>6 DEF TickStep, TickTakes, TickChecks, TickReads, TickDrops, TickClaims, desk
  <1>7. CASE \E r \in Turns : Schedule(r) \/ \E v \in Versions(r) : DecideQuote(r, v)
    BY <1>7 DEF Schedule, DecideQuote
  <1>8. CASE \E w \in Workers : Crash(w) BY <1>8 DEF Crash, desk
  <1> QED BY <1>3, <1>4, <1>5, <1>6, <1>7, <1>8 DEF Next

\* A request that has a row keeps its kind.
LEMMA KindsStay ==
  ASSUME WorkInv, Next, NEW r \in Turns, status[r] # "none"
  PROVE  plan'[r] = plan[r] /\ Kind(r)' = Kind(r) /\ status'[r] # "none"
         /\ (status[r] # "detected" => status'[r] # "detected")
  <1>1. RequestInv /\ plan[r].op = "create" BY DEF WorkInv, RowKnows
  <1>2. StatusMoves /\ PlansMove BY <1>1, StepsMoveTables DEF TablesMove
  <1>3. plan[r] # NoPlan
    <2>1. NoPlan.op = "none" BY DEF NoPlan
    <2> QED BY <1>1, <2>1
  <1>4. plan'[r] = plan[r] BY <1>2, <1>3 DEF PlansMove
  <1>5. status'[r] # "none" BY <1>1, <1>2, RowsStay
  <1>6. \A a \in Allowed : a[2] # "detected" BY DEF Allowed
  <1>7. status[r] # "detected" => status'[r] # "detected" BY <1>2, <1>6 DEF StatusMoves
  <1> QED BY <1>4, <1>5, <1>7 DEF Kind

\* The requests of the places where a worker relies on more than its request's row.
Relying == {"swap", "capability", "escalate", "event"}

LEMMA RelyingHaveRows ==
  ASSUME RequestInv, NEW w \in Workers, worker[w].pc \in Relying
  PROVE  worker[w].req \in Turns /\ status[worker[w].req] # "none"
  BY WorkerFacts DEF Relying, Knows, Working

\* What a worker has made sure of stays so while the others work.
LEMMA OthersKeepKnowing ==
  ASSUME WorkInv, Next, NEW w \in Workers, worker'[w] = worker[w]
  PROVE  KnowsWork(worker[w])'
  <1>1. RequestInv /\ KnowsWork(worker[w]) BY DEF WorkInv
  <1>2. TrailsGrow BY <1>1, StepsGrowTrails
  <1>3. CASE worker[w].pc \in Relying
    <2>1. /\ worker[w].req \in Turns /\ Kind(worker[w].req)' = Kind(worker[w].req)
          /\ status'[worker[w].req] # "none"
          /\ status[worker[w].req] # "detected" => status'[worker[w].req] # "detected"
      <3> DEFINE r == worker[w].req
      <3>1. r \in Turns /\ status[r] # "none" BY <1>1, <1>3, RelyingHaveRows
      <3>2. Kind(r)' = Kind(worker[w].req)' BY DEF Kind
      <3> HIDE DEF r
      <3>3. plan'[r] = plan[r] /\ status'[r] # "none"
            /\ (status[r] # "detected" => status'[r] # "detected")
        BY <3>1, KindsStay
      <3> QED BY <3>1, <3>3 DEF Kind, r
    <2> QED BY <1>1, <1>2, <1>3, <2>1 DEF KnowsWork, Relying, TrailsGrow, HasFacts, Kind
  <1>4. CASE worker[w].pc \notin Relying
    BY <1>1, <1>2, <1>4 DEF KnowsWork, Relying, TrailsGrow
  <1> QED BY <1>3, <1>4

\* Where a worker relies on nothing of the kind.
Easy == (CyclePcs \cup DeskPcs) \ (Relying \cup {"apply", "answer", "move"})

LEMMA EasyKnowing ==
  ASSUME NEW w \in Workers, worker'[w].pc \in Easy
  PROVE  KnowsWork(worker[w])'
  BY DEF Easy, Relying, KnowsWork

\* The end of a reduction relies on nothing.
LEMMA ReducedKnowing ==
  ASSUME RequestInv, NEW w \in Workers, worker[w].pc \in {"load", "read", "swap"},
         worker' = [worker EXCEPT ![w] = Reduced(worker[w])]
  PROVE  KnowsWork(worker[w])'
  <1>1. /\ worker \in [Workers -> WorkerRecords] /\ worker[w] \in WorkerRecords
        /\ worker[w].then \in {"execute", "again", "mark", "idle"}
    BY TableTypes, WorkerFacts, WorkerFields DEF Knows
  <1>2. worker'[w].pc \in {"execute", "load", "mark", "idle"}
    BY <1>1 DEF Reduced, WorkerRecords
  <1> QED BY <1>2, EasyKnowing DEF Easy, Relying, CyclePcs, DeskPcs

LEMMA EvaluationsPark ==
  ASSUME NEW k, NEW now \in Statuses, NEW seen, NEW known, Evaluate(k, now, seen, known) # now
  PROVE  /\ Evaluate(k, now, seen, known) \in Parked
         /\ Evaluate(k, now, seen, known) = "waiting_customer" => NeedsFact(k)
  BY DEF Evaluate, Parked

LEMMA ReductionsKeepKnowing ==
  ASSUME WorkInv, Next, NEW w \in Workers, Reduction(w)
  PROVE  KnowsWork(worker[w])'
  <1> DEFINE x == worker[w]
  <1>1. RequestInv /\ worker \in [Workers -> WorkerRecords] /\ x \in WorkerRecords
    BY TableTypes DEF WorkInv
  <1>2. CASE LoadRequest(w)
    <2>1. CASE worker' = [worker EXCEPT ![w] = [x EXCEPT !.pc = "read", !.from = status[x.req]]]
      <3>1. worker'[w].pc = "read" BY <1>1, <2>1 DEF WorkerRecords
      <3> QED BY <3>1, EasyKnowing DEF Easy, Relying, CyclePcs, DeskPcs
    <2> QED BY <1>1, <1>2, <2>1, ReducedKnowing DEF LoadRequest
  <1>3. CASE ReadTrail(w)
    <2>1. CASE worker' = [worker EXCEPT ![w] = Reduced(x)]
      BY <1>1, <1>3, <2>1, ReducedKnowing DEF ReadTrail
    <2>2. CASE \E seen, known :
                 /\ Evaluate(Kind(x.req), x.from, seen, known) # x.from
                 /\ worker' = [worker EXCEPT ![w] = [x EXCEPT !.pc = "swap",
                                 !.to = Evaluate(Kind(x.req), x.from, seen, known)]]
      <3>1. PICK seen, known :
              /\ Evaluate(Kind(x.req), x.from, seen, known) # x.from
              /\ worker' = [worker EXCEPT ![w] = [x EXCEPT !.pc = "swap",
                              !.to = Evaluate(Kind(x.req), x.from, seen, known)]]
        BY <2>2
      <3> DEFINE to == Evaluate(Kind(x.req), x.from, seen, known)
      <3>2. x.from \in Statuses /\ x.req \in Turns /\ status[x.req] # "none"
        BY <1>1, <1>3, WorkerFacts DEF ReadTrail, Knows, Working
      <3>3. to \in Parked /\ (to = "waiting_customer" => NeedsFact(Kind(x.req)))
        BY <3>1, <3>2, EvaluationsPark
      <3> HIDE DEF to
      <3>4. worker' = [worker EXCEPT ![w] = [x EXCEPT !.pc = "swap", !.to = to]]
        BY <3>1 DEF to
      <3>5. worker'[w].pc = "swap" /\ worker'[w].req = x.req /\ worker'[w].to = to
        BY <1>1, <3>4 DEF WorkerRecords
      <3>6. plan'[x.req] = plan[x.req] BY <1>3 DEF ReadTrail, planning
      <3> QED BY <3>3, <3>5, <3>6 DEF KnowsWork, Kind
    <2> QED BY <1>3, <2>1, <2>2 DEF ReadTrail
  <1>4. CASE SwapStatus(w) BY <1>1, <1>4, ReducedKnowing DEF SwapStatus
  <1> QED BY <1>2, <1>3, <1>4 DEF Reduction

LEMMA PlanTakersKnow ==
  ASSUME RequestInv, NEW c \in Workers, NEW p \in Plans,
         worker' = [worker EXCEPT ![c].pc = "apply", ![c].op = p, ![c].req = p.req, ![c].open = {}]
  PROVE  KnowsWork(worker[c])'
  <1>1. worker \in [Workers -> WorkerRecords] /\ worker[c] \in WorkerRecords BY TableTypes
  <1>2. worker'[c].pc = "apply" /\ worker'[c].op = p /\ worker'[c].req = p.req
    BY <1>1 DEF WorkerRecords
  <1> QED BY <1>2 DEF KnowsWork

\* The program counter that a step of a cycle leads to.
LEMMA GotoLeads ==
  ASSUME RequestInv, NEW w \in Workers, NEW pc, worker' = [worker EXCEPT ![w].pc = pc]
  PROVE  worker'[w].pc = pc
  BY TableTypes DEF WorkerRecords

LEMMA WorkLeads ==
  ASSUME RequestInv, NEW w \in Workers, NEW pc, Work(w, pc)
  PROVE  /\ worker'[w].pc = pc /\ worker'[w].req = worker[w].req
         /\ worker'[w].then = IF pc = "load" THEN "mark" ELSE ""
  <1>1. worker \in [Workers -> WorkerRecords] /\ worker[w] \in WorkerRecords BY TableTypes
  <1> QED BY <1>1 DEF Work, WorkerRecords

LEMMA SkipLeads ==
  ASSUME RequestInv, NEW w \in Workers, Skip(w)
  PROVE  worker'[w].pc = "mark" /\ worker'[w].req = worker[w].req /\ worker'[w].skipped
  <1>1. worker \in [Workers -> WorkerRecords] /\ worker[w] \in WorkerRecords BY TableTypes
  <1> QED BY <1>1 DEF Skip, WorkerRecords

LEMMA CyclesKeepKnowing ==
  ASSUME WorkInv, Next, NEW c \in Cycles, CycleStep(c)
  PROVE  KnowsWork(worker[c])'
  <1> DEFINE x == worker[c]
  <1>1. /\ RequestInv /\ KnowsWork(x) /\ c \in Workers /\ Turn(c) \in Turns
        /\ worker \in [Workers -> WorkerRecords] /\ x \in WorkerRecords
    BY CyclesAreWorkers, TableTypes DEF WorkInv
  <1> USE DEF Easy, Relying, CyclePcs, DeskPcs
  <1>2. CASE BeginCycle(c)
    <2>1. worker'[c].pc = "lookup" BY ZenonT(60), <1>1, <1>2 DEF BeginCycle, Goto, WorkerRecords
    <2> QED BY <1>1, <2>1, EasyKnowing
  <1>3. CASE LookUpPlan(c)
    <2>1. CASE Goto(c, "choose")
      <3>1. worker'[c].pc = "choose" BY <1>1, <2>1, GotoLeads DEF Goto
      <3> QED BY <1>1, <3>1, EasyKnowing
    <2>2. plan[Turn(c)] \in Plans BY <1>1, TableTypes
    <2> QED BY <1>1, <1>3, <2>1, <2>2, PlanTakersKnow DEF LookUpPlan
  <1>4. CASE \E own \in Operations(Turn(c), x.open) : StorePlan(c, own)
    <2>1. PICK own \in Operations(Turn(c), x.open) : StorePlan(c, own) BY <1>4
    <2>2. own \in Plans BY <1>1, WorkerFacts, OperationsArePlans
    <2>3. StoredPlan(plan[Turn(c)], own) \in Plans BY <1>1, <2>2, TableTypes DEF StoredPlan
    <2> QED BY <1>1, <2>1, <2>3, PlanTakersKnow DEF StorePlan
  <1>5. CASE Apply(c) \/ ApplyFails(c) \/ CancelRequest(c) \/ StoreFact(c) \/ MarkPlan(c)
    <2>2. \E pc \in {"cancel", "facts", "mark", "activate", "done"} :
            \/ worker' = [worker EXCEPT ![c].pc = pc]
            \/ \E from : worker' = [worker EXCEPT ![c].from = from, ![c].pc = pc]
            \/ worker' = [worker EXCEPT ![c].pc = pc, ![c].failed = TRUE]
      <3>1. CASE Apply(c)
        <4> DEFINE now == LoadsOrCreates(Op(c).op, status[x.req])
                   pc == IF Op(c).op = "cancel" /\ now # "cancelled" THEN "cancel" ELSE "facts"
        <4>1. worker' = [worker EXCEPT ![c].from = now, ![c].pc = pc] BY <3>1 DEF Apply
        <4>2. pc \in {"cancel", "facts"} OBVIOUS
        <4> HIDE DEF now, pc
        <4> QED BY <4>1, <4>2
      <3>2. CASE ApplyFails(c) BY <3>2 DEF ApplyFails
      <3>3. CASE CancelRequest(c) \/ StoreFact(c) \/ MarkPlan(c)
        BY <3>3 DEF CancelRequest, StoreFact, MarkPlan, Goto
      <3> QED BY <1>5, <3>1, <3>2, <3>3
    <2>3. PICK pc \in {"cancel", "facts", "mark", "activate", "done"} :
            \/ worker' = [worker EXCEPT ![c].pc = pc]
            \/ \E from : worker' = [worker EXCEPT ![c].from = from, ![c].pc = pc]
            \/ worker' = [worker EXCEPT ![c].pc = pc, ![c].failed = TRUE]
      BY <2>2
    <2>1. worker'[c].pc = pc
      <3>1. CASE worker' = [worker EXCEPT ![c].pc = pc] BY <1>1, <3>1 DEF WorkerRecords
      <3>2. CASE \E from : worker' = [worker EXCEPT ![c].from = from, ![c].pc = pc]
        BY <1>1, <3>2 DEF WorkerRecords
      <3>3. CASE worker' = [worker EXCEPT ![c].pc = pc, ![c].failed = TRUE]
        BY <1>1, <3>3 DEF WorkerRecords
      <3> QED BY <2>3, <3>1, <3>2, <3>3
    <2> QED BY <1>1, <2>1, EasyKnowing
  <1>6. CASE Activate(c) \/ AppendEscalated(c)
    <2>2. \/ worker' = [worker EXCEPT ![c].pc = "load", ![c].then = "execute", ![c].from = "none"]
          \/ worker' = [worker EXCEPT ![c].pc = "load", ![c].then = "again"]
      BY <1>6 DEF Activate, AppendEscalated
    <2>1. worker'[c].pc = "load"
      <3>1. CASE worker' = [worker EXCEPT ![c].pc = "load", ![c].then = "execute",
                                          ![c].from = "none"]
        BY <1>1, <3>1 DEF WorkerRecords
      <3>2. CASE worker' = [worker EXCEPT ![c].pc = "load", ![c].then = "again"]
        BY <1>1, <3>2 DEF WorkerRecords
      <3> QED BY <2>2, <3>1, <3>2
    <2> QED BY <1>1, <2>1, EasyKnowing
  <1>7. CASE Reduction(c) BY <1>1, <1>7, ReductionsKeepKnowing
  <1>8. CASE Execute(c)
    <2>1. UNCHANGED <<plan, status, fact>> BY <1>8 DEF Execute, planning
    <2>2. CASE Work(c, "mark")
      <3>1. worker'[c].pc = "mark" BY <1>1, <2>2, WorkLeads
      <3> QED BY <1>1, <3>1, EasyKnowing
    <2>4. CASE Skip(c)
      <3>1. worker'[c].pc = "mark" BY <1>1, <2>4, SkipLeads
      <3> QED BY <1>1, <3>1, EasyKnowing
    <2>3. CASE /\ DueWork(x.req) = "capability" => HasInput(x.req)
               /\ Work(c, DueWork(x.req))
      <3>1. worker'[c].pc = DueWork(x.req) /\ worker'[c].req = x.req BY <1>1, <2>3, WorkLeads
      <3>2. CASE DueWork(x.req) = "escalate"
        <4>1. status[x.req] = "active" /\ EscalatesItself(Kind(x.req)) BY <3>2 DEF DueWork
        <4>2. worker'[c].pc = "escalate" /\ worker'[c].req = x.req BY <3>1, <3>2
        <4> QED BY <2>1, <4>1, <4>2 DEF KnowsWork, Kind, EscalatesItself
      <3>3. CASE DueWork(x.req) = "capability"
        <4>3. HasCapability(Kind(x.req)) /\ HasInput(x.req) BY <2>3, <3>3 DEF DueWork
        <4>1. HasCapability(Kind(x.req)) /\ HasFacts(x.req)
          BY <4>3 DEF HasInput, HasFacts, HasCapability, NeedsInput, NeedsFact
        <4>2. worker'[c].pc = "capability" /\ worker'[c].req = x.req BY <3>1, <3>3
        <4> QED BY <2>1, <4>1, <4>2 DEF KnowsWork, Kind, HasFacts
      <3>4. CASE DueWork(x.req) = "mark" BY <1>1, <3>1, <3>4, EasyKnowing
      <3> QED BY <3>2, <3>3, <3>4 DEF DueWork
    <2> QED BY <1>8, <2>2, <2>3, <2>4 DEF Execute
  <1>9. CASE UseCapability(c)
    <2>2. Work(c, "load") \/ Skip(c) BY <1>9 DEF UseCapability
    <2>1. worker'[c].pc \in {"load", "mark"} BY <1>1, <2>2, WorkLeads, SkipLeads
    <2> QED BY <1>1, <2>1, EasyKnowing
  <1>10. CASE Escalate(c)
    <2>1. UNCHANGED <<plan, status>> BY <1>10 DEF Escalate, planning
    <2>2. Work(c, "event") \/ Work(c, "load") BY <1>10 DEF Escalate
    <2>3. worker'[c].pc \in {"event", "load"} /\ worker'[c].req = x.req BY <1>1, <2>2, WorkLeads
    <2>4. Kind(x.req) = "complaint" /\ status[x.req] \notin {"none", "detected"}
      BY <1>1, <1>10 DEF KnowsWork, Escalate
    <2> QED BY <2>1, <2>3, <2>4 DEF KnowsWork, Kind
  <1> QED BY <1>2, <1>3, <1>4, <1>5, <1>6, <1>7, <1>8, <1>9, <1>10 DEF CycleStep

LEMMA OperatorsKeepKnowing ==
  ASSUME WorkInv, Next, NEW o \in Operators, OperatorStep(o)
  PROVE  KnowsWork(worker[o])'
  <1> DEFINE x == worker[o]
  <1>1. /\ RequestInv /\ KnowsWork(x) /\ o \in Workers
        /\ worker \in [Workers -> WorkerRecords] /\ x \in WorkerRecords
    BY TableTypes DEF WorkInv, Workers
  <1>2. CASE \E r \in Turns, outcome \in {"resolved", "active"} : CloseEscalation(o, r, outcome)
    <2>1. PICK r \in Turns, outcome \in {"resolved", "active"} : CloseEscalation(o, r, outcome)
      BY <1>2
    <2>2. worker'[o].pc = "answer" /\ worker'[o].req = r /\ worker'[o].to = outcome
      BY <1>1, <2>1 DEF CloseEscalation, WorkerRecords
    <2>3. r \in closed' BY <2>1 DEF CloseEscalation
    <2> QED BY <2>2, <2>3 DEF KnowsWork
  <1>3. CASE Finish(o)
    <2>1. worker'[o].pc = "idle" BY <1>1, <1>3 DEF Finish, Rest
    <2> QED BY <1>1, <2>1, EasyKnowing DEF Easy, Relying, CyclePcs, DeskPcs
  <1>4. CASE LoadEscalated(o) /\ worker' = [worker EXCEPT ![o].pc = "move", ![o].from = status[x.req]]
    <2>1. worker'[o].pc = "move" /\ worker'[o].req = x.req /\ worker'[o].to = x.to
      BY <1>1, <1>4 DEF WorkerRecords
    <2>2. x.req \in closed /\ x.to \in {"resolved", "active"} /\ closed' = closed
      BY <1>1, <1>4 DEF LoadEscalated, KnowsWork, desk
    <2> QED BY <2>1, <2>2 DEF KnowsWork
  <1> QED BY <1>2, <1>3, <1>4 DEF OperatorStep, LoadEscalated, MoveEscalated

LEMMA DeskKeepsKnowing ==
  ASSUME WorkInv, Next, NEW w \in Workers,
         SellerStep(w) \/ TickStep(w) \/ Crash(w)
  PROVE  KnowsWork(worker[w])'
  <1> DEFINE x == worker[w]
  <1>1. /\ RequestInv /\ worker \in [Workers -> WorkerRecords] /\ x \in WorkerRecords
    BY TableTypes DEF WorkInv
  <1>2. CASE Reduction(w) BY <1>2, ReductionsKeepKnowing
  <1>3. CASE \E pc \in {"draft", "sent", "check"}, r \in Turns : Start(w, pc, r)
    <2>1. worker'[w].pc \in {"draft", "sent", "check"}
      BY ZenonT(60), <1>1, <1>3 DEF Start, WorkerRecords
    <2> QED BY <2>1, EasyKnowing DEF Easy, Relying, CyclePcs, DeskPcs
  <1>4. CASE \E pc \in {"idle", "done"} : worker' = [worker EXCEPT ![w] = Rest(pc)]
    <2>2. PICK pc \in {"idle", "done"} : worker' = [worker EXCEPT ![w] = Rest(pc)] BY <1>4
    <2>3. Rest(pc).pc = pc BY DEF Rest
    <2>1. worker'[w].pc \in {"idle", "done"} BY <1>1, <2>2, <2>3
    <2> QED BY <2>1, EasyKnowing DEF Easy, Relying, CyclePcs, DeskPcs
  <1>5. CASE \E pc \in {"drop", "links", "claim"} : Step(w, pc)
    <2>1. worker'[w].pc \in {"drop", "links", "claim"} BY <1>1, <1>5 DEF Step, WorkerRecords
    <2> QED BY <2>1, EasyKnowing DEF Easy, Relying, CyclePcs, DeskPcs
  <1>6. CASE AppendSent(w)
    <2>1. worker'[w].pc = "load" BY <1>1, <1>6 DEF AppendSent, WorkerRecords
    <2> QED BY <2>1, EasyKnowing DEF Easy, Relying, CyclePcs, DeskPcs
  <1>7. SellerStep(w) => \/ Reduction(w) \/ AppendSent(w)
                         \/ \E pc \in {"draft", "sent", "check"}, r \in Turns : Start(w, pc, r)
                         \/ Finish(w)
    BY DEF SellerStep, CheckQuote, DraftQuote, MarkQuoteSent
  <1>8. TickStep(w) => \/ \E pc \in {"draft", "sent", "check"}, r \in Turns : Start(w, pc, r)
                       \/ \E pc \in {"drop", "links", "claim"} : Step(w, pc)
                       \/ Finish(w)
    BY DEF TickStep, TickTakes, TickChecks, TickReads, TickDrops, TickClaims
  <1> QED BY <1>2, <1>3, <1>4, <1>5, <1>6, <1>7, <1>8 DEF Finish, Crash

LEMMA StepsKeepKnowing ==
  ASSUME WorkInv, Next, NEW w \in Workers
  PROVE  KnowsWork(worker[w])'
  <1>1. RequestInv /\ worker \in [Workers -> WorkerRecords] BY TableTypes DEF WorkInv
  <1>2. CASE UNCHANGED worker BY <1>2, OthersKeepKnowing
  <1>3. ASSUME NEW v \in Workers,
               \/ v \in Cycles /\ CycleStep(v)
               \/ v \in Operators /\ OperatorStep(v)
               \/ SellerStep(v) \/ TickStep(v) \/ Crash(v),
               WorkerStep(v)
        PROVE  KnowsWork(worker[w])'
    <2>1. CASE v = w BY <1>3, <2>1, CyclesKeepKnowing, OperatorsKeepKnowing, DeskKeepsKnowing
    <2>2. CASE v # w BY <1>1, <1>3, <2>2, OthersStay, OthersKeepKnowing
    <2> QED BY <2>1, <2>2
  <1>4. StatusMoves BY <1>1, StepsMoveTables DEF TablesMove
  <1>5. CASE \E c \in Cycles : CycleStep(c)
    <2>1. PICK c \in Cycles : CycleStep(c) BY <1>5
    <2>2. c \in Workers /\ WorkerStep(c)
      BY <1>1, <1>4, <2>1, CyclesAreWorkers, CyclesMoveWorkers
    <2> QED BY <1>3, <2>1, <2>2
  <1>6. CASE \E o \in Operators : OperatorStep(o)
    BY <1>1, <1>3, <1>4, <1>6, OperatorsMoveWorkers DEF Workers
  <1>7. CASE \E s \in Sellers : SellerStep(s)
    BY <1>1, <1>3, <1>4, <1>7, SellersMoveWorkers DEF Workers
  <1>8. CASE \E k \in Ticks : TickStep(k)
    BY <1>1, <1>3, <1>4, <1>8, TicksMoveWorkers DEF Workers
  <1>9. CASE \E r \in Turns : Schedule(r) \/ \E v \in Versions(r) : DecideQuote(r, v)
    BY <1>2, <1>9 DEF Schedule, DecideQuote
  <1>10. CASE \E v \in Workers : Crash(v)
    <2>1. PICK v \in Workers : Crash(v) BY <1>10
    <2>2. PICK pc \in {"done", "idle"} : worker' = [worker EXCEPT ![v] = Rest(pc)]
      BY <2>1 DEF Crash
    <2> QED BY <1>1, <1>3, <2>1, <2>2, RestingSteps
  <1> QED BY <1>5, <1>6, <1>7, <1>8, <1>9, <1>10 DEF Next

LEMMA RowsKeepKnowing ==
  ASSUME WorkInv, Next, NEW r \in Turns
  PROVE  RowKnows(r)'
  <1>1. RequestInv /\ RowKnows(r) BY DEF WorkInv
  <1>2. StatusMoves /\ PlansMove BY <1>1, StepsMoveTables DEF TablesMove
  <1>3. open \in [Turns -> Nat] /\ open' \in [Turns -> Nat]
    BY <1>1, StepsMoveTables, TableTypes DEF TablesMove, OpenMoves
  <1>4. CASE status[r] = "none"
    <2>1. open[r] = 0 BY <1>1, <1>3, <1>4 DEF RowKnows
    <2>2. open'[r] = 0 BY <1>3, <1>4, <2>1, OpensHaveReasons DEF OpenReason
    <2>3. CASE status'[r] = "none" BY <2>2, <2>3 DEF RowKnows
    <2>4. CASE status'[r] # "none"
      <3>1. "none" \notin Statuses BY DEF Statuses
      <3>2. status'[r] = "detected" BY <1>2, <1>4, <2>4, <3>1, AllowedAreStatuses DEF StatusMoves
      <3>3. plan[r].op = "create" BY <1>4, <3>2, StepsHaveReasons DEF StatusReason
      <3>4. plan[r] # NoPlan
        <4>1. NoPlan.op = "none" BY DEF NoPlan
        <4> QED BY <3>3, <4>1
      <3>5. plan'[r].op = "create" BY <1>2, <3>3, <3>4 DEF PlansMove
      <3> QED BY <2>2, <3>2, <3>5 DEF RowKnows
    <2> QED BY <2>3, <2>4
  <1>5. CASE status[r] # "none"
    <2>1. /\ plan'[r] = plan[r] /\ status'[r] # "none" /\ Kind(r)' = Kind(r)
          /\ status[r] # "detected" => status'[r] # "detected"
      BY <1>5, KindsStay
    <2>2. plan'[r].op = "create" BY <1>1, <1>5, <2>1 DEF RowKnows
    <2>3. Kind(r)' = "complaint" => status'[r] # "waiting_customer"
      <3>1. CASE status'[r] = status[r] BY <1>1, <2>1, <3>1 DEF RowKnows
      <3>2. CASE status'[r] # status[r]
        <4>1. StatusReason(r) BY <3>2, StepsHaveReasons
        <4> QED BY <2>1, <4>1 DEF StatusReason, NeedsFact
      <3> QED BY <3>1, <3>2
    <2>4. open'[r] > 0 => Kind(r)' = "complaint" /\ status'[r] \notin {"none", "detected"}
      <3>1. CASE open'[r] = open[r] BY <1>1, <2>1, <3>1 DEF RowKnows
      <3>2. CASE open'[r] # open[r]
        <4>1. OpenReason(r) BY <3>2, OpensHaveReasons
        <4>2. Kind(r) = "complaint" /\ status[r] \notin {"none", "detected"}
          BY <1>1, <4>1 DEF OpenReason, RowKnows
        <4> QED BY <2>1, <4>2
      <3> QED BY <3>1, <3>2
    <2> QED BY <2>2, <2>3, <2>4 DEF RowKnows
  <1> QED BY <1>4, <1>5

\* A plan that is stored is named by its turn.
LEMMA PlansKeepNames ==
  ASSUME WorkInv, Next, NEW t \in Turns
  PROVE  PlanNames(t)'
  <1>1. RequestInv /\ PlanNames(t) /\ plan \in [Turns -> Plans] BY TableTypes DEF WorkInv
  <1>2. CASE plan'[t] = plan[t] BY <1>1, <1>2 DEF PlanNames
  <1>3. CASE plan'[t] # plan[t]
    <2>5. \A w : Reduction(w) => plan' = plan
      BY DEF Reduction, LoadRequest, ReadTrail, SwapStatus, planning
    <2>6. PICK c \in Cycles : CycleStep(c)
      <3>1. ASSUME NEW o \in Operators, OperatorStep(o) PROVE plan' = plan
        BY <2>5, <3>1 DEF OperatorStep, CloseEscalation, LoadEscalated, MoveEscalated, planning
      <3>2. ASSUME NEW s \in Sellers, SellerStep(s) PROVE plan' = plan
        BY <2>5, <3>2 DEF SellerStep, CheckQuote, DraftQuote, AppendSent, MarkQuoteSent, planning
      <3>3. ASSUME NEW k \in Ticks, TickStep(k) PROVE plan' = plan
        BY <3>3 DEF TickStep, TickTakes, TickChecks, TickReads, TickDrops, TickClaims, planning
      <3> QED BY <1>3, <3>1, <3>2, <3>3 DEF Next, Schedule, DecideQuote, Crash, planning
    <2>7. PICK own \in Operations(Turn(c), worker[c].open) : StorePlan(c, own)
      <3>1. ~(BeginCycle(c) \/ LookUpPlan(c) \/ Apply(c) \/ ApplyFails(c))
        BY <1>3 DEF BeginCycle, LookUpPlan, Apply, ApplyFails, planning
      <3>2. ~(CancelRequest(c) \/ StoreFact(c) \/ Activate(c) \/ Execute(c))
        BY <1>3 DEF CancelRequest, StoreFact, Activate, Execute, planning
      <3>3. ~(UseCapability(c) \/ Escalate(c) \/ AppendEscalated(c) \/ MarkPlan(c))
        BY <1>3 DEF UseCapability, Escalate, AppendEscalated, MarkPlan, planning
      <3> QED BY <1>3, <2>5, <2>6, <3>1, <3>2, <3>3 DEF CycleStep
    <2>3. Turn(c) = t /\ plan'[t] = own
      <3>1. plan' = [plan EXCEPT ![Turn(c)] = IF @ = NoPlan THEN own ELSE @]
        BY <2>7 DEF StorePlan
      <3> QED BY <1>1, <1>3, <3>1, CyclesAreWorkers
    <2>4. own.op = "create" => own.req = t /\ own.kind \in Kinds BY <2>3 DEF Operations
    <2> QED BY <2>3, <2>4, KindsAssumption DEF PlanNames
  <1> QED BY <1>2, <1>3

LEMMA SharedPlansStay ==
  ASSUME RequestInv, PlanIsShared, Next
  PROVE  PlanIsShared'
  <1> SUFFICES ASSUME NEW c \in Cycles, worker'[c].op # NoPlan
               PROVE  worker'[c].op = plan'[Turn(c)]
    BY DEF PlanIsShared, Op, Turn
  <1>1. PlansMove BY StepsMoveTables DEF TablesMove
  <1>2. c \in Workers /\ Turn(c) \in Turns /\ worker \in [Workers -> WorkerRecords]
    BY CyclesAreWorkers, TableTypes
  <1>3. OpMoves(c) BY StepsMoveOps
  <1>4. worker[c].op # NoPlan => worker[c].op = plan'[Turn(c)]
    BY <1>1, <1>2 DEF PlanIsShared, Op, PlansMove
  <1> QED BY <1>3, <1>4 DEF OpMoves

\* A cycle moves by its own steps or crashes.
LEMMA CyclesMoveOrCrash ==
  ASSUME RequestInv, Next, NEW c \in Cycles, worker'[c] # worker[c]
  PROVE  CycleStep(c) \/ Crash(c)
  <1>1. c \in Workers /\ StatusMoves BY CyclesAreWorkers, StepsMoveTables DEF TablesMove
  <1>2. CASE \E d \in Cycles : CycleStep(d)
    <2>1. PICK d \in Cycles : CycleStep(d) BY <1>2
    <2>2. d \in Workers /\ WorkerStep(d) BY <1>1, <2>1, CyclesAreWorkers, CyclesMoveWorkers
    <2> QED BY <1>1, <2>1, <2>2, OthersStay
  <1>3. CASE \E o \in Operators : OperatorStep(o)
    <2>1. PICK o \in Operators : OperatorStep(o) BY <1>3
    <2>2. o \in Workers /\ o # c /\ WorkerStep(o)
      BY <1>1, <2>1, WorkersAssumption, OperatorsMoveWorkers DEF Workers
    <2> QED BY <1>1, <2>2, OthersStay
  <1>4. CASE \E s \in Sellers : SellerStep(s)
    <2>1. PICK s \in Sellers : SellerStep(s) BY <1>4
    <2>2. s \in Workers /\ s # c /\ WorkerStep(s)
      BY <1>1, <2>1, WorkersAssumption, SellersMoveWorkers DEF Workers
    <2> QED BY <1>1, <2>2, OthersStay
  <1>5. CASE \E k \in Ticks : TickStep(k)
    <2>1. PICK k \in Ticks : TickStep(k) BY <1>5
    <2>2. k \in Workers /\ k # c /\ WorkerStep(k)
      BY <1>1, <2>1, WorkersAssumption, TicksMoveWorkers DEF Workers
    <2> QED BY <1>1, <2>2, OthersStay
  <1>6. CASE \E w \in Workers : Crash(w)
    <2>1. PICK w \in Workers : Crash(w) BY <1>6
    <2>2. worker \in [Workers -> WorkerRecords] BY TableTypes
    <2> QED BY <1>1, <2>1, <2>2 DEF Crash
  <1>7. CASE \E r \in Turns : Schedule(r) \/ \E v \in Versions(r) : DecideQuote(r, v)
    BY <1>7 DEF Schedule, DecideQuote
  <1> QED BY <1>2, <1>3, <1>4, <1>5, <1>6, <1>7 DEF Next

\* A step of a cycle is a skip or leaves the mark of one as it is.
SkipStays(c) == worker'[c].skipped = worker[c].skipped

LEMMA ReductionsKeepSkips ==
  ASSUME RequestInv, NEW c \in Workers, Reduction(c)
  PROVE  SkipStays(c)
  <1>1. worker \in [Workers -> WorkerRecords] /\ worker[c] \in WorkerRecords BY TableTypes
  <1>2. Reduced(worker[c]).skipped = worker[c].skipped BY <1>1 DEF Reduced, WorkerRecords
  <1>3. CASE LoadRequest(c) BY ZenonT(60), <1>1, <1>2, <1>3 DEF LoadRequest, WorkerRecords, SkipStays
  <1>4. CASE SwapStatus(c) BY <1>1, <1>2, <1>4 DEF SwapStatus, SkipStays
  <1>5. CASE ReadTrail(c)
    <2>1. PICK to : \/ worker' = [worker EXCEPT ![c] = Reduced(worker[c])]
                    \/ worker' = [worker EXCEPT ![c] = [worker[c] EXCEPT !.pc = "swap", !.to = to]]
      BY <1>5 DEF ReadTrail
    <2> QED BY <1>1, <1>2, <2>1 DEF WorkerRecords, SkipStays
  <1> QED BY <1>3, <1>4, <1>5 DEF Reduction

LEMMA CyclesMoveSkips ==
  ASSUME RequestInv, NEW c \in Cycles, CycleStep(c)
  PROVE  Skip(c) \/ SkipStays(c)
  <1>1. /\ c \in Workers /\ worker \in [Workers -> WorkerRecords]
        /\ worker[c] \in WorkerRecords
    BY CyclesAreWorkers, TableTypes
  <1>2. ASSUME NEW pc, Goto(c, pc) PROVE SkipStays(c)
    BY ZenonT(60), <1>1, <1>2 DEF Goto, WorkerRecords, SkipStays
  <1>3. CASE BeginCycle(c) BY ZenonT(60), <1>1, <1>3 DEF BeginCycle, Goto, SkipStays, WorkerRecords
  <1>4. ASSUME NEW p, worker' = [worker EXCEPT ![c].pc = "apply", ![c].op = p, ![c].req = p.req,
                                               ![c].open = {}]
        PROVE  SkipStays(c)
    BY <1>1, <1>4 DEF WorkerRecords, SkipStays
  <1>5. CASE LookUpPlan(c) BY <1>2, <1>4, <1>5 DEF LookUpPlan
  <1>6. CASE \E own \in Operations(Turn(c), worker[c].open) : StorePlan(c, own)
    BY <1>4, <1>6 DEF StorePlan
  <1>7. CASE Apply(c)
    <2>1. PICK from, pc : worker' = [worker EXCEPT ![c].from = from, ![c].pc = pc]
      BY <1>7 DEF Apply
    <2> QED BY <1>1, <2>1 DEF SkipStays, WorkerRecords
  <1>8. CASE ApplyFails(c) BY <1>1, <1>8 DEF ApplyFails, SkipStays, WorkerRecords
  <1>9. CASE CancelRequest(c) \/ StoreFact(c) \/ MarkPlan(c)
    BY <1>2, <1>9 DEF CancelRequest, StoreFact, MarkPlan
  <1>10. CASE Activate(c) BY <1>1, <1>10 DEF Activate, SkipStays, WorkerRecords
  <1>11. CASE Reduction(c) BY <1>1, <1>11, ReductionsKeepSkips
  <1>12. CASE \E pc : Work(c, pc) BY ZenonT(60), <1>1, <1>12 DEF Work, SkipStays, WorkerRecords
  <1>13. Execute(c) \/ UseCapability(c) \/ Escalate(c) => Skip(c) \/ \E pc : Work(c, pc)
    <2>1. Execute(c) => Skip(c) \/ \E pc : Work(c, pc) BY DEF Execute
    <2>2. UseCapability(c) => Skip(c) \/ \E pc : Work(c, pc) BY DEF UseCapability
    <2>3. Escalate(c) => \E pc : Work(c, pc) BY DEF Escalate
    <2> QED BY <2>1, <2>2, <2>3
  <1>14. CASE AppendEscalated(c) BY <1>1, <1>14 DEF AppendEscalated, SkipStays, WorkerRecords
  <1> QED BY <1>3, <1>5, <1>6, <1>7, <1>8, <1>9, <1>10, <1>11, <1>12, <1>13, <1>14 DEF CycleStep

\* The one step of a cycle that marks its plan.
LEMMA OnlyMarkingIsLeft ==
  ASSUME RequestInv, NEW c \in Cycles, CycleStep(c), worker[c].pc \in {"mark", "done"}
  PROVE  /\ worker'[c].pc = "done" /\ worker'[c].req = worker[c].req
         /\ worker'[c].skipped = worker[c].skipped
  <1>1. MarkPlan(c)
    BY DEF CycleStep, BeginCycle, LookUpPlan, StorePlan, Apply, ApplyFails, CancelRequest, StoreFact,
           Activate, Reduction, LoadRequest, ReadTrail, SwapStatus, Execute, UseCapability, Escalate,
           AppendEscalated
  <1>2. worker \in [Workers -> WorkerRecords] /\ c \in Workers BY TableTypes, CyclesAreWorkers
  <1>3. worker' = [worker EXCEPT ![c].pc = "done"] BY <1>1 DEF MarkPlan, Goto
  <1> QED BY <1>2, <1>3 DEF WorkerRecords

LEMMA StepsKeepSkipsLast ==
  ASSUME WorkInv, Next, NEW c \in Cycles
  PROVE  SkipIsLast(worker[c])'
  <1>1. /\ RequestInv /\ SkipIsLast(worker[c]) /\ c \in Workers
        /\ worker \in [Workers -> WorkerRecords]
    BY TableTypes, CyclesAreWorkers DEF WorkInv
  <1>2. CASE worker'[c] = worker[c] BY <1>1, <1>2 DEF SkipIsLast
  <1>3. CASE CycleStep(c)
    <2>1. CASE worker[c].skipped BY <1>1, <1>3, <2>1, OnlyMarkingIsLeft DEF SkipIsLast
    <2>2. CASE ~worker[c].skipped
      <3>1. CASE Skip(c) BY <1>1, <3>1, SkipLeads DEF SkipIsLast
      <3>2. CASE SkipStays(c) BY <2>2, <3>2 DEF SkipStays, SkipIsLast
      <3> QED BY <1>1, <1>3, <3>1, <3>2, CyclesMoveSkips
    <2> QED BY <2>1, <2>2
  <1>4. CASE Crash(c)
    <2>1. PICK pc : worker' = [worker EXCEPT ![c] = Rest(pc)] BY <1>4 DEF Crash
    <2>2. Rest(pc).skipped = FALSE BY DEF Rest
    <2>3. worker'[c].skipped = FALSE BY <1>1, <2>1, <2>2
    <2> QED BY <2>3 DEF SkipIsLast
  <1> QED BY <1>1, <1>2, <1>3, <1>4, CyclesMoveOrCrash

LEMMA SkipsStay ==
  ASSUME WorkInv, Next, ~Fault, NEW r \in Turns, Skipped(r)
  PROVE  Skipped(r)'
  <1>1. PICK c \in Cycles : worker[c].req = r /\ worker[c].skipped BY DEF Skipped
  <1>2. RequestInv /\ worker[c].pc \in {"mark", "done"} BY <1>1 DEF WorkInv, SkipIsLast
  <1>3. CASE worker'[c] = worker[c] BY <1>1, <1>3 DEF Skipped
  <1>4. CASE worker'[c] # worker[c]
    <2>1. CycleStep(c) BY <1>2, <1>4, CyclesMoveOrCrash DEF Crash
    <2> QED BY <1>1, <1>2, <2>1, OnlyMarkingIsLeft DEF Skipped
  <1> QED BY <1>3, <1>4

LEMMA NextKeepsWork ==
  ASSUME WorkInv, Next
  PROVE  WorkInv'
  <1>1. RequestInv /\ PlanIsShared BY DEF WorkInv
  <1>2. RequestInv' BY <1>1, NextKeepsInv
  <1>3. PlanIsShared' BY <1>1, SharedPlansStay
  <1> QED BY <1>2, <1>3, PlansKeepNames, RowsKeepKnowing, StepsKeepKnowing,
             StepsKeepSkipsLast
          DEF WorkInv

\* A step is a fault or adds none.
LEMMA StepsFault ==
  ASSUME Next
  PROVE  Fault \/ UNCHANGED faults
  <1>1. \A w : Reduction(w) => Fault \/ UNCHANGED faults
    BY DEF Reduction, LoadRequest, ReadTrail, SwapStatus
  <1>2. ASSUME NEW c \in Cycles, CycleStep(c) PROVE Fault \/ UNCHANGED faults
    <2>1. CASE \/ BeginCycle(c) \/ LookUpPlan(c)
               \/ \E own \in Operations(Turn(c), worker[c].open) : StorePlan(c, own)
               \/ Apply(c) \/ ApplyFails(c)
      BY <2>1 DEF BeginCycle, LookUpPlan, StorePlan, Apply, ApplyFails
    <2>2. CASE CancelRequest(c) \/ StoreFact(c) \/ Activate(c) \/ Execute(c)
      BY <2>2 DEF CancelRequest, StoreFact, Activate, Execute
    <2>3. CASE UseCapability(c) \/ Escalate(c) \/ AppendEscalated(c) \/ MarkPlan(c)
      BY <2>3 DEF UseCapability, Escalate, AppendEscalated, MarkPlan
    <2> QED BY <1>1, <1>2, <2>1, <2>2, <2>3 DEF CycleStep
  <1>3. ASSUME NEW o \in Operators, OperatorStep(o) PROVE Fault \/ UNCHANGED faults
    BY <1>1, <1>3 DEF OperatorStep, CloseEscalation, LoadEscalated, MoveEscalated
  <1>4. ASSUME NEW s \in Sellers, SellerStep(s) PROVE Fault \/ UNCHANGED faults
    BY <1>1, <1>4 DEF SellerStep, CheckQuote, DraftQuote, AppendSent, MarkQuoteSent
  <1>5. ASSUME NEW k \in Ticks, TickStep(k) PROVE Fault \/ UNCHANGED faults
    BY <1>1, <1>5 DEF TickStep, TickTakes, TickChecks, TickReads, TickDrops, TickClaims
  <1> QED BY <1>2, <1>3, <1>4, <1>5 DEF Next, Schedule, DecideQuote, Crash

LEMMA NoFaultsBefore ==
  ASSUME RequestInv, Next, faults' = 0
  PROVE  ~Fault /\ faults = 0
  <1>1. faults \in Nat BY TableTypes, BoundsAssumption
  <1>2. ~Fault BY <1>1 DEF Fault
  <1> QED BY <1>2, StepsFault

\* Without a crash a cycle moves by its own steps.
LEMMA CyclesMoveThemselves ==
  ASSUME RequestInv, Next, ~Fault, NEW c \in Cycles, worker'[c] # worker[c]
  PROVE  CycleStep(c)
  BY CyclesMoveOrCrash DEF Crash

\* A cycle that will activate a detected request does, or goes on towards it.
LEMMA CreatesOn ==
  ASSUME WorkInv, Next, ~Fault, NEW c \in Cycles, CycleStep(c), NEW r \in Turns,
         Creates(worker[c], r), status[r] = "detected", status'[r] = "detected"
  PROVE  Creates(worker'[c], r)
  <1> DEFINE x == worker[c]
  <1>1. /\ RequestInv /\ c \in Workers /\ worker \in [Workers -> WorkerRecords]
        /\ x \in WorkerRecords /\ status \in [Turns -> Columns]
    BY CyclesAreWorkers, TableTypes DEF WorkInv
  <1>2. CASE StoreFact(c)
    <2>1. worker' = [worker EXCEPT ![c].pc = "activate"] BY <1>2 DEF StoreFact, Goto
    <2>2. /\ worker'[c].pc = "activate" /\ worker'[c].req = x.req
          /\ worker'[c].from = x.from /\ worker'[c].op = x.op
      BY <1>1, <2>1 DEF WorkerRecords
    <2> QED BY <2>2 DEF Creates
  <1>3. ~Activate(c)
    <2> SUFFICES ASSUME Activate(c) PROVE FALSE OBVIOUS
    <2>1. Activates(x.op.op, x.from) BY DEF Creates, Activates
    <2>2. Transition(r, "detected", "active") BY <2>1 DEF Activate, Creates, Op
    <2>3. <<"detected", "active">> \in Allowed BY DEF Allowed
    <2> QED BY <1>1, <2>2, <2>3 DEF Transition
  <1> QED BY <1>2, <1>3
          DEF Creates, CycleStep, BeginCycle, LookUpPlan, StorePlan, Apply, ApplyFails,
              CancelRequest, Reduction, LoadRequest, ReadTrail, SwapStatus, Execute,
              UseCapability, Escalate, AppendEscalated, MarkPlan

\* Reasons and facts stay.
LEMMA ReasonsStay ==
  ASSUME WorkInv, Next, ~Fault, NEW r \in Turns, status[r] # "none"
  PROVE  /\ Moves(r) => Moves(r)'
         /\ HasFacts(r) => HasFacts(r)'
         /\ Settled(r) /\ open'[r] = open[r] => Settled(r)'
  <1>1. TrailsGrow BY StepsGrowTrails DEF WorkInv
  <1>2. plan'[r] = plan[r] BY KindsStay
  <1>3. Moves(r) => Moves(r)' BY <1>1, <1>2 DEF TrailsGrow, Moves, Kind
  <1>4. HasFacts(r) => HasFacts(r)' BY <1>1, <1>2 DEF TrailsGrow, HasFacts, Kind
  <1>5. AnsweredInVain(r) => AnsweredInVain(r)'
    BY <1>1, <1>2 DEF TrailsGrow, AnsweredInVain, Kind
  <1>6. Skipped(r) => Skipped(r)' BY SkipsStay
  <1> QED BY <1>1, <1>2, <1>3, <1>4, <1>5, <1>6 DEF Settled, TrailsGrow, Kind

\* A cycle that serves an active request goes on to do so while others work.
LEMMA ServesStill ==
  ASSUME WorkInv, Next, ~Fault, NEW r \in Turns, status[r] # "none", open'[r] = open[r],
         NEW c \in Cycles, worker'[c] = worker[c], Serves(worker[c], r)
  PROVE  Serves(worker[c], r)'
  BY ReasonsStay DEF Serves

\* Its own steps move the request from active, settle it, or come closer to it.
ServedBy(c, r) == status'[r] # "active" \/ Settled(r)' \/ Serves(worker[c], r)'

LEMMA ReductionsServe ==
  ASSUME WorkInv, ~Fault, NEW c \in Cycles, Reduction(c), NEW r \in Turns,
         status[r] = "active", Serves(worker[c], r)
  PROVE  ServedBy(c, r)
  <1> DEFINE x == worker[c]
  <1>1. /\ RequestInv /\ c \in Workers /\ worker \in [Workers -> WorkerRecords]
        /\ x \in WorkerRecords /\ status \in [Turns -> Columns] /\ x.req = r /\ KnowsWork(x)
        /\ Knows(x, status)
    BY CyclesAreWorkers, TableTypes, WorkerFacts DEF WorkInv, Serves
  <1>2. CASE LoadRequest(c)
    <2>1. /\ worker' = [worker EXCEPT ![c] = [x EXCEPT !.pc = "read", !.from = "active"]]
          /\ UNCHANGED <<plan, events, fact, open>>
      BY <1>1, <1>2 DEF LoadRequest, planning, desk
    <2>2. /\ worker'[c].pc = "read" /\ worker'[c].from = "active"
          /\ worker'[c].req = r /\ worker'[c].then = x.then
      BY <1>1, <2>1 DEF WorkerRecords
    <2>3. Moves(r) \/ (x.then = "execute" /\ open[r] = 0) BY <1>2 DEF LoadRequest, Serves
    <2>4. Moves(r) => Moves(r)' BY <2>1 DEF Moves, Kind
    <2> QED BY <2>1, <2>2, <2>3, <2>4 DEF Serves, ServedBy
  <1>3. CASE ReadTrail(c)
    <2> DEFINE to == Evaluate(Kind(r), "active", events[r], r \in fact)
    <2>1. /\ x.from = "active"
          /\ Moves(r) \/ (x.then = "execute" /\ open[r] = 0)
      BY <1>3 DEF ReadTrail, Serves
    <2>2. /\ worker' = [worker EXCEPT ![c] =
                IF to = "active" THEN Reduced(x) ELSE [x EXCEPT !.pc = "swap", !.to = to]]
          /\ UNCHANGED <<plan, events, fact, open>>
      BY <1>1, <1>3, <2>1 DEF ReadTrail, planning, desk
    <2>3. CASE to = "active"
      <3>6. /\ "escalated" \notin events[r] /\ ResolvedBy(Kind(r)) \cap events[r] = {}
            /\ NeedsFact(Kind(r)) => r \in fact
        BY <2>3 DEF Evaluate, Closed
      <3>1. ~Moves(r) /\ HasFacts(r) BY <3>6 DEF Moves, HasFacts
      <3>2. x.then = "execute" /\ open[r] = 0 BY <2>1, <3>1
      <3>3. worker' = [worker EXCEPT ![c] = Reduced(x)] BY <2>2, <2>3
      <3>4. worker'[c].pc = "execute" /\ worker'[c].req = r
        BY <1>1, <3>2, <3>3 DEF Reduced, WorkerRecords
      <3>5. HasFacts(r)' BY <2>2, <3>1 DEF HasFacts, Kind
      <3> QED BY <2>2, <3>2, <3>4, <3>5 DEF Serves, ServedBy
    <2>4. CASE to # "active"
      <3> HIDE DEF to
      <3>1. worker' = [worker EXCEPT ![c] = [x EXCEPT !.pc = "swap", !.to = to]]
        BY <2>2, <2>4
      <3>2. worker'[c].pc = "swap" /\ worker'[c].from = "active" /\ worker'[c].req = r
        BY <1>1, <2>1, <3>1 DEF WorkerRecords
      <3> QED BY <3>2 DEF Serves, ServedBy
    <2> QED BY <2>3, <2>4
  <1>4. CASE SwapStatus(c)
    <2>1. x.from = "active" /\ x.to \in Parked BY <1>1, <1>4 DEF SwapStatus, Serves, KnowsWork
    <2>2. Transition(r, "active", x.to) BY <1>1, <1>4, <2>1 DEF SwapStatus
    <2>3. <<"active", x.to>> \in Allowed BY <2>1 DEF Allowed, Parked
    <2>4. status'[r] = x.to BY <1>1, <2>2, <2>3 DEF Transition
    <2> QED BY <2>1, <2>4 DEF Parked, ServedBy
  <1> QED BY <1>2, <1>3, <1>4 DEF Reduction

LEMMA CyclesServe ==
  ASSUME WorkInv, ~Fault, NEW c \in Cycles, CycleStep(c), NEW r \in Turns,
         status[r] = "active", Serves(worker[c], r)
  PROVE  ServedBy(c, r)
  <1> DEFINE x == worker[c]
  <1>1. /\ RequestInv /\ c \in Workers /\ worker \in [Workers -> WorkerRecords]
        /\ x \in WorkerRecords /\ x.req = r /\ KnowsWork(x)
    BY CyclesAreWorkers, TableTypes, WorkerFacts DEF WorkInv, Serves
  <1>8. events \in [Turns -> SUBSET Events] /\ open \in [Turns -> Nat] BY <1>1, TableTypes
  <1>2. CASE Reduction(c) BY <1>2, ReductionsServe
  <1>3. CASE Execute(c)
    <2>1. /\ Work(c, DueWork(r)) \/ Skip(c)
          /\ open[r] = 0 /\ HasFacts(r)
          /\ UNCHANGED <<plan, fact, open, deferred>>
      BY <1>1, <1>3 DEF Execute, Serves, planning, desk
    <2>5. HasFacts(r)' /\ open'[r] = 0 BY <2>1 DEF HasFacts, Kind
    <2>6. CASE Skip(c)
      <3>1. Skipped(r)' BY <1>1, <2>6, SkipLeads DEF Skipped
      <3> QED BY <2>5, <3>1 DEF Settled, ServedBy
    <2> SUFFICES ASSUME Work(c, DueWork(r)) PROVE ServedBy(c, r) BY <2>1, <2>6
    <2>2. worker'[c].pc = DueWork(r) /\ worker'[c].req = r BY <1>1, WorkLeads
    <2>3. CASE DueWork(r) \in {"escalate", "capability"} BY <2>1, <2>2, <2>3 DEF Serves, ServedBy
    <2>4. CASE DueWork(r) \notin {"escalate", "capability"}
      <3>1. ~EscalatesItself(Kind(r)) /\ ~HasCapability(Kind(r)) BY <2>1, <2>4 DEF DueWork
      <3>2. Kind(r) \in AllKinds BY DEF WorkInv, RowKnows, PlanNames, Kind
      <3>3. Kind(r) = "quote" BY <3>1, <3>2 DEF AllKinds, EscalatesItself, HasCapability
      <3>4. Settled(r)' BY <2>1, <3>3 DEF Settled, HasFacts, Kind
      <3> QED BY <3>4 DEF ServedBy
    <2> QED BY <2>3, <2>4
  <1>4. CASE UseCapability(c)
    <2>1. HasCapability(Kind(r)) /\ HasFacts(r) /\ open[r] = 0 /\ UNCHANGED <<plan, fact, open>>
      BY <1>1, <1>4 DEF UseCapability, Serves, KnowsWork, planning
    <2>2. CASE deferred' = deferred \cup {r}
      <3>1. Settled(r)' BY <2>1, <2>2 DEF Settled, HasFacts, Kind
      <3> QED BY <3>1 DEF ServedBy
    <2>4. HasFacts(r)' /\ open'[r] = 0 BY <2>1 DEF HasFacts, Kind
    <2>5. CASE Skip(c)
      <3>1. Skipped(r)' BY <1>1, <2>5, SkipLeads DEF Skipped
      <3> QED BY <2>4, <3>1 DEF Settled, ServedBy
    <2>3. CASE events' = [events EXCEPT ![r] = @ \cup {Emits(Kind(r))}] /\ Work(c, "load")
      <3>1. Emits(Kind(r)) \in events'[r] /\ Kind(r)' = Kind(r) BY <1>8, <2>1, <2>3 DEF Kind
      <3>2. CASE Emits(Kind(r)) \in ResolvedBy(Kind(r))
        <4>1. Moves(r)' BY <3>1, <3>2 DEF Moves
        <4>2. worker'[c].pc = "load" /\ worker'[c].req = r BY <1>1, <2>3, WorkLeads
        <4> QED BY <4>1, <4>2 DEF Serves, ServedBy
      <3>3. CASE Emits(Kind(r)) \notin ResolvedBy(Kind(r))
        <4>1. AnsweredInVain(r)' BY <2>1, <3>1, <3>3 DEF AnsweredInVain
        <4> QED BY <2>4, <4>1 DEF Settled, ServedBy
      <3> QED BY <3>2, <3>3
    <2> QED BY <1>1, <1>4, <2>2, <2>3, <2>5 DEF UseCapability
  <1>5. CASE Escalate(c)
    <2>1. open[r] = 0 BY <1>5 DEF Escalate, Serves
    <2>2. open'[r] # open[r] /\ Work(c, IF open'[r] # open[r] THEN "event" ELSE "load")
      BY <1>1, <1>5, <1>8, <2>1 DEF Escalate, InsertEscalation
    <2>3. worker'[c].pc = "event" /\ worker'[c].req = r BY <1>1, <2>2, WorkLeads
    <2> QED BY <2>3 DEF Serves, ServedBy
  <1>6. CASE AppendEscalated(c)
    <2>1. /\ events' = [events EXCEPT ![r] = @ \cup {"escalated"}] /\ UNCHANGED plan
          /\ worker' = [worker EXCEPT ![c].pc = "load", ![c].then = "again"]
      BY <1>1, <1>6 DEF AppendEscalated, planning
    <2>2. Moves(r)' BY <1>8, <2>1 DEF Moves
    <2>3. worker'[c].pc = "load" /\ worker'[c].req = r BY <1>1, <2>1 DEF WorkerRecords
    <2> QED BY <2>2, <2>3 DEF Serves, ServedBy
  <1>7. x.pc \in {"event", "swap", "load", "read", "capability", "escalate", "execute"}
    BY DEF Serves
  <1> QED BY <1>2, <1>3, <1>4, <1>5, <1>6, <1>7
          DEF CycleStep, BeginCycle, LookUpPlan, StorePlan, Apply, ApplyFails, CancelRequest,
              StoreFact, Activate, MarkPlan

\* A request stays attended: its cycle goes on, or another takes it over.
LEMMA StepsAttend ==
  ASSUME WorkInv, Next, ~Fault, NEW r \in Turns, Attended(r)
  PROVE  Attended(r)'
  <1>1. RequestInv /\ RowKnows(r) /\ status \in [Turns -> Columns] BY TableTypes DEF WorkInv
  <1>2. TrailsGrow /\ StatusMoves BY <1>1, StepsGrowTrails, StepsMoveTables DEF TablesMove
  <1>3. ASSUME status'[r] = "detected" PROVE \E c \in Cycles : Creates(worker[c], r)'
    <2>1. CASE status[r] = "detected"
      <3>1. PICK c \in Cycles : Creates(worker[c], r) BY <2>1 DEF Attended
      <3>2. Creates(worker'[c], r)
        BY <1>1, <1>3, <2>1, <3>1, CyclesMoveThemselves, CreatesOn
      <3> QED BY <3>2 DEF Creates
    <2>2. CASE status[r] # "detected"
      <3>1. PICK c \in Cycles : Creates(worker'[c], r)
        BY <1>3, <2>2, StepsHaveReasons DEF StatusReason
      <3> QED BY <3>1 DEF Creates
    <2> QED BY <2>1, <2>2
  <1>4. ASSUME status'[r] = "active", r \notin closed'
        PROVE  Settled(r)' \/ \E c \in Cycles : Serves(worker[c], r)'
    <2>1. r \notin closed BY <1>2, <1>4 DEF TrailsGrow
    <2>2. CASE open'[r] # open[r]
      <3>1. PICK c \in Cycles : worker'[c].req = r /\ worker'[c].pc = "event"
        BY <1>4, <2>2, OpensHaveReasons DEF OpenReason
      <3> QED BY <3>1 DEF Serves
    <2>3. CASE open'[r] = open[r] /\ status[r] = "active"
      <3>1. CASE Settled(r) BY <2>3, <3>1, ReasonsStay
      <3>2. CASE \E c \in Cycles : Serves(worker[c], r)
        <4>1. PICK c \in Cycles : Serves(worker[c], r) BY <3>2
        <4>2. CASE worker'[c] = worker[c] BY <2>3, <4>1, <4>2, ServesStill
        <4>3. CASE worker'[c] # worker[c]
          BY <1>1, <1>4, <2>3, <4>1, <4>3, CyclesMoveThemselves, CyclesServe DEF ServedBy
        <4> QED BY <4>2, <4>3
      <3> QED BY <2>1, <2>3, <3>1, <3>2 DEF Attended
    <2>4. CASE open'[r] = open[r] /\ status[r] # "active"
      <3>1. /\ status[r] \in {"detected", "waiting_customer"}
            /\ \E c \in Cycles : Executing(worker'[c], r)
        BY <1>4, <2>1, <2>4, StepsHaveReasons DEF StatusReason
      <3>2. PICK c \in Cycles : Executing(worker'[c], r) BY <3>1
      <3>3. open[r] = 0
        <4>1. open[r] \in Nat BY <1>1, TableTypes
        <4> QED BY <1>1, <3>1, <4>1 DEF RowKnows
      <3> QED BY <2>4, <3>2, <3>3 DEF Serves, Executing
    <2> QED BY <2>2, <2>3, <2>4
  <1> QED BY <1>3, <1>4 DEF Attended

LEMMA AttendedHolds == Spec => []AttendedInv
  <1>1. Init => AttendedInv
    <2> SUFFICES ASSUME Init PROVE AttendedInv OBVIOUS
    <2>1. NoPlan.op = "none" /\ NoPlan.kind = "" BY DEF NoPlan
    <2>2. \A w \in Workers : /\ worker[w].pc \in {"begin", "idle"} /\ worker[w].op = NoPlan
                             /\ worker[w].skipped = FALSE
      <3>1. ASSUME NEW pc PROVE Rest(pc).pc = pc /\ Rest(pc).op = NoPlan /\ Rest(pc).skipped = FALSE
        BY DEF Rest
      <3> QED BY <3>1 DEF Init
    <2>3. ASSUME NEW r \in Turns PROVE PlanNames(r) /\ RowKnows(r) /\ Attended(r)
      <3>1. plan[r] = NoPlan /\ status[r] = "none" /\ open[r] = 0 BY DEF Init
      <3>2. PlanNames(r) BY <2>1, <3>1 DEF PlanNames
      <3>3. RowKnows(r) BY <3>1 DEF RowKnows
      <3>4. Attended(r) BY <3>1 DEF Attended
      <3> QED BY <3>2, <3>3, <3>4
    <2>4. \A w \in Workers : KnowsWork(worker[w]) BY <2>2 DEF KnowsWork
    <2>5. PlanIsShared BY <2>2, CyclesAreWorkers DEF PlanIsShared, Op
    <2>6. \A c \in Cycles : SkipIsLast(worker[c]) BY <2>2, CyclesAreWorkers DEF SkipIsLast
    <2> QED BY <2>3, <2>4, <2>5, <2>6, InitIsInv DEF AttendedInv, WorkInv
  <1>2. AttendedInv /\ [Next]_vars => AttendedInv'
    <2> SUFFICES ASSUME AttendedInv, [Next]_vars PROVE AttendedInv' OBVIOUS
    <2>1. CASE UNCHANGED vars
      <3> USE <2>1 DEF vars, planning, desk
      <3>1. RequestInv'
        BY DEF AttendedInv, WorkInv, RequestInv, RequestTypeOK, PlanKnows, QuotesKnow, Versions
      <3>2. PlanIsShared' BY DEF AttendedInv, WorkInv, PlanIsShared, Op
      <3>3. \A r \in Turns : PlanNames(r)' /\ RowKnows(r)'
        BY DEF AttendedInv, WorkInv, PlanNames, RowKnows, Kind
      <3>4. \A w \in Workers : KnowsWork(worker[w])'
        BY DEF AttendedInv, WorkInv, KnowsWork, HasFacts, Kind
      <3>5. faults' = 0 => \A r \in Turns : Attended(r)'
        BY DEF AttendedInv, Attended, Settled, HasFacts, Creates, Serves, Moves, Kind, Skipped,
               AnsweredInVain
      <3>6. \A c \in Cycles : SkipIsLast(worker[c])' BY DEF AttendedInv, WorkInv, SkipIsLast
      <3> QED BY <3>1, <3>2, <3>3, <3>4, <3>5, <3>6 DEF AttendedInv, WorkInv
    <2>2. CASE Next
      <3>1. WorkInv /\ RequestInv BY DEF AttendedInv, WorkInv
      <3>2. WorkInv' BY <2>2, <3>1, NextKeepsWork
      <3>3. ASSUME faults' = 0 PROVE \A r \in Turns : Attended(r)'
        <4>1. ~Fault /\ faults = 0 BY <2>2, <3>1, <3>3, NoFaultsBefore
        <4> QED BY <2>2, <3>1, <4>1, StepsAttend DEF AttendedInv
      <3> QED BY <3>2, <3>3 DEF AttendedInv
    <2> QED BY <2>1, <2>2
  <1> QED BY <1>1, <1>2, PTL DEF Spec

\* Without faults the fate of every request of a quiet conversation is known: one that
\* somebody must look at is in the hands of a cycle, and at rest there is none, so that
\* an active request was deferred, waits for its quote, or is one of those the code
\* gives up: its work was skipped, or its answer did not resolve it.
THEOREM RequestsStayAccountedFor == Spec => []RequestsAreAccountedFor
  <1>1. AttendedInv => RequestsAreAccountedFor
    <2> SUFFICES ASSUME AttendedInv, faults = 0, AllRest, NEW r \in Turns
                 PROVE  /\ status[r] # "detected"
                        /\ status[r] = "active" => r \in closed \/ Settled(r)
                        /\ open[r] > 0 => r \in closed \/ status[r] \in Closed \cup {"waiting_human"}
      BY DEF RequestsAreAccountedFor, Settled, HasFacts
    <2>1. Attended(r) /\ RowKnows(r) BY DEF AttendedInv, WorkInv
    <2>2. \A c \in Cycles : worker[c].pc \in {"begin", "done", "idle"}
      BY CyclesAreWorkers DEF AllRest, Resting
    <2>3. \A c \in Cycles : ~Creates(worker[c], r) /\ ~Serves(worker[c], r)
      BY <2>2 DEF Creates, Serves
    <2>4. /\ status[r] # "detected"
          /\ status[r] = "active" => r \in closed \/ Settled(r)
      BY <2>1, <2>3 DEF Attended
    <2>5. status[r] \in Columns BY TableTypes DEF AttendedInv, WorkInv
    <2>6. open[r] > 0 => r \in closed \/ status[r] \in Closed \cup {"waiting_human"}
      <3> SUFFICES ASSUME open[r] > 0, status[r] \notin Closed \cup {"waiting_human"}
                   PROVE  r \in closed
        OBVIOUS
      <3>1. status[r] = "active"
        BY <2>1, <2>4, <2>5 DEF RowKnows, Columns, Statuses, Closed
      <3> QED BY <2>4, <3>1 DEF Settled
    <2> QED BY <2>4, <2>6
  <1> QED BY <1>1, AttendedHolds, PTL

-----------------------------------------------------------------------------
(* What conversation requests promise. *)

\* Only a request that has a row has a trail, and a request has no more versions of its
\* quote than it may.
EventsKnow(r) == events[r] # {} => status[r] # "none"
QuotesBounded(r) == Len(quotes[r]) <= MaxVersions

\* A worker that is about to move a request has read the reason: the plan it works on,
\* or the event its reduction found.
Acts(x) ==
  /\ x.pc \in {"cancel", "facts", "activate"} => x.req = x.op.req
  /\ x.pc = "cancel" => x.op.op = "cancel"
  /\ x.pc = "swap" =>
       /\ x.to = "waiting_human" => "escalated" \in events[x.req]
       /\ x.to = "resolved" => ResolvedBy(Kind(x.req)) \cap events[x.req] # {}

ReasonInv == /\ \A r \in Turns : EventsKnow(r) /\ QuotesBounded(r)
             /\ \A w \in Workers : Acts(worker[w])
ActInv == WorkInv /\ SingleQuotes /\ ReasonInv

\* Where a worker has such a reason, and where it has none to have.
Acting == {"cancel", "facts", "activate", "swap"}
Passive == (CyclePcs \cup DeskPcs) \ Acting

LEMMA PassiveActs ==
  ASSUME NEW w \in Workers, worker'[w].pc \in Passive
  PROVE  Acts(worker[w])'
  BY DEF Passive, Acting, Acts

LEMMA EvaluationsHaveReasons ==
  ASSUME NEW k, NEW now \in Statuses, NEW seen, NEW known, Evaluate(k, now, seen, known) # now
  PROVE  /\ Evaluate(k, now, seen, known) = "waiting_human" => "escalated" \in seen
         /\ Evaluate(k, now, seen, known) = "resolved" => ResolvedBy(k) \cap seen # {}
  BY DEF Evaluate, Statuses, Closed

\* What a worker that does nothing had read is recorded still.
LEMMA OthersKeepActing ==
  ASSUME ActInv, Next, NEW w \in Workers, worker'[w] = worker[w]
  PROVE  Acts(worker[w])'
  <1>1. WorkInv /\ RequestInv /\ Acts(worker[w]) BY DEF ActInv, ReasonInv, WorkInv
  <1>2. CASE worker[w].pc = "swap"
    <2> DEFINE r == worker[w].req
    <2>1. r \in Turns /\ status[r] # "none" BY <1>1, <1>2, RelyingHaveRows DEF Relying
    <2>2. worker'[w].req = r /\ worker'[w].pc = "swap" BY <1>2
    <2> HIDE DEF r
    <2>3. plan'[r] = plan[r] /\ events[r] \subseteq events'[r]
      BY <1>1, <2>1, KindsStay, StepsGrowTrails DEF TrailsGrow
    <2> QED BY <1>1, <2>2, <2>3 DEF Acts, Kind, r
  <1>3. CASE worker[w].pc # "swap" BY <1>1, <1>3 DEF Acts
  <1> QED BY <1>2, <1>3

LEMMA ReductionsActPassively ==
  ASSUME ActInv, NEW w \in Workers, Reduction(w)
  PROVE  Acts(worker[w])'
  <1> DEFINE x == worker[w]
  <1>1. RequestInv /\ worker \in [Workers -> WorkerRecords] /\ x \in WorkerRecords
    BY TableTypes DEF ActInv, ReasonInv, WorkInv
  <1>2. x.pc \in {"load", "read", "swap"} BY DEF Reduction, LoadRequest, ReadTrail, SwapStatus
  <1>3. CASE worker' = [worker EXCEPT ![w] = Reduced(x)]
    <2>1. x.then \in {"execute", "again", "mark", "idle"}
      BY <1>1, <1>2, WorkerFacts, WorkerFields DEF Knows
    <2>2. worker'[w].pc \in {"execute", "load", "mark", "idle"}
      BY <1>1, <1>3, <2>1 DEF Reduced, WorkerRecords
    <2> QED BY <2>2, PassiveActs DEF Passive, Acting, CyclePcs, DeskPcs
  <1>4. CASE LoadRequest(w)
    <2>1. CASE worker' = [worker EXCEPT ![w] = [x EXCEPT !.pc = "read", !.from = status[x.req]]]
      <3>1. worker'[w].pc = "read" BY <1>1, <2>1 DEF WorkerRecords
      <3> QED BY <3>1, PassiveActs DEF Passive, Acting, CyclePcs, DeskPcs
    <2> QED BY <1>3, <1>4, <2>1 DEF LoadRequest
  <1>5. CASE ReadTrail(w)
    <2>1. ASSUME NEW seen \in {events[x.req], {}}, NEW known,
                 Evaluate(Kind(x.req), x.from, seen, known) # x.from,
                 worker' = [worker EXCEPT ![w] = [x EXCEPT !.pc = "swap",
                              !.to = Evaluate(Kind(x.req), x.from, seen, known)]]
          PROVE  Acts(worker[w])'
      <3> DEFINE to == Evaluate(Kind(x.req), x.from, seen, known)
      <3>1. x.from \in Statuses BY <1>1, <1>5, WorkerFacts DEF ReadTrail, Knows
      <3>2. /\ to = "waiting_human" => "escalated" \in seen
            /\ to = "resolved" => ResolvedBy(Kind(x.req)) \cap seen # {}
        BY <2>1, <3>1, EvaluationsHaveReasons
      <3> HIDE DEF to
      <3>3. worker' = [worker EXCEPT ![w] = [x EXCEPT !.pc = "swap", !.to = to]]
        BY <2>1 DEF to
      <3>4. worker'[w].pc = "swap" /\ worker'[w].req = x.req /\ worker'[w].to = to
        BY <1>1, <3>3 DEF WorkerRecords
      <3>5. plan' = plan /\ events' = events BY <1>5 DEF ReadTrail, planning
      <3> QED BY <2>1, <3>2, <3>4, <3>5 DEF Acts, Kind
    <2> QED BY <1>3, <1>5, <2>1 DEF ReadTrail
  <1>6. CASE SwapStatus(w) BY <1>3, <1>6 DEF SwapStatus
  <1> QED BY <1>4, <1>5, <1>6 DEF Reduction

LEMMA CyclesActForReasons ==
  ASSUME ActInv, NEW c \in Cycles, CycleStep(c)
  PROVE  Acts(worker[c])'
  <1> DEFINE x == worker[c]
  <1>1. /\ RequestInv /\ KnowsWork(x) /\ Acts(x) /\ c \in Workers
        /\ worker \in [Workers -> WorkerRecords] /\ x \in WorkerRecords
    BY CyclesAreWorkers, TableTypes DEF ActInv, ReasonInv, WorkInv
  <1> USE DEF Passive, Acting, CyclePcs, DeskPcs
  <1>2. CASE BeginCycle(c)
    <2>1. worker'[c].pc = "lookup" BY ZenonT(60), <1>1, <1>2 DEF BeginCycle, Goto, WorkerRecords
    <2> QED BY <1>1, <2>1, PassiveActs
  <1>3. CASE \/ Goto(c, "choose")
             \/ \E p : worker' = [worker EXCEPT ![c].pc = "apply", ![c].op = p, ![c].req = p.req,
                                                ![c].open = {}]
    <2>1. CASE Goto(c, "choose")
      <3>1. worker'[c].pc = "choose" BY <1>1, <2>1, GotoLeads DEF Goto
      <3> QED BY <1>1, <3>1, PassiveActs
    <2>2. CASE \E p : worker' = [worker EXCEPT ![c].pc = "apply", ![c].op = p, ![c].req = p.req,
                                               ![c].open = {}]
      <3>2. PICK p : worker' = [worker EXCEPT ![c].pc = "apply", ![c].op = p, ![c].req = p.req,
                                              ![c].open = {}]
        BY <2>2
      <3>1. worker'[c].pc = "apply" BY <1>1, <3>2 DEF WorkerRecords
      <3> QED BY <1>1, <3>1, PassiveActs
    <2> QED BY <1>3, <2>1, <2>2
  <1>4. CASE Apply(c)
    <2>1. PICK from, pc : /\ worker' = [worker EXCEPT ![c].from = from, ![c].pc = pc]
                          /\ pc = "facts" \/ (pc = "cancel" /\ x.op.op = "cancel")
      BY <1>4 DEF Apply, Op
    <2>2. worker'[c].pc = pc /\ worker'[c].req = x.req /\ worker'[c].op = x.op
      BY <1>1, <2>1 DEF WorkerRecords
    <2>3. x.req = x.op.req BY <1>1, <1>4 DEF Apply, KnowsWork
    <2> QED BY <2>1, <2>2, <2>3 DEF Acts
  <1>5. CASE CancelRequest(c) \/ StoreFact(c)
    <2>1. PICK pc \in {"facts", "activate"} : worker' = [worker EXCEPT ![c].pc = pc]
      BY <1>5 DEF CancelRequest, StoreFact, Goto
    <2>2. worker'[c].pc = pc /\ worker'[c].req = x.req /\ worker'[c].op = x.op
      BY <1>1, <2>1 DEF WorkerRecords
    <2>3. x.req = x.op.req BY <1>1, <1>5 DEF CancelRequest, StoreFact, Acts
    <2> QED BY <2>2, <2>3 DEF Acts
  <1>6. CASE ApplyFails(c) \/ MarkPlan(c)
    <2>1. CASE worker' = [worker EXCEPT ![c].pc = "mark", ![c].failed = TRUE]
      <3>1. worker'[c].pc = "mark" BY <1>1, <2>1 DEF WorkerRecords
      <3> QED BY <1>1, <3>1, PassiveActs
    <2>2. CASE Goto(c, "done")
      <3>1. worker'[c].pc = "done" BY <1>1, <2>2, GotoLeads DEF Goto
      <3> QED BY <1>1, <3>1, PassiveActs
    <2> QED BY <1>6, <2>1, <2>2 DEF ApplyFails, MarkPlan
  <1>7. CASE Activate(c) \/ AppendEscalated(c)
    <2>1. CASE worker' = [worker EXCEPT ![c].pc = "load", ![c].then = "execute", ![c].from = "none"]
      <3>1. worker'[c].pc = "load" BY <1>1, <2>1 DEF WorkerRecords
      <3> QED BY <1>1, <3>1, PassiveActs
    <2>2. CASE worker' = [worker EXCEPT ![c].pc = "load", ![c].then = "again"]
      <3>1. worker'[c].pc = "load" BY <1>1, <2>2 DEF WorkerRecords
      <3> QED BY <1>1, <3>1, PassiveActs
    <2> QED BY <1>7, <2>1, <2>2 DEF Activate, AppendEscalated
  <1>8. CASE Reduction(c) BY <1>1, <1>8, ReductionsActPassively
  <1>9. CASE \E pc \in {"mark", "escalate", "capability", "load", "event"} : Work(c, pc)
    <2>1. PICK pc \in {"mark", "escalate", "capability", "load", "event"} : Work(c, pc) BY <1>9
    <2>2. worker'[c].pc = pc BY <1>1, <2>1, WorkLeads
    <2> QED BY <1>1, <2>2, PassiveActs
  <1>15. CASE Skip(c)
    <2>1. worker'[c].pc = "mark" BY <1>1, <1>15, SkipLeads
    <2> QED BY <1>1, <2>1, PassiveActs
  <1>10. \A r : DueWork(r) \in {"mark", "escalate", "capability"} BY DEF DueWork
  <1>11. Execute(c) =>
           Skip(c) \/ \E pc \in {"mark", "escalate", "capability", "load", "event"} : Work(c, pc)
    BY <1>10 DEF Execute
  <1>12. UseCapability(c) \/ Escalate(c) =>
           Skip(c) \/ \E pc \in {"mark", "escalate", "capability", "load", "event"} : Work(c, pc)
    BY DEF UseCapability, Escalate
  <1>13. CASE LookUpPlan(c) BY <1>3, <1>13 DEF LookUpPlan
  <1>14. CASE \E own \in Operations(Turn(c), x.open) : StorePlan(c, own)
    BY <1>3, <1>14 DEF StorePlan
  <1> QED BY <1>2, <1>4, <1>5, <1>6, <1>7, <1>8, <1>9, <1>11, <1>12, <1>13, <1>14, <1>15
         DEF CycleStep

LEMMA DeskActsPassively ==
  ASSUME ActInv, NEW w \in Workers, OperatorStep(w) \/ SellerStep(w) \/ TickStep(w) \/ Crash(w)
  PROVE  Acts(worker[w])'
  <1> DEFINE x == worker[w]
  <1>1. /\ RequestInv /\ worker \in [Workers -> WorkerRecords] /\ x \in WorkerRecords
    BY TableTypes DEF ActInv, ReasonInv, WorkInv
  <1> USE DEF Passive, Acting, CyclePcs, DeskPcs
  <1>2. CASE Reduction(w) BY <1>2, ReductionsActPassively
  <1>3. CASE \E pc \in {"draft", "sent", "check"}, r \in Turns : Start(w, pc, r)
    <2>1. worker'[w].pc \in {"draft", "sent", "check"}
      BY ZenonT(60), <1>1, <1>3 DEF Start, WorkerRecords
    <2> QED BY <2>1, PassiveActs
  <1>4. CASE \E pc \in {"idle", "done"} : worker' = [worker EXCEPT ![w] = Rest(pc)]
    <2>1. PICK pc \in {"idle", "done"} : worker' = [worker EXCEPT ![w] = Rest(pc)] BY <1>4
    <2>2. Rest(pc).pc = pc BY DEF Rest
    <2>3. worker'[w].pc \in {"idle", "done"} BY <1>1, <2>1, <2>2
    <2> QED BY <2>3, PassiveActs
  <1>5. CASE \E pc \in {"drop", "links", "claim"} : Step(w, pc)
    <2>1. worker'[w].pc \in {"drop", "links", "claim"} BY ZenonT(60), <1>1, <1>5 DEF Step, WorkerRecords
    <2> QED BY <2>1, PassiveActs
  <1>6. CASE AppendSent(w)
    <2>1. worker'[w].pc = "load" BY <1>1, <1>6 DEF AppendSent, WorkerRecords
    <2> QED BY <2>1, PassiveActs
  <1>7. CASE \E r, to : worker' = [worker EXCEPT ![w].pc = "answer", ![w].req = r, ![w].to = to]
    <2>1. worker'[w].pc = "answer" BY ZenonT(60), <1>1, <1>7 DEF WorkerRecords
    <2> QED BY <2>1, PassiveActs
  <1>8. CASE \E from : worker' = [worker EXCEPT ![w].pc = "move", ![w].from = from]
    <2>1. worker'[w].pc = "move" BY ZenonT(60), <1>1, <1>8 DEF WorkerRecords
    <2> QED BY <2>1, PassiveActs
  <1>9. SellerStep(w) => \/ Reduction(w) \/ AppendSent(w)
                         \/ \E pc \in {"draft", "sent", "check"}, r \in Turns : Start(w, pc, r)
                         \/ Finish(w)
    BY DEF SellerStep, CheckQuote, DraftQuote, MarkQuoteSent
  <1>10. TickStep(w) => \/ \E pc \in {"draft", "sent", "check"}, r \in Turns : Start(w, pc, r)
                        \/ \E pc \in {"drop", "links", "claim"} : Step(w, pc)
                        \/ Finish(w)
    BY DEF TickStep, TickTakes, TickChecks, TickReads, TickDrops, TickClaims
  <1>11. OperatorStep(w) =>
           \/ \E r, to : worker' = [worker EXCEPT ![w].pc = "answer", ![w].req = r, ![w].to = to]
           \/ \E from : worker' = [worker EXCEPT ![w].pc = "move", ![w].from = from]
           \/ Finish(w)
    BY DEF OperatorStep, CloseEscalation, LoadEscalated, MoveEscalated
  <1> QED BY <1>2, <1>3, <1>4, <1>5, <1>6, <1>7, <1>8, <1>9, <1>10, <1>11 DEF Finish, Crash

LEMMA StepsActForReasons ==
  ASSUME ActInv, Next, NEW w \in Workers
  PROVE  Acts(worker[w])'
  <1>1. RequestInv /\ worker \in [Workers -> WorkerRecords] BY TableTypes DEF ActInv, WorkInv
  <1>2. CASE UNCHANGED worker BY <1>2, OthersKeepActing
  <1>3. ASSUME NEW v \in Workers,
               \/ v \in Cycles /\ CycleStep(v)
               \/ OperatorStep(v) \/ SellerStep(v) \/ TickStep(v) \/ Crash(v),
               WorkerStep(v)
        PROVE  Acts(worker[w])'
    <2>1. CASE v = w BY <1>3, <2>1, CyclesActForReasons, DeskActsPassively
    <2>2. CASE v # w BY <1>1, <1>3, <2>2, OthersStay, OthersKeepActing
    <2> QED BY <2>1, <2>2
  <1>4. StatusMoves BY <1>1, StepsMoveTables DEF TablesMove
  <1>5. CASE \E c \in Cycles : CycleStep(c)
    <2>1. PICK c \in Cycles : CycleStep(c) BY <1>5
    <2>2. c \in Workers /\ WorkerStep(c)
      BY <1>1, <1>4, <2>1, CyclesAreWorkers, CyclesMoveWorkers
    <2> QED BY <1>3, <2>1, <2>2
  <1>6. CASE \E o \in Operators : OperatorStep(o)
    BY <1>1, <1>3, <1>4, <1>6, OperatorsMoveWorkers DEF Workers
  <1>7. CASE \E s \in Sellers : SellerStep(s)
    BY <1>1, <1>3, <1>4, <1>7, SellersMoveWorkers DEF Workers
  <1>8. CASE \E k \in Ticks : TickStep(k)
    BY <1>1, <1>3, <1>4, <1>8, TicksMoveWorkers DEF Workers
  <1>9. CASE \E r \in Turns : Schedule(r) \/ \E v \in Versions(r) : DecideQuote(r, v)
    BY <1>2, <1>9 DEF Schedule, DecideQuote
  <1>10. CASE \E v \in Workers : Crash(v)
    <2>1. PICK v \in Workers : Crash(v) BY <1>10
    <2>2. PICK pc \in {"done", "idle"} : worker' = [worker EXCEPT ![v] = Rest(pc)]
      BY <2>1 DEF Crash
    <2> QED BY <1>1, <1>3, <2>1, <2>2, RestingSteps
  <1> QED BY <1>5, <1>6, <1>7, <1>8, <1>9, <1>10 DEF Next

\* An event is recorded for a request that has a row, and it is one event.
EventsMove ==
  \/ UNCHANGED events
  \/ \E r \in Turns, e \in Events : status[r] # "none" /\ events' = [events EXCEPT ![r] = @ \cup {e}]

LEMMA StepsMoveEvents ==
  ASSUME RequestInv, Next
  PROVE  EventsMove
  <1>1. CASE \E c \in Cycles : CycleStep(c)
    <2>1. PICK c \in Cycles : CycleStep(c) BY <1>1
    <2>2. c \in Workers BY CyclesAreWorkers
    <2>3. CASE UseCapability(c) \/ AppendEscalated(c)
      <3>1. worker[c].req \in Turns /\ status[worker[c].req] # "none"
        BY <2>2, <2>3, WorkerFacts DEF UseCapability, AppendEscalated, Knows, Working
      <3>2. \/ UNCHANGED events
            \/ \E e \in Events : events' = [events EXCEPT ![worker[c].req] = @ \cup {e}]
        <4>1. CASE UseCapability(c) BY <4>1, EmitsAnEvent DEF UseCapability
        <4>2. CASE AppendEscalated(c) BY <4>2 DEF AppendEscalated, Events
        <4> QED BY <2>3, <4>1, <4>2
      <3> QED BY <3>1, <3>2 DEF EventsMove
    <2>4. CASE ~(UseCapability(c) \/ AppendEscalated(c))
      BY <2>1, <2>4 DEF CycleStep, BeginCycle, LookUpPlan, StorePlan, Apply, ApplyFails,
           CancelRequest, StoreFact, Activate, Reduction, LoadRequest, ReadTrail, SwapStatus,
           Execute, Escalate, MarkPlan, EventsMove
    <2> QED BY <2>3, <2>4
  <1>2. CASE \E s \in Sellers : SellerStep(s)
    <2>1. PICK s \in Sellers : SellerStep(s) BY <1>2
    <2>2. CASE AppendSent(s)
      <3>1. worker[s].req \in Turns /\ status[worker[s].req] # "none"
        BY <2>2, WorkerFacts DEF AppendSent, Knows, Working, Workers
      <3>2. \/ UNCHANGED events
            \/ \E e \in Events : events' = [events EXCEPT ![worker[s].req] = @ \cup {e}]
        BY <2>2 DEF AppendSent, Events
      <3> QED BY <3>1, <3>2 DEF EventsMove
    <2>3. CASE ~AppendSent(s)
      BY <2>1, <2>3 DEF SellerStep, CheckQuote, DraftQuote, MarkQuoteSent, Reduction, LoadRequest,
                        ReadTrail, SwapStatus, EventsMove
    <2> QED BY <2>2, <2>3
  <1>3. CASE \/ \E o \in Operators : OperatorStep(o)
             \/ \E k \in Ticks : TickStep(k)
             \/ \E r \in Turns : Schedule(r) \/ \E v \in Versions(r) : DecideQuote(r, v)
             \/ \E w \in Workers : Crash(w)
    BY <1>3 DEF OperatorStep, CloseEscalation, LoadEscalated, MoveEscalated, TickStep, TickTakes,
                TickChecks, TickReads, TickDrops, TickClaims, Schedule, DecideQuote, Crash, EventsMove
  <1> QED BY <1>1, <1>2, <1>3 DEF Next

\* What a step makes of the quotes: it drafts a version of one request, or gives one of
\* its versions a new status.
QuoteMoved(r, v, new) ==
  /\ quotes[r][v] \in {"draft", "sent"}
  /\ new \in QuoteStatuses /\ (new = "accepted" => quotes[r][v] = "sent")
  /\ quotes' = [quotes EXCEPT ![r][v] = new]
Drafted(r) == Len(quotes[r]) < MaxVersions /\ quotes' = [quotes EXCEPT ![r] = WithDraft(@)]

LEMMA StepsMoveQuotes ==
  ASSUME RequestInv, Next
  PROVE  \/ UNCHANGED quotes
         \/ \E r \in Turns :
              Drafted(r) \/ \E v \in Versions(r), new \in QuoteStatuses : QuoteMoved(r, v, new)
  <1>1. CASE \E s \in Sellers : SellerStep(s)
    <2>1. PICK s \in Sellers : SellerStep(s) BY <1>1
    <2>2. CASE DraftQuote(s)
      <3>1. worker[s].req \in Turns BY <2>2, WorkerFacts DEF DraftQuote, Knows, Working, Workers
      <3> QED BY <2>2, <3>1 DEF DraftQuote, Drafted
    <2>3. CASE \E r \in Turns : \E v \in Versions(r) : MarkQuoteSent(s, r, v)
      <3>1. PICK r \in Turns : \E v \in Versions(r) : MarkQuoteSent(s, r, v) BY <2>3
      <3>2. PICK v \in Versions(r) : MarkQuoteSent(s, r, v) BY <3>1
      <3>3. "sent" \in QuoteStatuses /\ QuoteMoved(r, v, "sent")
        BY <3>2 DEF MarkQuoteSent, SetVersion, QuoteMoved, QuoteStatuses, Current
      <3> QED BY <3>2, <3>3
    <2> QED BY <2>1, <2>2, <2>3 DEF SellerStep, CheckQuote, AppendSent, Reduction, LoadRequest,
                                   ReadTrail, SwapStatus, desk
  <1>2. CASE \E r \in Turns : Schedule(r) \/ \E v \in Versions(r) : DecideQuote(r, v)
    <2>1. PICK r \in Turns : Schedule(r) \/ \E v \in Versions(r) : DecideQuote(r, v) BY <1>2
    <2>2. CASE Schedule(r) BY <2>2 DEF Schedule
    <2>3. CASE \E v \in Versions(r) : DecideQuote(r, v)
      <3>1. PICK v \in Versions(r) : DecideQuote(r, v) BY <2>3
      <3>2. \E new \in QuoteStatuses : QuoteMoved(r, v, new)
        BY <3>1 DEF DecideQuote, Expires, SetVersion, QuoteMoved, QuoteStatuses, Current
      <3> QED BY <3>1, <3>2
    <2> QED BY <2>1, <2>2, <2>3
  <1>3. CASE \E c \in Cycles : CycleStep(c)
    <2>1. PICK c \in Cycles : CycleStep(c) BY <1>3
    <2>2. CASE \/ BeginCycle(c) \/ LookUpPlan(c)
               \/ \E own \in Operations(Turn(c), worker[c].open) : StorePlan(c, own)
      BY <2>2 DEF BeginCycle, LookUpPlan, StorePlan, desk
    <2>3. CASE \/ Apply(c) \/ ApplyFails(c) \/ CancelRequest(c) \/ StoreFact(c) \/ Activate(c)
      BY <2>3 DEF Apply, ApplyFails, CancelRequest, StoreFact, Activate, desk
    <2>4. CASE Reduction(c) BY <2>4 DEF Reduction, LoadRequest, ReadTrail, SwapStatus, desk
    <2>5. CASE \/ Execute(c) \/ UseCapability(c) \/ Escalate(c) \/ AppendEscalated(c)
               \/ MarkPlan(c)
      BY <2>5 DEF Execute, UseCapability, Escalate, AppendEscalated, MarkPlan, desk
    <2> QED BY <2>1, <2>2, <2>3, <2>4, <2>5 DEF CycleStep
  <1>4. CASE \/ \E o \in Operators : OperatorStep(o)
             \/ \E k \in Ticks : TickStep(k)
             \/ \E w \in Workers : Crash(w)
    BY <1>4 DEF OperatorStep, CloseEscalation, LoadEscalated, MoveEscalated, TickStep, TickTakes,
                TickChecks, TickReads, TickDrops, TickClaims, Crash, desk
  <1> QED BY <1>1, <1>2, <1>3, <1>4 DEF Next

\* A draft adds one version and agrees to nothing.
LEMMA DraftsAgreeNothing ==
  ASSUME NEW old \in Seq(QuoteStatuses)
  PROVE  /\ Len(WithDraft(old)) \in Nat /\ Len(WithDraft(old)) <= Len(old) + 1
         /\ \A v : Accepted(WithDraft(old), v) <=> Accepted(old, v)
  <1> DEFINE s == Superseded(old)
  <1>1. /\ s \in Seq(QuoteStatuses) /\ Len(s) = Len(old) /\ Len(old) \in Nat
        /\ \A v \in 1..Len(old) : s[v] = IF old[v] \in {"draft", "sent"} THEN "superseded" ELSE old[v]
        /\ DOMAIN old = 1..Len(old) /\ DOMAIN s = 1..Len(old)
    BY SupersededIsShaped
  <1>2. CASE \E v \in DOMAIN old : s[v] \in Current
    BY <1>1, <1>2 DEF WithDraft
  <1>3. CASE ~ \E v \in DOMAIN old : s[v] \in Current
    <2>1. WithDraft(old) = Append(s, "draft") BY <1>3 DEF WithDraft
    <2> HIDE DEF s
    <2>2. /\ Len(WithDraft(old)) = Len(old) + 1
          /\ DOMAIN WithDraft(old) = 1..(Len(old) + 1)
          /\ \A v \in 1..Len(old) : WithDraft(old)[v] = s[v]
          /\ WithDraft(old)[Len(old) + 1] = "draft"
      BY <1>1, <2>1, QuoteStatusesAre
    <2>3. \A v \in 1..Len(old) : s[v] # "accepted" /\ old[v] # "accepted"
      BY <1>1, <1>3 DEF Current
    <2>4. \A v : ~Accepted(old, v) BY <1>1, <2>3 DEF Accepted
    <2>5. \A v : ~Accepted(WithDraft(old), v)
      <3> SUFFICES ASSUME NEW v \in DOMAIN WithDraft(old) PROVE WithDraft(old)[v] # "accepted"
        BY DEF Accepted
      <3>1. v \in 1..Len(old) \/ v = Len(old) + 1 BY <1>1, <2>2
      <3> QED BY <2>2, <2>3, <3>1
    <2> QED BY <1>1, <2>2, <2>4, <2>5
  <1> QED BY <1>2, <1>3

LEMMA NextKeepsReasons ==
  ASSUME ActInv, Next
  PROVE  ReasonInv'
  <1>1. WorkInv /\ RequestInv /\ SingleQuotes BY DEF ActInv, WorkInv
  <1>3. StatusMoves /\ QuotesMove BY <1>1, StepsMoveTables DEF TablesMove
  <1>5. ASSUME NEW r \in Turns PROVE EventsKnow(r)'
    <2>1. EventsKnow(r) /\ EventsMove BY <1>1, StepsMoveEvents DEF ActInv, ReasonInv
    <2>2. events'[r] = events[r] \/ status[r] # "none"
      BY <1>1, <2>1, TableTypes DEF EventsMove
    <2>3. status[r] # "none" => status'[r] # "none" BY <1>1, <1>3, RowsStay
    <2> QED BY <2>1, <2>2, <2>3 DEF EventsKnow
  <1>6. ASSUME NEW r \in Turns PROVE QuotesBounded(r)'
    <2>1. QuotesBounded(r) /\ quotes \in [Turns -> Seq(QuoteStatuses)]
      BY <1>1, TableTypes DEF ActInv, ReasonInv
    <2>2. CASE UNCHANGED quotes BY <2>1, <2>2 DEF QuotesBounded
    <2>3. CASE \E q \in Turns : Drafted(q)
      <3>1. PICK q \in Turns : Drafted(q) BY <2>3
      <3>2. q # r => quotes'[r] = quotes[r] BY <2>1, <3>1 DEF Drafted
      <3>3. q = r => quotes'[r] = WithDraft(quotes[r]) /\ Len(quotes[r]) < MaxVersions
        BY <2>1, <3>1 DEF Drafted
      <3>4. Len(quotes[r]) \in Nat /\ MaxVersions \in Nat BY <2>1, BoundsAssumption
      <3>5. /\ Len(WithDraft(quotes[r])) \in Nat
            /\ Len(WithDraft(quotes[r])) <= Len(quotes[r]) + 1
        BY <2>1, DraftsAgreeNothing
      <3> QED BY <2>1, <3>2, <3>3, <3>4, <3>5 DEF QuotesBounded
    <2>4. CASE \E q \in Turns : \E v \in Versions(q), new \in QuoteStatuses : QuoteMoved(q, v, new)
      <3>1. PICK q \in Turns : \E v \in Versions(q), new \in QuoteStatuses : QuoteMoved(q, v, new)
        BY <2>4
      <3>2. PICK v \in Versions(q), new \in QuoteStatuses : QuoteMoved(q, v, new) BY <3>1
      <3>3. quotes' = [quotes EXCEPT ![q] = [quotes[q] EXCEPT ![v] = new]]
        BY <2>1, <3>2 DEF QuoteMoved
      <3>4. quotes'[r] = IF q = r THEN [quotes[r] EXCEPT ![v] = new] ELSE quotes[r]
        BY <2>1, <3>3
      <3>5. Len([quotes[q] EXCEPT ![v] = new]) = Len(quotes[q]) BY <2>1
      <3> QED BY <2>1, <3>4, <3>5 DEF QuotesBounded
    <2> QED BY <1>1, <2>2, <2>3, <2>4, StepsMoveQuotes
  <1>7. \A w \in Workers : Acts(worker[w])' BY StepsActForReasons
  <1> QED BY <1>5, <1>6, <1>7 DEF ReasonInv

LEMMA ActsHold == Spec => []ActInv
  <1>1. Init => ReasonInv
    <2> SUFFICES ASSUME Init PROVE ReasonInv OBVIOUS
    <2>1. ASSUME NEW r \in Turns PROVE EventsKnow(r) /\ QuotesBounded(r)
      <3>1. events[r] = {} /\ quotes[r] = << >> BY DEF Init
      <3>2. Len(<< >>) = 0 /\ 0 <= MaxVersions BY BoundsAssumption
      <3> QED BY <3>1, <3>2 DEF EventsKnow, QuotesBounded
    <2>2. \A w \in Workers : worker[w].pc \in {"begin", "idle"}
      <3>1. ASSUME NEW pc PROVE Rest(pc).pc = pc BY DEF Rest
      <3> QED BY <3>1 DEF Init
    <2> QED BY <2>1, <2>2 DEF ReasonInv, Acts
  <1>2. ActInv /\ [Next]_vars => ReasonInv'
    <2>1. ASSUME ActInv, UNCHANGED vars PROVE ReasonInv'
      BY <2>1 DEF vars, planning, desk, ActInv, ReasonInv, EventsKnow, QuotesBounded, Acts, Kind
    <2> QED BY <2>1, NextKeepsReasons
  <1>3. AttendedInv => WorkInv BY DEF AttendedInv
  <1>4. QuoteInv => SingleQuotes BY DEF QuoteInv
  <1>5. ActInv <=> WorkInv /\ SingleQuotes /\ ReasonInv BY DEF ActInv
  <1> QED BY <1>1, <1>2, <1>3, <1>4, <1>5, AttendedHolds, QuoteInvHolds, PTL DEF Spec

-----------------------------------------------------------------------------
(* The steps of the requests are steps of their contract. *)

Trails == [r \in Turns |-> Trail(r)]
Agreements == [r \in Turns |-> Agreed(r)]
ContractView == <<status, Trails, Agreements, followup, runs>>
ContractStep == Contract!Next \/ UNCHANGED ContractView

\* A step that does one of the things the contract allows, or nothing it sees.
LEMMA AllowedSteps ==
  ASSUME NEW r \in Turns,
         \/ Contract!Move(r)
         \/ \E reason \in Contract!Reasons : Contract!Learn(r, reason)
         \/ \E v \in 1..MaxVersions : Contract!Agree(r, v)
         \/ Contract!Schedule(r) \/ Contract!Drop(r) \/ Contract!Chase(r)
  PROVE  ContractStep
  BY DEF ContractStep, ContractView, Contract!Next, Contract!contract, Trails, Agreements

\* What the contract sees depends on these tables.
LEMMA TrailsStay ==
  ASSUME UNCHANGED <<plan, events, closed>>
  PROVE  UNCHANGED Trails
  <1>1. \A r \in Turns : Trail(r)' = Trail(r) BY DEF Trail, Reason, PlannedFor, Kind
  <1> QED BY <1>1 DEF Trails

LEMMA AgreementsStay ==
  ASSUME UNCHANGED quotes
  PROVE  UNCHANGED Agreements
  BY DEF Agreements, Agreed, Versions

LEMMA QuietSteps ==
  ASSUME UNCHANGED <<plan, events, closed, status, quotes, followup, runs>>
  PROVE  ContractStep
  BY TrailsStay, AgreementsStay DEF ContractStep, ContractView

\* A reason is recorded for one request.
LEMMA LearningSteps ==
  ASSUME UNCHANGED <<status, quotes, followup, runs>>, NEW r \in Turns,
         \A q \in Turns \ {r} : Trail(q)' = Trail(q),
         \/ Trail(r)' = Trail(r)
         \/ \E reason \in Contract!Reasons : Trail(r)' = Trail(r) \cup {reason}
  PROVE  ContractStep
  <1>1. UNCHANGED Agreements BY AgreementsStay
  <1>2. CASE Trail(r)' = Trail(r)
    <2>1. \A q \in Turns : Trail(q)' = Trail(q) BY <1>2
    <2>2. UNCHANGED Trails BY <2>1 DEF Trails
    <2> QED BY <1>1, <2>2 DEF ContractStep, ContractView
  <1>3. CASE \E reason \in Contract!Reasons : Trail(r)' = Trail(r) \cup {reason}
    <2>1. PICK reason \in Contract!Reasons : Trail(r)' = Trail(r) \cup {reason} BY <1>3
    <2>2. \A q \in Turns : Trails[q] = Trail(q) /\ Trails'[q] = Trail(q)' BY DEF Trails
    <2>3. Trails' = [Trails EXCEPT ![r] = @ \cup {reason}]
      BY <2>1, <2>2 DEF Trails
    <2>4. Contract!Learn(r, reason)
      BY <1>1, <2>3 DEF Contract!Learn, Trails, Agreements
    <2> QED BY <2>4, AllowedSteps
  <1> QED BY <1>2, <1>3

\* A request is moved for a reason that is on its trail.
MovedFor(r, from, to) ==
  \/ from = "none" /\ to = "detected"
  \/ from = "detected" /\ to = "active"
  \/ "needs_facts" \in Trail(r) /\ from = "active" /\ to = "waiting_customer"
  \/ "continued" \in Trail(r) /\ from = "waiting_customer" /\ to = "active"
  \/ "escalated" \in Trail(r) /\ from \in {"active", "waiting_customer"} /\ to = "waiting_human"
  \/ "closed" \in Trail(r) /\ from = "waiting_human" /\ to = "active"
  \/ /\ Trail(r) \cap {"answered", "closed"} # {}
     /\ from \in {"active", "waiting_customer", "waiting_human"} /\ to = "resolved"
  \/ /\ "withdrawn" \in Trail(r)
     /\ from \in {"detected", "active", "waiting_customer", "waiting_human"} /\ to = "cancelled"

LEMMA MovingSteps ==
  ASSUME UNCHANGED <<plan, events, closed, quotes, followup, runs>>, NEW r \in Turns, NEW to,
         MovedFor(r, status[r], to), status' = [status EXCEPT ![r] = to]
  PROVE  ContractStep
  <1>1. UNCHANGED Trails /\ UNCHANGED Agreements BY TrailsStay, AgreementsStay
  <1>2. Trails[r] = Trail(r) BY DEF Trails
  <1>3. ASSUME NEW from, status[r] \in from PROVE Contract!Becomes(r, from, to)
    BY <1>1, <1>3 DEF Contract!Becomes, Trails, Agreements
  <1>4. Contract!Move(r)
    BY <1>2, <1>3 DEF MovedFor, Trails, Contract!Move, Contract!Create, Contract!Start, Contract!Ask,
         Contract!Resume, Contract!HandOver, Contract!Return, Contract!Resolve, Contract!Cancel,
         Contract!Open
  <1> QED BY <1>4, AllowedSteps

\* A transition that is lost, or along an edge the table does not have, changes nothing.
LEMMA TransitionSteps ==
  ASSUME RequestInv, UNCHANGED <<plan, events, closed, quotes, followup, runs>>,
         NEW r \in Turns, NEW from, NEW to, Transition(r, from, to) \/ UNCHANGED status,
         <<from, to>> \in Allowed /\ status[r] = from => MovedFor(r, from, to)
  PROVE  ContractStep
  <1>1. CASE UNCHANGED status BY <1>1, QuietSteps
  <1>2. CASE <<from, to>> \in Allowed /\ status[r] = from /\ Transition(r, from, to)
    <2>1. status' = [status EXCEPT ![r] = to] BY <1>2 DEF Transition
    <2> QED BY <1>2, <2>1, MovingSteps
  <1>3. CASE ~(<<from, to>> \in Allowed /\ status[r] = from) /\ Transition(r, from, to)
    <2>1. status' = status BY <1>3, TableTypes DEF Transition
    <2> QED BY <2>1, QuietSteps
  <1> QED BY <1>1, <1>2, <1>3

\* A turn without a plan names no row, and no events are recorded under its name.
LEMMA UnplannedHaveNoEvents ==
  ASSUME ActInv, NEW t \in Turns, plan[t] = NoPlan
  PROVE  events[t] = {} /\ status[t] = "none" /\ plan[t].op = "none" /\ plan[t].req = 0
  <1>1. NoPlan.op = "none" /\ NoPlan.req = 0 BY DEF NoPlan
  <1>2. RowKnows(t) /\ EventsKnow(t) BY DEF ActInv, ReasonInv, WorkInv
  <1> QED BY <1>1, <1>2 DEF RowKnows, EventsKnow

LEMMA StoreSteps ==
  ASSUME ActInv, NEW c \in Cycles, NEW own \in Operations(Turn(c), worker[c].open), StorePlan(c, own)
  PROVE  ContractStep
  <1> DEFINE t == Turn(c)
  <1>1. /\ t \in Turns /\ RequestInv /\ plan \in [Turns -> Plans]
        /\ own \in Plans /\ own # NoPlan /\ own.req \in Turns
    BY CyclesAreWorkers, WorkerFacts, OperationsArePlans, TableTypes DEF ActInv, WorkInv
  <1>2. /\ UNCHANGED <<status, events, closed, quotes, followup, runs>>
        /\ plan' = [plan EXCEPT ![t] = IF @ = NoPlan THEN own ELSE @]
    BY DEF StorePlan, desk
  <1>3. CASE plan[t] # NoPlan
    <2>1. plan' = plan BY <1>1, <1>2, <1>3
    <2> QED BY <1>2, <2>1, QuietSteps
  <1>4. CASE plan[t] = NoPlan
    <2>1. plan' = [plan EXCEPT ![t] = own] BY <1>2, <1>4
    <2>2. /\ plan'[t] = own /\ plan[t].op = "none"
          /\ \A q \in Turns : q # t => plan'[q] = plan[q]
      BY <1>1, <1>4, <2>1, UnplannedHaveNoEvents
    <2> HIDE DEF t
    <2>3. \A q, ops : PlannedFor(q, ops \ {"none"})' <=>
            PlannedFor(q, ops \ {"none"}) \/ (q = own.req /\ own.op \in ops \ {"none"})
      BY <1>1, <2>2 DEF PlannedFor
    <2>4. \A q : /\ PlannedFor(q, {"continue", "modify"})' <=>
                      PlannedFor(q, {"continue", "modify"})
                      \/ (q = own.req /\ own.op \in {"continue", "modify"})
                 /\ PlannedFor(q, {"cancel"})' <=>
                      PlannedFor(q, {"cancel"}) \/ (q = own.req /\ own.op \in {"cancel"})
      BY <1>1, <2>2 DEF PlannedFor
    <2>5. events[t] = {} BY <1>1, <1>4, UnplannedHaveNoEvents
    <2>6. CASE own.op = "create"
      <3>1. own.req = t BY <2>6 DEF Operations, t
      <3>2. \A q \in Turns \ {t} : Trail(q)' = Trail(q)
        BY <1>2, <2>2, <2>4, <2>6 DEF Trail, Reason, Kind
      <3>3. \/ Trail(t)' = Trail(t)
            \/ Trail(t)' = Trail(t) \cup {"needs_facts"}
        BY <1>2, <2>2, <2>4, <2>5, <2>6 DEF Trail, Reason, Kind
      <3> QED BY <1>1, <1>2, <3>2, <3>3, LearningSteps DEF Contract!Reasons
    <2>7. CASE own.op # "create"
      <3>1. own.op \in {"continue", "modify", "cancel"} BY <2>7 DEF Operations
      <3>2. \A q \in Turns : (plan'[q].op = "create" <=> plan[q].op = "create")
                             /\ (plan[q].op = "create" => plan'[q] = plan[q])
        BY <2>2, <2>7
      <3>3. \A q \in Turns \ {own.req} : Trail(q)' = Trail(q)
        BY <1>2, <2>4, <3>2 DEF Trail, Reason, Kind
      <3>4. \/ Trail(own.req)' = Trail(own.req) \cup {"continued"}
            \/ Trail(own.req)' = Trail(own.req) \cup {"withdrawn"}
        <4> DEFINE r == own.req
        <4>1. \/ /\ PlannedFor(r, {"continue", "modify"})'
                 /\ PlannedFor(r, {"cancel"})' <=> PlannedFor(r, {"cancel"})
              \/ /\ PlannedFor(r, {"cancel"})'
                 /\ PlannedFor(r, {"continue", "modify"})' <=> PlannedFor(r, {"continue", "modify"})
          BY <2>4, <3>1
        <4>2. /\ plan'[r].op = "create" <=> plan[r].op = "create"
              /\ plan[r].op = "create" => plan'[r] = plan[r]
              /\ events' = events /\ closed' = closed
          BY <1>1, <1>2, <3>2
        <4> QED BY <4>1, <4>2 DEF Trail, Reason, Kind
      <3> QED BY <1>1, <1>2, <3>3, <3>4, LearningSteps DEF Contract!Reasons
    <2> QED BY <2>6, <2>7
  <1> QED BY <1>3, <1>4

\* An event is recorded for a request: the contract learns at most one reason from it.
LEMMA EventSteps ==
  ASSUME ActInv, NEW r \in Turns, NEW e \in Events, events' = [events EXCEPT ![r] = @ \cup {e}],
         UNCHANGED <<plan, closed, status, quotes, followup, runs>>
  PROVE  ContractStep
  <1>1. events \in [Turns -> SUBSET Events] BY TableTypes DEF ActInv, WorkInv
  <1>2. /\ events'[r] = events[r] \cup {e} /\ \A q \in Turns \ {r} : events'[q] = events[q]
        /\ \A q : Kind(q)' = Kind(q)
        /\ \A q, ops : PlannedFor(q, ops)' <=> PlannedFor(q, ops)
    BY <1>1 DEF Kind, PlannedFor
  <1>3. \A q \in Turns \ {r} : Trail(q)' = Trail(q) BY <1>2 DEF Trail, Reason
  <1>4. CASE e = "escalated"
    <2>2. ASSUME plan[r].op = "create" PROVE "escalated" \notin ResolvedBy(Kind(r))
      <3>1. Kind(r) \in AllKinds BY <2>2 DEF ActInv, WorkInv, PlanNames, Kind
      <3> QED BY <3>1 DEF AllKinds, ResolvedBy
    <2>3. plan[r].op = "create" =>
            (ResolvedBy(Kind(r)) \cap events'[r] # {} <=> ResolvedBy(Kind(r)) \cap events[r] # {})
      BY <1>2, <1>4, <2>2
    <2>1. Trail(r)' = Trail(r) \cup {"escalated"}
      BY <1>2, <1>4, <2>3 DEF Trail, Reason
    <2> QED BY <1>3, <2>1, LearningSteps DEF Contract!Reasons
  <1>5. CASE e # "escalated"
    <2>1. Trail(r)' = Trail(r) \/ Trail(r)' = Trail(r) \cup {"answered"}
      <3>1. "escalated" \in events'[r] <=> "escalated" \in events[r] BY <1>2, <1>5
      <3>2. ResolvedBy(Kind(r)) \cap events[r] # {} => ResolvedBy(Kind(r)) \cap events'[r] # {}
        BY <1>2
      <3> QED BY <1>2, <3>1, <3>2 DEF Trail, Reason
    <2> QED BY <1>3, <2>1, LearningSteps DEF Contract!Reasons
  <1> QED BY <1>4, <1>5

LEMMA CloseSteps ==
  ASSUME NEW o, NEW r \in Turns, NEW outcome, CloseEscalation(o, r, outcome)
  PROVE  ContractStep
  <1>1. /\ closed' = closed \cup {r}
        /\ UNCHANGED <<plan, events, status, quotes, followup, runs>>
    BY DEF CloseEscalation, planning
  <1>2. /\ \A q : Kind(q)' = Kind(q)
        /\ \A q, ops : PlannedFor(q, ops)' <=> PlannedFor(q, ops)
    BY <1>1 DEF Kind, PlannedFor
  <1>3. \A q \in Turns \ {r} : Trail(q)' = Trail(q) BY <1>1, <1>2 DEF Trail, Reason
  <1>4. Trail(r)' = Trail(r) \cup {"closed"} BY <1>1, <1>2 DEF Trail, Reason
  <1> QED BY <1>1, <1>3, <1>4, LearningSteps DEF Contract!Reasons

\* The reasons of a reduction, an operator and the two moves of a cycle.
LEMMA SwapSteps ==
  ASSUME ActInv, NEW w \in Workers, SwapStatus(w)
  PROVE  ContractStep
  <1> DEFINE x == worker[w]
             r == x.req
  <1>1. RequestInv /\ KnowsWork(x) /\ Acts(x) BY DEF ActInv, ReasonInv, WorkInv
  <1>2. r \in Turns BY <1>1, WorkerFacts DEF SwapStatus, Knows, Working
  <1>3. /\ x.pc = "swap"
        /\ Transition(r, x.from, x.to) \/ UNCHANGED status
        /\ UNCHANGED <<plan, events, closed, quotes, followup, runs>>
    BY DEF SwapStatus, planning, desk
  <1>4. x.to \in Parked BY <1>1, <1>3 DEF KnowsWork
  <1>5. <<x.from, x.to>> \in Allowed /\ status[r] = x.from => MovedFor(r, x.from, x.to)
    <2> SUFFICES ASSUME <<x.from, x.to>> \in Allowed, status[r] = x.from
                 PROVE  MovedFor(r, x.from, x.to)
      OBVIOUS
    <2>1. RowKnows(r) /\ x.from # "none" BY <1>2, AllowedAreStatuses DEF ActInv, WorkInv, Statuses
    <2>2. plan[r].op = "create" BY <2>1 DEF RowKnows
    <2>3. CASE x.to = "waiting_customer"
      <3>1. x.from = "active" BY <2>3 DEF Allowed
      <3>2. NeedsFact(Kind(r)) BY <1>1, <1>3, <2>3 DEF KnowsWork
      <3>3. "needs_facts" \in Trail(r) BY <2>2, <3>2 DEF Trail, Reason
      <3> QED BY <2>3, <3>1, <3>3 DEF MovedFor
    <2>4. CASE x.to = "waiting_human"
      <3>1. x.from \in {"active", "waiting_customer"} BY <2>4 DEF Allowed
      <3>2. "escalated" \in events[r] BY <1>1, <1>3, <2>4 DEF Acts
      <3>3. "escalated" \in Trail(r) BY <3>2 DEF Trail, Reason
      <3> QED BY <2>4, <3>1, <3>3 DEF MovedFor
    <2>5. CASE x.to = "resolved"
      <3>1. x.from \in {"active", "waiting_customer", "waiting_human"} BY <2>5 DEF Allowed
      <3>2. ResolvedBy(Kind(r)) \cap events[r] # {} BY <1>1, <1>3, <2>5 DEF Acts
      <3>3. "answered" \in Trail(r) BY <2>2, <3>2 DEF Trail, Reason
      <3> QED BY <2>5, <3>1, <3>3 DEF MovedFor
    <2> QED BY <1>4, <2>3, <2>4, <2>5 DEF Parked
  <1> QED BY <1>1, <1>2, <1>3, <1>5, TransitionSteps

LEMMA OperatorSteps ==
  ASSUME ActInv, NEW o \in Operators, OperatorStep(o)
  PROVE  ContractStep
  <1> DEFINE x == worker[o]
             r == x.req
  <1>1. RequestInv /\ KnowsWork(x) /\ o \in Workers BY DEF ActInv, WorkInv, Workers
  <1>2. CASE \E q \in Turns, outcome \in {"resolved", "active"} : CloseEscalation(o, q, outcome)
    BY <1>2, CloseSteps
  <1>3. CASE LoadEscalated(o) BY <1>3, QuietSteps DEF LoadEscalated, planning, desk
  <1>4. CASE MoveEscalated(o)
    <2>1. r \in Turns BY <1>1, <1>4, WorkerFacts DEF MoveEscalated, Knows
    <2>2. /\ x.pc = "move" /\ UNCHANGED <<plan, events, closed, quotes, followup, runs>>
          /\ \/ UNCHANGED status
             \/ /\ x.to = "resolved" \/ x.from = "waiting_human"
                /\ Transition(r, x.from, x.to)
      BY <1>4 DEF MoveEscalated, planning, desk
    <2>3. r \in closed /\ x.to \in {"resolved", "active"} BY <1>1, <2>2 DEF KnowsWork
    <2>4. "closed" \in Trail(r) BY <2>3 DEF Trail, Reason
    <2>5. CASE x.to = "resolved" \/ x.from = "waiting_human"
      <3>1. <<x.from, x.to>> \in Allowed /\ status[r] = x.from => MovedFor(r, x.from, x.to)
        BY <2>3, <2>4, <2>5 DEF MovedFor, Allowed
      <3> QED BY <1>1, <2>1, <2>2, <3>1, TransitionSteps
    <2>6. CASE UNCHANGED status BY <2>2, <2>6, QuietSteps
    <2> QED BY <2>2, <2>5, <2>6
  <1> QED BY <1>2, <1>3, <1>4 DEF OperatorStep

LEMMA CycleContractSteps ==
  ASSUME ActInv, NEW c \in Cycles, CycleStep(c)
  PROVE  ContractStep
  <1> DEFINE x == worker[c]
             r == x.req
  <1>1. /\ RequestInv /\ KnowsWork(x) /\ Acts(x) /\ c \in Workers /\ Turn(c) \in Turns
        /\ x.op # NoPlan => x.op = plan[Turn(c)]
    BY CyclesAreWorkers DEF ActInv, ReasonInv, WorkInv, PlanIsShared, Op
  <1>2. status \in [Turns -> Columns] /\ events \in [Turns -> SUBSET Events]
    BY <1>1, TableTypes
  <1>10. NoPlan.op = "none" BY DEF NoPlan
  <1>3. CASE \E own \in Operations(Turn(c), x.open) : StorePlan(c, own) BY <1>3, StoreSteps
  <1>4. CASE Apply(c)
    <2>1. r \in Turns BY <1>1, <1>4, WorkerFacts DEF Apply, Knows
    <2>2. /\ UNCHANGED <<plan, events, closed, quotes, followup, runs>>
          /\ status' = [status EXCEPT ![r] = LoadsOrCreates(x.op.op, status[r])]
      BY <1>4 DEF Apply, Op, planning
    <2>3. CASE status[r] = "none" /\ x.op.op = "create"
      <3>1. status' = [status EXCEPT ![r] = "detected"] BY <2>2, <2>3 DEF LoadsOrCreates
      <3> QED BY <2>1, <2>2, <2>3, <3>1, MovingSteps DEF MovedFor
    <2>4. CASE ~(status[r] = "none" /\ x.op.op = "create")
      <3>1. LoadsOrCreates(x.op.op, status[r]) = status[r] BY <2>4 DEF LoadsOrCreates
      <3>2. status' = status BY <1>2, <2>1, <2>2, <3>1
      <3> QED BY <2>2, <3>2, QuietSteps
    <2> QED BY <2>3, <2>4
  <1>5. CASE CancelRequest(c)
    <2>1. r \in Turns BY <1>1, <1>5, WorkerFacts DEF CancelRequest, Knows, Working
    <2>2. /\ Transition(r, x.from, "cancelled") \/ UNCHANGED status
          /\ UNCHANGED <<plan, events, closed, quotes, followup, runs>>
      BY <1>5 DEF CancelRequest, planning, desk
    <2>3. x.op.op = "cancel" /\ x.op.req = r BY <1>1, <1>5 DEF CancelRequest, Acts
    <2>4. x.op # NoPlan BY <1>10, <2>3
    <2>5. PlannedFor(r, {"cancel"}) BY <1>1, <2>3, <2>4 DEF PlannedFor
    <2>6. "withdrawn" \in Trail(r) BY <2>5 DEF Trail, Reason
    <2>7. <<x.from, "cancelled">> \in Allowed => MovedFor(r, x.from, "cancelled")
      BY <2>6 DEF Allowed, MovedFor
    <2> QED BY <1>1, <2>1, <2>2, <2>7, TransitionSteps
  <1>6. CASE Activate(c)
    <2>1. r \in Turns BY <1>1, <1>6, WorkerFacts DEF Activate, Knows, Working
    <2>2. /\ \/ UNCHANGED status
             \/ Activates(x.op.op, x.from) /\ Transition(r, x.from, "active")
          /\ UNCHANGED <<plan, events, closed, quotes, followup, runs>>
      BY <1>6 DEF Activate, Op, planning, desk
    <2>3. CASE UNCHANGED status BY <2>2, <2>3, QuietSteps
    <2>4. CASE x.from = "detected"
      <3>1. MovedFor(r, x.from, "active") BY <2>4 DEF MovedFor
      <3> QED BY <1>1, <2>1, <2>2, <3>1, TransitionSteps
    <2>5. CASE x.op.op \in {"continue", "modify"} /\ x.from = "waiting_customer"
      <3>1. x.op.req = r BY <1>1, <1>6 DEF Activate, Acts
      <3>2. x.op # NoPlan BY <1>10, <2>5
      <3>3. PlannedFor(r, {"continue", "modify"}) BY <1>1, <2>5, <3>1, <3>2 DEF PlannedFor
      <3>4. "continued" \in Trail(r) BY <3>3 DEF Trail, Reason
      <3>5. MovedFor(r, x.from, "active") BY <2>5, <3>4 DEF MovedFor
      <3> QED BY <1>1, <2>1, <2>2, <3>5, TransitionSteps
    <2> QED BY <2>2, <2>3, <2>4, <2>5 DEF Activates
  <1>7. CASE Reduction(c)
    <2>1. CASE SwapStatus(c) BY <1>1, <2>1, SwapSteps
    <2>2. CASE LoadRequest(c) \/ ReadTrail(c)
      BY <2>2, QuietSteps DEF LoadRequest, ReadTrail, planning, desk
    <2> QED BY <1>7, <2>1, <2>2 DEF Reduction
  <1>8. CASE UseCapability(c) \/ AppendEscalated(c)
    <2>1. r \in Turns
      BY <1>1, <1>8, WorkerFacts DEF UseCapability, AppendEscalated, Knows, Working
    <2>2. /\ UNCHANGED events \/ \E e \in Events : events' = [events EXCEPT ![r] = @ \cup {e}]
          /\ UNCHANGED <<plan, closed, status, quotes, followup, runs>>
      <3>1. CASE UseCapability(c) BY <3>1, EmitsAnEvent DEF UseCapability, planning
      <3>2. CASE AppendEscalated(c) BY <3>2 DEF AppendEscalated, planning, desk, Events
      <3> QED BY <1>8, <3>1, <3>2
    <2>3. CASE UNCHANGED events BY <2>2, <2>3, QuietSteps
    <2>4. CASE \E e \in Events : events' = [events EXCEPT ![r] = @ \cup {e}]
      BY <2>1, <2>2, <2>4, EventSteps
    <2> QED BY <2>2, <2>3, <2>4
  <1>9. CASE \/ BeginCycle(c) \/ LookUpPlan(c) \/ ApplyFails(c) \/ StoreFact(c) \/ Execute(c)
             \/ Escalate(c) \/ MarkPlan(c)
    <2>1. UNCHANGED <<plan, events, closed, status, quotes, followup, runs>>
      BY <1>9 DEF BeginCycle, LookUpPlan, ApplyFails, StoreFact, Execute, Escalate, MarkPlan,
                  planning, desk
    <2> QED BY <2>1, QuietSteps
  <1> QED BY <1>3, <1>4, <1>5, <1>6, <1>7, <1>8, <1>9 DEF CycleStep

\* Of the quotes the contract sees the version that was accepted.
LEMMA QuoteSteps ==
  ASSUME ActInv, UNCHANGED <<plan, events, closed, status, followup, runs>>, NEW r \in Turns,
         Drafted(r) \/ \E v \in Versions(r), new \in QuoteStatuses : QuoteMoved(r, v, new)
  PROVE  ContractStep
  <1>1. /\ quotes \in [Turns -> Seq(QuoteStatuses)] /\ QuotesKnow(r) /\ QuotesBounded(r)
        /\ OneCurrent(quotes[r])
    BY TableTypes DEF ActInv, ReasonInv, WorkInv, RequestInv, SingleQuotes
  <1>2. UNCHANGED Trails BY TrailsStay
  <1>3. \A q \in Turns : Agreements[q] = Agreed(q) /\ Agreements'[q] = Agreed(q)'
    BY DEF Agreements
  <1>4. \A q \in Turns : /\ Agreed(q) = {v \in DOMAIN quotes[q] : Accepted(quotes[q], v)}
                         /\ Agreed(q)' = {v \in DOMAIN quotes'[q] : Accepted(quotes'[q], v)}
    BY DEF Agreed, Versions, Accepted
  <1>5. ASSUME Agreed(r)' = Agreed(r), \A q \in Turns \ {r} : quotes'[q] = quotes[q]
        PROVE  ContractStep
    <2>1. \A q \in Turns : Agreed(q)' = Agreed(q) BY <1>4, <1>5
    <2>2. UNCHANGED Agreements BY <2>1 DEF Agreements
    <2> QED BY <1>2, <2>2 DEF ContractStep, ContractView
  <1>6. CASE Drafted(r)
    <2>1. quotes'[r] = WithDraft(quotes[r]) /\ \A q \in Turns \ {r} : quotes'[q] = quotes[q]
      BY <1>1, <1>6 DEF Drafted
    <2>2. \A v : Accepted(quotes'[r], v) <=> Accepted(quotes[r], v)
      BY <1>1, <2>1, DraftsAgreeNothing
    <2>3. Agreed(r)' = Agreed(r) BY <1>4, <2>2 DEF Accepted
    <2> QED BY <1>5, <2>1, <2>3
  <1>7. CASE \E v \in Versions(r), new \in QuoteStatuses : QuoteMoved(r, v, new)
    <2>1. PICK v \in Versions(r), new \in QuoteStatuses : QuoteMoved(r, v, new) BY <1>7
    <2>2. quotes' = [quotes EXCEPT ![r] = [quotes[r] EXCEPT ![v] = new]]
      BY <1>1, <2>1 DEF QuoteMoved
    <2>3. /\ quotes'[r] = [quotes[r] EXCEPT ![v] = new]
          /\ \A q \in Turns \ {r} : quotes'[q] = quotes[q]
      BY <1>1, <2>2
    <2>4. /\ DOMAIN quotes'[r] = DOMAIN quotes[r] /\ v \in DOMAIN quotes[r]
          /\ quotes[r][v] \in {"draft", "sent"} /\ quotes'[r][v] = new
          /\ \A u \in DOMAIN quotes[r] : u # v => quotes'[r][u] = quotes[r][u]
      BY <1>1, <2>1, <2>3 DEF Versions, QuoteMoved
    <2>5. CASE new # "accepted"
      <3>1. \A u : Accepted(quotes'[r], u) <=> Accepted(quotes[r], u)
        BY <2>4, <2>5 DEF Accepted
      <3>2. Agreed(r)' = Agreed(r) BY <1>4, <3>1 DEF Accepted
      <3> QED BY <1>5, <2>3, <3>2
    <2>6. CASE new = "accepted"
      <3>1. \A u \in DOMAIN quotes[r] : ~Accepted(quotes[r], u)
        BY <1>1, <2>4 DEF OneCurrent, Accepted, Current
      <3>2. Agreed(r) = {} BY <1>4, <3>1
      <3>3. Agreed(r)' = {v} BY <1>4, <2>4, <2>6, <3>1 DEF Accepted
      <3>4. \A q \in Turns \ {r} : Agreed(q)' = Agreed(q) BY <1>4, <2>3
      <3>5. Agreements' = [Agreements EXCEPT ![r] = {v}] BY <3>3, <3>4 DEF Agreements
      <3>6. status[r] # "none"
        <4>1. quotes[r] # << >> BY <2>4
        <4> QED BY <1>1, <4>1 DEF QuotesKnow
      <3>7. v \in 1..MaxVersions
        <4>1. v \in 1..Len(quotes[r]) /\ Len(quotes[r]) \in Nat BY <1>1, <2>4
        <4> QED BY <1>1, <4>1, BoundsAssumption DEF QuotesBounded
      <3>8. Contract!Agree(r, v)
        BY <1>2, <1>3, <3>2, <3>5, <3>6 DEF Contract!Agree, Trails, Agreements
      <3> QED BY <3>7, <3>8, AllowedSteps
    <2> QED BY <2>5, <2>6
  <1> QED BY <1>6, <1>7

LEMMA SellerSteps ==
  ASSUME ActInv, NEW s \in Sellers, SellerStep(s)
  PROVE  ContractStep
  <1>1. RequestInv /\ s \in Workers /\ Next BY DEF ActInv, WorkInv, Workers, Next
  <1>2. CASE AppendSent(s)
    <2>1. worker[s].req \in Turns BY <1>1, <1>2, WorkerFacts DEF AppendSent, Knows, Working
    <2>2. /\ \/ UNCHANGED events
             \/ \E e \in Events : events' = [events EXCEPT ![worker[s].req] = @ \cup {e}]
          /\ UNCHANGED <<plan, closed, status, quotes, followup, runs>>
      BY <1>2 DEF AppendSent, planning, desk, Events
    <2>3. CASE UNCHANGED events BY <2>2, <2>3, QuietSteps
    <2>4. CASE \E e \in Events : events' = [events EXCEPT ![worker[s].req] = @ \cup {e}]
      BY <2>1, <2>2, <2>4, EventSteps
    <2> QED BY <2>2, <2>3, <2>4
  <1>3. CASE SwapStatus(s) BY <1>1, <1>3, SwapSteps
  <1>4. CASE \/ \E r \in Turns : CheckQuote(s, r)
             \/ DraftQuote(s)
             \/ \E r \in Turns : \E v \in Versions(r) : MarkQuoteSent(s, r, v)
             \/ LoadRequest(s) \/ ReadTrail(s)
    <2>1. UNCHANGED <<plan, events, closed, status, followup, runs>>
      BY <1>4 DEF CheckQuote, DraftQuote, MarkQuoteSent, LoadRequest, ReadTrail, planning, desk
    <2>2. CASE UNCHANGED quotes BY <2>1, <2>2, QuietSteps
    <2>3. CASE ~UNCHANGED quotes BY <1>1, <2>1, <2>3, StepsMoveQuotes, QuoteSteps
    <2> QED BY <2>2, <2>3
  <1> QED BY <1>2, <1>3, <1>4 DEF SellerStep, Reduction

LEMMA FollowupSteps ==
  ASSUME RequestInv, UNCHANGED <<plan, events, closed, status, quotes>>, NEW r \in Turns,
         \/ UNCHANGED <<followup, runs>>
         \/ /\ followup[r] = "none" /\ status[r] # "none" /\ UNCHANGED runs
            /\ followup' = [followup EXCEPT ![r] = "scheduled"]
         \/ /\ followup[r] = "scheduled" /\ UNCHANGED runs
            /\ followup' = [followup EXCEPT ![r] = "cancelled"]
         \/ /\ followup[r] = "scheduled" /\ runs' = [runs EXCEPT ![r] = @ + 1]
            /\ followup' = [followup EXCEPT ![r] = "executed"]
  PROVE  ContractStep
  <1>1. UNCHANGED Trails /\ UNCHANGED Agreements BY TrailsStay, AgreementsStay
  <1>2. CASE UNCHANGED <<followup, runs>> BY <1>2, QuietSteps
  <1>3. CASE ~UNCHANGED <<followup, runs>>
    <2>1. Contract!Schedule(r) \/ Contract!Drop(r) \/ Contract!Chase(r)
      BY <1>1, <1>3 DEF Contract!Schedule, Contract!Drop, Contract!Chase, Trails, Agreements
    <2> QED BY <2>1, AllowedSteps
  <1> QED BY <1>2, <1>3

LEMMA TickSteps ==
  ASSUME RequestInv, NEW k \in Ticks, TickStep(k)
  PROVE  ContractStep
  <1>1. k \in Workers BY DEF Workers
  <1>2. /\ followup \in [Turns -> {"none", "scheduled", "cancelled", "executed"}]
        /\ runs \in [Turns -> Nat]
    BY TableTypes
  <1>3. CASE TickDrops(k)
    <2>1. worker[k].req \in Turns BY <1>1, <1>3, WorkerFacts DEF TickDrops, Knows
    <2>2. UNCHANGED <<plan, events, closed, status, quotes, runs>>
      BY <1>3 DEF TickDrops, planning
    <2>3. \/ UNCHANGED followup
          \/ followup[worker[k].req] = "scheduled"
             /\ followup' = [followup EXCEPT ![worker[k].req] = "cancelled"]
      BY <1>2, <1>3, <2>1 DEF TickDrops
    <2> QED BY <2>1, <2>2, <2>3, FollowupSteps
  <1>4. CASE TickClaims(k)
    <2>1. worker[k].req \in Turns BY <1>1, <1>4, WorkerFacts DEF TickClaims, Knows
    <2>2. UNCHANGED <<plan, events, closed, status, quotes>> BY <1>4 DEF TickClaims, planning
    <2>3. \/ UNCHANGED <<followup, runs>>
          \/ /\ followup[worker[k].req] = "scheduled"
             /\ followup' = [followup EXCEPT ![worker[k].req] = "executed"]
             /\ runs' = [runs EXCEPT ![worker[k].req] = @ + 1]
      BY <1>4 DEF TickClaims, Claims
    <2> QED BY <2>1, <2>2, <2>3, FollowupSteps
  <1>5. CASE (\E r \in Turns : TickTakes(k, r)) \/ TickChecks(k) \/ TickReads(k)
    <2>1. UNCHANGED <<plan, events, closed, status, quotes, followup, runs>>
      BY <1>5 DEF TickTakes, TickChecks, TickReads, planning, desk
    <2> QED BY <2>1, QuietSteps
  <1> QED BY <1>3, <1>4, <1>5 DEF TickStep

LEMMA StepsKeepContract ==
  ASSUME ActInv, [Next]_vars
  PROVE  ContractStep
  <1>1. RequestInv BY DEF ActInv, WorkInv
  <1>2. CASE UNCHANGED vars BY <1>2, QuietSteps DEF vars, planning, desk
  <1>3. CASE \E c \in Cycles : CycleStep(c) BY <1>3, CycleContractSteps
  <1>4. CASE \E o \in Operators : OperatorStep(o) BY <1>4, OperatorSteps
  <1>5. CASE \E s \in Sellers : SellerStep(s) BY <1>5, SellerSteps
  <1>6. CASE \E k \in Ticks : TickStep(k) BY <1>1, <1>6, TickSteps
  <1>7. CASE \E r \in Turns : Schedule(r)
    <2>1. PICK r \in Turns : Schedule(r) BY <1>7
    <2>2. /\ UNCHANGED <<plan, events, closed, status, quotes, runs>>
          /\ followup[r] = "none" /\ status[r] # "none"
          /\ followup' = [followup EXCEPT ![r] = "scheduled"]
      BY <2>1 DEF Schedule, Exists, planning
    <2> QED BY <1>1, <2>2, FollowupSteps
  <1>8. CASE \E r \in Turns : \E v \in Versions(r) : DecideQuote(r, v)
    <2>1. UNCHANGED <<plan, events, closed, status, followup, runs>> /\ Next
      BY <1>8 DEF DecideQuote, planning, Next
    <2>2. CASE UNCHANGED quotes BY <2>1, <2>2, QuietSteps
    <2>3. CASE ~UNCHANGED quotes BY <1>1, <2>1, <2>3, StepsMoveQuotes, QuoteSteps
    <2> QED BY <2>2, <2>3
  <1>9. CASE \E w \in Workers : Crash(w) BY <1>9, QuietSteps DEF Crash, planning, desk
  <1> QED BY <1>2, <1>3, <1>4, <1>5, <1>6, <1>7, <1>8, <1>9 DEF Next

\* Whoever works on a request, whatever was read before, lost or left undone: its status
\* changes for a reason that was recorded, what is resolved or cancelled stays so, one
\* quote is agreed to for good, and the request is chased once at most.
THEOREM RequestsKeepTheirContract == Spec => KeepsRequestContract
  <1>1. Init => Contract!Init
    <2> SUFFICES ASSUME Init PROVE Contract!Init OBVIOUS
    <2>1. ASSUME NEW r \in Turns PROVE Trail(r) = {} /\ Agreed(r) = {}
      <3>1. NoPlan.op = "none" BY DEF NoPlan
      <3>2. /\ \A t \in Turns : plan[t].op = "none"
            /\ events[r] = {} /\ closed = {} /\ quotes[r] = << >>
        BY <3>1 DEF Init
      <3>3. \A ops \in {{"continue", "modify"}, {"cancel"}} : ~PlannedFor(r, ops)
        BY <3>2 DEF PlannedFor
      <3> QED BY <3>2, <3>3 DEF Trail, Reason, Agreed, Versions
    <2> QED BY <2>1 DEF Init, Contract!Init
  <1>2. ActInv /\ [Next]_vars => [Contract!Next]_(Contract!contract)
    BY StepsKeepContract DEF ContractStep, ContractView, Trails, Agreements, Contract!contract
  <1> QED BY <1>1, <1>2, ActsHold, PTL DEF Spec, KeepsRequestContract, Contract!Spec

-----------------------------------------------------------------------------
(* A kind of request that the program never resolves. *)

NeverResolved(r) == Kind(r) = "warranty" => status[r] # "resolved"

\* The answer that would resolve a warranty is recorded for requests of information
\* only, and what an operator closes is a complaint.
WarrantyKnows(r) ==
  /\ "information_provided" \in events[r] => Kind(r) = "information"
  /\ r \in closed => Kind(r) = "complaint" /\ status[r] # "none"
  /\ NeverResolved(r)
WarrantyInv == ActInv /\ \A r \in Turns : WarrantyKnows(r)

LEMMA ResolvedForAReason ==
  ASSUME ActInv, Next, NEW r \in Turns, status'[r] = "resolved", status[r] # "resolved"
  PROVE  r \in closed \/ ResolvedBy(Kind(r)) \cap events[r] # {}
  <1>1. ContractStep /\ status \in [Turns -> Columns]
    BY StepsKeepContract, TableTypes DEF ActInv, WorkInv
  <1>2. PICK q \in Turns : Contract!Move(q)
    BY <1>1 DEF ContractStep, ContractView, Contract!Next, Contract!Learn, Contract!Agree,
       Contract!Schedule, Contract!Drop, Contract!Chase
  <1>3. Contract!Resolve(q) /\ q = r
    BY <1>1, <1>2 DEF Contract!Move, Contract!Create, Contract!Start, Contract!Ask, Contract!Resume,
       Contract!HandOver, Contract!Return, Contract!Resolve, Contract!Cancel, Contract!Becomes
  <1>4. Trail(r) \cap {"answered", "closed"} # {} BY <1>3 DEF Contract!Resolve
  <1> QED BY <1>4 DEF Trail, Reason

LEMMA InformationAnswersItself ==
  ASSUME WorkInv, Next, NEW r \in Turns,
         "information_provided" \in events'[r], "information_provided" \notin events[r]
  PROVE  Kind(r) = "information" /\ status[r] # "none"
  <1>1. RequestInv /\ events \in [Turns -> SUBSET Events] BY TableTypes DEF WorkInv
  <1>2. CASE \E c \in Cycles : UseCapability(c)
    <2>1. PICK c \in Cycles : UseCapability(c) BY <1>2
    <2> DEFINE q == worker[c].req
    <2>2. q \in Turns /\ status[q] # "none"
      BY <1>1, <2>1, CyclesAreWorkers, WorkerFacts DEF UseCapability, Knows, Working
    <2>3. events' = [events EXCEPT ![q] = @ \cup {Emits(Kind(q))}] \/ UNCHANGED events
      BY <2>1 DEF UseCapability
    <2> HIDE DEF q
    <2>4. q = r /\ Emits(Kind(q)) = "information_provided" BY <1>1, <2>2, <2>3
    <2> QED BY <2>2, <2>4 DEF Emits
  <1>3. CASE \E c \in Cycles : AppendEscalated(c)
    <2>1. PICK c \in Cycles : AppendEscalated(c) BY <1>3
    <2>2. worker[c].req \in Turns
      BY <1>1, <2>1, CyclesAreWorkers, WorkerFacts DEF AppendEscalated, Knows, Working
    <2>3. events' = [events EXCEPT ![worker[c].req] = @ \cup {"escalated"}] \/ UNCHANGED events
      BY <2>1 DEF AppendEscalated
    <2> QED BY <1>1, <2>2, <2>3
  <1>4. CASE \E s \in Sellers : AppendSent(s)
    <2>1. PICK s \in Sellers : AppendSent(s) BY <1>4
    <2>2. worker[s].req \in Turns
      BY <1>1, <2>1, WorkerFacts DEF AppendSent, Knows, Working, Workers
    <2>3. events' = [events EXCEPT ![worker[s].req] = @ \cup {"quote_sent"}] \/ UNCHANGED events
      BY <2>1 DEF AppendSent
    <2> QED BY <1>1, <2>2, <2>3
  <1>5. \A w : Reduction(w) => UNCHANGED events
    BY DEF Reduction, LoadRequest, ReadTrail, SwapStatus
  <1>6. ASSUME NEW c \in Cycles, CycleStep(c), ~UseCapability(c), ~AppendEscalated(c)
        PROVE  UNCHANGED events
    BY <1>5, <1>6 DEF CycleStep, BeginCycle, LookUpPlan, StorePlan, Apply, ApplyFails,
       CancelRequest, StoreFact, Activate, Execute, Escalate, MarkPlan
  <1>7. ASSUME NEW s \in Sellers, SellerStep(s), ~AppendSent(s) PROVE UNCHANGED events
    BY <1>5, <1>7 DEF SellerStep, CheckQuote, DraftQuote, MarkQuoteSent
  <1>8. ASSUME \/ \E o \in Operators : OperatorStep(o)
               \/ \E k \in Ticks : TickStep(k)
               \/ \E q \in Turns : Schedule(q) \/ \E v \in Versions(q) : DecideQuote(q, v)
               \/ \E w \in Workers : Crash(w)
        PROVE  UNCHANGED events
    BY <1>8 DEF OperatorStep, CloseEscalation, LoadEscalated, MoveEscalated, TickStep, TickTakes,
                TickChecks, TickReads, TickDrops, TickClaims, Schedule, DecideQuote, Crash
  <1> QED BY <1>2, <1>3, <1>4, <1>6, <1>7, <1>8 DEF Next

LEMMA OnlyComplaintsAreClosed ==
  ASSUME WorkInv, Next, NEW r \in Turns, r \in closed', r \notin closed
  PROVE  Kind(r) = "complaint" /\ status[r] # "none"
  <1>1. CASE \E o \in Operators : OperatorStep(o)
    <2>1. PICK o \in Operators : OperatorStep(o) BY <1>1
    <2>2. PICK q \in Turns, outcome \in {"resolved", "active"} : CloseEscalation(o, q, outcome)
      BY <2>1 DEF OperatorStep, LoadEscalated, MoveEscalated, desk
    <2>3. q = r /\ open[r] > 0 BY <2>2 DEF CloseEscalation
    <2> QED BY <2>3 DEF WorkInv, RowKnows
  <1>2. \A w : Reduction(w) => UNCHANGED closed
    BY DEF Reduction, LoadRequest, ReadTrail, SwapStatus, desk
  <1>3. ASSUME NEW c \in Cycles, CycleStep(c) PROVE UNCHANGED closed
    BY <1>2, <1>3 DEF CycleStep, BeginCycle, LookUpPlan, StorePlan, Apply, ApplyFails,
       CancelRequest, StoreFact, Activate, Execute, UseCapability, Escalate, AppendEscalated,
       MarkPlan, desk
  <1>4. ASSUME NEW s \in Sellers, SellerStep(s) PROVE UNCHANGED closed
    BY <1>2, <1>4 DEF SellerStep, CheckQuote, DraftQuote, AppendSent, MarkQuoteSent, desk
  <1>5. ASSUME \/ \E k \in Ticks : TickStep(k)
               \/ \E q \in Turns : Schedule(q) \/ \E v \in Versions(q) : DecideQuote(q, v)
               \/ \E w \in Workers : Crash(w)
        PROVE  UNCHANGED closed
    BY <1>5 DEF TickStep, TickTakes, TickChecks, TickReads, TickDrops, TickClaims, Schedule,
                DecideQuote, Crash, desk
  <1> QED BY <1>1, <1>3, <1>4, <1>5 DEF Next

LEMMA NextKeepsWarranties ==
  ASSUME WarrantyInv, Next, NEW r \in Turns
  PROVE  WarrantyKnows(r)'
  <1>1. ActInv /\ WorkInv /\ RequestInv /\ WarrantyKnows(r) /\ EventsKnow(r)
    BY DEF WarrantyInv, ActInv, ReasonInv, WorkInv
  <1>2. CASE status[r] = "none"
    <2>1. events[r] = {} /\ r \notin closed BY <1>1, <1>2 DEF EventsKnow, WarrantyKnows
    <2>2. "information_provided" \notin events'[r]
      BY <1>1, <1>2, <2>1, InformationAnswersItself
    <2>3. r \notin closed' BY <1>1, <1>2, <2>1, OnlyComplaintsAreClosed
    <2>4. status'[r] # "resolved"
      BY <1>1, <1>2, <2>1, ResolvedForAReason
    <2> QED BY <2>2, <2>3, <2>4 DEF WarrantyKnows, NeverResolved
  <1>3. CASE status[r] # "none"
    <2>1. Kind(r)' = Kind(r) /\ status'[r] # "none" BY <1>1, <1>3, KindsStay
    <2>2. "information_provided" \in events'[r] => Kind(r) = "information"
      BY <1>1, InformationAnswersItself DEF WarrantyKnows
    <2>3. r \in closed' => Kind(r) = "complaint"
      BY <1>1, OnlyComplaintsAreClosed DEF WarrantyKnows
    <2>4. Kind(r) = "warranty" => status'[r] # "resolved"
      <3> SUFFICES ASSUME Kind(r) = "warranty", status'[r] = "resolved" PROVE FALSE OBVIOUS
      <3>1. status[r] # "resolved" BY <1>1 DEF WarrantyKnows, NeverResolved
      <3>2. r \in closed \/ ResolvedBy(Kind(r)) \cap events[r] # {}
        BY <1>1, <3>1, ResolvedForAReason
      <3>3. ResolvedBy(Kind(r)) = {"information_provided"} BY DEF ResolvedBy
      <3> QED BY <1>1, <3>2, <3>3 DEF WarrantyKnows
    <2> QED BY <2>1, <2>2, <2>3, <2>4 DEF WarrantyKnows, NeverResolved
  <1> QED BY <1>2, <1>3

\* A warranty is never resolved, whoever works on it: its capability is find_order, whose
\* answer is recorded as order_status_provided, and its definition asks for
\* information_provided (definitions.ts:90, executeReadCapability.ts:27).
THEOREM WarrantiesAreNeverResolved == Spec => [](\A r \in Turns : NeverResolved(r))
  <1>1. Init => \A r \in Turns : WarrantyKnows(r)
    BY DEF Init, WarrantyKnows, NeverResolved
  <1>2. ActInv /\ (\A r \in Turns : WarrantyKnows(r)) /\ [Next]_vars
          => (\A r \in Turns : WarrantyKnows(r))'
    <2> SUFFICES ASSUME WarrantyInv, [Next]_vars, NEW r \in Turns PROVE WarrantyKnows(r)'
      BY DEF WarrantyInv
    <2>1. CASE UNCHANGED vars
      BY <2>1 DEF vars, planning, desk, WarrantyInv, WarrantyKnows, NeverResolved, Kind
    <2> QED BY <2>1, NextKeepsWarranties
  <1>3. (\A r \in Turns : WarrantyKnows(r)) => \A r \in Turns : NeverResolved(r)
    BY DEF WarrantyKnows
  <1> QED BY <1>1, <1>2, <1>3, ActsHold, PTL DEF Spec
=============================================================================
