-------------------------- MODULE OutboxRefinement --------------------------
(***************************************************************************)
(* The outbox implements MessageContract, for any number of rows, workers, *)
(* requests and operators: every step is a step of the contract or changes *)
(* nothing the contract sees.                                              *)
(***************************************************************************)
EXTENDS OutboxSafety

ContractView == <<[r \in Rows |-> Phase(r)], accepted, lost>>
ContractStep == Contract!Next \/ UNCHANGED ContractView

\* A step that leaves the counts alone and moves rows from open to closed only.
LEMMA ConcludeStep ==
  ASSUME UNCHANGED <<accepted, lost>>,
         \A r \in Rows : Phase(r)' = Phase(r) \/ (Phase(r) = "open" /\ Phase(r)' = "closed")
  PROVE  ContractStep
<1> DEFINE S == {r \in Rows : Phase(r)' # Phase(r)}
<1>1. CASE S = {}
  <2>1. [r \in Rows |-> Phase(r)]' = [r \in Rows |-> Phase(r)]
    BY <1>1
  <2> QED
    BY <2>1 DEF ContractStep, ContractView
<1>2. CASE S # {}
  <2>1. [r \in Rows |-> Phase(r)]'
         = [m \in Rows |-> IF m \in S THEN "closed" ELSE [r \in Rows |-> Phase(r)][m]]
    OBVIOUS
  <2>2. \A m \in S : [r \in Rows |-> Phase(r)][m] = "open"
    OBVIOUS
  <2>3. Contract!Conclude(S)
    BY <1>2, <2>1, <2>2 DEF Contract!Conclude
  <2>4. S \in SUBSET Rows
    OBVIOUS
  <2> QED
    BY <2>3, <2>4 DEF ContractStep, Contract!Next
<1> QED
  BY <1>1, <1>2

\* One row is submitted.
LEMMA SubmitStep ==
  ASSUME RowTypes, UNCHANGED <<accepted, lost>>, NEW r \in Rows, status[r] = "none",
         status' = [status EXCEPT ![r] = "planned"]
  PROVE  ContractStep
<1>1. Phase(r) = "new" /\ Phase(r)' = "open"
  BY DEF Phase, RowTypes, Terminal
<1>2. \A q \in Rows : q # r => Phase(q)' = Phase(q)
  BY DEF Phase, RowTypes
<1>3. [q \in Rows |-> Phase(q)]' = [[q \in Rows |-> Phase(q)] EXCEPT ![r] = "open"]
  BY <1>1, <1>2
<1>4. Contract!Submit(r)
  BY <1>1, <1>3 DEF Contract!Submit
<1> QED
  BY <1>4 DEF ContractStep, Contract!Next

\* A provider call for a row that exists and has all its copies excused.
LEMMA CopyStep ==
  ASSUME TypeOK, status' = status, NEW r \in Rows, status[r] # "none", Excused(r),
         NEW answer \in Answers, Deliver(r, answer)
  PROVE  ContractStep
<1>1. [q \in Rows |-> Phase(q)]' = [q \in Rows |-> Phase(q)]
  BY DEF Phase
<1>2. Phase(r) # "new"
  BY DEF Phase, Terminal
<1>3. CASE answer \in {"sent", "lostAck"}
  <2>1. accepted' = [accepted EXCEPT ![r] = @ + 1]
    BY <1>3 DEF Deliver
  <2>2. lost' = lost \/ lost' = [lost EXCEPT ![r] = @ + 1]
    BY <1>3 DEF Deliver, TypeOK, ProviderTypes
  <2>3. Contract!Copy(r)
    BY <1>1, <1>2, <2>1, <2>2 DEF Contract!Copy, Excused
  <2> QED
    BY <2>3 DEF ContractStep, Contract!Next
<1>4. CASE answer \in {"unavailable", "rejected"}
  <2>1. accepted' = accepted /\ lost' = lost
    BY <1>4 DEF Deliver, TypeOK, ProviderTypes
  <2> QED
    BY <1>1, <2>1 DEF ContractStep, ContractView
<1> QED
  BY <1>3, <1>4 DEF Answers

\* An acceptance is written off.
LEMMA ExcuseStep ==
  ASSUME TypeOK, UNCHANGED <<status, accepted>>, NEW r \in Rows, accepted[r] > 0,
         lost' = [lost EXCEPT ![r] = @ + 1]
  PROVE  ContractStep
<1>1. [q \in Rows |-> Phase(q)]' = [q \in Rows |-> Phase(q)]
  BY DEF Phase
<1>2. Contract!Excuse(r)
  BY <1>1 DEF Contract!Excuse
<1> QED
  BY <1>2 DEF ContractStep, Contract!Next

-----------------------------------------------------------------------------
(* Who has had a copy accepted. *)

\* A tick that is about to settle a row has had a copy of it accepted.
SettledIsAccepted == \A w \in Ticks, r \in Rows : Settling(w, r) => accepted[r] > 0

\* The counts change in three steps of a tick and in one of a request.
LEMMA CountsKept ==
  ASSUME NEW w \in Ticks, TickStep(w), ~Post(w), ~Settle(w)
  PROVE  UNCHANGED <<accepted, lost>>
BY DEF TickStep, Poll, Skip, Claim, Load, Recheck, CheckOwner, Void, VoidAction,
   VoidRecord, DryRun, Book, MarkActionExecuted, RecordFailure, Requeue, GiveUp, Escalate,
   provider

LEMMA AcceptedGrows ==
  ASSUME TypeOK, [Next]_vars, NEW r \in Rows
  PROVE  accepted'[r] >= accepted[r]
<1> USE DEF TypeOK, ProviderTypes
<1>1. ASSUME NEW w \in Ticks, TickStep(w) \/ CrashTick(w) PROVE accepted'[r] >= accepted[r]
  <2>1. CASE Post(w)
    <3>1. \E answer \in Answers : Deliver(tick[w].row, answer)
      BY <2>1 DEF Post
    <3> QED
      BY <3>1, DeliverCopies
  <2>2. CASE ~Post(w)
    BY <1>1, <2>2, TickCopies
  <2> QED
    BY <2>1, <2>2
<1>2. ASSUME NEW c \in Calls, CallStep(c) \/ CrashCall(c) PROVE accepted'[r] >= accepted[r]
  <2>1. CASE CallPost(c)
    <3>1. \E answer \in Answers : Deliver(call[c].row, answer)
      BY <2>1 DEF CallPost
    <3> QED
      BY <3>1, DeliverCopies
  <2>2. CASE ~CallPost(c)
    BY <1>2, <2>2, CallCopies
  <2> QED
    BY <2>1, <2>2
<1>3. ASSUME \/ \E o \in Operators : OperatorStep(o)
             \/ \E q \in Rows : CycleStep(q) \/ BackoffElapses(q) \/ LockAges(q)
             \/ Inbound \/ WindowCloses \/ UNCHANGED vars
      PROVE  accepted'[r] >= accepted[r]
  BY <1>3, EnvCopies
<1> QED
  BY <1>1, <1>2, <1>3 DEF Next

\* A tick comes to settle by a provider call only.
LEMMA OnlyPostSettles ==
  ASSUME TypeOK, NEW w \in Ticks, TickStep(w) \/ CrashTick(w), ~Post(w)
  PROVE  tick'[w].pc # "settle"
<1> DEFINE Goal == tick'[w].pc # "settle"
<1> USE DEF TypeOK
<1>1. ASSUME Drop(w) PROVE Goal
  BY <1>1, DropFields
<1>2. ASSUME NEW pc, pc # "settle", Goto(w, pc) PROVE Goal
  BY <1>2, GotoFields
<1>3. ASSUME Poll(w) PROVE Goal
  BY <1>3 DEF Poll, TickType, TickRecords
<1>4. ASSUME NEW q \in Rows, Skip(w, q) PROVE Goal
  BY <1>4 DEF Skip, TickType, TickRecords
<1>5. ASSUME NEW q \in Rows, Claim(w, q) PROVE Goal
  <2>1. CASE tick' = [tick EXCEPT ![w].batch = @ \ {q}, ![w].pc = "load", ![w].row = q]
    BY <2>1 DEF TickType, TickRecords
  <2>2. CASE tick[w].pc = "idle" /\ tick' = [tick EXCEPT ![w].batch = @ \ {q}]
    BY <2>2 DEF TickType, TickRecords
  <2> QED
    BY <1>5, <2>1, <2>2 DEF Claim
<1>6. ASSUME Load(w) PROVE Goal
  <2>1. CASE Drop(w)
    BY <1>1, <2>1
  <2>2. CASE tick'[w].pc \in {"void", "recheck"}
    BY <2>2
  <2> QED
    BY <1>6, <2>1, <2>2 DEF Load, TickType, TickRecords
<1>7. ASSUME Recheck(w) \/ CheckOwner(w) \/ Void(w) \/ VoidAction(w) \/ VoidRecord(w) PROVE Goal
  BY <1>1, <1>2, <1>7 DEF Recheck, CheckOwner, Void, VoidAction, VoidRecord
<1>8. ASSUME DryRun(w) \/ Settle(w) \/ Book(w) \/ MarkActionExecuted(w) PROVE Goal
  BY <1>1, <1>2, <1>8 DEF DryRun, Settle, Book, MarkActionExecuted
<1>9. ASSUME Requeue(w) \/ GiveUp(w) \/ Escalate(w) PROVE Goal
  BY <1>1, <1>2, <1>9 DEF Requeue, GiveUp, Escalate
<1>10. ASSUME RecordFailure(w) PROVE Goal
  <2>1. Goto(w, "requeue") \/ Goto(w, "giveUp")
    BY <1>10 DEF RecordFailure
  <2> QED
    BY <1>2, <2>1
<1>11. ASSUME CrashTick(w) PROVE Goal
  BY <1>11 DEF CrashTick, IdleTick, TickType
<1> QED
  BY <1>3, <1>4, <1>5, <1>6, <1>7, <1>8, <1>9, <1>10, <1>11 DEF TickStep

LEMMA SettledIsAcceptedKept ==
  ASSUME TypeOK, SettledIsAccepted, [Next]_vars
  PROVE  SettledIsAccepted'
<1> SUFFICES ASSUME NEW v \in Ticks, NEW r \in Rows, Settling(v, r)'
             PROVE  accepted'[r] > 0
  BY DEF SettledIsAccepted
<1>1. accepted[r] \in Nat /\ accepted'[r] \in Nat /\ accepted'[r] >= accepted[r]
  BY AcceptedGrows, NextTypes DEF TypeOK, ProviderTypes
<1>2. CASE Settling(v, r)
  BY <1>1, <1>2 DEF SettledIsAccepted
<1>3. CASE ~Settling(v, r)
  <2>1. TickStep(v) \/ CrashTick(v)
    <3>1. ASSUME NEW w \in Ticks, w # v, TickMoves(w) \/ TickClaims(w) PROVE FALSE
      BY <1>3, <3>1 DEF TickMoves, TickClaims, Settling
    <3>2. ASSUME NEW c \in Calls, CallMoves(c) PROVE FALSE
      BY <1>3, <3>2 DEF CallMoves, Settling
    <3>3. ASSUME EnvMoves PROVE FALSE
      BY <1>3, <3>3 DEF EnvMoves, Settling
    <3> QED
      BY <3>1, <3>2, <3>3, StepKinds, TickEffects, CallEffects
  <2>2. Post(v) /\ Engaged(v, r)
    <3>1. Post(v)
      BY <2>1, OnlyPostSettles DEF Settling
    <3>2. tick'[v].row = tick[v].row
      BY <3>1 DEF Post, TypeOK, TickType, TickRecords
    <3> QED
      BY <3>1, <3>2 DEF Settling, Engaged
  <2>3. PICK answer \in Answers :
          /\ Deliver(r, answer)
          /\ tick' = [tick EXCEPT ![v].answer = answer,
                                  ![v].pc = IF answer = "sent" THEN "settle" ELSE "failure"]
    BY <2>2 DEF Post, Engaged
  <2>4. answer = "sent"
    BY <2>3 DEF Settling, TypeOK, TickType, TickRecords
  <2> QED
    BY <1>1, <2>3, <2>4 DEF Deliver, TypeOK, ProviderTypes
<1> QED
  BY <1>2, <1>3

-----------------------------------------------------------------------------
(* Every step is one of the contract. *)

RefinementInv == AccountInv /\ SettledIsAccepted

LEMMA TickImplements ==
  ASSUME RefinementInv, NEW w \in Ticks, TickStep(w) \/ CrashTick(w)
  PROVE  ContractStep
<1> USE DEF RefinementInv, AccountInv, ExclusionInv, TypeOK
<1>1. CASE Post(w)
  <2>1. PICK answer \in Answers : Deliver(tick[w].row, answer)
    BY <1>1 DEF Post
  <2>2. tick[w].row \in Rows \/ tick[w].row = NoRow
    BY DEF TickType, TickRecords
  <2>3. CASE tick[w].row \in Rows
    <3>1. BeforeSend(w, tick[w].row) /\ Engaged(w, tick[w].row)
      BY <1>1 DEF Post, BeforeSend, Engaged
    <3>2. Excused(tick[w].row) /\ status[tick[w].row] # "none"
      BY <2>3, <3>1 DEF CopiesAccounted, TicksHoldAlone, Terminal
    <3>3. status' = status
      BY <1>1 DEF Post, rowVars
    <3> QED
      BY <2>1, <2>3, <3>2, <3>3, CopyStep
  <2>4. CASE tick[w].row = NoRow
    <3>1. NoRow \notin Rows
      BY RowsAssumption DEF NoRow
    <3>2. UNCHANGED <<accepted, lost>>
      BY <2>1, <2>4, <3>1 DEF Deliver, ProviderTypes
    <3>3. status' = status
      BY <1>1 DEF Post, rowVars
    <3>4. \A r \in Rows : Phase(r)' = Phase(r)
      BY <3>3 DEF Phase
    <3> QED
      BY <3>2, <3>4, ConcludeStep
  <2> QED
    BY <2>2, <2>3, <2>4
<1>2. ASSUME UNCHANGED <<accepted, lost>> PROVE ContractStep
  <2>1. \A r \in Rows : Phase(r)' = Phase(r) \/ (Phase(r) = "open" /\ Phase(r)' = "closed")
    BY TickEffects DEF TickMoves, TickClaims, Phase, Terminal, RowTypes
  <2> QED
    BY <1>2, <2>1, ConcludeStep
<1>3. ASSUME tick[w].pc = "settle", UNCHANGED <<status, accepted>>,
             lost' = [lost EXCEPT ![tick[w].row] = @ + 1]
      PROVE  ContractStep
  <2>1. CASE tick[w].row \in Rows
    <3>1. accepted[tick[w].row] > 0
      BY <1>3, <2>1 DEF SettledIsAccepted, Settling
    <3> QED
      BY <1>3, <2>1, <3>1, ExcuseStep
  <2>2. CASE tick[w].row \notin Rows
    <3>1. lost' = lost
      BY <1>3, <2>2 DEF ProviderTypes
    <3> QED
      BY <1>2, <1>3, <3>1
  <2> QED
    BY <2>1, <2>2
<1>4. CASE Settle(w)
  <2>1. \/ UNCHANGED <<accepted, lost>>
        \/ /\ tick[w].pc = "settle" /\ UNCHANGED <<status, accepted>>
           /\ lost' = [lost EXCEPT ![tick[w].row] = @ + 1]
    BY <1>4 DEF Settle
  <2> QED
    BY <1>2, <1>3, <2>1
<1>5. CASE CrashTick(w)
  <2>1. \/ UNCHANGED <<accepted, lost>>
        \/ /\ tick[w].pc = "settle" /\ UNCHANGED <<status, accepted>>
           /\ lost' = [lost EXCEPT ![tick[w].row] = @ + 1]
    BY <1>5 DEF CrashTick, rowVars
  <2> QED
    BY <1>2, <1>3, <2>1
<1>6. CASE TickStep(w) /\ ~Post(w) /\ ~Settle(w)
  BY <1>2, <1>6, CountsKept
<1> QED
  BY <1>1, <1>4, <1>5, <1>6

LEMMA CallImplements ==
  ASSUME RefinementInv, NEW c \in Calls, CallStep(c) \/ CrashCall(c)
  PROVE  ContractStep
<1> USE DEF RefinementInv, AccountInv, ExclusionInv, TypeOK
<1>1. \A r \in Rows : Phase(r)' = Phase(r) \/ (Phase(r) = "open" /\ Phase(r)' = "closed")
  <2> SUFFICES ASSUME NEW r \in Rows
               PROVE  Phase(r)' = Phase(r) \/ (Phase(r) = "open" /\ Phase(r)' = "closed")
    OBVIOUS
  <2>1. CallKeeps(c, r) \/ CallLocks(c, r) \/ CallBegins(c, r) \/ CallEnds(c, r)
    BY CallEffects DEF CallMoves
  <2> QED
    BY <2>1 DEF CallKeeps, CallLocks, CallBegins, CallEnds, Phase, Terminal
<1>2. ASSUME UNCHANGED <<accepted, lost>> PROVE ContractStep
  BY <1>1, <1>2, ConcludeStep
<1>3. CASE CallPost(c)
  <2>1. PICK answer \in Answers : Deliver(call[c].row, answer)
    BY <1>3 DEF CallPost
  <2>2. status' = status
    BY <1>3 DEF CallPost, rowVars
  <2>3. CASE call[c].row \in Rows
    <3>1. Excused(call[c].row) /\ status[call[c].row] # "none"
      BY <1>3, <2>3 DEF CallPost, Posting, CopiesAccounted, CallsSendAlone
    <3> QED
      BY <2>1, <2>2, <2>3, <3>1, CopyStep
  <2>4. CASE call[c].row \notin Rows
    <3>1. UNCHANGED <<accepted, lost>>
      BY <2>1, <2>4 DEF Deliver, ProviderTypes
    <3> QED
      BY <1>2, <3>1
  <2> QED
    BY <2>3, <2>4
<1>4. CASE ~CallPost(c)
  <2>1. UNCHANGED <<accepted, lost>>
    BY <1>4 DEF CallStep, CrashCall, SelectPlanned, SelectStale, LockNext, LockedAll, Reread,
       RereadAll, Begin, Finalize, provider
  <2> QED
    BY <1>2, <2>1
<1> QED
  BY <1>3, <1>4

LEMMA EnvImplements ==
  ASSUME RefinementInv,
         \/ \E o \in Operators : OperatorStep(o)
         \/ \E r \in Rows : CycleStep(r) \/ BackoffElapses(r) \/ LockAges(r)
         \/ Inbound \/ WindowCloses \/ UNCHANGED vars
  PROVE  ContractStep
<1> USE DEF RefinementInv, AccountInv, ExclusionInv, TypeOK
<1>1. UNCHANGED <<accepted, lost>>
  BY EnvCopies
<1>2. ASSUME NEW r \in Rows, Gate(r) \/ PlanOperatorRow(r) PROVE ContractStep
  <2>1. status[r] = "none" /\ status' = [status EXCEPT ![r] = "planned"]
    BY <1>2 DEF Gate, PlanOperatorRow
  <2> QED
    BY <1>1, <2>1, SubmitStep
<1>3. ASSUME NEW o \in Operators, Commit(o) PROVE ContractStep
  <2>1. \A r \in Rows : Phase(r)' = Phase(r) \/ (Phase(r) = "open" /\ Phase(r)' = "closed")
    BY <1>3 DEF Commit, CancelPendingAutonomousSends, Pending, Phase, Terminal
  <2> QED
    BY <1>1, <2>1, ConcludeStep
<1>4. ASSUME status' = status PROVE ContractStep
  <2>1. \A r \in Rows : Phase(r)' = Phase(r)
    BY <1>4 DEF Phase
  <2> QED
    BY <1>1, <2>1, ConcludeStep
<1>5. ASSUME NEW o \in Operators, OperatorStep(o) PROVE ContractStep
  <2>1. ASSUME NEW command, Read(o, command) PROVE status' = status
    BY <2>1 DEF Read, rowVars
  <2>2. ASSUME SendReply(o) PROVE status' = status
    BY <2>2 DEF SendReply, rowVars
  <2> QED
    BY <1>3, <1>4, <1>5, <2>1, <2>2 DEF OperatorStep
<1>6. ASSUME NEW r \in Rows, CycleStep(r) \/ BackoffElapses(r) \/ LockAges(r) PROVE ContractStep
  <2>1. ASSUME Decide(r) \/ Propose(r) \/ BackoffElapses(r) \/ LockAges(r) PROVE status' = status
    BY <2>1 DEF Decide, Propose, BackoffElapses, LockAges, rowVars
  <2> QED
    BY <1>2, <1>4, <1>6, <2>1 DEF CycleStep
<1>7. ASSUME Inbound \/ WindowCloses \/ UNCHANGED vars PROVE ContractStep
  <2>1. status' = status
    BY <1>7 DEF Inbound, WindowCloses, vars, rowVars
  <2> QED
    BY <1>4, <2>1
<1> QED
  BY <1>5, <1>6, <1>7

LEMMA StepImplements ==
  ASSUME RefinementInv, [Next]_vars
  PROVE  ContractStep
BY TickImplements, CallImplements, EnvImplements DEF Next

\* Whatever crashes, retries and recoveries happen, the outbox keeps its contract:
\* one conclusion per message, no copy while an earlier one is unexcused.
THEOREM OutboxKeepsContract ==
  ASSUME SlowTicks = {}
  PROVE  Spec => KeepsContract
<1>1. Init => Contract!Init
  BY DEF Init, Contract!Init, Phase
<1>2. Init => SettledIsAccepted
  BY DEF Init, SettledIsAccepted, Settling, IdleTick
<1>3. Spec => []SettledIsAccepted
  BY <1>2, SettledIsAcceptedKept, TypeCorrectness, PTL DEF Spec
<1>4. RefinementInv /\ [Next]_vars => [Contract!Next]_(Contract!contract)
  BY StepImplements DEF ContractStep, ContractView, Contract!contract
<1> QED
  BY <1>1, <1>3, <1>4, AccountHolds, PTL DEF Spec, KeepsContract, Contract!Spec, RefinementInv
=============================================================================
