---------------------------- MODULE OutboxTypes ----------------------------
(***************************************************************************)
(* Type correctness of the outbox: one lemma per action, each with one     *)
(* step per part of TypeOK the action changes and one for the rest.        *)
(***************************************************************************)
EXTENDS Outbox, TLAPS

\* The fields of a typed tick and of a typed request.
LEMMA TickFields ==
  ASSUME TickType, NEW w \in Ticks
  PROVE  /\ tick[w].pc \in TickPcs /\ tick[w].batch \subseteq Rows
         /\ tick[w].row \in Rows \cup {NoRow}
         /\ tick[w].attempt \in Nat /\ ThisAttempt(w) \in Nat
         /\ tick[w].answer \in Answers
BY DEF TickType, TickRecords, ThisAttempt

LEMMA CallFields ==
  ASSUME CallType, NEW c \in Calls
  PROVE  /\ call[c].pc \in CallPcs /\ call[c].mode \in Modes
         /\ call[c].queue \subseteq Rows /\ call[c].held \subseteq Rows
         /\ call[c].row \in Rows \cup {NoRow} /\ call[c].answer \in Answers
BY DEF CallType, CallRecords

\* An execution record appended by a tick is well typed.
LEMMA RecordKeepsType ==
  ASSUME ExecutionType, NEW r, NEW n \in Nat,
         NEW o \in {"succeeded", "failed", "cancelled"}, Record(r, n, o)
  PROVE  ExecutionType'
<1> DEFINE e == [attempt |-> n, status |-> o]
<1>1. e \in ExecutionRecords
  BY DEF ExecutionRecords
<1>2. \A q \in Rows : Append(executions[q], e) \in Seq(ExecutionRecords)
  BY <1>1 DEF ExecutionType
<1>3. executions' = [executions EXCEPT ![r] = Append(@, e)]
  BY DEF Record
<1> QED
  BY <1>2, <1>3 DEF ExecutionType

\* A provider call only increments the three counters.
LEMMA DeliverKeepsType ==
  ASSUME ProviderTypes, NEW r, NEW answer, Deliver(r, answer)
  PROVE  ProviderTypes'
<1>1. posts' \in [Rows -> Nat]
  <2>1. posts' = [posts EXCEPT ![r] = @ + 1]
    BY DEF Deliver
  <2>2. posts \in [Rows -> Nat] /\ \A q \in Rows : posts[q] + 1 \in Nat
    BY DEF ProviderTypes
  <2> QED
    BY <2>1, <2>2
<1>2. accepted' \in [Rows -> Nat]
  <2>1. \/ accepted' = [accepted EXCEPT ![r] = @ + 1]
        \/ accepted' = [accepted EXCEPT ![r] = @]
    BY DEF Deliver
  <2> QED
    BY <2>1 DEF ProviderTypes
<1>3. lost' \in [Rows -> Nat]
  <2>1. \/ lost' = [lost EXCEPT ![r] = @ + 1]
        \/ lost' = [lost EXCEPT ![r] = @]
    BY DEF Deliver
  <2> QED
    BY <2>1 DEF ProviderTypes
<1> QED
  BY <1>1, <1>2, <1>3 DEF ProviderTypes

\* A limited query returns rows.
LEMMA FirstOfRows ==
  ASSUME NEW S \in SUBSET Rows, NEW n
  PROVE  FirstOf(S, n) \in SUBSET Rows
BY DEF FirstOf

LEMMA InitTypes == Init => TypeOK
<1> SUFFICES ASSUME Init PROVE TypeOK
  OBVIOUS
<1>1. RowTypes /\ ActionType /\ ConvType /\ OpType
  BY DEF Init, RowTypes, ActionType, ConvType, OpType, Statuses, ActionStatuses
<1>2. TickType /\ CallType
  BY DEF Init, TickType, TickRecords, CallType, CallRecords, IdleTick, IdleCall, TickPcs,
         CallPcs, Modes, Answers
<1>3. ProviderTypes /\ ExecutionType /\ RecordTypes /\ BudgetTypes
  BY BoundsAssumption DEF Init, ProviderTypes, ExecutionType, RecordTypes, BudgetTypes
<1> QED
  BY <1>1, <1>2, <1>3 DEF TypeOK

LEMMA PollTypes ==
  ASSUME TypeOK, NEW w \in Ticks, Poll(w)
  PROVE  TypeOK'
<1>1. TickType'
  <2>1. PICK b \in SUBSET Rows : tick' = [tick EXCEPT ![w].batch = b]
    <3>1. FirstOf(Candidates, BatchSize) \in SUBSET Rows
      BY FirstOfRows DEF Candidates
    <3> QED
      BY <3>1 DEF Poll
  <2> QED
    BY <2>1 DEF TypeOK, TickType, TickRecords
<1>2. RowTypes' /\ ActionType' /\ ConvType' /\ CallType' /\ OpType' /\ ProviderTypes' /\
        ExecutionType' /\ RecordTypes' /\ BudgetTypes'
  BY DEF Poll, TypeOK, rowVars, provider, RowTypes, ActionType, ConvType, CallType,
         OpType, ProviderTypes, ExecutionType, RecordTypes, BudgetTypes
<1> QED
  BY <1>1, <1>2 DEF TypeOK

LEMMA SkipTypes ==
  ASSUME TypeOK, NEW w \in Ticks, NEW r \in Rows, Skip(w, r)
  PROVE  TypeOK'
<1>1. TickType'
  BY DEF Skip, TypeOK, TickType, TickRecords, TickPcs, Answers
<1>2. RowTypes' /\ ActionType' /\ ConvType' /\ CallType' /\ OpType' /\ ProviderTypes' /\
        ExecutionType' /\ RecordTypes' /\ BudgetTypes'
  BY DEF Skip, TypeOK, rowVars, provider, RowTypes, ActionType, ConvType, CallType,
         OpType, ProviderTypes, ExecutionType, RecordTypes, BudgetTypes
<1> QED
  BY <1>1, <1>2 DEF TypeOK

LEMMA ClaimTypes ==
  ASSUME TypeOK, NEW w \in Ticks, NEW r \in Rows, Claim(w, r)
  PROVE  TypeOK'
<1>1. TickType'
  BY DEF Claim, TypeOK, TickType, TickRecords, TickPcs, Answers, Lockable
<1>2. RowTypes'
  BY DEF Claim, TypeOK, RowTypes, Statuses, Lock, Lockable
<1>3. ActionType' /\ ConvType' /\ CallType' /\ OpType' /\ ProviderTypes' /\ ExecutionType'
        /\ RecordTypes'
  BY DEF Claim, TypeOK, rowVars, provider, ActionType, ConvType, CallType, OpType,
         ProviderTypes, ExecutionType, RecordTypes
<1>4. BudgetTypes'
  BY BoundsAssumption DEF Claim, TypeOK, BudgetTypes, Fault
<1> QED
  BY <1>1, <1>2, <1>3, <1>4 DEF TypeOK

LEMMA LoadTypes ==
  ASSUME TypeOK, NEW w \in Ticks, Load(w)
  PROVE  TypeOK'
<1>1. TickType'
  BY DEF Load, TypeOK, TickType, TickRecords, TickPcs, Answers, Drop, IdleTick, RowTypes
<1>2. BudgetTypes'
  BY BoundsAssumption DEF Load, TypeOK, BudgetTypes, Fault
<1>3. RowTypes' /\ ActionType' /\ ConvType' /\ CallType' /\ OpType' /\ ProviderTypes' /\
        ExecutionType' /\ RecordTypes'
  BY DEF Load, TypeOK, rowVars, provider, RowTypes, ActionType, ConvType, CallType,
         OpType, ProviderTypes, ExecutionType, RecordTypes
<1> QED
  BY <1>1, <1>2, <1>3 DEF TypeOK

LEMMA RecheckTypes ==
  ASSUME TypeOK, NEW w \in Ticks, Recheck(w)
  PROVE  TypeOK'
<1>1. TickType'
  BY DEF Recheck, TypeOK, TickType, TickRecords, TickPcs, Answers, Drop, IdleTick, Goto
<1>2. BudgetTypes'
  BY BoundsAssumption DEF Recheck, TypeOK, BudgetTypes, Fault
<1>3. RowTypes' /\ ActionType' /\ ConvType' /\ CallType' /\ OpType' /\ ProviderTypes' /\
        ExecutionType' /\ RecordTypes'
  BY DEF Recheck, TypeOK, rowVars, provider, RowTypes, ActionType, ConvType, CallType,
         OpType, ProviderTypes, ExecutionType, RecordTypes
<1> QED
  BY <1>1, <1>2, <1>3 DEF TypeOK

LEMMA CheckOwnerTypes ==
  ASSUME TypeOK, NEW w \in Ticks, CheckOwner(w)
  PROVE  TypeOK'
<1>1. TickType'
  BY DEF CheckOwner, TypeOK, TickType, TickRecords, TickPcs, Answers, Goto
<1>2. BudgetTypes'
  BY BoundsAssumption DEF CheckOwner, TypeOK, BudgetTypes, Fault
<1>3. RowTypes' /\ ActionType' /\ ConvType' /\ CallType' /\ OpType' /\ ProviderTypes' /\
        ExecutionType' /\ RecordTypes'
  BY DEF CheckOwner, TypeOK, rowVars, provider, RowTypes, ActionType, ConvType, CallType,
         OpType, ProviderTypes, ExecutionType, RecordTypes
<1> QED
  BY <1>1, <1>2, <1>3 DEF TypeOK

LEMMA VoidTypes ==
  ASSUME TypeOK, NEW w \in Ticks, Void(w)
  PROVE  TypeOK'
<1>1. TickType'
  BY DEF Void, TypeOK, TickType, TickRecords, TickPcs, Answers, Goto
<1>2. RowTypes'
  BY DEF Void, TypeOK, RowTypes, Statuses, StillLocked, TickType, TickRecords
<1>3. ActionType' /\ ConvType' /\ CallType' /\ OpType' /\ ProviderTypes' /\ ExecutionType'
        /\ RecordTypes'
  BY DEF Void, TypeOK, rowVars, provider, ActionType, ConvType, CallType, OpType,
         ProviderTypes, ExecutionType, RecordTypes
<1>4. BudgetTypes'
  BY BoundsAssumption DEF Void, TypeOK, BudgetTypes, Fault
<1> QED
  BY <1>1, <1>2, <1>3, <1>4 DEF TypeOK

LEMMA VoidActionTypes ==
  ASSUME TypeOK, NEW w \in Ticks, VoidAction(w)
  PROVE  TypeOK'
<1>1. TickType'
  BY DEF VoidAction, TypeOK, TickType, TickRecords, TickPcs, Answers, Goto
<1>2. ActionType'
  BY DEF VoidAction, TypeOK, ActionType, ActionStatuses, MoveAction, TickType, TickRecords
<1>3. RowTypes' /\ ConvType' /\ CallType' /\ OpType' /\ ProviderTypes' /\ ExecutionType'
        /\ RecordTypes'
  BY DEF VoidAction, TypeOK, rowVars, provider, RowTypes, ConvType, CallType, OpType,
         ProviderTypes, ExecutionType, RecordTypes
<1>4. BudgetTypes'
  BY BoundsAssumption DEF VoidAction, TypeOK, BudgetTypes, Fault
<1> QED
  BY <1>1, <1>2, <1>3, <1>4 DEF TypeOK

LEMMA VoidRecordTypes ==
  ASSUME TypeOK, NEW w \in Ticks, VoidRecord(w)
  PROVE  TypeOK'
<1>1. TickType'
  BY DEF VoidRecord, TypeOK, TickType, TickRecords, TickPcs, Answers, Drop, IdleTick
<1>2. ExecutionType'
  <2>1. CASE Record(tick[w].row, ThisAttempt(w), "cancelled")
    <3>1. ThisAttempt(w) \in Nat
      BY TickFields DEF TypeOK
    <3> QED
      BY <2>1, <3>1, RecordKeepsType DEF TypeOK
  <2>2. CASE UNCHANGED executions
    BY <2>2 DEF TypeOK, ExecutionType
  <2> QED
    BY <2>1, <2>2 DEF VoidRecord
<1>3. RowTypes' /\ ActionType' /\ ConvType' /\ CallType' /\ OpType' /\ ProviderTypes' /\
        RecordTypes'
  BY DEF VoidRecord, TypeOK, rowVars, provider, RowTypes, ActionType, ConvType, CallType,
         OpType, ProviderTypes, RecordTypes
<1>4. BudgetTypes'
  BY BoundsAssumption DEF VoidRecord, TypeOK, BudgetTypes, Fault
<1> QED
  BY <1>1, <1>2, <1>3, <1>4 DEF TypeOK

LEMMA DryRunTypes ==
  ASSUME TypeOK, NEW w \in Ticks, DryRun(w)
  PROVE  TypeOK'
<1>1. TickType'
  BY DEF DryRun, TypeOK, TickType, TickRecords, TickPcs, Answers, Drop, IdleTick
<1>2. RowTypes' /\ ActionType' /\ ConvType' /\ CallType' /\ OpType' /\ ProviderTypes' /\
        ExecutionType' /\ RecordTypes' /\ BudgetTypes'
  BY DEF DryRun, TypeOK, rowVars, provider, RowTypes, ActionType, ConvType, CallType,
         OpType, ProviderTypes, ExecutionType, RecordTypes, BudgetTypes
<1> QED
  BY <1>1, <1>2 DEF TypeOK

LEMMA PostTypes ==
  ASSUME TypeOK, NEW w \in Ticks, Post(w)
  PROVE  TypeOK'
<1>1. TickType'
  BY DEF Post, TypeOK, TickType, TickRecords, TickPcs, Answers
<1>2. ProviderTypes'
  <2>1. PICK answer \in Answers : Deliver(tick[w].row, answer)
    BY DEF Post
  <2> QED
    BY <2>1, DeliverKeepsType DEF TypeOK
<1>3. RowTypes' /\ ActionType' /\ ConvType' /\ CallType' /\ OpType' /\ ExecutionType' /\
        RecordTypes' /\ BudgetTypes'
  BY DEF Post, TypeOK, rowVars, provider, RowTypes, ActionType, ConvType, CallType,
         OpType, ExecutionType, RecordTypes, BudgetTypes
<1> QED
  BY <1>1, <1>2, <1>3 DEF TypeOK

LEMMA SettleTypes ==
  ASSUME TypeOK, NEW w \in Ticks, Settle(w)
  PROVE  TypeOK'
<1>1. TickType'
  BY DEF Settle, TypeOK, TickType, TickRecords, TickPcs, Answers, Goto
<1>2. RowTypes'
  <2>1. ThisAttempt(w) \in Nat
    BY TickFields DEF TypeOK
  <2> QED
    BY <2>1 DEF Settle, TypeOK, RowTypes, Statuses
<1>3. RecordTypes'
  BY DEF Settle, TypeOK, RecordTypes, AuditLateSend
<1>4. BudgetTypes'
  BY BoundsAssumption DEF Settle, TypeOK, BudgetTypes, Fault
<1>5. ProviderTypes'
  BY DEF Settle, TypeOK, ProviderTypes
<1>6. ActionType' /\ ConvType' /\ CallType' /\ OpType' /\ ExecutionType'
  BY DEF Settle, TypeOK, rowVars, provider, ActionType, ConvType, CallType, OpType,
         ExecutionType
<1> QED
  BY <1>1, <1>2, <1>3, <1>4, <1>5, <1>6 DEF TypeOK

LEMMA BookTypes ==
  ASSUME TypeOK, NEW w \in Ticks, Book(w)
  PROVE  TypeOK'
<1>1. TickType'
  BY DEF Book, TypeOK, TickType, TickRecords, TickPcs, Answers, Goto
<1>2. ExecutionType'
  <2>1. CASE Record(tick[w].row, ThisAttempt(w), "succeeded")
    <3>1. ThisAttempt(w) \in Nat
      BY TickFields DEF TypeOK
    <3> QED
      BY <2>1, <3>1, RecordKeepsType DEF TypeOK
  <2>2. CASE UNCHANGED executions
    BY <2>2 DEF TypeOK, ExecutionType
  <2> QED
    BY <2>1, <2>2 DEF Book
<1>3. RowTypes' /\ ActionType' /\ ConvType' /\ CallType' /\ OpType' /\ ProviderTypes' /\
        RecordTypes'
  BY DEF Book, TypeOK, rowVars, provider, RowTypes, ActionType, ConvType, CallType,
         OpType, ProviderTypes, RecordTypes
<1>4. BudgetTypes'
  BY BoundsAssumption DEF Book, TypeOK, BudgetTypes, Fault
<1> QED
  BY <1>1, <1>2, <1>3, <1>4 DEF TypeOK

LEMMA MarkActionExecutedTypes ==
  ASSUME TypeOK, NEW w \in Ticks, MarkActionExecuted(w)
  PROVE  TypeOK'
<1>1. TickType'
  BY DEF MarkActionExecuted, TypeOK, TickType, TickRecords, TickPcs, Answers, Drop, IdleTick
<1>2. ActionType'
  BY DEF MarkActionExecuted, TypeOK, ActionType, ActionStatuses, MoveAction, TickType, TickRecords
<1>3. RowTypes' /\ ConvType' /\ CallType' /\ OpType' /\ ProviderTypes' /\ ExecutionType'
        /\ RecordTypes'
  BY DEF MarkActionExecuted, TypeOK, rowVars, provider, RowTypes, ConvType, CallType,
         OpType, ProviderTypes, ExecutionType, RecordTypes
<1>4. BudgetTypes'
  BY BoundsAssumption DEF MarkActionExecuted, TypeOK, BudgetTypes, Fault
<1> QED
  BY <1>1, <1>2, <1>3, <1>4 DEF TypeOK

LEMMA RecordFailureTypes ==
  ASSUME TypeOK, NEW w \in Ticks, RecordFailure(w)
  PROVE  TypeOK'
<1>1. TickType'
  BY DEF RecordFailure, TypeOK, TickType, TickRecords, TickPcs, Answers, Goto
<1>2. ExecutionType'
  <2>1. CASE Record(tick[w].row, ThisAttempt(w), "failed")
    <3>1. ThisAttempt(w) \in Nat
      BY TickFields DEF TypeOK
    <3> QED
      BY <2>1, <3>1, RecordKeepsType DEF TypeOK
  <2>2. CASE UNCHANGED executions
    BY <2>2 DEF TypeOK, ExecutionType
  <2> QED
    BY <2>1, <2>2 DEF RecordFailure
<1>3. RowTypes' /\ ActionType' /\ ConvType' /\ CallType' /\ OpType' /\ ProviderTypes' /\
        RecordTypes'
  BY DEF RecordFailure, TypeOK, rowVars, provider, RowTypes, ActionType, ConvType,
         CallType, OpType, ProviderTypes, RecordTypes
<1>4. BudgetTypes'
  BY BoundsAssumption DEF RecordFailure, TypeOK, BudgetTypes, Fault
<1> QED
  BY <1>1, <1>2, <1>3, <1>4 DEF TypeOK

LEMMA RequeueTypes ==
  ASSUME TypeOK, NEW w \in Ticks, Requeue(w)
  PROVE  TypeOK'
<1>1. TickType'
  BY DEF Requeue, TypeOK, TickType, TickRecords, TickPcs, Answers, Drop, IdleTick
<1>2. RowTypes'
  <2>1. ThisAttempt(w) \in Nat
    BY TickFields DEF TypeOK
  <2> QED
    BY <2>1 DEF Requeue, TypeOK, RowTypes, Statuses
<1>3. BudgetTypes'
  BY BoundsAssumption DEF Requeue, TypeOK, BudgetTypes, Fault
<1>4. ActionType' /\ ConvType' /\ CallType' /\ OpType' /\ ProviderTypes' /\ ExecutionType'
        /\ RecordTypes'
  BY DEF Requeue, TypeOK, rowVars, provider, ActionType, ConvType, CallType, OpType,
         ProviderTypes, ExecutionType, RecordTypes
<1> QED
  BY <1>1, <1>2, <1>3, <1>4 DEF TypeOK

LEMMA GiveUpTypes ==
  ASSUME TypeOK, NEW w \in Ticks, GiveUp(w)
  PROVE  TypeOK'
<1>1. TickType'
  BY DEF GiveUp, TypeOK, TickType, TickRecords, TickPcs, Answers, Goto
<1>2. RowTypes'
  <2>1. ThisAttempt(w) \in Nat
    BY TickFields DEF TypeOK
  <2> QED
    BY <2>1 DEF GiveUp, TypeOK, RowTypes, Statuses
<1>3. BudgetTypes'
  BY BoundsAssumption DEF GiveUp, TypeOK, BudgetTypes, Fault
<1>4. ActionType' /\ ConvType' /\ CallType' /\ OpType' /\ ProviderTypes' /\ ExecutionType'
        /\ RecordTypes'
  BY DEF GiveUp, TypeOK, rowVars, provider, ActionType, ConvType, CallType, OpType,
         ProviderTypes, ExecutionType, RecordTypes
<1> QED
  BY <1>1, <1>2, <1>3, <1>4 DEF TypeOK

LEMMA EscalateTypes ==
  ASSUME TypeOK, NEW w \in Ticks, Escalate(w)
  PROVE  TypeOK'
<1>1. TickType'
  BY DEF Escalate, TypeOK, TickType, TickRecords, TickPcs, Answers, Drop, IdleTick
<1>2. ActionType'
  BY DEF Escalate, TypeOK, ActionType, ActionStatuses, MoveAction, TickType, TickRecords
<1>3. RowTypes' /\ ConvType' /\ CallType' /\ OpType' /\ ProviderTypes' /\ ExecutionType'
        /\ RecordTypes'
  BY DEF Escalate, TypeOK, rowVars, provider, RowTypes, ConvType, CallType, OpType,
         ProviderTypes, ExecutionType, RecordTypes
<1>4. BudgetTypes'
  BY BoundsAssumption DEF Escalate, TypeOK, BudgetTypes, Fault
<1> QED
  BY <1>1, <1>2, <1>3, <1>4 DEF TypeOK

LEMMA CrashTickTypes ==
  ASSUME TypeOK, NEW w \in Ticks, CrashTick(w)
  PROVE  TypeOK'
<1>1. TickType'
  BY DEF CrashTick, TypeOK, TickType, TickRecords, TickPcs, Answers, IdleTick
<1>2. ProviderTypes'
  <2>1. /\ UNCHANGED <<posts, accepted>>
        /\ lost' = lost \/ lost' = [lost EXCEPT ![tick[w].row] = @ + 1]
    BY DEF CrashTick
  <2> QED
    BY <2>1 DEF TypeOK, ProviderTypes
<1>3. BudgetTypes'
  BY BoundsAssumption DEF CrashTick, TypeOK, BudgetTypes, Fault
<1>4. RowTypes' /\ ActionType' /\ ConvType' /\ CallType' /\ OpType' /\ ExecutionType' /\
        RecordTypes'
  BY DEF CrashTick, TypeOK, rowVars, provider, RowTypes, ActionType, ConvType, CallType,
         OpType, ExecutionType, RecordTypes
<1> QED
  BY <1>1, <1>2, <1>3, <1>4 DEF TypeOK

LEMMA SelectPlannedTypes ==
  ASSUME TypeOK, NEW c \in Calls, NEW mode \in Modes, SelectPlanned(c, mode)
  PROVE  TypeOK'
<1>1. CallType'
  <2> DEFINE Q == FirstOf(Candidates, BatchSize)
             t == [call[c] EXCEPT !.pc = "lock", !.mode = mode, !.queue = Q]
  <2>1. call' = [call EXCEPT ![c] = t]
    BY DEF SelectPlanned, TypeOK, CallType, CallRecords
  <2>2. Q \in SUBSET Rows
    BY FirstOfRows DEF Candidates
  <2>3. t \in CallRecords
    BY <2>2, CallFields DEF TypeOK, CallType, CallRecords, CallPcs, Modes
  <2> QED
    BY <2>1, <2>3 DEF TypeOK, CallType
<1>2. RowTypes' /\ ActionType' /\ ConvType' /\ TickType' /\ OpType' /\ ProviderTypes' /\
        ExecutionType' /\ RecordTypes' /\ BudgetTypes'
  BY DEF SelectPlanned, TypeOK, rowVars, provider, RowTypes, ActionType, ConvType,
         TickType, OpType, ProviderTypes, ExecutionType, RecordTypes, BudgetTypes
<1> QED
  BY <1>1, <1>2 DEF TypeOK

LEMMA SelectStaleTypes ==
  ASSUME TypeOK, NEW c \in Calls, SelectStale(c)
  PROVE  TypeOK'
<1>1. CallType'
  <2>1. PICK S \in SUBSET Rows :
          call' = [call EXCEPT ![c].pc = "reread", ![c].mode = "recover", ![c].queue = S]
    BY DEF SelectStale, StaleLocks
  <2> DEFINE t == [call[c] EXCEPT !.pc = "reread", !.mode = "recover", !.queue = S]
  <2>2. call' = [call EXCEPT ![c] = t]
    BY <2>1 DEF TypeOK, CallType, CallRecords
  <2>3. t \in CallRecords
    BY CallFields DEF TypeOK, CallType, CallRecords, CallPcs, Modes
  <2> QED
    BY <2>2, <2>3 DEF TypeOK, CallType
<1>2. RowTypes' /\ ActionType' /\ ConvType' /\ TickType' /\ OpType' /\ ProviderTypes' /\
        ExecutionType' /\ RecordTypes' /\ BudgetTypes'
  BY DEF SelectStale, TypeOK, rowVars, provider, RowTypes, ActionType, ConvType, TickType,
         OpType, ProviderTypes, ExecutionType, RecordTypes, BudgetTypes
<1> QED
  BY <1>1, <1>2 DEF TypeOK

LEMMA LockNextTypes ==
  ASSUME TypeOK, NEW c \in Calls, NEW r \in Rows, LockNext(c, r)
  PROVE  TypeOK'
<1>1. CallType'
  <2>1. CASE call' = [call EXCEPT ![c].queue = @ \ {r}]
    BY <2>1 DEF TypeOK, CallType, CallRecords
  <2>2. ASSUME NEW H \in SUBSET Rows,
               call' = [call EXCEPT ![c].queue = @ \ {r}, ![c].held = H]
        PROVE  CallType'
    <3> DEFINE t == [call[c] EXCEPT !.queue = call[c].queue \ {r}, !.held = H]
    <3>1. call' = [call EXCEPT ![c] = t]
      BY <2>2 DEF TypeOK, CallType, CallRecords
    <3>2. t \in CallRecords
      BY CallFields DEF TypeOK, CallType, CallRecords
    <3> QED
      BY <3>1, <3>2 DEF TypeOK, CallType
  <2> DEFINE won == Lockable(r)
             held == IF won THEN call[c].held \cup {r} ELSE call[c].held
  <2>3. \/ call' = [call EXCEPT ![c].queue = @ \ {r}]
        \/ call' = [call EXCEPT ![c].queue = @ \ {r}, ![c].held = held]
    BY DEF LockNext
  <2>4. held \in SUBSET Rows
    BY CallFields DEF TypeOK
  <2> QED
    BY <2>1, <2>2, <2>3, <2>4
<1>2. RowTypes'
  BY DEF LockNext, TypeOK, RowTypes, Statuses, Lock, Lockable
<1>3. ActionType' /\ ConvType' /\ TickType' /\ OpType' /\ ProviderTypes' /\ ExecutionType'
        /\ RecordTypes'
  BY DEF LockNext, TypeOK, rowVars, provider, ActionType, ConvType, TickType, OpType,
         ProviderTypes, ExecutionType, RecordTypes
<1>4. BudgetTypes'
  BY BoundsAssumption DEF LockNext, TypeOK, BudgetTypes, Fault
<1> QED
  BY <1>1, <1>2, <1>3, <1>4 DEF TypeOK

LEMMA LockedAllTypes ==
  ASSUME TypeOK, NEW c \in Calls, LockedAll(c)
  PROVE  TypeOK'
<1>1. CallType'
  BY DEF LockedAll, TypeOK, CallType, CallRecords, CallPcs, Modes, Answers, CallDone, IdleCall
<1>2. RowTypes' /\ ActionType' /\ ConvType' /\ TickType' /\ OpType' /\ ProviderTypes' /\
        ExecutionType' /\ RecordTypes' /\ BudgetTypes'
  BY DEF LockedAll, TypeOK, rowVars, provider, RowTypes, ActionType, ConvType, TickType,
         OpType, ProviderTypes, ExecutionType, RecordTypes, BudgetTypes
<1> QED
  BY <1>1, <1>2 DEF TypeOK

LEMMA RereadTypes ==
  ASSUME TypeOK, NEW c \in Calls, NEW r \in Rows, Reread(c, r)
  PROVE  TypeOK'
<1>1. CallType'
  <2>1. CASE call' = [call EXCEPT ![c].queue = @ \ {r}]
    BY <2>1 DEF TypeOK, CallType, CallRecords
  <2>2. ASSUME NEW H \in SUBSET Rows,
               call' = [call EXCEPT ![c].queue = @ \ {r}, ![c].held = H]
        PROVE  CallType'
    <3> DEFINE t == [call[c] EXCEPT !.queue = call[c].queue \ {r}, !.held = H]
    <3>1. call' = [call EXCEPT ![c] = t]
      BY <2>2 DEF TypeOK, CallType, CallRecords
    <3>2. t \in CallRecords
      BY CallFields DEF TypeOK, CallType, CallRecords
    <3> QED
      BY <3>1, <3>2 DEF TypeOK, CallType
  <2> DEFINE won == StillLocked(r) /\ (call[c].mode = "recover" => aged[r])
             held == IF won THEN call[c].held \cup {r} ELSE call[c].held
  <2>3. \/ call' = [call EXCEPT ![c].queue = @ \ {r}]
        \/ call' = [call EXCEPT ![c].queue = @ \ {r}, ![c].held = held]
    BY DEF Reread
  <2>4. held \in SUBSET Rows
    BY CallFields DEF TypeOK
  <2> QED
    BY <2>1, <2>2, <2>3, <2>4
<1>2. RowTypes' /\ ActionType' /\ ConvType' /\ TickType' /\ OpType' /\ ProviderTypes' /\
        ExecutionType' /\ RecordTypes'
  BY DEF Reread, TypeOK, rowVars, provider, RowTypes, ActionType, ConvType, TickType,
         OpType, ProviderTypes, ExecutionType, RecordTypes
<1>3. BudgetTypes'
  BY BoundsAssumption DEF Reread, TypeOK, BudgetTypes, Fault
<1> QED
  BY <1>1, <1>2, <1>3 DEF TypeOK

LEMMA RereadAllTypes ==
  ASSUME TypeOK, NEW c \in Calls, RereadAll(c)
  PROVE  TypeOK'
<1>1. CallType'
  BY DEF RereadAll, TypeOK, CallType, CallRecords, CallPcs, Modes, Answers, CallDone, CallGoto, IdleCall
<1>2. RowTypes' /\ ActionType' /\ ConvType' /\ TickType' /\ OpType' /\ ProviderTypes' /\
        ExecutionType' /\ RecordTypes' /\ BudgetTypes'
  BY DEF RereadAll, TypeOK, rowVars, provider, RowTypes, ActionType, ConvType, TickType,
         OpType, ProviderTypes, ExecutionType, RecordTypes, BudgetTypes
<1> QED
  BY <1>1, <1>2 DEF TypeOK

LEMMA BeginTypes ==
  ASSUME TypeOK, NEW c \in Calls, NEW r \in Rows, Begin(c, r)
  PROVE  TypeOK'
<1>1. CallType'
  <2>1. NextHeld(c, r) \in CallRecords
    BY CallFields DEF NextHeld, IdleCall, TypeOK, CallRecords, CallPcs, Modes, Answers
  <2>2. \/ call' = [call EXCEPT ![c].held = @ \ {r}, ![c].row = r, ![c].pc = "post"]
        \/ call' = [call EXCEPT ![c] = NextHeld(c, r)]
    BY DEF Begin
  <2> QED
    BY <2>1, <2>2, CallFields DEF CallType, CallRecords, CallPcs, Modes, TypeOK
<1>2. RowTypes'
  BY DEF Begin, TypeOK, RowTypes, Statuses, StillLocked
<1>3. BudgetTypes'
  BY BoundsAssumption DEF Begin, TypeOK, BudgetTypes, Fault
<1>4. ActionType' /\ ConvType' /\ TickType' /\ OpType' /\ ProviderTypes' /\ ExecutionType'
        /\ RecordTypes'
  BY DEF Begin, TypeOK, rowVars, provider, ActionType, ConvType, TickType, OpType,
         ProviderTypes, ExecutionType, RecordTypes
<1> QED
  BY <1>1, <1>2, <1>3, <1>4 DEF TypeOK

LEMMA CallPostTypes ==
  ASSUME TypeOK, NEW c \in Calls, CallPost(c)
  PROVE  TypeOK'
<1>1. CallType'
  BY DEF CallPost, TypeOK, CallType, CallRecords, CallPcs, Modes, Answers
<1>2. ProviderTypes'
  <2>1. PICK answer \in Answers : Deliver(call[c].row, answer)
    BY DEF CallPost
  <2> QED
    BY <2>1, DeliverKeepsType DEF TypeOK
<1>3. RowTypes' /\ ActionType' /\ ConvType' /\ TickType' /\ OpType' /\ ExecutionType' /\
        RecordTypes' /\ BudgetTypes'
  BY DEF CallPost, TypeOK, rowVars, provider, RowTypes, ActionType, ConvType, TickType,
         OpType, ExecutionType, RecordTypes, BudgetTypes
<1> QED
  BY <1>1, <1>2, <1>3 DEF TypeOK

LEMMA FinalizeTypes ==
  ASSUME TypeOK, NEW c \in Calls, Finalize(c)
  PROVE  TypeOK'
<1>1. CallType'
  BY DEF Finalize, TypeOK, CallType, CallRecords, CallPcs, Modes, Answers, NextHeld, IdleCall
<1>2. RowTypes'
  BY DEF Finalize, TypeOK, RowTypes, Statuses, Outcome, CallType
<1>3. BudgetTypes'
  BY BoundsAssumption DEF Finalize, TypeOK, BudgetTypes, Fault
<1>4. ActionType' /\ ConvType' /\ TickType' /\ OpType' /\ ProviderTypes' /\ ExecutionType'
        /\ RecordTypes'
  BY DEF Finalize, TypeOK, rowVars, provider, ActionType, ConvType, TickType, OpType,
         ProviderTypes, ExecutionType, RecordTypes
<1> QED
  BY <1>1, <1>2, <1>3, <1>4 DEF TypeOK

LEMMA CrashCallTypes ==
  ASSUME TypeOK, NEW c \in Calls, CrashCall(c)
  PROVE  TypeOK'
<1>1. CallType'
  BY DEF CrashCall, TypeOK, CallType, CallRecords, CallPcs, Modes, Answers, CallDone, IdleCall
<1>2. BudgetTypes'
  BY BoundsAssumption DEF CrashCall, TypeOK, BudgetTypes, Fault
<1>3. RowTypes' /\ ActionType' /\ ConvType' /\ TickType' /\ OpType' /\ ProviderTypes' /\
        ExecutionType' /\ RecordTypes'
  BY DEF CrashCall, TypeOK, rowVars, provider, RowTypes, ActionType, ConvType, TickType,
         OpType, ProviderTypes, ExecutionType, RecordTypes
<1> QED
  BY <1>1, <1>2, <1>3 DEF TypeOK

LEMMA ReadTypes ==
  ASSUME TypeOK, NEW o \in Operators, NEW command \in Commands, Read(o, command)
  PROVE  TypeOK'
<1>1. OpType'
  BY DEF Read, TypeOK, OpType, Commands
<1>2. BudgetTypes'
  BY BoundsAssumption DEF Read, TypeOK, BudgetTypes
<1>3. RowTypes' /\ ActionType' /\ ConvType' /\ TickType' /\ CallType' /\ ProviderTypes' /\
        ExecutionType' /\ RecordTypes'
  BY DEF Read, TypeOK, rowVars, provider, RowTypes, ActionType, ConvType, TickType,
         CallType, ProviderTypes, ExecutionType, RecordTypes
<1> QED
  BY <1>1, <1>2, <1>3 DEF TypeOK

LEMMA CommitTypes ==
  ASSUME TypeOK, NEW o \in Operators, Commit(o)
  PROVE  TypeOK'
<1>1. OpType'
  BY DEF Commit, TypeOK, OpType, Commands, rowVars
<1>2. ConvType'
  BY DEF Commit, TypeOK, ConvType, Owned, OpType, Commands, rowVars
<1>3. RowTypes'
  BY DEF Commit, TypeOK, RowTypes, Statuses, CancelPendingAutonomousSends, Pending, rowVars
<1>4. ActionType'
  BY DEF Commit, TypeOK, ActionType, ActionStatuses, CancelPendingAutonomousSends, rowVars
<1>5. RecordTypes'
  BY DEF Commit, TypeOK, RecordTypes, Pending, rowVars
<1>6. TickType' /\ CallType' /\ ProviderTypes' /\ ExecutionType' /\ BudgetTypes'
  BY DEF Commit, TypeOK, rowVars, provider, TickType, CallType, ProviderTypes,
         ExecutionType, BudgetTypes
<1> QED
  BY <1>1, <1>2, <1>3, <1>4, <1>5, <1>6 DEF TypeOK

LEMMA SendReplyTypes ==
  ASSUME TypeOK, NEW o \in Operators, SendReply(o)
  PROVE  TypeOK'
<1>1. OpType'
  BY DEF SendReply, TypeOK, OpType, Commands
<1>2. RowTypes' /\ ActionType' /\ ConvType' /\ TickType' /\ CallType' /\ ProviderTypes' /\
        ExecutionType' /\ RecordTypes' /\ BudgetTypes'
  BY DEF SendReply, TypeOK, rowVars, provider, RowTypes, ActionType, ConvType, TickType,
         CallType, ProviderTypes, ExecutionType, RecordTypes, BudgetTypes
<1> QED
  BY <1>1, <1>2 DEF TypeOK

LEMMA DecideTypes ==
  ASSUME TypeOK, NEW r \in Rows, Decide(r)
  PROVE  TypeOK'
<1>1. ActionType'
  BY DEF Decide, TypeOK, ActionType, ActionStatuses
<1>2. RowTypes' /\ ConvType' /\ TickType' /\ CallType' /\ OpType' /\ ProviderTypes' /\
        ExecutionType' /\ RecordTypes' /\ BudgetTypes'
  BY DEF Decide, TypeOK, rowVars, provider, RowTypes, ConvType, TickType, CallType,
         OpType, ProviderTypes, ExecutionType, RecordTypes, BudgetTypes
<1> QED
  BY <1>1, <1>2 DEF TypeOK

LEMMA ProposeTypes ==
  ASSUME TypeOK, NEW r \in Rows, Propose(r)
  PROVE  TypeOK'
<1>1. ActionType'
  BY DEF Propose, TypeOK, ActionType, ActionStatuses
<1>2. RowTypes' /\ ConvType' /\ TickType' /\ CallType' /\ OpType' /\ ProviderTypes' /\
        ExecutionType' /\ RecordTypes' /\ BudgetTypes'
  BY DEF Propose, TypeOK, rowVars, provider, RowTypes, ConvType, TickType, CallType,
         OpType, ProviderTypes, ExecutionType, RecordTypes, BudgetTypes
<1> QED
  BY <1>1, <1>2 DEF TypeOK

LEMMA GateTypes ==
  ASSUME TypeOK, NEW r \in Rows, Gate(r)
  PROVE  TypeOK'
<1>1. RowTypes'
  BY DEF Gate, TypeOK, RowTypes, Statuses
<1>2. ActionType'
  BY DEF Gate, TypeOK, ActionType, ActionStatuses
<1>3. ConvType' /\ TickType' /\ CallType' /\ OpType' /\ ProviderTypes' /\ ExecutionType'
        /\ RecordTypes' /\ BudgetTypes'
  BY DEF Gate, TypeOK, rowVars, provider, ConvType, TickType, CallType, OpType,
         ProviderTypes, ExecutionType, RecordTypes, BudgetTypes
<1> QED
  BY <1>1, <1>2, <1>3 DEF TypeOK

LEMMA PlanOperatorRowTypes ==
  ASSUME TypeOK, NEW r \in Rows, PlanOperatorRow(r)
  PROVE  TypeOK'
<1>1. RowTypes'
  BY DEF PlanOperatorRow, TypeOK, RowTypes, Statuses
<1>2. ActionType' /\ ConvType' /\ TickType' /\ CallType' /\ OpType' /\ ProviderTypes' /\
        ExecutionType' /\ RecordTypes' /\ BudgetTypes'
  BY DEF PlanOperatorRow, TypeOK, rowVars, provider, ActionType, ConvType, TickType,
         CallType, OpType, ProviderTypes, ExecutionType, RecordTypes, BudgetTypes
<1> QED
  BY <1>1, <1>2 DEF TypeOK

LEMMA BackoffElapsesTypes ==
  ASSUME TypeOK, NEW r \in Rows, BackoffElapses(r)
  PROVE  TypeOK'
<1>1. RowTypes'
  BY DEF BackoffElapses, TypeOK, RowTypes, Statuses
<1>2. ActionType' /\ ConvType' /\ TickType' /\ CallType' /\ OpType' /\ ProviderTypes' /\
        ExecutionType' /\ RecordTypes' /\ BudgetTypes'
  BY DEF BackoffElapses, TypeOK, rowVars, provider, ActionType, ConvType, TickType,
         CallType, OpType, ProviderTypes, ExecutionType, RecordTypes, BudgetTypes
<1> QED
  BY <1>1, <1>2 DEF TypeOK

LEMMA LockAgesTypes ==
  ASSUME TypeOK, NEW r \in Rows, LockAges(r)
  PROVE  TypeOK'
<1>1. RowTypes'
  BY DEF LockAges, TypeOK, RowTypes, Statuses
<1>2. ActionType' /\ ConvType' /\ TickType' /\ CallType' /\ OpType' /\ ProviderTypes' /\
        ExecutionType' /\ RecordTypes' /\ BudgetTypes'
  BY DEF LockAges, TypeOK, rowVars, provider, ActionType, ConvType, TickType, CallType,
         OpType, ProviderTypes, ExecutionType, RecordTypes, BudgetTypes
<1> QED
  BY <1>1, <1>2 DEF TypeOK

LEMMA InboundTypes ==
  ASSUME TypeOK, Inbound
  PROVE  TypeOK'
<1>1. ConvType'
  BY DEF Inbound, TypeOK, ConvType
<1>2. RowTypes' /\ ActionType' /\ TickType' /\ CallType' /\ OpType' /\ ProviderTypes' /\
        ExecutionType' /\ RecordTypes' /\ BudgetTypes'
  BY DEF Inbound, TypeOK, rowVars, provider, RowTypes, ActionType, TickType, CallType,
         OpType, ProviderTypes, ExecutionType, RecordTypes, BudgetTypes
<1> QED
  BY <1>1, <1>2 DEF TypeOK

LEMMA WindowClosesTypes ==
  ASSUME TypeOK, WindowCloses
  PROVE  TypeOK'
<1>1. ConvType'
  BY DEF WindowCloses, TypeOK, ConvType
<1>2. RowTypes' /\ ActionType' /\ TickType' /\ CallType' /\ OpType' /\ ProviderTypes' /\
        ExecutionType' /\ RecordTypes' /\ BudgetTypes'
  BY DEF WindowCloses, TypeOK, rowVars, provider, RowTypes, ActionType, TickType,
         CallType, OpType, ProviderTypes, ExecutionType, RecordTypes, BudgetTypes
<1> QED
  BY <1>1, <1>2 DEF TypeOK

\* Every value of the constants: the outbox keeps its types (TypeOK).
LEMMA NextTypes == TypeOK /\ [Next]_vars => TypeOK'
<1> SUFFICES ASSUME TypeOK, [Next]_vars PROVE TypeOK'
  OBVIOUS
<1>1. CASE \E w \in Ticks : TickStep(w) \/ CrashTick(w)
  BY <1>1, PollTypes, SkipTypes, ClaimTypes, LoadTypes, RecheckTypes, CheckOwnerTypes,
     VoidTypes, VoidActionTypes, VoidRecordTypes, DryRunTypes, PostTypes, SettleTypes, BookTypes,
     MarkActionExecutedTypes, RecordFailureTypes, RequeueTypes, GiveUpTypes,
     EscalateTypes, CrashTickTypes
     DEF TickStep
<1>2. CASE \E c \in Calls : CallStep(c) \/ CrashCall(c)
  BY <1>2, SelectPlannedTypes, SelectStaleTypes, LockNextTypes, LockedAllTypes,
     RereadTypes, RereadAllTypes, BeginTypes, CallPostTypes, FinalizeTypes,
     CrashCallTypes
     DEF CallStep
<1>3. CASE \E o \in Operators : OperatorStep(o)
  BY <1>3, ReadTypes, CommitTypes, SendReplyTypes
     DEF OperatorStep
<1>4. CASE \E r \in Rows : CycleStep(r) \/ BackoffElapses(r) \/ LockAges(r)
  BY <1>4, DecideTypes, ProposeTypes, GateTypes, PlanOperatorRowTypes, BackoffElapsesTypes,
     LockAgesTypes
     DEF CycleStep
<1>5. CASE Inbound \/ WindowCloses
  BY <1>5, InboundTypes, WindowClosesTypes
<1>6. CASE UNCHANGED vars
  BY <1>6 DEF vars, TypeOK, RowTypes, ActionType, ConvType, TickType, CallType, OpType,
         ProviderTypes, ExecutionType, RecordTypes, BudgetTypes
<1> QED
  BY <1>1, <1>2, <1>3, <1>4, <1>5, <1>6 DEF Next

\* Every variable keeps its type in every reachable state, for every value of
\* the constants that meets the assumptions.
THEOREM TypeCorrectness == Spec => []TypeOK
<1>1. Init => TypeOK
  BY InitTypes
<1>2. TypeOK /\ [Next]_vars => TypeOK'
  BY NextTypes
<1> QED
  BY <1>1, <1>2, PTL DEF Spec
=============================================================================
