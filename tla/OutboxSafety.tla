---------------------------- MODULE OutboxSafety ----------------------------
(***************************************************************************)
(* Safety of the outbox for any number of rows, workers, requests and      *)
(* operators.  The steps are first reduced to what they do to statuses and *)
(* to the rows in hand of workers and requests; the invariants then follow *)
(* from these effects alone.                                               *)
(***************************************************************************)
EXTENDS OutboxTypes

-----------------------------------------------------------------------------
(* Effects of a tick. *)

\* The tick keeps its row or lets go of it; the only status it changes is the
\* one of that row, if it is still locked.
TickMoves(w) ==
  /\ call' = call /\ aged' = aged
  /\ \A v \in Ticks : v # w => tick'[v] = tick[v]
  /\ tick'[w].row \in {NoRow, tick[w].row}
  /\ \A r \in Rows :
       \/ status'[r] = status[r]
       \/ /\ r = tick[w].row /\ status[r] = "locked"
          /\ status'[r] \in Terminal \/ (status'[r] = "planned" /\ tick'[w].row = NoRow)

\* The tick takes a planned row.
TickClaims(w) ==
  /\ call' = call
  /\ \A v \in Ticks : v # w => tick'[v] = tick[v]
  /\ \E r \in Rows :
       /\ status[r] = "planned"
       /\ status' = [status EXCEPT ![r] = "locked"]
       /\ aged' = [aged EXCEPT ![r] = FALSE]
       /\ tick'[w].row = r /\ tick'[w].pc = "load" /\ tick[w].pc = "idle"

LEMMA GotoFields ==
  ASSUME TickType, NEW w \in Ticks, NEW pc, Goto(w, pc)
  PROVE  /\ tick'[w].pc = pc /\ tick'[w].row = tick[w].row
         /\ \A v \in Ticks : v # w => tick'[v] = tick[v]
BY DEF Goto, TickType, TickRecords

LEMMA DropFields ==
  ASSUME TickType, NEW w \in Ticks, Drop(w)
  PROVE  /\ tick'[w].pc = "idle" /\ tick'[w].row = NoRow
         /\ \A v \in Ticks : v # w => tick'[v] = tick[v]
BY DEF Drop, IdleTick, TickType, TickRecords

\* Loading, when it goes on, and posting leave the worker with its row, at one of two pcs.
LEMMA LoadFields ==
  ASSUME TypeOK, NEW w \in Ticks, Load(w), ~Fault
  PROVE  tick'[w].row = tick[w].row /\ tick'[w].pc \in {"void", "recheck"}
<1> DEFINE next == IF tick[w].row \in InvalidRows THEN "void" ELSE "recheck"
<1>1. tick' = [tick EXCEPT ![w].attempt = attempts[tick[w].row], ![w].pc = next]
  BY DEF Load
<1>2. next \in {"void", "recheck"}
  OBVIOUS
<1> HIDE DEF next
<1>3. tick'[w].row = tick[w].row /\ tick'[w].pc = next
  BY <1>1 DEF TypeOK, TickType, TickRecords
<1> QED
  BY <1>2, <1>3

LEMMA PostFields ==
  ASSUME TypeOK, NEW w \in Ticks, Post(w)
  PROVE  tick'[w].row = tick[w].row /\ tick'[w].pc \in {"settle", "failure"}
<1>1. PICK answer \in Answers :
        tick' = [tick EXCEPT ![w].answer = answer,
                             ![w].pc = IF answer = "sent" THEN "settle" ELSE "failure"]
  BY DEF Post
<1> DEFINE next == IF answer = "sent" THEN "settle" ELSE "failure"
<1>2. tick' = [tick EXCEPT ![w].answer = answer, ![w].pc = next]
  BY <1>1
<1>3. next \in {"settle", "failure"}
  OBVIOUS
<1> HIDE DEF next
<1>4. tick'[w].row = tick[w].row /\ tick'[w].pc = next
  BY <1>2 DEF TypeOK, TickType, TickRecords
<1> QED
  BY <1>3, <1>4

LEMMA TickEffects ==
  ASSUME TypeOK, NEW w \in Ticks, TickStep(w) \/ CrashTick(w)
  PROVE  TickMoves(w) \/ TickClaims(w)
<1> DEFINE Effect == TickMoves(w) \/ TickClaims(w)
<1> USE DEF TypeOK
<1>1. ASSUME Drop(w) \/ (\E pc : Goto(w, pc)), UNCHANGED <<status, aged, call>>
      PROVE  Effect
  BY <1>1, GotoFields, DropFields DEF TickMoves
<1>2. ASSUME Poll(w) PROVE Effect
  BY <1>2 DEF Poll, rowVars, TickType, TickRecords, TickMoves
<1>3. ASSUME NEW r \in Rows, Skip(w, r) PROVE Effect
  BY <1>3 DEF Skip, rowVars, TickType, TickRecords, TickMoves
<1>4. ASSUME NEW r \in Rows, Claim(w, r) PROVE Effect
  <2>1. CASE /\ status[r] = "planned" /\ Lock(r) /\ tick[w].pc = "idle"
             /\ tick' = [tick EXCEPT ![w].batch = @ \ {r}, ![w].pc = "load", ![w].row = r]
    <3>1. /\ tick'[w].row = r /\ tick'[w].pc = "load"
          /\ \A v \in Ticks : v # w => tick'[v] = tick[v]
      BY <2>1 DEF TickType, TickRecords
    <3>2. /\ status' = [status EXCEPT ![r] = "locked"]
          /\ aged' = [aged EXCEPT ![r] = FALSE]
      BY <2>1 DEF Lock, Lockable
    <3> QED
      BY <1>4, <2>1, <3>1, <3>2 DEF Claim, TickClaims
  <2>2. CASE tick' = [tick EXCEPT ![w].batch = @ \ {r}] /\ UNCHANGED <<status, aged>>
    BY <1>4, <2>2 DEF Claim, TickType, TickRecords, TickMoves
  <2> QED
    BY <1>4, <2>1, <2>2 DEF Claim, Lock, Lockable
<1>5. ASSUME Load(w) PROVE Effect
  <2>1. CASE Drop(w)
    BY <1>1, <1>5, <2>1 DEF Load, rowVars
  <2>2. CASE tick'[w].row = tick[w].row /\ \A v \in Ticks : v # w => tick'[v] = tick[v]
    BY <1>5, <2>2 DEF Load, rowVars, TickMoves
  <2> QED
    BY <1>5, <2>1, <2>2 DEF Load, TickType, TickRecords
<1>6. ASSUME Recheck(w) \/ CheckOwner(w) \/ VoidAction(w) \/ VoidRecord(w) \/ DryRun(w)
             \/ Book(w) \/ MarkActionExecuted(w) \/ RecordFailure(w) \/ Escalate(w)
      PROVE  Effect
  <2>1. UNCHANGED <<status, aged, call>>
    BY <1>6 DEF Recheck, CheckOwner, VoidAction, VoidRecord, DryRun, Book, MarkActionExecuted,
                RecordFailure, Escalate, rowVars
  <2>2. Drop(w) \/ \E pc : Goto(w, pc)
    BY <1>6 DEF Recheck, CheckOwner, VoidAction, VoidRecord, DryRun, Book, MarkActionExecuted,
                RecordFailure, Escalate
  <2> QED
    BY <1>1, <2>1, <2>2
<1>7. ASSUME Void(w) PROVE Effect
  BY <1>7, GotoFields DEF Void, StillLocked, TickMoves, Terminal, RowTypes
<1>8. ASSUME Post(w) PROVE Effect
  BY <1>8 DEF Post, rowVars, TickType, TickRecords, TickMoves
<1>9. ASSUME Settle(w) PROVE Effect
  BY <1>9, GotoFields DEF Settle, StillLocked, TickMoves, Terminal, RowTypes
<1>10. ASSUME Requeue(w) PROVE Effect
  BY <1>10, DropFields DEF Requeue, StillLocked, TickMoves, RowTypes
<1>11. ASSUME GiveUp(w) PROVE Effect
  BY <1>11, GotoFields DEF GiveUp, StillLocked, TickMoves, Terminal, RowTypes
<1>12. ASSUME CrashTick(w) PROVE Effect
  BY <1>12 DEF CrashTick, IdleTick, rowVars, TickType, TickMoves
<1> QED
  BY <1>2, <1>3, <1>4, <1>5, <1>6, <1>7, <1>8, <1>9, <1>10, <1>11, <1>12 DEF TickStep

-----------------------------------------------------------------------------
(* Effects of an HTTP request. *)

\* The rows a request has locked, or has selected for recovery.
Reserved(c) == call[c].held \cup (IF call[c].pc = "reread" THEN call[c].queue ELSE {})

\* What a request's step may do to row r.
CallKeeps(c, r) ==
  /\ status'[r] = status[r] /\ aged'[r] = aged[r]
  /\ r \in Reserved(c)' => r \in Reserved(c) \/ r \in StaleLocks
  /\ call'[c].row = r => call[c].row = r
CallLocks(c, r) ==
  /\ status[r] = "planned" /\ status'[r] = "locked" /\ aged'[r] = FALSE
  /\ call'[c].row = r => call[c].row = r
CallBegins(c, r) ==
  /\ status[r] = "locked" /\ r \in Reserved(c) /\ aged'[r] = aged[r]
  /\ \/ status'[r] = "sending"
     \/ status'[r] = "failed" /\ call'[c].row # r
CallEnds(c, r) ==
  /\ status[r] = "sending" /\ call[c].row = r /\ aged'[r] = aged[r]
  /\ status'[r] \in {"sent", "failed"} /\ call'[c].row # r
  /\ r \in Reserved(c)' => r \in Reserved(c)

CallMoves(c) ==
  /\ tick' = tick
  /\ \A d \in Calls : d # c => call'[d] = call[d]
  /\ \A r \in Rows : CallKeeps(c, r) \/ CallLocks(c, r) \/ CallBegins(c, r) \/ CallEnds(c, r)

\* After NextHeld the request holds what it held, without r, and sends nothing.
LEMMA NextHeldFields ==
  ASSUME CallType, NEW c \in Calls, NEW r, call' = [call EXCEPT ![c] = NextHeld(c, r)]
  PROVE  /\ \A d \in Calls : d # c => call'[d] = call[d]
         /\ call'[c].row = NoRow /\ Reserved(c)' \subseteq Reserved(c)
         /\ call'[c].pc \in {"idle", "send"}
<1>1. CASE NextHeld(c, r) = IdleCall
  BY <1>1 DEF CallType, IdleCall, Reserved
<1>2. CASE NextHeld(c, r) = [IdleCall EXCEPT !.pc = "send", !.mode = call[c].mode,
                                             !.held = call[c].held \ {r}]
  BY <1>2 DEF CallType, IdleCall, Reserved
<1> QED
  BY <1>1, <1>2 DEF NextHeld

LEMMA CallEffects ==
  ASSUME TypeOK, NEW c \in Calls, CallStep(c) \/ CrashCall(c)
  PROVE  CallMoves(c)
<1> USE DEF TypeOK
<1> DEFINE Others == \A d \in Calls : d # c => call'[d] = call[d]
<1>1. ASSUME UNCHANGED <<status, aged, tick>>, Others, call'[c].row \in {NoRow, call[c].row},
             Reserved(c)' \subseteq Reserved(c) \cup StaleLocks
      PROVE  CallMoves(c)
  BY <1>1, RowsAssumption DEF CallMoves, CallKeeps, NoRow
<1>2. ASSUME NEW mode \in Modes, SelectPlanned(c, mode) PROVE CallMoves(c)
  <2>1. UNCHANGED <<status, aged, tick>>
    BY <1>2 DEF SelectPlanned, rowVars
  <2>2. Others /\ call'[c].row = call[c].row /\ call'[c].held = call[c].held
        /\ call'[c].pc = "lock"
    BY <1>2 DEF SelectPlanned, CallType, CallRecords
  <2> QED
    BY <1>1, <2>1, <2>2 DEF Reserved
<1>3. ASSUME SelectStale(c) PROVE CallMoves(c)
  <2>1. PICK S \in SUBSET StaleLocks :
          call' = [call EXCEPT ![c].pc = "reread", ![c].mode = "recover", ![c].queue = S]
    BY <1>3 DEF SelectStale
  <2>2. UNCHANGED <<status, aged, tick>>
    BY <1>3 DEF SelectStale, rowVars
  <2>3. Others /\ call'[c].row = call[c].row /\ call'[c].held = call[c].held
        /\ call'[c].pc = "reread" /\ call'[c].queue = S
    BY <2>1 DEF CallType, CallRecords
  <2> QED
    BY <1>1, <2>2, <2>3 DEF Reserved
<1>4. ASSUME NEW r \in Rows, LockNext(c, r) PROVE CallMoves(c)
  <2>1. Others /\ call'[c].row = call[c].row /\ call'[c].pc = "lock"
        /\ call'[c].held \in {call[c].held, call[c].held \cup {r}}
        /\ (call'[c].held # call[c].held => Lock(r) /\ Lockable(r))
    BY <1>4 DEF LockNext, CallType, CallRecords
  <2>2. tick' = tick
    BY <1>4 DEF LockNext
  <2>3. CASE Lock(r) /\ Lockable(r)
    <3>1. /\ status[r] = "planned" /\ status' = [status EXCEPT ![r] = "locked"]
          /\ aged' = [aged EXCEPT ![r] = FALSE]
      BY <2>3 DEF Lock, Lockable
    <3> QED
      BY <2>1, <2>2, <3>1 DEF CallMoves, CallKeeps, CallLocks, Reserved, RowTypes
  <2>4. CASE ~(Lock(r) /\ Lockable(r))
    <3>1. UNCHANGED <<status, aged>>
      BY <1>4, <2>4 DEF LockNext, Lock
    <3> QED
      BY <1>1, <2>1, <2>2, <2>4, <3>1 DEF Reserved
  <2> QED
    BY <2>3, <2>4
<1>5. ASSUME LockedAll(c) PROVE CallMoves(c)
  <2>1. UNCHANGED <<status, aged, tick>>
    BY <1>5 DEF LockedAll, rowVars
  <2>2. CASE CallDone(c)
    BY <1>1, <2>1, <2>2 DEF CallDone, IdleCall, CallType, Reserved
  <2>3. CASE call' = [call EXCEPT ![c].pc = "reread", ![c].queue = call[c].held, ![c].held = {}]
    <3>1. Others /\ call'[c].row = call[c].row /\ call'[c].held = {}
          /\ call'[c].queue = call[c].held
      BY <2>3 DEF CallType, CallRecords
    <3> QED
      BY <1>1, <2>1, <3>1 DEF Reserved
  <2> QED
    BY <1>5, <2>2, <2>3 DEF LockedAll
<1>6. ASSUME NEW r \in Rows, Reread(c, r) PROVE CallMoves(c)
  <2>1. UNCHANGED <<status, aged, tick>>
    BY <1>6 DEF Reread, rowVars
  <2>2. Others /\ call'[c].row = call[c].row /\ call'[c].pc = "reread" /\ call[c].pc = "reread"
        /\ call'[c].queue = call[c].queue \ {r} /\ r \in call[c].queue
        /\ call'[c].held \in {call[c].held, call[c].held \cup {r}}
    BY <1>6 DEF Reread, IsFirst, CallType, CallRecords
  <2> QED
    BY <1>1, <2>1, <2>2 DEF Reserved
<1>7. ASSUME RereadAll(c) PROVE CallMoves(c)
  <2>1. UNCHANGED <<status, aged, tick>>
    BY <1>7 DEF RereadAll, rowVars
  <2>2. CASE CallDone(c)
    BY <1>1, <2>1, <2>2 DEF CallDone, IdleCall, CallType, Reserved
  <2>3. CASE CallGoto(c, "send")
    BY <1>1, <2>1, <2>3 DEF CallGoto, CallType, CallRecords, Reserved
  <2> QED
    BY <1>7, <2>2, <2>3 DEF RereadAll
<1>8. ASSUME NEW r \in Rows, Begin(c, r) PROVE CallMoves(c)
  <2>1. /\ tick' = tick /\ aged' = aged /\ r \in Reserved(c)
    BY <1>8 DEF Begin, IsFirst, Reserved
  <2>2. CASE /\ status[r] = "locked" /\ status' = [status EXCEPT ![r] = "sending"]
             /\ call' = [call EXCEPT ![c].held = @ \ {r}, ![c].row = r, ![c].pc = "post"]
    <3>1. Others /\ call'[c].row = r /\ Reserved(c)' \subseteq Reserved(c)
      BY <2>2 DEF Reserved, CallType, CallRecords
    <3> QED
      BY <2>1, <2>2, <3>1 DEF CallMoves, CallKeeps, CallBegins, RowTypes
  <2>3. CASE /\ call' = [call EXCEPT ![c] = NextHeld(c, r)]
             /\ \/ status' = status
                \/ status[r] = "locked" /\ status' = [status EXCEPT ![r] = "failed"]
    <3>1. Others /\ call'[c].row = NoRow /\ Reserved(c)' \subseteq Reserved(c)
      BY <2>3, NextHeldFields
    <3> QED
      BY <2>1, <2>3, <3>1, RowsAssumption DEF CallMoves, CallKeeps, CallBegins, RowTypes, NoRow
  <2> QED
    BY <1>8, <2>2, <2>3 DEF Begin, StillLocked
<1>9. ASSUME CallPost(c) PROVE CallMoves(c)
  <2>1. UNCHANGED <<status, aged, tick>>
    BY <1>9 DEF CallPost, rowVars
  <2>2. Others /\ call'[c].row = call[c].row /\ call'[c].held = call[c].held
        /\ call'[c].pc = "finalize"
    BY <1>9 DEF CallPost, CallType, CallRecords
  <2> QED
    BY <1>1, <2>1, <2>2 DEF Reserved
<1>10. ASSUME Finalize(c) PROVE CallMoves(c)
  <2>1. Others /\ call'[c].row = NoRow /\ Reserved(c)' \subseteq Reserved(c)
    BY <1>10, NextHeldFields DEF Finalize
  <2>2. /\ tick' = tick /\ aged' = aged
        /\ \/ status' = status
           \/ /\ status[call[c].row] = "sending"
              /\ status' = [status EXCEPT ![call[c].row] = Outcome(c)]
    BY <1>10 DEF Finalize
  <2>3. Outcome(c) \in {"sent", "failed"}
    BY DEF Outcome
  <2> QED
    BY <2>1, <2>2, <2>3, RowsAssumption DEF CallMoves, CallKeeps, CallEnds, RowTypes, NoRow
<1>11. ASSUME CrashCall(c) PROVE CallMoves(c)
  BY <1>1, <1>11 DEF CrashCall, CallDone, IdleCall, CallType, Reserved, rowVars
<1> QED
  BY <1>2, <1>3, <1>4, <1>5, <1>6, <1>7, <1>8, <1>9, <1>10, <1>11 DEF CallStep

-----------------------------------------------------------------------------
(* Effects of everyone else. *)

EnvMoves ==
  /\ tick' = tick /\ call' = call
  /\ \A r \in Rows :
       /\ \/ status'[r] = status[r]
          \/ status[r] = "none" /\ status'[r] = "planned"
          \/ status[r] \in {"planned", "locked"} /\ status'[r] = "cancelled"
       /\ aged'[r] = aged[r] \/ \A w \in Ticks : Engaged(w, r) => w \in SlowTicks

LEMMA EnvEffects ==
  ASSUME TypeOK,
         \/ \E o \in Operators : OperatorStep(o)
         \/ \E r \in Rows : CycleStep(r) \/ BackoffElapses(r) \/ LockAges(r)
         \/ Inbound \/ WindowCloses \/ UNCHANGED vars
  PROVE  EnvMoves
<1> USE DEF TypeOK, RowTypes
<1>1. ASSUME UNCHANGED <<status, aged, tick, call>> PROVE EnvMoves
  BY <1>1 DEF EnvMoves
<1>2. ASSUME NEW o \in Operators, Commit(o) PROVE EnvMoves
  BY <1>2 DEF Commit, CancelPendingAutonomousSends, Pending, EnvMoves
<1>3. ASSUME NEW o \in Operators, NEW command, Read(o, command) PROVE EnvMoves
  BY <1>1, <1>3 DEF Read, rowVars
<1>4. ASSUME NEW o \in Operators, SendReply(o) PROVE EnvMoves
  BY <1>1, <1>4 DEF SendReply, rowVars
<1>5. ASSUME NEW r \in Rows, Decide(r) \/ Propose(r) PROVE EnvMoves
  BY <1>1, <1>5 DEF Decide, Propose, rowVars
<1>6. ASSUME NEW r \in Rows, Gate(r) PROVE EnvMoves
  BY <1>6 DEF Gate, EnvMoves
<1>7. ASSUME NEW r \in Rows, PlanOperatorRow(r) PROVE EnvMoves
  BY <1>7 DEF PlanOperatorRow, EnvMoves
<1>8. ASSUME NEW r \in Rows, BackoffElapses(r) PROVE EnvMoves
  BY <1>1, <1>8 DEF BackoffElapses
<1>9. ASSUME NEW r \in Rows, LockAges(r) PROVE EnvMoves
  BY <1>9 DEF LockAges, EnvMoves
<1>10. ASSUME Inbound \/ WindowCloses \/ UNCHANGED vars PROVE EnvMoves
  BY <1>1, <1>10 DEF Inbound, WindowCloses, vars, rowVars
<1> QED
  BY <1>2, <1>3, <1>4, <1>5, <1>6, <1>7, <1>8, <1>9, <1>10 DEF OperatorStep, CycleStep

\* The three kinds of step.
LEMMA StepKinds ==
  ASSUME TypeOK, [Next]_vars
  PROVE  \/ \E w \in Ticks : TickStep(w) \/ CrashTick(w)
         \/ \E c \in Calls : CallStep(c) \/ CrashCall(c)
         \/ EnvMoves
BY EnvEffects DEF Next

LEMMA StepEffects ==
  ASSUME TypeOK, [Next]_vars
  PROVE  \/ \E w \in Ticks : TickMoves(w) \/ TickClaims(w)
         \/ \E c \in Calls : CallMoves(c)
         \/ EnvMoves
BY StepKinds, TickEffects, CallEffects

-----------------------------------------------------------------------------
(* What holds however slow a worker is. *)

\* A request sends only rows it moved to sending, and no two send the same.
CallsSendAlone ==
  /\ \A c \in Calls, r \in Rows : call[c].row = r => status[r] = "sending"
  /\ \A c, d \in Calls, r \in Rows : call[c].row = r /\ call[d].row = r => c = d

LEMMA CallsSendAloneKept ==
  ASSUME TypeOK, CallsSendAlone, [Next]_vars
  PROVE  CallsSendAlone'
<1>1. ASSUME NEW w \in Ticks, TickMoves(w) PROVE CallsSendAlone'
  BY <1>1 DEF TickMoves, CallsSendAlone
<1>2. ASSUME NEW w \in Ticks, TickClaims(w) PROVE CallsSendAlone'
  BY <1>2 DEF TickClaims, CallsSendAlone, TypeOK, RowTypes
<1>3. ASSUME NEW c \in Calls, CallMoves(c) PROVE CallsSendAlone'
  <2>1. ASSUME NEW d \in Calls, NEW r \in Rows, call'[d].row = r
        PROVE  /\ status'[r] = "sending"
               /\ d # c => call'[c].row # r
    <3>1. CallKeeps(c, r) \/ CallLocks(c, r) \/ CallBegins(c, r) \/ CallEnds(c, r)
      BY <1>3 DEF CallMoves
    <3>2. CASE d = c
      BY <2>1, <3>1, <3>2
         DEF CallsSendAlone, CallKeeps, CallLocks, CallBegins, CallEnds
    <3>3. CASE d # c
      <4>1. call[d].row = r /\ status[r] = "sending" /\ call[c].row # r
        BY <1>3, <2>1, <3>3 DEF CallMoves, CallsSendAlone
      <4> QED
        BY <3>1, <4>1 DEF CallKeeps, CallLocks, CallBegins, CallEnds
    <3> QED
      BY <3>2, <3>3
  <2> QED
    BY <2>1, <1>3 DEF CallsSendAlone, CallMoves
<1>4. ASSUME EnvMoves PROVE CallsSendAlone'
  BY <1>4 DEF EnvMoves, CallsSendAlone
<1> QED
  BY <1>1, <1>2, <1>3, <1>4, StepEffects

LEMMA InitCallsSendAlone == Init => CallsSendAlone
BY RowsAssumption DEF Init, CallsSendAlone, IdleCall, NoRow

\* No settlement, cancellation or recovery moves a row out of sent, failed or
\* cancelled.
THEOREM TerminalRows == Spec => TerminalIsFinal
<1> DEFINE Kept == \A r \in Rows : status[r] \in Terminal => status'[r] = status[r]
<1>1. TypeOK /\ [Next]_vars => Kept
  <2> SUFFICES ASSUME TypeOK, [Next]_vars, NEW r \in Rows, status[r] \in Terminal
               PROVE  status'[r] = status[r]
    OBVIOUS
  <2>1. ASSUME NEW w \in Ticks, TickMoves(w) \/ TickClaims(w) PROVE status'[r] = status[r]
    BY <2>1 DEF TickMoves, TickClaims, Terminal, TypeOK, RowTypes
  <2>2. ASSUME NEW c \in Calls, CallMoves(c) PROVE status'[r] = status[r]
    BY <2>2 DEF CallMoves, CallKeeps, CallLocks, CallBegins, CallEnds, Terminal
  <2>3. ASSUME EnvMoves PROVE status'[r] = status[r]
    BY <2>3 DEF EnvMoves, Terminal
  <2> QED
    BY <2>1, <2>2, <2>3, StepEffects
<1> QED
  BY <1>1, TypeCorrectness, PTL DEF Spec, TerminalIsFinal

-----------------------------------------------------------------------------
(* Where a tick stands with a row. *)

BeforeSend(w, r) == tick[w].row = r /\ tick[w].pc \in {"load", "recheck", "owner", "cleared"}
Settling(w, r) == tick[w].row = r /\ tick[w].pc = "settle"

\* A tick clears a row only if it saw it locked, prepares to send only a row it
\* claimed, and leaves an acceptance unsettled only by dying.
LEMMA TickProgress ==
  ASSUME TypeOK, NEW w \in Ticks, TickStep(w) \/ CrashTick(w), NEW r \in Rows
  PROVE  /\ PastRecheck(w, r)' => PastRecheck(w, r) \/ status[r] = "locked"
         /\ BeforeSend(w, r)' => (BeforeSend(w, r) /\ ~Post(w)) \/ status[r] = "planned"
         /\ Settling(w, r) => Settle(w) \/ CrashTick(w)
<1> DEFINE Progress == /\ PastRecheck(w, r)' => PastRecheck(w, r) \/ status[r] = "locked"
                       /\ BeforeSend(w, r)' => (BeforeSend(w, r) /\ ~Post(w)) \/ status[r] = "planned"
                       /\ Settling(w, r) => Settle(w) \/ CrashTick(w)
<1> USE RowsAssumption DEF TypeOK, PastRecheck, BeforeSend, Settling, NoRow
<1>1. ASSUME Drop(w), tick[w].pc # "settle" PROVE Progress
  BY <1>1, DropFields
<1>2. ASSUME NEW pc \in {"void", "voidAction", "voidRecord", "book", "executed", "requeue",
                         "giveUp", "escalate"}, Goto(w, pc), tick[w].pc # "settle" \/ Settle(w)
      PROVE  Progress
  BY <1>2, GotoFields
<1>3. ASSUME Poll(w) PROVE Progress
  BY <1>3 DEF Poll, TickType, TickRecords
<1>4. ASSUME NEW q \in Rows, Skip(w, q) PROVE Progress
  BY <1>4 DEF Skip, TickType, TickRecords
<1>5. ASSUME NEW q \in Rows, Claim(w, q) PROVE Progress
  <2>1. CASE /\ status[q] = "planned" /\ tick[w].pc = "idle"
             /\ tick' = [tick EXCEPT ![w].batch = @ \ {q}, ![w].pc = "load", ![w].row = q]
    BY <2>1 DEF TickType, TickRecords
  <2>2. CASE tick[w].pc = "idle" /\ tick' = [tick EXCEPT ![w].batch = @ \ {q}]
    BY <2>2 DEF TickType, TickRecords
  <2> QED
    BY <1>5, <2>1, <2>2 DEF Claim, Lockable
<1>6. ASSUME Load(w) PROVE Progress
  <2>1. CASE Drop(w)
    BY <1>1, <1>6, <2>1 DEF Load
  <2>2. CASE tick'[w].row = tick[w].row /\ tick'[w].pc \in {"void", "recheck"}
    BY <1>6, <2>2 DEF Load, Post
  <2> QED
    BY <1>6, <2>1, <2>2 DEF Load, TickType, TickRecords
<1>7. ASSUME Recheck(w) PROVE Progress
  <2>1. CASE Drop(w)
    BY <1>1, <1>7, <2>1 DEF Recheck
  <2>2. CASE status[tick[w].row] = "locked" /\ \E pc : Goto(w, pc)
    BY <1>7, <2>2, GotoFields DEF Recheck, Post
  <2> QED
    BY <1>7, <2>1, <2>2 DEF Recheck, Superseded
<1>8. ASSUME CheckOwner(w) PROVE Progress
  <2>1. CASE Goto(w, "void")
    BY <1>2, <1>8, <2>1 DEF CheckOwner
  <2>2. CASE Goto(w, "cleared")
    BY <1>8, <2>2, GotoFields DEF CheckOwner, Post
  <2> QED
    BY <1>8, <2>1, <2>2 DEF CheckOwner
<1>9. ASSUME Void(w) \/ VoidAction(w) \/ Book(w) \/ RecordFailure(w) \/ GiveUp(w) PROVE Progress
  BY <1>2, <1>9 DEF Void, VoidAction, Book, RecordFailure, GiveUp
<1>10. ASSUME VoidRecord(w) \/ DryRun(w) \/ MarkActionExecuted(w) \/ Requeue(w) \/ Escalate(w)
       PROVE  Progress
  BY <1>1, <1>10 DEF VoidRecord, DryRun, MarkActionExecuted, Requeue, Escalate
<1>11. ASSUME Post(w) PROVE Progress
  <2>1. tick'[w].pc \in {"settle", "failure"}
    BY <1>11 DEF Post, TickType, TickRecords
  <2> QED
    BY <1>11, <2>1 DEF Post
<1>12. ASSUME Settle(w) PROVE Progress
  BY <1>2, <1>12 DEF Settle
<1>13. ASSUME CrashTick(w) PROVE Progress
  BY <1>13 DEF CrashTick, IdleTick, TickType
<1> QED
  BY <1>3, <1>4, <1>5, <1>6, <1>7, <1>8, <1>9, <1>10, <1>11, <1>12, <1>13 DEF TickStep

-----------------------------------------------------------------------------
(* Revocation. *)

\* Only a command adds to revoked, and only rows it cancels in that step.
LEMMA RevocationEffects ==
  ASSUME TypeOK, [Next]_vars
  PROVE  \/ revoked' = revoked
         \/ /\ tick' = tick
            /\ \A r \in revoked' \ revoked : /\ status'[r] = "cancelled"
                                           /\ \A w \in Ticks : ~PastRecheck(w, r)
<1>1. ASSUME NEW w \in Ticks, TickStep(w) \/ CrashTick(w) PROVE revoked' = revoked
  BY <1>1 DEF TickStep, CrashTick, Poll, Skip, Claim, Load, Recheck, CheckOwner, Void,
     VoidAction, VoidRecord, DryRun, Post, Settle, Book, MarkActionExecuted, RecordFailure,
     Requeue, GiveUp, Escalate
<1>2. ASSUME NEW c \in Calls, CallStep(c) \/ CrashCall(c) PROVE revoked' = revoked
  BY <1>2 DEF CallStep, CrashCall, SelectPlanned, SelectStale, LockNext, LockedAll, Reread,
     RereadAll, Begin, CallPost, Finalize
<1>3. ASSUME NEW o \in Operators, Commit(o), revoked' # revoked
      PROVE  /\ tick' = tick
             /\ \A r \in revoked' \ revoked : /\ status'[r] = "cancelled"
                                            /\ \A w \in Ticks : ~PastRecheck(w, r)
  BY <1>3 DEF Commit, CancelPendingAutonomousSends, Pending
<1>4. ASSUME NEW o \in Operators, OperatorStep(o), ~Commit(o) PROVE revoked' = revoked
  BY <1>4 DEF OperatorStep, Read, SendReply
<1>5. ASSUME NEW r \in Rows, CycleStep(r) \/ BackoffElapses(r) \/ LockAges(r)
      PROVE  revoked' = revoked
  BY <1>5 DEF CycleStep, Decide, Propose, Gate, PlanOperatorRow, BackoffElapses, LockAges
<1>6. ASSUME Inbound \/ WindowCloses \/ UNCHANGED vars PROVE revoked' = revoked
  BY <1>6 DEF Inbound, WindowCloses, vars
<1> QED
  BY <1>1, <1>2, <1>3, <1>4, <1>5, <1>6 DEF Next

RevocationInv == TypeOK /\ CallsSendAlone /\ RevokedIsFinal

LEMMA RevocationKept ==
  ASSUME RevocationInv, TypeOK', [Next]_vars
  PROVE  RevocationInv'
<1> USE DEF RevocationInv
<1>1. CallsSendAlone'
  BY CallsSendAloneKept
<1>2. revoked \subseteq Rows /\ revoked' \subseteq Rows
  BY DEF TypeOK, RecordTypes
<1>3. ASSUME NEW r \in Rows, status[r] = "cancelled" PROVE status'[r] = "cancelled"
  <2>1. ASSUME NEW w \in Ticks, TickMoves(w) \/ TickClaims(w) PROVE status'[r] = "cancelled"
    BY <1>3, <2>1 DEF TickMoves, TickClaims, TypeOK, RowTypes
  <2>2. ASSUME NEW c \in Calls, CallMoves(c) PROVE status'[r] = "cancelled"
    BY <1>3, <2>2 DEF CallMoves, CallKeeps, CallLocks, CallBegins, CallEnds
  <2>3. ASSUME EnvMoves PROVE status'[r] = "cancelled"
    BY <1>3, <2>3 DEF EnvMoves
  <2> QED
    BY <2>1, <2>2, <2>3, StepEffects
<1>4. ASSUME NEW r \in revoked', status'[r] = "cancelled", NEW c \in Calls
      PROVE  call'[c].row # r
  BY <1>1, <1>2, <1>4 DEF CallsSendAlone
<1>5. ASSUME NEW r \in revoked, NEW w \in Ticks PROVE ~PastRecheck(w, r)'
  <2>1. status[r] = "cancelled" /\ ~PastRecheck(w, r)
    BY DEF RevokedIsFinal
  <2>2. ASSUME NEW v \in Ticks, TickStep(v) \/ CrashTick(v) PROVE ~PastRecheck(w, r)'
    <3>1. CASE v = w
      BY <1>2, <2>1, <2>2, <3>1, TickProgress
    <3>2. CASE v # w
      <4>1. tick'[w] = tick[w]
        BY <2>2, <3>2, TickEffects DEF TickMoves, TickClaims
      <4> QED
        BY <2>1, <4>1 DEF PastRecheck
    <3> QED
      BY <3>1, <3>2
  <2>3. ASSUME tick' = tick PROVE ~PastRecheck(w, r)'
    BY <2>1, <2>3 DEF PastRecheck
  <2>4. ASSUME NEW c \in Calls, CallStep(c) \/ CrashCall(c) PROVE tick' = tick
    BY <2>4, CallEffects DEF CallMoves
  <2> QED
    BY <2>2, <2>3, <2>4, StepKinds DEF EnvMoves
<1>6. CASE revoked' = revoked
  BY <1>1, <1>2, <1>3, <1>4, <1>5, <1>6 DEF RevokedIsFinal
<1>7. CASE /\ tick' = tick
           /\ \A r \in revoked' \ revoked : /\ status'[r] = "cancelled"
                                          /\ \A w \in Ticks : ~PastRecheck(w, r)
  <2>1. ASSUME NEW r \in revoked'
        PROVE  status'[r] = "cancelled" /\ \A w \in Ticks : ~PastRecheck(w, r)'
    BY <1>2, <1>3, <1>5, <1>7 DEF RevokedIsFinal, PastRecheck
  <2> QED
    BY <1>1, <1>4, <2>1 DEF RevokedIsFinal
<1> QED
  BY <1>6, <1>7, RevocationEffects

\* The provider is called by a cleared tick, or by a request with a row in hand.
LEMMA PostEffects ==
  ASSUME TypeOK, [Next]_vars, NEW r \in Rows
  PROVE  \/ posts'[r] = posts[r]
         \/ \E w \in Ticks : PastRecheck(w, r)
         \/ \E c \in Calls : call[c].row = r
<1> DEFINE Effect == \/ posts'[r] = posts[r]
                     \/ \E w \in Ticks : PastRecheck(w, r)
                     \/ \E c \in Calls : call[c].row = r
<1> USE DEF TypeOK, ProviderTypes
<1>1. ASSUME NEW w \in Ticks, Post(w) PROVE Effect
  BY <1>1 DEF Post, Deliver, PastRecheck
<1>2. ASSUME NEW c \in Calls, CallPost(c) PROVE Effect
  BY <1>2 DEF CallPost, Deliver
<1>3. ASSUME NEW w \in Ticks, TickStep(w) \/ CrashTick(w), ~Post(w) PROVE posts' = posts
  BY <1>3 DEF TickStep, CrashTick, Poll, Skip, Claim, Load, Recheck, CheckOwner, Void,
     VoidAction, VoidRecord, DryRun, Settle, Book, MarkActionExecuted, RecordFailure,
     Requeue, GiveUp, Escalate, provider
<1>4. ASSUME NEW c \in Calls, CallStep(c) \/ CrashCall(c), ~CallPost(c) PROVE posts' = posts
  BY <1>4 DEF CallStep, CrashCall, SelectPlanned, SelectStale, LockNext, LockedAll, Reread,
     RereadAll, Begin, Finalize, provider
<1>5. ASSUME NEW o \in Operators, OperatorStep(o) PROVE posts' = posts
  BY <1>5 DEF OperatorStep, Read, Commit, SendReply, provider
<1>6. ASSUME NEW q \in Rows, CycleStep(q) \/ BackoffElapses(q) \/ LockAges(q)
      PROVE  posts' = posts
  BY <1>6 DEF CycleStep, Decide, Propose, Gate, PlanOperatorRow, BackoffElapses, LockAges, provider
<1>7. ASSUME Inbound \/ WindowCloses \/ UNCHANGED vars PROVE posts' = posts
  BY <1>7 DEF Inbound, WindowCloses, vars, provider
<1> QED
  BY <1>1, <1>2, <1>3, <1>4, <1>5, <1>6, <1>7 DEF Next

LEMMA RevocationHolds == Spec => []RevocationInv
<1>1. Init /\ TypeOK => RevocationInv
  BY InitCallsSendAlone DEF RevocationInv, RevokedIsFinal, Init
<1>2. RevocationInv /\ TypeOK' /\ [Next]_vars => RevocationInv'
  BY RevocationKept
<1> QED
  BY <1>1, <1>2, TypeCorrectness, PTL DEF Spec

\* A row an operator cancelled before its last status check stays cancelled and
\* in nobody's hands.
THEOREM Revocation == Spec => []RevokedIsFinal
<1>1. RevocationInv => RevokedIsFinal
  BY DEF RevocationInv
<1> QED
  BY <1>1, RevocationHolds, PTL

\* The provider is never called for such a row.
THEOREM RevokedRowsAreNotSent == Spec => RevokedIsNeverSent
<1> DEFINE Kept == \A r \in revoked : posts'[r] = posts[r]
<1>1. RevocationInv /\ [Next]_vars => Kept
  BY PostEffects DEF RevocationInv, RevokedIsFinal, TypeOK, RecordTypes
<1> QED
  BY <1>1, RevocationHolds, PTL DEF Spec, RevokedIsNeverSent

-----------------------------------------------------------------------------
(* What needs every worker to be done with a row before its lock is stale. *)

\* A tick holds its row alone; the row is past planned and not sending; a lock
\* that has aged, or that a request reserves, has no tick behind it.
TicksHoldAlone ==
  /\ \A v, w \in Ticks, r \in Rows : Engaged(v, r) /\ Engaged(w, r) => v = w
  /\ \A w \in Ticks, r \in Rows : Engaged(w, r) => status[r] \in {"locked"} \cup Terminal
StaleLocksAreFree ==
  \A w \in Ticks, r \in Rows : status[r] = "locked" /\ aged[r] => ~Engaged(w, r)
ReservedRowsAreFree ==
  \A c \in Calls, r \in Rows : r \in Reserved(c) =>
    status[r] \notin {"none", "planned"} /\ \A w \in Ticks : ~Engaged(w, r)

ExclusionInv == TypeOK /\ CallsSendAlone /\ TicksHoldAlone /\ StaleLocksAreFree /\ ReservedRowsAreFree

LEMMA TickKeepsExclusion ==
  ASSUME ExclusionInv, NEW w \in Ticks, TickMoves(w) \/ TickClaims(w)
  PROVE  TicksHoldAlone' /\ StaleLocksAreFree' /\ ReservedRowsAreFree'
<1> USE RowsAssumption DEF ExclusionInv, Engaged, Terminal, NoRow
<1>1. CASE TickMoves(w)
  <2>1. \A v \in Ticks, r \in Rows : Engaged(v, r)' => Engaged(v, r)
    BY <1>1 DEF TickMoves
  <2>2. \A r \in Rows : status[r] \notin {"none", "planned"} /\ ~Engaged(w, r)
                        => status'[r] = status[r]
    BY <1>1 DEF TickMoves
  <2>3. TicksHoldAlone'
    <3>1. ASSUME NEW v \in Ticks, NEW r \in Rows, Engaged(v, r)'
          PROVE  status'[r] \in {"locked"} \cup Terminal
      <4>1. Engaged(v, r) /\ status[r] \in {"locked"} \cup Terminal
        BY <2>1, <3>1 DEF TicksHoldAlone
      <4>2. CASE v = w
        BY <1>1, <3>1, <4>1, <4>2 DEF TickMoves
      <4>3. CASE v # w
        BY <2>2, <4>1, <4>3 DEF TicksHoldAlone
      <4> QED
        BY <4>2, <4>3
    <3> QED
      BY <2>1, <3>1 DEF TicksHoldAlone
  <2>4. StaleLocksAreFree'
    BY <1>1, <2>1 DEF TickMoves, StaleLocksAreFree
  <2>5. ReservedRowsAreFree'
    BY <1>1, <2>1, <2>2 DEF TickMoves, ReservedRowsAreFree, Reserved
  <2> QED
    BY <2>3, <2>4, <2>5
<1>2. CASE TickClaims(w)
  <2>1. PICK q \in Rows : /\ status[q] = "planned" /\ status' = [status EXCEPT ![q] = "locked"]
                          /\ aged' = [aged EXCEPT ![q] = FALSE] /\ tick'[w].row = q
    BY <1>2 DEF TickClaims
  <2>2. \A v \in Ticks : ~Engaged(v, q)
    BY <2>1 DEF TicksHoldAlone
  <2>3. \A v \in Ticks, r \in Rows : Engaged(v, r)' => Engaged(v, r) \/ (v = w /\ r = q)
    BY <1>2, <2>1 DEF TickClaims
  <2>4. /\ status'[q] = "locked" /\ aged'[q] = FALSE
        /\ \A r \in Rows : r # q => status'[r] = status[r] /\ aged'[r] = aged[r]
    BY <2>1 DEF TypeOK, RowTypes
  <2>5. TicksHoldAlone'
    BY <2>2, <2>3, <2>4 DEF TicksHoldAlone
  <2>6. StaleLocksAreFree'
    <3> SUFFICES ASSUME NEW v \in Ticks, NEW r \in Rows, status'[r] = "locked", aged'[r],
                        Engaged(v, r)'
                 PROVE  FALSE
      BY DEF StaleLocksAreFree
    <3>1. CASE r = q
      BY <2>4, <3>1
    <3>2. CASE r # q
      <4>1. Engaged(v, r) /\ status[r] = "locked" /\ aged[r]
        BY <2>3, <2>4, <3>2
      <4> QED
        BY <4>1 DEF StaleLocksAreFree
    <3> QED
      BY <3>1, <3>2
  <2>7. ReservedRowsAreFree'
    <3>1. \A c \in Calls : Reserved(c)' = Reserved(c)
      BY <1>2 DEF TickClaims, Reserved
    <3>2. \A c \in Calls : q \notin Reserved(c)
      BY <2>1 DEF ReservedRowsAreFree
    <3> QED
      BY <2>3, <2>4, <3>1, <3>2 DEF ReservedRowsAreFree
  <2> QED
    BY <2>5, <2>6, <2>7
<1> QED
  BY <1>1, <1>2

LEMMA CallKeepsExclusion ==
  ASSUME ExclusionInv, NEW c \in Calls, CallMoves(c)
  PROVE  TicksHoldAlone' /\ StaleLocksAreFree' /\ ReservedRowsAreFree'
<1> USE DEF ExclusionInv, Engaged, Terminal
<1>1. tick' = tick
  BY DEF CallMoves
<1>2. ASSUME NEW r \in Rows, NEW w \in Ticks, Engaged(w, r)
      PROVE  status'[r] = status[r] /\ aged'[r] = aged[r]
  <2>1. status[r] \in {"locked"} \cup Terminal /\ r \notin Reserved(c)
    BY <1>2 DEF TicksHoldAlone, ReservedRowsAreFree
  <2> QED
    BY <2>1 DEF CallMoves, CallKeeps, CallLocks, CallBegins, CallEnds
<1>3. TicksHoldAlone'
  BY <1>1, <1>2 DEF TicksHoldAlone
<1>4. StaleLocksAreFree'
  BY <1>1, <1>2 DEF StaleLocksAreFree
<1>5. ASSUME NEW r \in Rows, r \in Reserved(c)'
      PROVE  status'[r] \notin {"none", "planned"} /\ \A w \in Ticks : ~Engaged(w, r)
  <2>1. CASE CallKeeps(c, r)
    BY <1>5, <2>1 DEF CallKeeps, ReservedRowsAreFree, StaleLocks, StaleLocksAreFree
  <2>2. CASE CallLocks(c, r)
    BY <2>2 DEF CallLocks, TicksHoldAlone
  <2>3. CASE CallBegins(c, r) \/ CallEnds(c, r)
    BY <1>5, <2>3 DEF CallBegins, CallEnds, ReservedRowsAreFree
  <2> QED
    BY <2>1, <2>2, <2>3 DEF CallMoves
<1>6. ASSUME NEW d \in Calls, d # c, NEW r \in Rows, r \in Reserved(d)'
      PROVE  status'[r] \notin {"none", "planned"} /\ \A w \in Ticks : ~Engaged(w, r)
  <2>1. r \in Reserved(d)
    BY <1>6 DEF CallMoves, Reserved
  <2>2. status[r] \notin {"none", "planned"} /\ \A w \in Ticks : ~Engaged(w, r)
    BY <2>1 DEF ReservedRowsAreFree
  <2> QED
    BY <2>2 DEF CallMoves, CallKeeps, CallLocks, CallBegins, CallEnds
<1>7. ReservedRowsAreFree'
  BY <1>1, <1>5, <1>6 DEF ReservedRowsAreFree
<1> QED
  BY <1>3, <1>4, <1>7

LEMMA EnvKeepsExclusion ==
  ASSUME ExclusionInv, SlowTicks = {}, EnvMoves
  PROVE  TicksHoldAlone' /\ StaleLocksAreFree' /\ ReservedRowsAreFree'
<1> USE DEF ExclusionInv, Engaged, Terminal, EnvMoves
<1>1. TicksHoldAlone'
  BY DEF TicksHoldAlone
<1>2. StaleLocksAreFree'
  BY DEF StaleLocksAreFree, TicksHoldAlone
<1>3. ReservedRowsAreFree'
  BY DEF ReservedRowsAreFree, Reserved
<1> QED
  BY <1>1, <1>2, <1>3

LEMMA ExclusionHolds ==
  ASSUME SlowTicks = {}
  PROVE  Spec => []ExclusionInv
<1>1. Init /\ TypeOK => ExclusionInv
  BY InitCallsSendAlone, RowsAssumption
     DEF Init, ExclusionInv, TicksHoldAlone, StaleLocksAreFree, ReservedRowsAreFree, Reserved,
         Engaged, IdleTick, IdleCall, NoRow
<1>2. ExclusionInv /\ TypeOK' /\ [Next]_vars => ExclusionInv'
  <2> SUFFICES ASSUME ExclusionInv, TypeOK', [Next]_vars PROVE ExclusionInv'
    OBVIOUS
  <2>1. CallsSendAlone'
    BY CallsSendAloneKept DEF ExclusionInv
  <2>2. TicksHoldAlone' /\ StaleLocksAreFree' /\ ReservedRowsAreFree'
    BY StepEffects, TickKeepsExclusion, CallKeepsExclusion, EnvKeepsExclusion DEF ExclusionInv
  <2> QED
    BY <2>1, <2>2 DEF ExclusionInv
<1> QED
  BY <1>1, <1>2, TypeCorrectness, PTL DEF Spec

\* Claims are exclusive: however many workers and requests compete, crash and
\* fail, no row has two senders, as long as no worker outlives lock_seconds.
THEOREM ExclusiveSending ==
  ASSUME SlowTicks = {}
  PROVE  Spec => []OneSenderPerRow
<1>1. ExclusionInv => OneSenderPerRow
  BY DEF ExclusionInv, TicksHoldAlone, CallsSendAlone, OneSenderPerRow, TickSends, CallSends,
         Terminal
<1> QED
  BY <1>1, ExclusionHolds, PTL

-----------------------------------------------------------------------------
(* Accounting of copies.  A row that may still be sent has no acceptance    *)
(* that is not written off as lost, unless its tick is about to settle.     *)

Live == {"none", "planned", "locked"}
Excused(r) == accepted[r] <= lost[r]
Posting(c, r) == call[c].row = r /\ call[c].pc = "post"

CopiesAccounted ==
  \A r \in Rows :
    /\ accepted[r] <= lost[r] + 1
    /\ status[r] \in Live /\ (\A w \in Ticks : ~Settling(w, r)) => Excused(r)
    /\ \A w \in Ticks : BeforeSend(w, r) => Excused(r)
    /\ \A c \in Calls : Posting(c, r) => Excused(r)

AccountInv == ExclusionInv /\ CopiesAccounted

\* A provider call adds an acceptance, a lost one, or none.
LEMMA DeliverCopies ==
  ASSUME ProviderTypes, NEW r \in Rows, NEW q, NEW answer \in Answers, Deliver(q, answer)
  PROVE  /\ q # r => accepted'[r] = accepted[r] /\ lost'[r] = lost[r]
         /\ accepted'[r] \in {accepted[r], accepted[r] + 1}
         /\ lost'[r] \in {lost[r], lost[r] + 1}
         /\ answer # "sent" => accepted'[r] - accepted[r] = lost'[r] - lost[r]
<1>1. CASE answer = "sent"
  BY <1>1 DEF Deliver, ProviderTypes
<1>2. CASE answer = "lostAck"
  BY <1>2 DEF Deliver, ProviderTypes
<1>3. CASE answer \in {"unavailable", "rejected"}
  BY <1>3 DEF Deliver, ProviderTypes
<1> QED
  BY <1>1, <1>2, <1>3 DEF Answers

\* What a tick's step does to the count of row r, unless it posts r: a settlement
\* that leaves the row live, and a death before it, write the acceptance off.
LEMMA TickCopies ==
  ASSUME TypeOK, NEW w \in Ticks, TickStep(w) \/ CrashTick(w), NEW r \in Rows,
         ~(Post(w) /\ Engaged(w, r))
  PROVE  /\ accepted'[r] = accepted[r] /\ lost'[r] \in {lost[r], lost[r] + 1}
         /\ Settling(w, r) => \/ lost'[r] = lost[r] + 1
                             \/ status[r] # "locked"
                             \/ status'[r] \notin Live
<1> DEFINE Copies == /\ accepted'[r] = accepted[r] /\ lost'[r] \in {lost[r], lost[r] + 1}
                     /\ Settling(w, r) => \/ lost'[r] = lost[r] + 1
                                         \/ status[r] # "locked"
                                         \/ status'[r] \notin Live
<1> USE DEF TypeOK
<1>1. CASE Post(w)
  <2>1. tick[w].row # r /\ \E answer \in Answers : Deliver(tick[w].row, answer)
    BY <1>1 DEF Post, Engaged
  <2>2. accepted'[r] = accepted[r] /\ lost'[r] = lost[r]
    BY <2>1, DeliverCopies
  <2> QED
    BY <2>1, <2>2 DEF Settling
<1>2. CASE Settle(w)
  <2>1. accepted' = accepted
    BY <1>2 DEF Settle
  <2>2. CASE status' = [status EXCEPT ![tick[w].row] = "sent"] /\ lost' = lost
    BY <2>1, <2>2 DEF Settling, RowTypes, Live
  <2>3. CASE status[tick[w].row] # "locked" /\ lost' = lost
    BY <2>1, <2>3 DEF Settling
  <2>4. CASE lost' = [lost EXCEPT ![tick[w].row] = @ + 1]
    BY <2>1, <2>4 DEF Settling, ProviderTypes
  <2> QED
    BY <1>2, <2>2, <2>3, <2>4 DEF Settle, StillLocked
<1>3. CASE CrashTick(w)
  <2>1. accepted' = accepted
    BY <1>3 DEF CrashTick
  <2>2. CASE tick[w].pc = "settle"
    BY <1>3, <2>1, <2>2 DEF CrashTick, Settling, ProviderTypes
  <2>3. CASE tick[w].pc # "settle"
    BY <1>3, <2>1, <2>3 DEF CrashTick, Settling
  <2> QED
    BY <2>2, <2>3
<1>4. CASE ~Post(w) /\ ~Settle(w) /\ ~CrashTick(w)
  <2>1. UNCHANGED <<accepted, lost>>
    BY <1>4 DEF TickStep, Poll, Skip, Claim, Load, Recheck, CheckOwner, Void, VoidAction,
       VoidRecord, DryRun, Book, MarkActionExecuted, RecordFailure, Requeue, GiveUp, Escalate,
       provider
  <2>2. ~Settling(w, r)
    BY <1>4, TickProgress
  <2> QED
    BY <2>1, <2>2
<1> QED
  BY <1>1, <1>2, <1>3, <1>4

LEMMA TickAccounts ==
  ASSUME AccountInv, NEW w \in Ticks, TickStep(w) \/ CrashTick(w)
  PROVE  CopiesAccounted'
<1> SUFFICES ASSUME NEW r \in Rows
             PROVE  /\ accepted'[r] <= lost'[r] + 1
                    /\ status'[r] \in Live /\ (\A v \in Ticks : ~Settling(v, r)') => Excused(r)'
                    /\ \A v \in Ticks : BeforeSend(v, r)' => Excused(r)'
                    /\ \A c \in Calls : Posting(c, r)' => Excused(r)'
  BY DEF CopiesAccounted
<1> USE DEF AccountInv, ExclusionInv
<1>1. accepted[r] \in Nat /\ lost[r] \in Nat
  BY DEF TypeOK, ProviderTypes
<1>2. call' = call /\ \A v \in Ticks : v # w => tick'[v] = tick[v]
  BY TickEffects DEF TickMoves, TickClaims
<1>3. \A v \in Ticks : v # w => /\ BeforeSend(v, r)' <=> BeforeSend(v, r)
                                /\ Settling(v, r)' <=> Settling(v, r)
  BY <1>2 DEF BeforeSend, Settling
<1>4. \A c \in Calls : Posting(c, r)' <=> Posting(c, r)
  BY <1>2 DEF Posting
<1>5. \A v \in Ticks : Engaged(v, r) => status[r] \in {"locked"} \cup Terminal
  BY DEF TicksHoldAlone
<1>6. status'[r] \in Live => status[r] \in Live
  BY TickEffects DEF TickMoves, TickClaims, Live, Terminal, TypeOK, RowTypes
<1>7. CASE Post(w) /\ Engaged(w, r)
  <2>1. BeforeSend(w, r) /\ Excused(r)
    BY <1>7 DEF Post, Engaged, BeforeSend, CopiesAccounted
  <2>2. PICK answer \in Answers :
          /\ Deliver(r, answer)
          /\ tick' = [tick EXCEPT ![w].answer = answer,
                                  ![w].pc = IF answer = "sent" THEN "settle" ELSE "failure"]
    BY <1>7 DEF Post, Engaged
  <2>3. answer = "sent" => Settling(w, r)'
    BY <1>7, <2>2 DEF Settling, Engaged, TypeOK, TickType, TickRecords
  <2>4. /\ accepted'[r] \in {accepted[r], accepted[r] + 1}
        /\ lost'[r] \in {lost[r], lost[r] + 1}
        /\ answer # "sent" => accepted'[r] - accepted[r] = lost'[r] - lost[r]
    BY <2>2, DeliverCopies DEF TypeOK
  <2>5. accepted'[r] <= lost'[r] + 1 /\ (answer # "sent" => accepted'[r] <= lost'[r])
    BY <1>1, <2>1, <2>4 DEF Excused
  <2>6. \A v \in Ticks : ~BeforeSend(v, r)'
    <3>1. ~BeforeSend(w, r)'
      BY <1>5, <1>7, TickProgress DEF Terminal
    <3>2. \A v \in Ticks : v # w => ~BeforeSend(v, r)
      BY <1>7 DEF BeforeSend, Engaged, TicksHoldAlone
    <3> QED
      BY <1>3, <3>1, <3>2
  <2>7. \A c \in Calls : ~Posting(c, r)
    BY <1>5, <1>7 DEF Posting, CallsSendAlone, Terminal
  <2> QED
    BY <1>4, <2>3, <2>5, <2>6, <2>7 DEF Excused
<1>8. CASE ~(Post(w) /\ Engaged(w, r))
  <2>1. /\ accepted'[r] = accepted[r] /\ lost'[r] \in {lost[r], lost[r] + 1}
        /\ Settling(w, r) => \/ lost'[r] = lost[r] + 1
                            \/ status[r] # "locked"
                            \/ status'[r] \notin Live
    BY <1>8, TickCopies
  <2>2. accepted[r] <= lost[r] + 1 /\ (Excused(r) => Excused(r)')
    BY <1>1, <2>1 DEF CopiesAccounted, Excused
  <2>3. accepted'[r] <= lost'[r] + 1
    BY <1>1, <2>1, <2>2
  <2>4. ASSUME status'[r] \in Live, \A v \in Ticks : ~Settling(v, r)' PROVE Excused(r)'
    <3>1. CASE Settling(w, r)
      <4>1. status[r] = "locked"
        BY <1>5, <1>6, <2>4, <3>1 DEF Settling, Engaged, Live, Terminal
      <4>2. lost'[r] = lost[r] + 1
        BY <2>1, <2>4, <3>1, <4>1
      <4> QED
        BY <1>1, <2>1, <2>2, <4>2 DEF Excused
    <3>2. CASE ~Settling(w, r)
      BY <1>3, <1>6, <2>2, <2>4, <3>2 DEF CopiesAccounted
    <3> QED
      BY <3>1, <3>2
  <2>5. ASSUME NEW v \in Ticks, BeforeSend(v, r)' PROVE Excused(r)'
    <3>1. CASE BeforeSend(v, r)
      BY <2>2, <3>1 DEF CopiesAccounted
    <3>2. CASE ~BeforeSend(v, r)
      <4>1. status[r] = "planned"
        BY <1>3, <2>5, <3>2, TickProgress
      <4>2. \A u \in Ticks : ~Settling(u, r)
        BY <1>5, <4>1 DEF Settling, Engaged, Terminal
      <4> QED
        BY <2>2, <4>1, <4>2 DEF CopiesAccounted, Live
    <3> QED
      BY <3>1, <3>2
  <2>6. \A c \in Calls : Posting(c, r)' => Excused(r)'
    BY <1>4, <2>2 DEF CopiesAccounted
  <2> QED
    BY <2>3, <2>4, <2>5, <2>6
<1> QED
  BY <1>7, <1>8

\* What a request's step does to the count of row r, unless it posts r; and how
\* it comes to post r.
LEMMA CallCopies ==
  ASSUME TypeOK, NEW c \in Calls, CallStep(c) \/ CrashCall(c), NEW r \in Rows
  PROVE  /\ \/ accepted'[r] = accepted[r] /\ lost'[r] = lost[r]
            \/ CallPost(c) /\ Posting(c, r)
         /\ Posting(c, r)' => \/ Posting(c, r) /\ ~CallPost(c)
                              \/ status[r] = "locked" /\ r \in Reserved(c)
<1> DEFINE Copies == \/ accepted'[r] = accepted[r] /\ lost'[r] = lost[r]
                     \/ CallPost(c) /\ Posting(c, r)
<1> DEFINE Posts == Posting(c, r)' => \/ Posting(c, r) /\ ~CallPost(c)
                                      \/ status[r] = "locked" /\ r \in Reserved(c)
<1> USE RowsAssumption DEF TypeOK, Posting
<1>1. CASE CallPost(c)
  <2>1. PICK answer \in Answers : Deliver(call[c].row, answer)
    BY <1>1 DEF CallPost
  <2>4. call[c].row # r => accepted'[r] = accepted[r] /\ lost'[r] = lost[r]
    BY <2>1, DeliverCopies
  <2>5. call[c].pc = "post"
    BY <1>1 DEF CallPost
  <2>2. Copies
    BY <1>1, <2>4, <2>5
  <2>3. call'[c].pc = "finalize"
    BY <1>1 DEF CallPost, CallType, CallRecords
  <2> QED
    BY <2>2, <2>3
<1>2. CASE ~CallPost(c)
  <2>1. UNCHANGED <<accepted, lost>>
    BY <1>2 DEF CallStep, CrashCall, SelectPlanned, SelectStale, LockNext, LockedAll, Reread,
       RereadAll, Begin, Finalize, provider
  <2>2. ASSUME call'[c].pc # "post" \/ call'[c].row = NoRow PROVE Posts
    BY <2>2 DEF NoRow
  <2>3. ASSUME NEW q \in Rows, Begin(c, q) PROVE Posts
    <3>1. CASE /\ status[q] = "locked" /\ q \in call[c].held
               /\ call' = [call EXCEPT ![c].held = @ \ {q}, ![c].row = q, ![c].pc = "post"]
      BY <3>1 DEF Reserved, CallType, CallRecords
    <3>2. CASE call' = [call EXCEPT ![c] = NextHeld(c, q)]
      BY <2>2, <3>2, NextHeldFields
    <3> QED
      BY <2>3, <3>1, <3>2 DEF Begin, StillLocked, IsFirst
  <2>4. ASSUME Finalize(c) PROVE Posts
    <3>1. call'[c].pc # "post" \/ call'[c].row = NoRow
      BY <2>4, NextHeldFields DEF Finalize
    <3> QED
      BY <2>2, <3>1
  <2>5. ASSUME CrashCall(c) PROVE Posts
    <3>1. call'[c].pc = "idle"
      BY <2>5 DEF CrashCall, CallDone, IdleCall, CallType, CallRecords
    <3> QED
      BY <2>2, <3>1
  <2>6. ASSUME \/ \E mode \in Modes : SelectPlanned(c, mode)
               \/ \E q \in Rows : LockNext(c, q)
        PROVE  Posts
    <3>1. CASE \E mode \in Modes : SelectPlanned(c, mode)
      <4>1. call'[c].pc = "lock"
        BY <3>1 DEF SelectPlanned, CallType, CallRecords
      <4> QED
        BY <2>2, <4>1
    <3>2. CASE \E q \in Rows : LockNext(c, q)
      <4>1. PICK q \in Rows : LockNext(c, q)
        BY <3>2
      <4>2. call[c].pc = "lock"
        BY <4>1 DEF LockNext
      <4>3. \E kept : call' = [call EXCEPT ![c].queue = @ \ {q}, ![c].held = kept]
        <5>1. CASE call' = [call EXCEPT ![c].queue = @ \ {q},
                                        ![c].held = IF Lockable(q) THEN @ \cup {q} ELSE @]
          BY <5>1
        <5>2. CASE call' = [call EXCEPT ![c].queue = @ \ {q}]
          <6>1. call' = [call EXCEPT ![c].queue = @ \ {q}, ![c].held = call[c].held]
            BY <5>2 DEF CallType, CallRecords
          <6> QED
            BY <6>1
        <5> QED
          BY <4>1, <5>1, <5>2 DEF LockNext
      <4>4. call'[c].pc = "lock"
        BY <4>2, <4>3 DEF CallType, CallRecords
      <4> QED
        BY <2>2, <4>4
    <3> QED
      BY <2>6, <3>1, <3>2
  <2>7. ASSUME SelectStale(c) \/ \E q \in Rows : Reread(c, q) PROVE Posts
    <3>1. CASE SelectStale(c)
      <4>1. call'[c].pc = "reread"
        BY <3>1 DEF SelectStale, CallType, CallRecords
      <4> QED
        BY <2>2, <4>1
    <3>2. CASE \E q \in Rows : Reread(c, q)
      <4>1. PICK q \in Rows : Reread(c, q)
        BY <3>2
      <4>2. call[c].pc = "reread"
        BY <4>1 DEF Reread
      <4>3. CASE \E kept : call' = [call EXCEPT ![c].queue = @ \ {q}, ![c].held = kept]
        <5>1. call'[c].pc = "reread"
          BY <4>2, <4>3 DEF CallType, CallRecords
        <5> QED
          BY <2>2, <5>1
      <4>4. CASE call' = [call EXCEPT ![c].queue = @ \ {q}]
        <5>1. call'[c].pc = "reread"
          BY <4>2, <4>4 DEF CallType, CallRecords
        <5> QED
          BY <2>2, <5>1
      <4> QED
        BY <4>1, <4>3, <4>4 DEF Reread
    <3> QED
      BY <2>7, <3>1, <3>2
  <2>8. ASSUME LockedAll(c) \/ RereadAll(c) PROVE Posts
    <3>1. call'[c].pc \in {"idle", "reread", "send"}
      BY <2>8 DEF LockedAll, RereadAll, CallDone, CallGoto, IdleCall, CallType, CallRecords
    <3> QED
      BY <2>2, <3>1
  <2> QED
    BY <1>2, <2>1, <2>3, <2>4, <2>5, <2>6, <2>7, <2>8 DEF CallStep
<1> QED
  BY <1>1, <1>2

LEMMA CallAccounts ==
  ASSUME AccountInv, CallsSendAlone', NEW c \in Calls, CallStep(c) \/ CrashCall(c)
  PROVE  CopiesAccounted'
<1> SUFFICES ASSUME NEW r \in Rows
             PROVE  /\ accepted'[r] <= lost'[r] + 1
                    /\ status'[r] \in Live /\ (\A w \in Ticks : ~Settling(w, r)') => Excused(r)'
                    /\ \A w \in Ticks : BeforeSend(w, r)' => Excused(r)'
                    /\ \A d \in Calls : Posting(d, r)' => Excused(r)'
  BY DEF CopiesAccounted
<1> USE DEF AccountInv, ExclusionInv
<1>1. accepted[r] \in Nat /\ lost[r] \in Nat
  BY DEF TypeOK, ProviderTypes
<1>2. CallMoves(c)
  BY CallEffects
<1>3. \A w \in Ticks : (BeforeSend(w, r)' <=> BeforeSend(w, r)) /\ (Settling(w, r)' <=> Settling(w, r))
  BY <1>2 DEF CallMoves, BeforeSend, Settling
<1>4. \A d \in Calls : d # c => (Posting(d, r)' <=> Posting(d, r))
  BY <1>2 DEF CallMoves, Posting
<1>5. CASE CallPost(c) /\ Posting(c, r)
  <2>1. status[r] = "sending" /\ Excused(r)
    BY <1>5 DEF Posting, CallsSendAlone, CopiesAccounted
  <2>2. \E answer \in Answers : Deliver(r, answer)
    BY <1>5 DEF CallPost, Posting
  <2>3. accepted'[r] <= lost'[r] + 1
    BY <1>1, <2>1, <2>2, DeliverCopies DEF TypeOK, Excused
  <2>4. \A w \in Ticks : ~BeforeSend(w, r)
    BY <2>1 DEF BeforeSend, TicksHoldAlone, Engaged, Terminal
  <2>5. \A d \in Calls : ~Posting(d, r)'
    <3>1. ~Posting(c, r)'
      BY <1>5, <2>1, CallCopies
    <3>2. \A d \in Calls : d # c => ~Posting(d, r)
      BY <1>5 DEF Posting, CallsSendAlone
    <3> QED
      BY <1>4, <3>1, <3>2
  <2>6. status'[r] \notin Live
    BY <1>5, <2>1 DEF CallPost, rowVars, Live
  <2> QED
    BY <1>3, <2>3, <2>4, <2>5, <2>6
<1>6. CASE ~(CallPost(c) /\ Posting(c, r))
  <2>1. accepted'[r] = accepted[r] /\ lost'[r] = lost[r]
    BY <1>6, CallCopies
  <2>2. Excused(r)' <=> Excused(r)
    BY <2>1 DEF Excused
  <2>3. status'[r] \in Live => status[r] \in Live
    BY <1>2 DEF CallMoves, CallKeeps, CallLocks, CallBegins, CallEnds, Live
  <2>4. \A d \in Calls : Posting(d, r)' => Excused(r)
    <3>1. ASSUME status[r] = "locked", r \in Reserved(c) PROVE Excused(r)
      <4>1. \A w \in Ticks : ~Settling(w, r)
        BY <3>1 DEF Settling, Engaged, ReservedRowsAreFree
      <4> QED
        BY <3>1, <4>1 DEF CopiesAccounted, Live
    <3> QED
      BY <1>4, <3>1, CallCopies DEF CopiesAccounted
  <2> QED
    BY <1>3, <2>1, <2>2, <2>3, <2>4 DEF CopiesAccounted
<1> QED
  BY <1>5, <1>6

LEMMA EnvAccounts ==
  ASSUME AccountInv, EnvMoves, UNCHANGED <<accepted, lost>>
  PROVE  CopiesAccounted'
<1> USE DEF AccountInv, ExclusionInv
<1>1. \A r \in Rows : status'[r] \in Live => status[r] \in Live
  BY DEF EnvMoves, Live
<1>2. \A r \in Rows : Excused(r)' <=> Excused(r)
  BY DEF Excused
<1>3. \A r \in Rows, w \in Ticks :
        (BeforeSend(w, r)' <=> BeforeSend(w, r)) /\ (Settling(w, r)' <=> Settling(w, r))
  BY DEF EnvMoves, BeforeSend, Settling
<1>4. \A r \in Rows, c \in Calls : Posting(c, r)' <=> Posting(c, r)
  BY DEF EnvMoves, Posting
<1> QED
  BY <1>1, <1>2, <1>3, <1>4 DEF CopiesAccounted

\* Only workers and requests reach the provider.
LEMMA EnvCopies ==
  ASSUME \/ \E o \in Operators : OperatorStep(o)
         \/ \E r \in Rows : CycleStep(r) \/ BackoffElapses(r) \/ LockAges(r)
         \/ Inbound \/ WindowCloses \/ UNCHANGED vars
  PROVE  UNCHANGED <<accepted, lost>>
<1>1. ASSUME NEW o \in Operators, OperatorStep(o) PROVE UNCHANGED <<accepted, lost>>
  BY <1>1 DEF OperatorStep, Read, Commit, SendReply, provider
<1>2. ASSUME NEW q \in Rows, CycleStep(q) \/ BackoffElapses(q) \/ LockAges(q)
      PROVE  UNCHANGED <<accepted, lost>>
  BY <1>2 DEF CycleStep, Decide, Propose, Gate, PlanOperatorRow, BackoffElapses, LockAges, provider
<1>3. ASSUME Inbound \/ WindowCloses \/ UNCHANGED vars PROVE UNCHANGED <<accepted, lost>>
  BY <1>3 DEF Inbound, WindowCloses, vars, provider
<1> QED
  BY <1>1, <1>2, <1>3

LEMMA AccountHolds ==
  ASSUME SlowTicks = {}
  PROVE  Spec => []AccountInv
<1>1. Init /\ ExclusionInv => AccountInv
  <2> SUFFICES ASSUME Init, ExclusionInv PROVE CopiesAccounted
    BY DEF AccountInv
  <2>1. \A r \in Rows : accepted[r] = 0 /\ lost[r] = 0
    BY DEF Init
  <2> QED
    BY <2>1 DEF CopiesAccounted, Excused
<1>2. AccountInv /\ ExclusionInv' /\ [Next]_vars => AccountInv'
  <2> SUFFICES ASSUME AccountInv, ExclusionInv', [Next]_vars PROVE CopiesAccounted'
    BY DEF AccountInv
  <2>1. ASSUME NEW w \in Ticks, TickStep(w) \/ CrashTick(w) PROVE CopiesAccounted'
    BY <2>1, TickAccounts
  <2>2. ASSUME NEW c \in Calls, CallStep(c) \/ CrashCall(c) PROVE CopiesAccounted'
    BY <2>2, CallAccounts DEF ExclusionInv
  <2>3. ASSUME \/ \E o \in Operators : OperatorStep(o)
               \/ \E r \in Rows : CycleStep(r) \/ BackoffElapses(r) \/ LockAges(r)
               \/ Inbound \/ WindowCloses \/ UNCHANGED vars
        PROVE  CopiesAccounted'
    BY <2>3, EnvCopies, EnvEffects, EnvAccounts DEF AccountInv, ExclusionInv
  <2> QED
    BY <2>1, <2>2, <2>3 DEF Next
<1> QED
  BY <1>1, <1>2, ExclusionHolds, PTL DEF Spec

\* A customer gets at most one copy more than acknowledgements were lost,
\* whatever crashes, retries and recoveries happen, as long as no worker
\* outlives lock_seconds.
THEOREM ExplainedDuplicates ==
  ASSUME SlowTicks = {}
  PROVE  Spec => []NoUnexplainedDuplicate
<1>1. AccountInv => NoUnexplainedDuplicate
  BY DEF AccountInv, CopiesAccounted, NoUnexplainedDuplicate
<1> QED
  BY <1>1, AccountHolds, PTL

-----------------------------------------------------------------------------
(* The budget of sends.  It holds however slow a worker is: a queued row has *)
(* no worker, so only the worker that holds a row can queue it again.        *)

TicksHoldOnce ==
  /\ \A v, w \in Ticks, r \in Rows : Engaged(v, r) /\ Engaged(w, r) => v = w
  /\ \A w \in Ticks, r \in Rows : Engaged(w, r) => status[r] \notin {"none", "planned"}

\* The attempt a tick has loaded is still the row's, and it requeues only below
\* the limit.
AttemptsKnown ==
  \A w \in Ticks, r \in Rows : Engaged(w, r) =>
    /\ tick[w].pc # "load" /\ status[r] = "locked" => tick[w].attempt = attempts[r]
    /\ tick[w].pc = "requeue" => tick[w].attempt + 1 < MaxAttempts

\* A call is paid for by an attempt; the lock nobody works on is one ahead, and a
\* tick and a recovery that hold the row at the same time have a call each.
SendsBudgeted ==
  \A r \in Rows :
    /\ status[r] \in Live => attempts[r] < MaxAttempts
    /\ status[r] \in {"none", "planned"} => posts[r] <= attempts[r]
    /\ status[r] = "locked" => posts[r] <= attempts[r] + 1
    /\ \A w \in Ticks : BeforeSend(w, r) /\ status[r] = "locked" => posts[r] <= attempts[r]
    /\ \A w \in Ticks : BeforeSend(w, r) => posts[r] <= MaxAttempts
    /\ \A c \in Calls : Posting(c, r) => posts[r] <= MaxAttempts
    /\ \A w \in Ticks, c \in Calls : BeforeSend(w, r) /\ Posting(c, r) => posts[r] < MaxAttempts
    /\ posts[r] <= MaxAttempts + 1

BudgetInv == TypeOK /\ CallsSendAlone /\ TicksHoldOnce /\ AttemptsKnown /\ SendsBudgeted

LEMMA HoldOnceKept ==
  ASSUME BudgetInv, [Next]_vars
  PROVE  TicksHoldOnce'
<1> USE RowsAssumption DEF BudgetInv, TicksHoldOnce, Engaged, NoRow
<1>1. ASSUME NEW w \in Ticks, TickMoves(w) PROVE TicksHoldOnce'
  <2>1. \A v \in Ticks, r \in Rows : Engaged(v, r)' => Engaged(v, r)
    BY <1>1 DEF TickMoves
  <2>2. ASSUME NEW v \in Ticks, NEW r \in Rows, Engaged(v, r)'
        PROVE  status'[r] \notin {"none", "planned"}
    <3>1. CASE v = w
      BY <1>1, <2>1, <2>2, <3>1 DEF TickMoves, Terminal
    <3>2. CASE v # w
      BY <1>1, <2>1, <2>2, <3>2 DEF TickMoves
    <3> QED
      BY <3>1, <3>2
  <2> QED
    BY <2>1, <2>2
<1>2. ASSUME NEW w \in Ticks, TickClaims(w) PROVE TicksHoldOnce'
  <2>1. PICK q \in Rows : /\ status[q] = "planned" /\ status' = [status EXCEPT ![q] = "locked"]
                          /\ tick'[w].row = q
    BY <1>2 DEF TickClaims
  <2>2. \A v \in Ticks, r \in Rows : Engaged(v, r)' => Engaged(v, r) \/ (v = w /\ r = q)
    BY <1>2, <2>1 DEF TickClaims
  <2>3. \A r \in Rows : status'[r] = IF r = q THEN "locked" ELSE status[r]
    BY <2>1 DEF TypeOK, RowTypes
  <2>4. \A v \in Ticks : ~Engaged(v, q)
    BY <2>1
  <2>5. ASSUME NEW u \in Ticks, NEW v \in Ticks, NEW r \in Rows, Engaged(u, r)', Engaged(v, r)'
        PROVE  u = v
    <3>1. CASE r = q
      BY <2>2, <2>4, <2>5, <3>1
    <3>2. CASE r # q
      BY <2>2, <2>5, <3>2
    <3> QED
      BY <3>1, <3>2
  <2>6. ASSUME NEW v \in Ticks, NEW r \in Rows, Engaged(v, r)'
        PROVE  status'[r] \notin {"none", "planned"}
    BY <2>2, <2>3, <2>6
  <2> QED
    BY <2>5, <2>6
<1>3. ASSUME NEW c \in Calls, CallMoves(c) PROVE TicksHoldOnce'
  <2>1. tick' = tick
    BY <1>3 DEF CallMoves
  <2>2. \A r \in Rows : status[r] \notin {"none", "planned"} => status'[r] \notin {"none", "planned"}
    BY <1>3 DEF CallMoves, CallKeeps, CallLocks, CallBegins, CallEnds
  <2> QED
    BY <2>1, <2>2
<1>4. ASSUME EnvMoves PROVE TicksHoldOnce'
  BY <1>4 DEF EnvMoves
<1> QED
  BY <1>1, <1>2, <1>3, <1>4, StepEffects

\* What a tick's step does to the calls and attempts of row r.
LEMMA TickSpends ==
  ASSUME TypeOK, NEW w \in Ticks, TickStep(w) \/ CrashTick(w), NEW r \in Rows
  PROVE  /\ posts'[r] = posts[r] \/ (Post(w) /\ Engaged(w, r) /\ posts'[r] = posts[r] + 1)
         /\ \/ /\ attempts'[r] = attempts[r] /\ status'[r] = status[r]
            \/ /\ attempts'[r] = attempts[r] /\ status[r] = "planned" /\ status'[r] = "locked"
            \/ Engaged(w, r) /\ status[r] = "locked" /\ status'[r] \notin Live
            \/ /\ Requeue(w) /\ Engaged(w, r) /\ status[r] = "locked" /\ status'[r] = "planned"
               /\ attempts'[r] = tick[w].attempt + 1
<1> DEFINE Kept == attempts'[r] = attempts[r] /\ status'[r] = status[r]
           Ended == Engaged(w, r) /\ status[r] = "locked" /\ status'[r] \notin Live
<1> USE DEF TypeOK, RowTypes, Engaged
<1>1. CASE Post(w)
  <2>1. \E answer \in Answers : Deliver(tick[w].row, answer)
    BY <1>1 DEF Post
  <2>2. posts'[r] = IF tick[w].row = r THEN posts[r] + 1 ELSE posts[r]
    BY <2>1 DEF Deliver, ProviderTypes
  <2> QED
    BY <1>1, <2>2 DEF Post, rowVars
<1>2. CASE ~Post(w)
  <2>1. posts' = posts
    BY <1>2 DEF TickStep, CrashTick, Poll, Skip, Claim, Load, Recheck, CheckOwner, Void,
       VoidAction, VoidRecord, DryRun, Settle, Book, MarkActionExecuted, RecordFailure, Requeue,
       GiveUp, Escalate, provider
  <2>2. CASE \E q \in Rows : Claim(w, q)
    <3>1. PICK q \in Rows : Claim(w, q)
      BY <2>2
    <3>2. attempts' = attempts
      BY <3>1 DEF Claim
    <3>3. status' = status \/ (status[q] = "planned" /\ status' = [status EXCEPT ![q] = "locked"])
      BY <3>1 DEF Claim, Lock, Lockable
    <3> QED
      BY <2>1, <3>2, <3>3
  <2>3. CASE Void(w)
    BY <2>1, <2>3 DEF Void, StillLocked, Live
  <2>4. CASE Settle(w)
    BY <2>1, <2>4 DEF Settle, StillLocked, Live
  <2>5. CASE Requeue(w)
    BY <2>1, <2>5 DEF Requeue, StillLocked, ThisAttempt
  <2>6. CASE GiveUp(w)
    BY <2>1, <2>6 DEF GiveUp, StillLocked, Live
  <2>7. CASE Poll(w) \/ (\E q \in Rows : Skip(w, q)) \/ Load(w) \/ Recheck(w) \/ CheckOwner(w)
             \/ VoidAction(w) \/ VoidRecord(w) \/ DryRun(w)
    <3>1. UNCHANGED <<status, attempts>>
      BY <2>7 DEF Poll, Skip, Load, Recheck, CheckOwner, VoidAction, VoidRecord, DryRun, rowVars
    <3> QED
      BY <2>1, <3>1
  <2>8. CASE Book(w) \/ MarkActionExecuted(w) \/ RecordFailure(w) \/ Escalate(w) \/ CrashTick(w)
    <3>1. UNCHANGED <<status, attempts>>
      BY <2>8 DEF Book, MarkActionExecuted, RecordFailure, Escalate, CrashTick, rowVars
    <3> QED
      BY <2>1, <3>1
  <2> QED
    BY <1>2, <2>2, <2>3, <2>4, <2>5, <2>6, <2>7, <2>8 DEF TickStep
<1> QED
  BY <1>1, <1>2

\* Who does not call the provider leaves the count of calls alone.
LEMMA ProviderUntouched ==
  ASSUME \/ \E c \in Calls : (CallStep(c) \/ CrashCall(c)) /\ ~CallPost(c)
         \/ \E o \in Operators : OperatorStep(o)
         \/ \E q \in Rows : CycleStep(q) \/ BackoffElapses(q) \/ LockAges(q)
         \/ Inbound \/ WindowCloses \/ UNCHANGED vars
  PROVE  UNCHANGED <<attempts, posts>>
<1>1. ASSUME NEW c \in Calls, CallStep(c) \/ CrashCall(c), ~CallPost(c)
      PROVE  UNCHANGED <<attempts, posts>>
  BY <1>1 DEF CallStep, CrashCall, SelectPlanned, SelectStale, LockNext, LockedAll, Reread,
     RereadAll, Begin, Finalize, provider, rowVars
<1>2. ASSUME NEW o \in Operators, OperatorStep(o) PROVE UNCHANGED <<attempts, posts>>
  BY <1>2 DEF OperatorStep, Read, Commit, CancelPendingAutonomousSends, SendReply, provider, rowVars
<1>3. ASSUME NEW q \in Rows, CycleStep(q) \/ BackoffElapses(q) \/ LockAges(q)
      PROVE  UNCHANGED <<attempts, posts>>
  BY <1>3 DEF CycleStep, Decide, Propose, Gate, PlanOperatorRow, BackoffElapses, LockAges,
     provider, rowVars
<1>4. ASSUME Inbound \/ WindowCloses \/ UNCHANGED vars PROVE UNCHANGED <<attempts, posts>>
  BY <1>4 DEF Inbound, WindowCloses, vars, provider, rowVars
<1> QED
  BY <1>1, <1>2, <1>3, <1>4

\* Everybody else leaves attempts alone, and only a request with a row in hand
\* calls the provider.
LEMMA OthersSpend ==
  ASSUME TypeOK,
         \/ \E c \in Calls : CallStep(c) \/ CrashCall(c)
         \/ \E o \in Operators : OperatorStep(o)
         \/ \E q \in Rows : CycleStep(q) \/ BackoffElapses(q) \/ LockAges(q)
         \/ Inbound \/ WindowCloses \/ UNCHANGED vars
  PROVE  /\ attempts' = attempts
         /\ \A r \in Rows :
              \/ posts'[r] = posts[r]
              \/ \E c \in Calls : CallPost(c) /\ Posting(c, r) /\ posts'[r] = posts[r] + 1
<1> DEFINE Spends(r) ==
      \/ posts'[r] = posts[r]
      \/ \E c \in Calls : CallPost(c) /\ Posting(c, r) /\ posts'[r] = posts[r] + 1
<1>1. ASSUME NEW c \in Calls, CallPost(c) PROVE attempts' = attempts /\ \A r \in Rows : Spends(r)
  <2>1. \E answer \in Answers : Deliver(call[c].row, answer)
    BY <1>1 DEF CallPost
  <2>2. \A r \in Rows : posts'[r] = IF call[c].row = r THEN posts[r] + 1 ELSE posts[r]
    BY <2>1 DEF Deliver, TypeOK, ProviderTypes
  <2> QED
    BY <1>1, <2>2 DEF CallPost, Posting, rowVars
<1>2. ASSUME UNCHANGED <<attempts, posts>> PROVE attempts' = attempts /\ \A r \in Rows : Spends(r)
  BY <1>2
<1> QED
  BY <1>1, <1>2, ProviderUntouched

\* What a tick knows of the attempts, once it has loaded its row.
LEMMA TickLearns ==
  ASSUME BudgetInv, NEW w \in Ticks, TickStep(w) \/ CrashTick(w), NEW r \in Rows, Engaged(w, r)'
  PROVE  /\ tick'[w].pc # "load" /\ status'[r] = "locked" => tick'[w].attempt = attempts'[r]
         /\ tick'[w].pc = "requeue" => tick'[w].attempt + 1 < MaxAttempts
<1> DEFINE Learns ==
      /\ tick'[w].pc # "load" /\ status'[r] = "locked" => tick'[w].attempt = attempts'[r]
      /\ tick'[w].pc = "requeue" => tick'[w].attempt + 1 < MaxAttempts
<1> USE RowsAssumption DEF BudgetInv, TypeOK, Engaged, NoRow
<1>1. ASSUME Drop(w) PROVE Learns
  BY <1>1, DropFields
<1>2. ASSUME NEW pc, Goto(w, pc), tick[w].pc # "load", pc # "load",
             pc = "requeue" => tick[w].attempt + 1 < MaxAttempts
      PROVE  Learns
  <2>1. /\ tick'[w].pc = pc /\ tick'[w].row = tick[w].row /\ tick'[w].attempt = tick[w].attempt
    BY <1>2 DEF Goto, TickType, TickRecords
  <2>2. status[r] = "locked" => tick[w].attempt = attempts[r]
    BY <1>2, <2>1 DEF AttemptsKnown
  <2>3. status[r] \notin {"none", "planned"}
    BY <2>1 DEF TicksHoldOnce
  <2>4. status'[r] = "locked" => status[r] = "locked" /\ attempts'[r] = attempts[r]
    BY <2>3, TickSpends DEF Live
  <2> QED
    BY <1>2, <2>1, <2>2, <2>4
<1>3. ASSUME tick'[w].pc = "idle" \/ tick'[w].pc = "load", tick'[w].pc = "idle" => tick'[w].row = NoRow
      PROVE  Learns
  BY <1>3
<1>4. CASE Load(w)
  <2>1. CASE Drop(w)
    BY <1>1, <2>1
  <2>2. CASE /\ tick' = [tick EXCEPT ![w].attempt = attempts[tick[w].row],
                                     ![w].pc = IF tick[w].row \in InvalidRows THEN "void"
                                               ELSE "recheck"]
             /\ UNCHANGED rowVars
    BY <2>2 DEF TickType, TickRecords, rowVars
  <2> QED
    BY <1>4, <2>1, <2>2 DEF Load
<1>5. CASE Recheck(w) \/ CheckOwner(w)
  <2>1. Drop(w) \/ \E pc \in {"cleared", "owner", "void"} : Goto(w, pc)
    BY <1>5 DEF Recheck, CheckOwner
  <2>2. tick[w].pc # "load"
    BY <1>5 DEF Recheck, CheckOwner
  <2> QED
    BY <1>1, <1>2, <2>1, <2>2
<1>6. CASE Void(w) \/ VoidAction(w) \/ Settle(w) \/ Book(w) \/ GiveUp(w)
  <2>1. \E pc \in {"voidAction", "voidRecord", "book", "executed", "escalate"} : Goto(w, pc)
    BY <1>6 DEF Void, VoidAction, Settle, Book, GiveUp
  <2>2. tick[w].pc # "load"
    BY <1>6 DEF Void, VoidAction, Settle, Book, GiveUp
  <2> QED
    BY <1>2, <2>1, <2>2
<1>7. CASE VoidRecord(w) \/ DryRun(w) \/ MarkActionExecuted(w) \/ Requeue(w) \/ Escalate(w)
  BY <1>1, <1>7 DEF VoidRecord, DryRun, MarkActionExecuted, Requeue, Escalate
<1>8. CASE RecordFailure(w)
  <2>1. tick[w].pc # "load" /\ Goto(w, IF MayRetry(w) THEN "requeue" ELSE "giveUp")
    BY <1>8 DEF RecordFailure
  <2>2. MayRetry(w) => tick[w].attempt + 1 < MaxAttempts
    BY DEF MayRetry, ThisAttempt
  <2>3. CASE MayRetry(w)
    BY <1>2, <2>1, <2>2, <2>3
  <2>4. CASE ~MayRetry(w)
    BY <1>2, <2>1, <2>4
  <2> QED
    BY <2>3, <2>4
<1>9. CASE Post(w)
  <2>1. /\ tick'[w].pc \in {"settle", "failure"} /\ tick'[w].row = tick[w].row
        /\ tick'[w].attempt = tick[w].attempt /\ tick[w].pc = "cleared" /\ UNCHANGED rowVars
    BY <1>9 DEF Post, TickType, TickRecords
  <2> QED
    BY <2>1 DEF AttemptsKnown, rowVars
<1>10. CASE CrashTick(w)
  <2>1. tick'[w] = IdleTick
    BY <1>10 DEF CrashTick, TickType
  <2> QED
    BY <1>3, <2>1 DEF IdleTick
<1>11. CASE Poll(w) \/ (\E q \in Rows : Skip(w, q) \/ Claim(w, q))
  <2>1. tick[w].pc = "idle"
    BY <1>11 DEF Poll, Skip, Claim
  <2>2. CASE \E batch : tick' = [tick EXCEPT ![w].batch = batch] /\ UNCHANGED <<status, attempts>>
    <3>1. /\ tick'[w].pc = "idle" /\ tick'[w].row = tick[w].row
          /\ tick'[w].attempt = tick[w].attempt
      BY <2>1, <2>2 DEF TickType, TickRecords
    <3> QED
      BY <2>1, <2>2, <3>1 DEF AttemptsKnown
  <2>3. CASE \E q \in Rows : tick' = [tick EXCEPT ![w].batch = @ \ {q}, ![w].pc = "load", ![w].row = q]
    BY <1>3, <2>3 DEF TickType, TickRecords
  <2>4. CASE Poll(w)
    BY <2>2, <2>4 DEF Poll, rowVars
  <2>5. ASSUME NEW q \in Rows, Skip(w, q) PROVE Learns
    BY <2>2, <2>5 DEF Skip, rowVars
  <2>6. ASSUME NEW q \in Rows, Claim(w, q) PROVE Learns
    <3>1. CASE Lockable(q) /\ tick' = [tick EXCEPT ![w].batch = @ \ {q}, ![w].pc = "load", ![w].row = q]
      BY <2>3, <3>1
    <3>2. CASE tick' = [tick EXCEPT ![w].batch = @ \ {q}] /\ UNCHANGED <<status, attempts>>
      BY <2>2, <3>2
    <3> QED
      BY <2>6, <3>1, <3>2 DEF Claim, Lock
  <2> QED
    BY <1>11, <2>4, <2>5, <2>6
<1> QED
  BY <1>4, <1>5, <1>6, <1>7, <1>8, <1>9, <1>10, <1>11 DEF TickStep

LEMMA AttemptsKept ==
  ASSUME BudgetInv, [Next]_vars
  PROVE  AttemptsKnown'
<1> USE DEF BudgetInv
<1>1. ASSUME NEW w \in Ticks, TickStep(w) \/ CrashTick(w) PROVE AttemptsKnown'
  <2> SUFFICES ASSUME NEW v \in Ticks, NEW r \in Rows, Engaged(v, r)'
               PROVE  /\ tick'[v].pc # "load" /\ status'[r] = "locked" =>
                           tick'[v].attempt = attempts'[r]
                      /\ tick'[v].pc = "requeue" => tick'[v].attempt + 1 < MaxAttempts
    BY DEF AttemptsKnown
  <2>1. CASE v = w
    BY <1>1, <2>1, TickLearns
  <2>2. CASE v # w
    <3>1. tick'[v] = tick[v] /\ Engaged(v, r)
      BY <1>1, <2>2, TickEffects DEF TickMoves, TickClaims, Engaged
    <3>2. ~Engaged(w, r) /\ status[r] \notin {"none", "planned"}
      BY <2>2, <3>1 DEF TicksHoldOnce
    <3>3. attempts'[r] = attempts[r] /\ status'[r] = status[r]
      BY <1>1, <3>2, TickSpends
    <3> QED
      BY <3>1, <3>3 DEF AttemptsKnown
  <2> QED
    BY <2>1, <2>2
<1>2. ASSUME tick' = tick, attempts' = attempts,
             \A r \in Rows : status'[r] = "locked" => status[r] \in {"locked", "planned"}
      PROVE  AttemptsKnown'
  BY <1>2 DEF AttemptsKnown, TicksHoldOnce, Engaged
<1>3. ASSUME NEW c \in Calls, CallStep(c) \/ CrashCall(c) PROVE AttemptsKnown'
  <2>1. CallMoves(c)
    BY <1>3, CallEffects
  <2>2. tick' = tick
    BY <2>1 DEF CallMoves
  <2>3. attempts' = attempts
    BY <1>3, OthersSpend
  <2>4. \A r \in Rows : status'[r] = "locked" => status[r] \in {"locked", "planned"}
    BY <2>1 DEF CallMoves, CallKeeps, CallLocks, CallBegins, CallEnds
  <2> QED
    BY <1>2, <2>2, <2>3, <2>4
<1>4. ASSUME \/ \E o \in Operators : OperatorStep(o)
             \/ \E q \in Rows : CycleStep(q) \/ BackoffElapses(q) \/ LockAges(q)
             \/ Inbound \/ WindowCloses \/ UNCHANGED vars
      PROVE  AttemptsKnown'
  <2>1. EnvMoves
    BY <1>4, EnvEffects
  <2>2. attempts' = attempts
    BY <1>4, OthersSpend
  <2> QED
    BY <1>2, <2>1, <2>2 DEF EnvMoves
<1> QED
  BY <1>1, <1>3, <1>4 DEF Next

LEMMA TickKeepsBudget ==
  ASSUME BudgetInv, NEW w \in Ticks, TickStep(w) \/ CrashTick(w)
  PROVE  SendsBudgeted'
<1> SUFFICES ASSUME NEW r \in Rows
             PROVE  /\ status'[r] \in Live => attempts'[r] < MaxAttempts
                    /\ status'[r] \in {"none", "planned"} => posts'[r] <= attempts'[r]
                    /\ status'[r] = "locked" => posts'[r] <= attempts'[r] + 1
                    /\ \A v \in Ticks : BeforeSend(v, r)' /\ status'[r] = "locked" =>
                         posts'[r] <= attempts'[r]
                    /\ \A v \in Ticks : BeforeSend(v, r)' => posts'[r] <= MaxAttempts
                    /\ \A c \in Calls : Posting(c, r)' => posts'[r] <= MaxAttempts
                    /\ \A v \in Ticks, c \in Calls : BeforeSend(v, r)' /\ Posting(c, r)' =>
                         posts'[r] < MaxAttempts
                    /\ posts'[r] <= MaxAttempts + 1
  BY DEF SendsBudgeted
<1> USE BoundsAssumption DEF BudgetInv
<1>1. posts[r] \in Nat /\ attempts[r] \in Nat /\ status[r] \in Statuses
  BY DEF TypeOK, ProviderTypes, RowTypes
<1>2. \A c \in Calls : Posting(c, r)' <=> Posting(c, r)
  BY TickEffects DEF TickMoves, TickClaims, Posting
<1>3. \A c \in Calls : Posting(c, r) => status[r] = "sending"
  BY DEF Posting, CallsSendAlone
<1>4. \A v \in Ticks : v # w => (BeforeSend(v, r)' <=> BeforeSend(v, r))
  BY TickEffects DEF TickMoves, TickClaims, BeforeSend
<1>5. BeforeSend(w, r)' => (BeforeSend(w, r) /\ ~Post(w)) \/ status[r] = "planned"
  BY TickProgress
<1>6. CASE Post(w) /\ Engaged(w, r)
  <2>1. BeforeSend(w, r) /\ status[r] \notin {"none", "planned"}
    BY <1>6 DEF Post, Engaged, BeforeSend, TicksHoldOnce
  <2>2. posts'[r] \in {posts[r], posts[r] + 1} /\ status'[r] = status[r] /\ attempts'[r] = attempts[r]
    BY <1>6, TickSpends DEF Post, rowVars
  <2>3. \A v \in Ticks : ~BeforeSend(v, r)'
    <3>1. \A v \in Ticks : v # w => ~BeforeSend(v, r)
      BY <1>6 DEF BeforeSend, Engaged, TicksHoldOnce
    <3> QED
      BY <1>4, <1>5, <1>6, <2>1, <3>1
  <2>4. /\ status[r] = "locked" => posts[r] <= attempts[r]
        /\ posts[r] <= MaxAttempts
        /\ \A c \in Calls : Posting(c, r) => posts[r] < MaxAttempts
        /\ status[r] \in Live => attempts[r] < MaxAttempts
    BY <2>1 DEF SendsBudgeted
  <2> QED
    BY <1>1, <1>2, <2>1, <2>2, <2>3, <2>4
<1>7. CASE /\ posts'[r] = posts[r] /\ attempts'[r] = attempts[r] /\ status'[r] = status[r]
  <2>1. \A v \in Ticks : BeforeSend(v, r)' => BeforeSend(v, r) \/ status[r] = "planned"
    BY <1>4, <1>5
  <2>2. status[r] = "planned" => posts[r] <= attempts[r] /\ attempts[r] < MaxAttempts
    BY DEF SendsBudgeted, Live
  <2> QED
    BY <1>1, <1>2, <1>3, <1>7, <2>1, <2>2 DEF SendsBudgeted
<1>8. CASE /\ posts'[r] = posts[r] /\ attempts'[r] = attempts[r]
           /\ status[r] = "planned" /\ status'[r] = "locked"
  <2>1. posts[r] <= attempts[r] /\ attempts[r] < MaxAttempts /\ posts[r] <= MaxAttempts + 1
    BY <1>8 DEF SendsBudgeted, Live
  <2> QED
    BY <1>1, <1>2, <1>3, <1>8, <2>1
<1>9. CASE posts'[r] = posts[r] /\ Engaged(w, r) /\ status[r] = "locked" /\ status'[r] \notin Live
  <2>1. /\ posts[r] <= attempts[r] + 1 /\ attempts[r] < MaxAttempts
        /\ \A c \in Calls : ~Posting(c, r)
    BY <1>3, <1>9 DEF SendsBudgeted, Live
  <2> QED
    BY <1>1, <1>2, <1>9, <2>1 DEF Live
<1>10. CASE /\ posts'[r] = posts[r] /\ Requeue(w) /\ Engaged(w, r) /\ status[r] = "locked"
            /\ status'[r] = "planned" /\ attempts'[r] = tick[w].attempt + 1
  <2>1. tick[w].pc = "requeue"
    BY <1>10 DEF Requeue
  <2>2. tick[w].attempt = attempts[r] /\ attempts[r] + 1 < MaxAttempts
    BY <1>10, <2>1 DEF AttemptsKnown
  <2>3. posts[r] <= attempts[r] + 1 /\ \A c \in Calls : ~Posting(c, r)
    BY <1>3, <1>10 DEF SendsBudgeted
  <2> QED
    BY <1>1, <1>2, <1>10, <2>2, <2>3
<1> QED
  BY <1>6, <1>7, <1>8, <1>9, <1>10, TickSpends

LEMMA CallKeepsBudget ==
  ASSUME BudgetInv, CallsSendAlone', NEW c \in Calls, CallStep(c) \/ CrashCall(c)
  PROVE  SendsBudgeted'
<1> SUFFICES ASSUME NEW r \in Rows
             PROVE  /\ status'[r] \in Live => attempts'[r] < MaxAttempts
                    /\ status'[r] \in {"none", "planned"} => posts'[r] <= attempts'[r]
                    /\ status'[r] = "locked" => posts'[r] <= attempts'[r] + 1
                    /\ \A v \in Ticks : BeforeSend(v, r)' /\ status'[r] = "locked" =>
                         posts'[r] <= attempts'[r]
                    /\ \A v \in Ticks : BeforeSend(v, r)' => posts'[r] <= MaxAttempts
                    /\ \A d \in Calls : Posting(d, r)' => posts'[r] <= MaxAttempts
                    /\ \A v \in Ticks, d \in Calls : BeforeSend(v, r)' /\ Posting(d, r)' =>
                         posts'[r] < MaxAttempts
                    /\ posts'[r] <= MaxAttempts + 1
  BY DEF SendsBudgeted
<1> USE BoundsAssumption DEF BudgetInv
<1>1. posts[r] \in Nat /\ attempts[r] \in Nat /\ attempts' = attempts
  BY OthersSpend DEF TypeOK, ProviderTypes, RowTypes
<1>2. CallMoves(c)
  BY CallEffects
<1>3. \A v \in Ticks : BeforeSend(v, r)' <=> BeforeSend(v, r)
  BY <1>2 DEF CallMoves, BeforeSend
<1>4. \A d \in Calls : d # c => (Posting(d, r)' <=> Posting(d, r))
  BY <1>2 DEF CallMoves, Posting
<1>5. CASE CallPost(c) /\ Posting(c, r)
  <2>1. status[r] = "sending" /\ status'[r] = status[r]
    BY <1>5 DEF CallPost, Posting, CallsSendAlone, rowVars
  <2>2. /\ posts[r] <= MaxAttempts
        /\ \A v \in Ticks : BeforeSend(v, r) => posts[r] < MaxAttempts
    BY <1>5 DEF SendsBudgeted
  <2>3. \A d \in Calls : ~Posting(d, r)'
    <3>1. ~Posting(c, r)'
      BY <1>5, <2>1, CallCopies
    <3>2. \A d \in Calls : d # c => ~Posting(d, r)
      BY <1>5 DEF Posting, CallsSendAlone
    <3> QED
      BY <1>4, <3>1, <3>2
  <2>4. posts'[r] \in {posts[r], posts[r] + 1}
    BY OthersSpend
  <2> QED
    BY <1>1, <1>3, <2>1, <2>2, <2>3, <2>4 DEF Live
<1>6. CASE ~(CallPost(c) /\ Posting(c, r))
  <2>1. posts'[r] = posts[r]
    <3>1. CASE CallPost(c)
      <4>1. \E answer \in Answers : Deliver(call[c].row, answer)
        BY <3>1 DEF CallPost
      <4>2. call[c].row # r
        BY <1>6, <3>1 DEF CallPost, Posting
      <4> QED
        BY <4>1, <4>2 DEF Deliver, TypeOK, ProviderTypes
    <3>2. CASE ~CallPost(c)
      BY <3>2, ProviderUntouched
    <3> QED
      BY <3>1, <3>2
  <2>2. \A d \in Calls : Posting(d, r)' => Posting(d, r) \/ status[r] = "locked"
    BY <1>4, CallCopies
  <2>3. /\ status'[r] \in {"none", "planned"} => status'[r] = status[r]
        /\ status'[r] = "locked" => status[r] \in {"locked", "planned"}
    BY <1>2 DEF CallMoves, CallKeeps, CallLocks, CallBegins, CallEnds
  <2>4. /\ status[r] \in {"locked", "planned"} => posts[r] <= attempts[r] + 1 /\ attempts[r] < MaxAttempts
        /\ status[r] = "planned" => posts[r] <= attempts[r]
    BY <1>1 DEF SendsBudgeted, Live
  <2>5. \A v \in Ticks : BeforeSend(v, r) /\ status[r] = "locked" => posts[r] <= attempts[r]
    BY DEF SendsBudgeted
  <2> QED
    BY <1>1, <1>3, <2>1, <2>2, <2>3, <2>4, <2>5 DEF SendsBudgeted, Live
<1> QED
  BY <1>5, <1>6

LEMMA EnvKeepsBudget ==
  ASSUME BudgetInv, EnvMoves, UNCHANGED <<attempts, posts>>
  PROVE  SendsBudgeted'
<1>1. \A r \in Rows : /\ status'[r] \in {"none", "planned"} => status[r] \in {"none", "planned"}
                      /\ status'[r] = "locked" => status[r] = "locked"
  BY DEF EnvMoves
<1>2. \A r \in Rows, v \in Ticks : BeforeSend(v, r)' <=> BeforeSend(v, r)
  BY DEF EnvMoves, BeforeSend
<1>3. \A r \in Rows, c \in Calls : Posting(c, r)' <=> Posting(c, r)
  BY DEF EnvMoves, Posting
<1> QED
  BY <1>1, <1>2, <1>3 DEF BudgetInv, SendsBudgeted, Live

LEMMA BudgetHolds == Spec => []BudgetInv
<1>1. Init /\ TypeOK => BudgetInv
  <2> SUFFICES ASSUME Init, TypeOK PROVE BudgetInv
    OBVIOUS
  <2>1. \A w \in Ticks, r \in Rows : ~Engaged(w, r)
    BY RowsAssumption DEF Init, Engaged, IdleTick, NoRow
  <2>2. \A c \in Calls, r \in Rows : ~Posting(c, r)
    BY DEF Init, Posting, IdleCall
  <2>3. \A r \in Rows : posts[r] = 0 /\ attempts[r] = 0 /\ status[r] = "none"
    BY DEF Init
  <2> QED
    BY <2>1, <2>2, <2>3, InitCallsSendAlone, BoundsAssumption
       DEF BudgetInv, TicksHoldOnce, AttemptsKnown, SendsBudgeted, BeforeSend, Engaged, Live
<1>2. BudgetInv /\ TypeOK' /\ [Next]_vars => BudgetInv'
  <2> SUFFICES ASSUME BudgetInv, TypeOK', [Next]_vars PROVE BudgetInv'
    OBVIOUS
  <2>1. CallsSendAlone'
    BY CallsSendAloneKept DEF BudgetInv
  <2>2. ASSUME NEW w \in Ticks, TickStep(w) \/ CrashTick(w) PROVE SendsBudgeted'
    BY <2>2, TickKeepsBudget
  <2>3. ASSUME NEW c \in Calls, CallStep(c) \/ CrashCall(c) PROVE SendsBudgeted'
    BY <2>1, <2>3, CallKeepsBudget
  <2>4. ASSUME \/ \E o \in Operators : OperatorStep(o)
               \/ \E q \in Rows : CycleStep(q) \/ BackoffElapses(q) \/ LockAges(q)
               \/ Inbound \/ WindowCloses \/ UNCHANGED vars
        PROVE  SendsBudgeted'
    BY <2>4, EnvEffects, EnvKeepsBudget, ProviderUntouched, OthersSpend DEF BudgetInv
  <2>5. SendsBudgeted'
    BY <2>2, <2>3, <2>4 DEF Next
  <2> QED
    BY <2>1, <2>5, HoldOnceKept, AttemptsKept DEF BudgetInv
<1> QED
  BY <1>1, <1>2, TypeCorrectness, PTL DEF Spec

\* A row never costs more than MaxAttempts calls and the one of a recovery, for any
\* number of workers, requests, crashes and failed statements, and even if workers
\* outlive their locks.
THEOREM SendsAreBounded == Spec => []BoundedSends
<1>1. BudgetInv => BoundedSends
  BY DEF BudgetInv, SendsBudgeted, BoundedSends
<1> QED
  BY <1>1, BudgetHolds, PTL

-----------------------------------------------------------------------------
(* The execution records.  They too need no limit on how long a worker takes. *)

\* Every record of row r is of attempt n or an earlier one.
RecordedUpTo(r, n) == \A i \in DOMAIN executions[r] : executions[r][i].attempt <= n

\* A tick that has its record still to write.
Unrecorded == {"load", "recheck", "owner", "void", "voidAction", "voidRecord", "cleared",
               "settle", "book", "failure"}
LastAttempt(w, r) == IF tick[w].pc = "load" THEN attempts[r] ELSE tick[w].attempt

RecordsBehind ==
  \A r \in Rows :
    /\ status[r] \in {"none", "planned"} => RecordedUpTo(r, attempts[r])
    /\ \A w \in Ticks : Engaged(w, r) =>
         /\ tick[w].pc \in Unrecorded => RecordedUpTo(r, LastAttempt(w, r))
         /\ tick[w].pc = "requeue" => RecordedUpTo(r, tick[w].attempt + 1)

RecordInv == BudgetInv /\ RecordsBehind /\ OneExecutionPerAttempt

\* The tick goes on with r towards its record, or is past it.
Approaches(w, r) ==
  Engaged(w, r)' =>
    \/ status[r] = "planned" /\ tick'[w].pc = "load"
    \/ tick'[w].pc \notin Unrecorded \cup {"requeue"}
    \/ /\ Engaged(w, r) /\ tick[w].pc \in Unrecorded
       /\ tick'[w].pc # "load" /\ tick'[w].attempt = LastAttempt(w, r)

\* Only a tick writes records, one for the attempt in hand, and then it is past it.
LEMMA TickWritesRecords ==
  ASSUME TypeOK, NEW w \in Ticks, TickStep(w) \/ CrashTick(w), NEW r \in Rows
  PROVE  /\ Approaches(w, r)
         /\ \/ executions'[r] = executions[r]
            \/ /\ Engaged(w, r) /\ tick[w].pc \in Unrecorded \ {"load"}
               /\ UNCHANGED <<status, attempts>>
               /\ \E outcome \in {"succeeded", "failed", "cancelled"} :
                    executions'[r] = Append(executions[r], [attempt |-> tick[w].attempt + 1,
                                                            status |-> outcome])
               /\ Engaged(w, r)' => tick'[w].pc \notin Unrecorded
<1> DEFINE Same == executions'[r] = executions[r]
           Writes == /\ Engaged(w, r) /\ tick[w].pc \in Unrecorded \ {"load"}
                     /\ UNCHANGED <<status, attempts>>
                     /\ \E outcome \in {"succeeded", "failed", "cancelled"} :
                          executions'[r] = Append(executions[r], [attempt |-> tick[w].attempt + 1,
                                                                  status |-> outcome])
                     /\ Engaged(w, r)' => tick'[w].pc \notin Unrecorded
           Goal == Approaches(w, r) /\ (Same \/ Writes)
<1> USE RowsAssumption DEF TypeOK, Engaged, NoRow
<1>1. ASSUME Drop(w) PROVE ~Engaged(w, r)' /\ Approaches(w, r)
  BY <1>1, DropFields DEF Approaches
<1>2. ASSUME NEW pc, Goto(w, pc), tick[w].pc \in Unrecorded \ {"load"}, pc # "load"
      PROVE  Approaches(w, r) /\ tick'[w].pc = pc
  <2>1. tick'[w].pc = pc /\ tick'[w].row = tick[w].row /\ tick'[w].attempt = tick[w].attempt
    BY <1>2 DEF Goto, TickType, TickRecords
  <2> QED
    BY <1>2, <2>1 DEF Approaches, LastAttempt
<1>3. ASSUME NEW outcome \in {"succeeded", "failed", "cancelled"},
             Record(tick[w].row, ThisAttempt(w), outcome)
      PROVE  \/ Same
             \/ /\ Engaged(w, r)
                /\ executions'[r] = Append(executions[r], [attempt |-> tick[w].attempt + 1,
                                                           status |-> outcome])
  BY <1>3 DEF Record, ThisAttempt, ExecutionType
<1>4. CASE VoidRecord(w)
  <2>1. tick[w].pc \in Unrecorded \ {"load"} /\ UNCHANGED <<status, attempts>> /\ Drop(w)
    BY <1>4 DEF VoidRecord, Unrecorded, rowVars
  <2>2. Record(tick[w].row, ThisAttempt(w), "cancelled") \/ Same
    BY <1>4 DEF VoidRecord
  <2> QED
    BY <1>1, <1>3, <2>1, <2>2
<1>5. CASE Book(w)
  <2>1. tick[w].pc \in Unrecorded \ {"load"} /\ UNCHANGED <<status, attempts>> /\ Goto(w, "executed")
    BY <1>5 DEF Book, Unrecorded, rowVars
  <2>2. Record(tick[w].row, ThisAttempt(w), "succeeded") \/ Same
    BY <1>5 DEF Book
  <2>3. tick'[w].pc \notin Unrecorded /\ Approaches(w, r)
    BY <1>2, <2>1 DEF Unrecorded
  <2> QED
    BY <1>3, <2>1, <2>2, <2>3
<1>6. CASE RecordFailure(w)
  <2>1. tick[w].pc \in Unrecorded \ {"load"} /\ UNCHANGED <<status, attempts>>
    BY <1>6 DEF RecordFailure, Unrecorded, rowVars
  <2>2. Record(tick[w].row, ThisAttempt(w), "failed") \/ Same
    BY <1>6 DEF RecordFailure
  <2>3. PICK pc \in {"requeue", "giveUp"} : Goto(w, pc)
    BY <1>6 DEF RecordFailure
  <2>4. Approaches(w, r) /\ tick'[w].pc = pc
    BY <1>2, <2>1, <2>3
  <2>5. tick'[w].pc \notin Unrecorded
    BY <2>4 DEF Unrecorded
  <2> QED
    BY <1>3, <2>1, <2>2, <2>4, <2>5
<1>7. CASE ~VoidRecord(w) /\ ~Book(w) /\ ~RecordFailure(w)
  <2>1. Same
    BY <1>7 DEF TickStep, CrashTick, Poll, Skip, Claim, Load, Recheck, CheckOwner, Void,
       VoidAction, DryRun, Post, Settle, MarkActionExecuted, Requeue, GiveUp, Escalate
  <2>2. CASE DryRun(w) \/ MarkActionExecuted(w) \/ Requeue(w) \/ Escalate(w)
    BY <1>1, <2>1, <2>2 DEF DryRun, MarkActionExecuted, Requeue, Escalate
  <2>3. CASE Recheck(w) \/ CheckOwner(w) \/ Void(w) \/ VoidAction(w) \/ Settle(w)
    <3>1. tick[w].pc \in Unrecorded \ {"load"}
      BY <2>3 DEF Recheck, CheckOwner, Void, VoidAction, Settle, Unrecorded
    <3>2. Drop(w) \/ \E pc \in {"cleared", "owner", "void", "voidAction", "voidRecord", "book"} :
                       Goto(w, pc)
      BY <2>3 DEF Recheck, CheckOwner, Void, VoidAction, Settle
    <3> QED
      BY <1>1, <1>2, <2>1, <3>1, <3>2
  <2>4. CASE GiveUp(w)
    <3>1. tick'[w].pc = "escalate"
      BY <2>4, GotoFields DEF GiveUp
    <3> QED
      BY <2>1, <3>1 DEF Approaches, Unrecorded
  <2>5. CASE Load(w)
    <3>1. CASE Drop(w)
      BY <1>1, <2>1, <3>1
    <3>2. CASE tick' = [tick EXCEPT ![w].attempt = attempts[tick[w].row],
                                    ![w].pc = IF tick[w].row \in InvalidRows THEN "void"
                                              ELSE "recheck"]
      <4>1. /\ tick'[w].row = tick[w].row /\ tick'[w].attempt = attempts[tick[w].row]
            /\ tick'[w].pc # "load"
        BY <3>2 DEF TickType, TickRecords
      <4>2. tick[w].pc = "load"
        BY <2>5 DEF Load
      <4> QED
        BY <2>1, <4>1, <4>2 DEF Approaches, LastAttempt, Unrecorded
    <3> QED
      BY <2>5, <3>1, <3>2 DEF Load
  <2>6. CASE Post(w)
    <3>1. /\ tick'[w].row = tick[w].row /\ tick'[w].attempt = tick[w].attempt
          /\ tick'[w].pc # "load" /\ tick[w].pc = "cleared"
      BY <2>6 DEF Post, TickType, TickRecords
    <3> QED
      BY <2>1, <3>1 DEF Approaches, LastAttempt, Unrecorded
  <2>7. CASE CrashTick(w)
    <3>1. tick'[w] = IdleTick
      BY <2>7 DEF CrashTick, TickType
    <3> QED
      BY <2>1, <3>1 DEF IdleTick, Approaches
  <2>8. CASE Poll(w) \/ \E q \in Rows : Skip(w, q)
    <3>1. tick'[w].pc = "idle"
      BY <2>8 DEF Poll, Skip, TickType, TickRecords
    <3> QED
      BY <2>1, <3>1 DEF Approaches, Unrecorded
  <2>9. ASSUME NEW q \in Rows, Claim(w, q) PROVE Approaches(w, r)
    <3>1. tick[w].pc = "idle"
      BY <2>9 DEF Claim
    <3>2. CASE /\ status[q] = "planned"
               /\ tick' = [tick EXCEPT ![w].batch = @ \ {q}, ![w].pc = "load", ![w].row = q]
      <4>1. tick'[w].pc = "load" /\ tick'[w].row = q
        BY <3>2 DEF TickType, TickRecords
      <4> QED
        BY <3>2, <4>1 DEF Approaches
    <3>3. CASE tick' = [tick EXCEPT ![w].batch = @ \ {q}]
      <4>1. tick'[w].pc = "idle"
        BY <3>1, <3>3 DEF TickType, TickRecords
      <4> QED
        BY <4>1 DEF Approaches, Unrecorded
    <3> QED
      BY <2>9, <3>2, <3>3 DEF Claim, Lockable
  <2> QED
    BY <1>7, <2>1, <2>2, <2>3, <2>4, <2>5, <2>6, <2>7, <2>8, <2>9 DEF TickStep
<1> QED
  BY <1>4, <1>5, <1>6, <1>7

LEMMA TickKeepsRecords ==
  ASSUME RecordInv, NEW w \in Ticks, TickStep(w) \/ CrashTick(w)
  PROVE  RecordsBehind' /\ OneExecutionPerAttempt'
<1> SUFFICES ASSUME NEW r \in Rows
             PROVE  /\ status'[r] \in {"none", "planned"} => RecordedUpTo(r, attempts[r])'
                    /\ \A v \in Ticks : Engaged(v, r)' =>
                         /\ tick'[v].pc \in Unrecorded => RecordedUpTo(r, LastAttempt(v, r))'
                         /\ tick'[v].pc = "requeue" => RecordedUpTo(r, tick[v].attempt + 1)'
                    /\ \A i, j \in DOMAIN executions'[r] :
                         i < j => executions'[r][i].attempt < executions'[r][j].attempt
  BY DEF RecordsBehind, OneExecutionPerAttempt
<1> USE DEF RecordInv, BudgetInv
<1>1. /\ executions[r] \in Seq(ExecutionRecords) /\ attempts[r] \in Nat
      /\ tick[w].attempt \in Nat /\ \A i \in DOMAIN executions[r] : executions[r][i].attempt \in Nat
  <2>1. executions[r] \in Seq(ExecutionRecords)
    BY DEF TypeOK, ExecutionType
  <2>2. ASSUME NEW i \in DOMAIN executions[r] PROVE executions[r][i].attempt \in Nat
    <3>1. executions[r][i] \in ExecutionRecords
      BY <2>1
    <3> QED
      BY <3>1 DEF ExecutionRecords
  <2>3. attempts[r] \in Nat /\ tick[w].attempt \in Nat
    BY DEF TypeOK, RowTypes, TickType, TickRecords
  <2> QED
    BY <2>1, <2>2, <2>3
<1>2. \A v \in Ticks : v # w => tick'[v] = tick[v]
  BY TickEffects DEF TickMoves, TickClaims
<1>3. \A i, j \in DOMAIN executions[r] :
        i < j => executions[r][i].attempt < executions[r][j].attempt
  BY DEF OneExecutionPerAttempt
<1>4. CASE ~Engaged(w, r)
  <2>1. executions'[r] = executions[r]
    BY <1>4, TickWritesRecords
  <2>2. attempts'[r] = attempts[r] /\ (status'[r] \in {"none", "planned"} => status'[r] = status[r])
    BY <1>4, TickSpends
  <2>3. ASSUME NEW v \in Ticks, v # w, Engaged(v, r)'
        PROVE  /\ tick'[v].pc \in Unrecorded => RecordedUpTo(r, LastAttempt(v, r))'
               /\ tick'[v].pc = "requeue" => RecordedUpTo(r, tick[v].attempt + 1)'
    BY <1>2, <2>1, <2>2, <2>3 DEF RecordsBehind, RecordedUpTo, LastAttempt, Engaged
  <2>4. ASSUME Engaged(w, r)'
        PROVE  /\ tick'[w].pc \in Unrecorded => RecordedUpTo(r, LastAttempt(w, r))'
               /\ tick'[w].pc = "requeue" => RecordedUpTo(r, tick[w].attempt + 1)'
    <3>1. \/ status[r] = "planned" /\ tick'[w].pc = "load"
          \/ tick'[w].pc \notin Unrecorded \cup {"requeue"}
      BY <1>4, <2>4, TickWritesRecords DEF Approaches
    <3> QED
      BY <2>1, <2>2, <3>1 DEF RecordsBehind, RecordedUpTo, LastAttempt
  <2> QED
    BY <1>3, <2>1, <2>2, <2>3, <2>4 DEF RecordsBehind, RecordedUpTo
<1>5. CASE Engaged(w, r)
  <2>1. \A v \in Ticks : v # w => ~Engaged(v, r)'
    BY <1>2, <1>5 DEF TicksHoldOnce, Engaged
  <2>2. status[r] \notin {"none", "planned"}
    BY <1>5 DEF TicksHoldOnce
  <2>3. Engaged(w, r)' =>
          \/ tick'[w].pc \notin Unrecorded \cup {"requeue"}
          \/ /\ tick[w].pc \in Unrecorded
             /\ tick'[w].pc # "load" /\ tick'[w].attempt = LastAttempt(w, r)
    BY <2>2, TickWritesRecords DEF Approaches
  <2>4. tick[w].pc \in Unrecorded => RecordedUpTo(r, LastAttempt(w, r))
    BY <1>5 DEF RecordsBehind
  <2>5. CASE executions'[r] = executions[r]
    <3>1. status'[r] \in {"none", "planned"} => RecordedUpTo(r, attempts[r])'
      <4>1. ASSUME status'[r] \in {"none", "planned"}
            PROVE  tick[w].pc = "requeue" /\ attempts'[r] = tick[w].attempt + 1
        BY <2>2, <4>1, TickSpends DEF Live, Requeue
      <4> QED
        BY <1>5, <2>5, <4>1 DEF RecordsBehind, RecordedUpTo
    <3>2. ASSUME Engaged(w, r)', tick'[w].pc \in Unrecorded \cup {"requeue"}
          PROVE  /\ tick'[w].pc \in Unrecorded => RecordedUpTo(r, LastAttempt(w, r))'
                 /\ tick'[w].pc = "requeue" => RecordedUpTo(r, tick[w].attempt + 1)'
      <4>1. /\ tick'[w].pc # "load" /\ tick'[w].attempt = LastAttempt(w, r)
            /\ RecordedUpTo(r, LastAttempt(w, r))
        BY <2>3, <2>4, <3>2
      <4>2. LastAttempt(w, r) \in Nat
        BY <1>1 DEF LastAttempt
      <4>3. RecordedUpTo(r, tick[w].attempt)'
        BY <2>5, <4>1 DEF RecordedUpTo
      <4>4. tick'[w].pc = "requeue" => RecordedUpTo(r, tick[w].attempt + 1)'
        BY <1>1, <2>5, <4>1, <4>2 DEF RecordedUpTo
      <4> QED
        BY <4>1, <4>3, <4>4 DEF LastAttempt
    <3> QED
      BY <1>3, <2>1, <2>5, <3>1, <3>2
  <2>6. CASE /\ tick[w].pc \in Unrecorded \ {"load"}
             /\ UNCHANGED <<status, attempts>>
             /\ \E outcome \in {"succeeded", "failed", "cancelled"} :
                  executions'[r] = Append(executions[r], [attempt |-> tick[w].attempt + 1,
                                                          status |-> outcome])
             /\ Engaged(w, r)' => tick'[w].pc \notin Unrecorded
    <3> DEFINE n == Len(executions[r]) + 1
    <3>1. /\ DOMAIN executions'[r] = 1..n
          /\ executions'[r][n].attempt = tick[w].attempt + 1
          /\ \A i \in 1..(n - 1) : executions'[r][i] = executions[r][i]
          /\ DOMAIN executions[r] = 1..(n - 1) /\ n \in Nat
      BY <1>1, <2>6
    <3>2. \A i \in 1..(n - 1) : /\ executions[r][i].attempt \in Nat
                                /\ executions[r][i].attempt <= tick[w].attempt
      BY <1>1, <2>4, <2>6, <3>1 DEF RecordedUpTo, LastAttempt
    <3>3. ASSUME NEW i \in 1..n, NEW j \in 1..n, i < j
          PROVE  executions'[r][i].attempt < executions'[r][j].attempt
      <4> HIDE DEF n
      <4>1. CASE j = n
        <5>1. i \in 1..(n - 1)
          BY <3>1, <3>3, <4>1
        <5>2. executions'[r][j].attempt = tick[w].attempt + 1
          BY <3>1, <4>1
        <5>3. /\ executions'[r][i].attempt = executions[r][i].attempt
              /\ executions[r][i].attempt \in Nat
              /\ executions[r][i].attempt <= tick[w].attempt
          BY <3>1, <3>2, <5>1
        <5> QED
          BY <1>1, <5>2, <5>3
      <4>2. CASE j # n
        <5>1. i \in 1..(n - 1) /\ j \in 1..(n - 1)
          BY <3>1, <3>3, <4>2
        <5> QED
          BY <1>3, <3>1, <3>3, <5>1
      <4> QED
        BY <4>1, <4>2
    <3>4. \A i \in 1..n : executions'[r][i].attempt <= tick[w].attempt + 1
      <4> HIDE DEF n
      <4>1. ASSUME NEW i \in 1..n PROVE executions'[r][i].attempt <= tick[w].attempt + 1
        <5>1. CASE i = n
          BY <1>1, <3>1, <5>1
        <5>2. CASE i # n
          <6>1. i \in 1..(n - 1)
            BY <3>1, <5>2
          <6>2. executions'[r][i].attempt = executions[r][i].attempt
            BY <3>1, <6>1
          <6>3. /\ executions[r][i].attempt \in Nat
                /\ executions[r][i].attempt <= tick[w].attempt
            BY <3>2, <6>1
          <6> QED
            BY <1>1, <6>2, <6>3
        <5> QED
          BY <5>1, <5>2
      <4> QED
        BY <4>1
    <3>5. ASSUME Engaged(w, r)', tick'[w].pc = "requeue"
          PROVE  RecordedUpTo(r, tick[w].attempt + 1)'
      <4>1. tick'[w].attempt = tick[w].attempt
        BY <2>3, <2>6, <3>5 DEF LastAttempt
      <4> QED
        BY <3>1, <3>4, <4>1 DEF RecordedUpTo
    <3>6. \A i, j \in DOMAIN executions'[r] :
            i < j => executions'[r][i].attempt < executions'[r][j].attempt
      BY <3>1, <3>3
    <3> QED
      BY <2>1, <2>2, <2>6, <3>5, <3>6
  <2> QED
    BY <2>5, <2>6, TickWritesRecords
<1> QED
  BY <1>4, <1>5

\* Nobody else writes records.
LEMMA OthersKeepRecords ==
  ASSUME RecordInv,
         \/ \E c \in Calls : CallStep(c) \/ CrashCall(c)
         \/ \E o \in Operators : OperatorStep(o)
         \/ \E q \in Rows : CycleStep(q) \/ BackoffElapses(q) \/ LockAges(q)
         \/ Inbound \/ WindowCloses \/ UNCHANGED vars
  PROVE  RecordsBehind' /\ OneExecutionPerAttempt'
<1> USE DEF RecordInv, BudgetInv
<1>1. executions' = executions
  <2>1. ASSUME NEW c \in Calls, CallStep(c) \/ CrashCall(c) PROVE executions' = executions
    BY <2>1 DEF CallStep, CrashCall, SelectPlanned, SelectStale, LockNext, LockedAll, Reread,
       RereadAll, Begin, CallPost, Finalize
  <2>2. ASSUME NEW o \in Operators, OperatorStep(o) PROVE executions' = executions
    BY <2>2 DEF OperatorStep, Read, Commit, SendReply
  <2>3. ASSUME NEW q \in Rows, CycleStep(q) \/ BackoffElapses(q) \/ LockAges(q)
        PROVE  executions' = executions
    BY <2>3 DEF CycleStep, Decide, Propose, Gate, PlanOperatorRow, BackoffElapses, LockAges
  <2>4. ASSUME Inbound \/ WindowCloses \/ UNCHANGED vars PROVE executions' = executions
    BY <2>4 DEF Inbound, WindowCloses, vars
  <2> QED
    BY <2>1, <2>2, <2>3, <2>4
<1>2. attempts' = attempts
  BY OthersSpend
<1>3. /\ tick' = tick
      /\ \A r \in Rows : status'[r] \in {"none", "planned"} => status[r] \in {"none", "planned"}
  <2>1. ASSUME NEW c \in Calls, CallStep(c) \/ CrashCall(c) PROVE CallMoves(c)
    BY <2>1, CallEffects
  <2>2. (\E c \in Calls : CallMoves(c)) \/ EnvMoves
    BY <2>1, EnvEffects
  <2> QED
    BY <2>2 DEF CallMoves, CallKeeps, CallLocks, CallBegins, CallEnds, EnvMoves
<1> QED
  BY <1>1, <1>2, <1>3 DEF RecordsBehind, OneExecutionPerAttempt, RecordedUpTo, LastAttempt, Engaged

\* The execution records of a row are of attempts that follow one another, however
\* many workers take turns at it, die and lose inserts.
THEOREM ExecutionsFollowAttempts == Spec => []OneExecutionPerAttempt
<1>1. Init /\ BudgetInv => RecordInv
  BY DEF Init, RecordInv, RecordsBehind, RecordedUpTo, OneExecutionPerAttempt
<1>2. RecordInv /\ BudgetInv' /\ [Next]_vars => RecordInv'
  <2> SUFFICES ASSUME RecordInv, BudgetInv', [Next]_vars PROVE RecordsBehind' /\ OneExecutionPerAttempt'
    BY DEF RecordInv
  <2> QED
    BY TickKeepsRecords, OthersKeepRecords DEF Next
<1>3. RecordInv => OneExecutionPerAttempt
  BY DEF RecordInv
<1> QED
  BY <1>1, <1>2, <1>3, BudgetHolds, PTL DEF Spec

-----------------------------------------------------------------------------
(* The audit of late sends.  A row that may still be sent, or was cancelled,  *)
(* and has no audit entry owes at most the acceptance its worker settles.     *)

Owing(r) == status[r] \in Live \cup {"cancelled"} /\ ~audited[r]

AcceptancesKnown ==
  \A r \in Rows : Owing(r) =>
    /\ accepted[r] <= lost[r] + 1
    /\ (\A w \in Ticks : ~Settling(w, r)) => Excused(r)

AuditInv == BudgetInv /\ AcceptancesKnown

\* A settlement ends in sent, in an audit entry, or with the process.
LEMMA SettlementsConclude ==
  ASSUME TypeOK, NEW w \in Ticks, NEW r \in Rows, Settling(w, r), Settle(w) \/ CrashTick(w)
  PROVE  lost'[r] = lost[r] + 1 \/ ~Owing(r)'
<1> USE DEF TypeOK, Settling
<1>1. CASE status' = [status EXCEPT ![r] = "sent"]
  BY <1>1 DEF Owing, Live, RowTypes
<1>2. CASE AuditLateSend(r)
  BY <1>2 DEF AuditLateSend, Owing, RecordTypes
<1>3. CASE CrashTick(w)
  BY <1>3 DEF CrashTick, ProviderTypes
<1> QED
  BY <1>1, <1>2, <1>3 DEF Settle

\* Audit entries stay, and only a settlement writes one.
LEMMA AuditsStay ==
  ASSUME TypeOK, [Next]_vars, NEW r \in Rows
  PROVE  /\ audited[r] => audited'[r]
         /\ ~audited[r] /\ audited'[r] => \E w \in Ticks : Settle(w) /\ Settling(w, r)
<1>1. ASSUME NEW w \in Ticks, Settle(w)
      PROVE  audited' = audited \/ audited' = [audited EXCEPT ![tick[w].row] = TRUE]
  BY <1>1 DEF Settle, AuditLateSend
<1>2. ASSUME NEW w \in Ticks, Settle(w)
      PROVE  /\ audited[r] => audited'[r]
             /\ ~audited[r] /\ audited'[r] => Settling(w, r)
  <2>1. tick[w].pc = "settle"
    BY <1>2 DEF Settle
  <2> QED
    BY <1>1, <1>2, <2>1 DEF TypeOK, RecordTypes, Settling
<1>3. ASSUME NEW w \in Ticks, TickStep(w) \/ CrashTick(w), ~Settle(w) PROVE audited' = audited
  BY <1>3 DEF TickStep, CrashTick, Poll, Skip, Claim, Load, Recheck, CheckOwner, Void,
     VoidAction, VoidRecord, DryRun, Post, Book, MarkActionExecuted, RecordFailure, Requeue,
     GiveUp, Escalate
<1>4. ASSUME NEW c \in Calls, CallStep(c) \/ CrashCall(c) PROVE audited' = audited
  BY <1>4 DEF CallStep, CrashCall, SelectPlanned, SelectStale, LockNext, LockedAll, Reread,
     RereadAll, Begin, CallPost, Finalize
<1>5. ASSUME NEW o \in Operators, OperatorStep(o) PROVE audited' = audited
  BY <1>5 DEF OperatorStep, Read, Commit, SendReply
<1>6. ASSUME NEW q \in Rows, CycleStep(q) \/ BackoffElapses(q) \/ LockAges(q)
      PROVE  audited' = audited
  BY <1>6 DEF CycleStep, Decide, Propose, Gate, PlanOperatorRow, BackoffElapses, LockAges
<1>7. ASSUME Inbound \/ WindowCloses \/ UNCHANGED vars PROVE audited' = audited
  BY <1>7 DEF Inbound, WindowCloses, vars
<1> QED
  BY <1>2, <1>3, <1>4, <1>5, <1>6, <1>7 DEF Next

\* No step makes a row owe that did not.
LEMMA OwingBefore ==
  ASSUME TypeOK, CallsSendAlone, [Next]_vars, NEW r \in Rows, Owing(r)'
  PROVE  Owing(r)
<1> USE DEF Live
<1>1. audited[r] => audited'[r]
  BY AuditsStay
<1>2. status'[r] \in Live \cup {"cancelled"} => status[r] \in Live \cup {"cancelled"}
  <2>1. ASSUME NEW w \in Ticks, TickMoves(w) \/ TickClaims(w)
        PROVE  status'[r] \in Live \cup {"cancelled"} => status[r] \in Live \cup {"cancelled"}
    BY <2>1 DEF TickMoves, TickClaims, TypeOK, RowTypes
  <2>2. ASSUME NEW c \in Calls, CallMoves(c)
        PROVE  status'[r] \in Live \cup {"cancelled"} => status[r] \in Live \cup {"cancelled"}
    BY <2>2 DEF CallMoves, CallKeeps, CallLocks, CallBegins, CallEnds
  <2>3. ASSUME EnvMoves
        PROVE  status'[r] \in Live \cup {"cancelled"} => status[r] \in Live \cup {"cancelled"}
    BY <2>3 DEF EnvMoves
  <2> QED
    BY <2>1, <2>2, <2>3, StepEffects
<1> QED
  BY <1>1, <1>2 DEF Owing

LEMMA TickKeepsAudit ==
  ASSUME AuditInv, NEW w \in Ticks, TickStep(w) \/ CrashTick(w), NEW r \in Rows, Owing(r)'
  PROVE  /\ accepted'[r] <= lost'[r] + 1
         /\ (\A v \in Ticks : ~Settling(v, r)') => Excused(r)'
<1> USE DEF AuditInv, BudgetInv
<1>1. accepted[r] \in Nat /\ lost[r] \in Nat
  BY DEF TypeOK, ProviderTypes
<1>2. Owing(r)
  BY OwingBefore DEF Next
<1>3. \A v \in Ticks : v # w => (Settling(v, r)' <=> Settling(v, r))
  BY TickEffects DEF TickMoves, TickClaims, Settling
<1>4. CASE Post(w) /\ Engaged(w, r)
  <2>1. \A v \in Ticks : ~Settling(v, r)
    BY <1>4 DEF Post, Engaged, Settling, TicksHoldOnce
  <2>2. Excused(r)
    BY <1>2, <2>1 DEF AcceptancesKnown
  <2>3. PICK answer \in Answers :
          /\ Deliver(r, answer)
          /\ tick' = [tick EXCEPT ![w].answer = answer,
                                  ![w].pc = IF answer = "sent" THEN "settle" ELSE "failure"]
    BY <1>4 DEF Post, Engaged
  <2>4. answer = "sent" => Settling(w, r)'
    BY <1>4, <2>3 DEF Settling, Engaged, TypeOK, TickType, TickRecords
  <2>5. /\ accepted'[r] \in {accepted[r], accepted[r] + 1}
        /\ lost'[r] \in {lost[r], lost[r] + 1}
        /\ answer # "sent" => accepted'[r] - accepted[r] = lost'[r] - lost[r]
    BY <2>3, DeliverCopies DEF TypeOK
  <2>6. accepted'[r] <= lost'[r] + 1 /\ (answer # "sent" => accepted'[r] <= lost'[r])
    BY <1>1, <2>2, <2>5 DEF Excused
  <2> QED
    BY <2>4, <2>6 DEF Excused
<1>5. CASE ~(Post(w) /\ Engaged(w, r))
  <2>1. accepted'[r] = accepted[r] /\ lost'[r] \in {lost[r], lost[r] + 1}
    BY <1>5, TickCopies
  <2>2. accepted[r] <= lost[r] + 1
    BY <1>2 DEF AcceptancesKnown
  <2>3. ASSUME \A v \in Ticks : ~Settling(v, r)' PROVE Excused(r)'
    <3>1. CASE Settling(w, r)
      <4>1. lost'[r] = lost[r] + 1
        BY <3>1, TickProgress, SettlementsConclude
      <4> QED
        BY <1>1, <2>1, <2>2, <4>1 DEF Excused
    <3>2. CASE ~Settling(w, r)
      <4>1. Excused(r)
        BY <1>2, <1>3, <2>3, <3>2 DEF AcceptancesKnown
      <4> QED
        BY <1>1, <2>1, <4>1 DEF Excused
    <3> QED
      BY <3>1, <3>2
  <2>4. accepted'[r] <= lost'[r] + 1
    BY <1>1, <2>1, <2>2
  <2> QED
    BY <2>3, <2>4
<1> QED
  BY <1>4, <1>5

\* Requests post only rows that are sending, which owe nothing here.
LEMMA OthersKeepAudit ==
  ASSUME AuditInv,
         \/ \E c \in Calls : CallStep(c) \/ CrashCall(c)
         \/ \E o \in Operators : OperatorStep(o)
         \/ \E q \in Rows : CycleStep(q) \/ BackoffElapses(q) \/ LockAges(q)
         \/ Inbound \/ WindowCloses \/ UNCHANGED vars,
         NEW r \in Rows, Owing(r)'
  PROVE  /\ accepted'[r] <= lost'[r] + 1
         /\ (\A v \in Ticks : ~Settling(v, r)') => Excused(r)'
<1> USE DEF AuditInv, BudgetInv
<1>1. Owing(r)
  BY OwingBefore DEF Next
<1>2. accepted'[r] = accepted[r] /\ lost'[r] = lost[r]
  <2>1. ASSUME NEW c \in Calls, CallStep(c) \/ CrashCall(c)
        PROVE  accepted'[r] = accepted[r] /\ lost'[r] = lost[r]
    <3>1. ~Posting(c, r)
      BY <1>1 DEF Owing, Live, Posting, CallsSendAlone
    <3> QED
      BY <2>1, <3>1, CallCopies
  <2> QED
    BY <2>1, EnvCopies
<1>3. tick' = tick
  <2>1. ASSUME NEW c \in Calls, CallStep(c) \/ CrashCall(c) PROVE CallMoves(c)
    BY <2>1, CallEffects
  <2>2. (\E c \in Calls : CallMoves(c)) \/ EnvMoves
    BY <2>1, EnvEffects
  <2> QED
    BY <2>2 DEF CallMoves, EnvMoves
<1> QED
  BY <1>1, <1>2, <1>3 DEF AcceptancesKnown, Settling, Excused

\* A cancelled row with an acceptance nobody lost is audited once its worker has
\* let go of it, however slow workers are and whoever else holds the row.
THEOREM LateSendsAreAudited == Spec => []LateSendIsAudited
<1>1. Init /\ BudgetInv => AuditInv
  <2> SUFFICES ASSUME Init, BudgetInv PROVE AcceptancesKnown
    BY DEF AuditInv
  <2>1. \A r \in Rows : accepted[r] = 0 /\ lost[r] = 0
    BY DEF Init
  <2> QED
    BY <2>1 DEF AcceptancesKnown, Excused
<1>2. AuditInv /\ BudgetInv' /\ [Next]_vars => AuditInv'
  <2> SUFFICES ASSUME AuditInv, BudgetInv', [Next]_vars PROVE AcceptancesKnown'
    BY DEF AuditInv
  <2> SUFFICES ASSUME NEW r \in Rows, Owing(r)'
               PROVE  /\ accepted'[r] <= lost'[r] + 1
                      /\ (\A v \in Ticks : ~Settling(v, r)') => Excused(r)'
    BY DEF AcceptancesKnown
  <2> QED
    BY TickKeepsAudit, OthersKeepAudit DEF Next
<1>3. AuditInv => LateSendIsAudited
  <2> SUFFICES ASSUME AuditInv, NEW r \in Rows, status[r] = "cancelled", accepted[r] > lost[r],
                      \A w \in Ticks : ~Engaged(w, r), ~audited[r]
               PROVE  FALSE
    BY DEF LateSendIsAudited
  <2>1. accepted[r] <= lost[r]
    BY DEF AuditInv, AcceptancesKnown, Owing, Settling, Engaged, Excused
  <2>2. accepted[r] \in Nat /\ lost[r] \in Nat
    BY DEF AuditInv, BudgetInv, TypeOK, ProviderTypes
  <2> QED
    BY <2>1, <2>2
<1> QED
  BY <1>1, <1>2, <1>3, BudgetHolds, PTL DEF Spec

-----------------------------------------------------------------------------
(* Rows and their actions, as long as nothing fails and autonomous workers    *)
(* alone send: a finished row whose action is not has a worker about to move  *)
(* the action.                                                                *)

\* Before a worker has concluded anything about its row.
Undecided == {"load", "recheck", "owner", "void", "cleared", "settle", "failure", "requeue", "giveUp"}

HolderAgrees(w, r) ==
  Engaged(w, r) =>
    /\ tick[w].pc # "idle"
    /\ tick[w].pc \in Undecided => status[r] \in {"locked", "cancelled"}
    /\ tick[w].pc \in {"voidAction", "voidRecord"} => status[r] = "cancelled"
    /\ tick[w].pc \in {"book", "executed"} => status[r] \in {"sent", "cancelled"}
    /\ tick[w].pc = "escalate" => status[r] \in {"failed", "cancelled"}

\* Action r is still queued, and a worker with row r at one of pcs will move it.
MovesSoon(r, pcs) ==
  action[r] = "planned" /\ \E w \in Ticks : Engaged(w, r) /\ tick[w].pc \in pcs

ActionAgrees(r) ==
  /\ status[r] # "sending"
  /\ status[r] = "none" => action[r] \in {"none", "decided", "proposed", "cancelled"}
  /\ status[r] \in {"planned", "locked"} => action[r] = "planned"
  /\ status[r] = "sent" =>
       action[r] \in {"executed", "cancelled"} \/ MovesSoon(r, {"book", "executed"})
  /\ status[r] = "failed" => action[r] \in {"failed", "cancelled"} \/ MovesSoon(r, {"escalate"})
  /\ status[r] = "cancelled" => action[r] = "cancelled" \/ MovesSoon(r, {"voidAction"})

RowsAgree == \A r \in Rows \ OperatorRows : ActionAgrees(r) /\ \A w \in Ticks : HolderAgrees(w, r)

ActionInv == BudgetInv /\ (faults = 0 => RowsAgree)

\* What a worker's step does to the row it holds: only a worker that has
\* concluded moves the action, and it lets go of the row or is past it.
Becomes(r, row) == status'[r] = IF status[r] = "locked" THEN row ELSE status[r]
ActionBecomes(r, to) ==
  action'[r] = IF action[r] \in {"proposed", "planned"} THEN to ELSE action[r]

HeldSteps(w, r) ==
  \/ /\ status'[r] = status[r] /\ action'[r] = action[r]
     /\ \/ tick[w].pc \in Undecided /\ Engaged(w, r)' /\ tick'[w].pc \in Undecided
        \/ tick[w].pc \in Undecided \cup {"voidRecord"} /\ ~Engaged(w, r)'
        \/ tick[w].pc = "book" /\ Engaged(w, r)' /\ tick'[w].pc = "executed"
  \/ /\ action'[r] = action[r] /\ tick[w].pc \in Undecided
     /\ \/ Becomes(r, "cancelled") /\ Engaged(w, r)' /\ tick'[w].pc = "voidAction"
        \/ Becomes(r, "sent") /\ Engaged(w, r)' /\ tick'[w].pc = "book"
        \/ Becomes(r, "failed") /\ Engaged(w, r)' /\ tick'[w].pc = "escalate"
        \/ Becomes(r, "planned") /\ ~Engaged(w, r)'
  \/ /\ status'[r] = status[r]
     /\ \/ /\ ActionBecomes(r, "cancelled") /\ tick[w].pc = "voidAction"
           /\ Engaged(w, r)' /\ tick'[w].pc = "voidRecord"
        \/ ActionBecomes(r, "executed") /\ tick[w].pc = "executed" /\ ~Engaged(w, r)'
        \/ ActionBecomes(r, "failed") /\ tick[w].pc = "escalate" /\ ~Engaged(w, r)'

LEMMA HolderSteps ==
  ASSUME TypeOK, NEW w \in Ticks, NEW r \in Rows, Engaged(w, r), tick[w].pc # "idle",
         TickStep(w) \/ CrashTick(w), faults' = 0
  PROVE  HeldSteps(w, r)
<1> USE RowsAssumption DEF Engaged, Undecided
<1>1. ~Fault
  BY DEF Fault, TypeOK, BudgetTypes
<1>2. Drop(w) => ~Engaged(w, r)'
  BY DropFields DEF TypeOK, NoRow
<1>3. \A pc : Goto(w, pc) => Engaged(w, r)' /\ tick'[w].pc = pc
  BY GotoFields DEF TypeOK
<1>4. \A to : MoveAction(r, to) => ActionBecomes(r, to)
  BY DEF MoveAction, ActionBecomes, TypeOK, ActionType
<1>5. CASE Recheck(w) \/ CheckOwner(w) \/ VoidRecord(w) \/ DryRun(w) \/ Book(w) \/ RecordFailure(w)
  <2>1. status' = status /\ action' = action
    BY <1>5 DEF Recheck, CheckOwner, VoidRecord, DryRun, Book, RecordFailure, rowVars
  <2>2. CASE Recheck(w)
    BY <1>1, <1>2, <1>3, <2>1, <2>2 DEF Recheck, HeldSteps
  <2>3. CASE CheckOwner(w)
    BY <1>1, <1>3, <2>1, <2>3 DEF CheckOwner, HeldSteps
  <2>4. CASE VoidRecord(w) \/ DryRun(w)
    BY <1>2, <2>1, <2>4 DEF VoidRecord, DryRun, HeldSteps
  <2>5. CASE Book(w)
    BY <1>3, <2>1, <2>5 DEF Book, HeldSteps
  <2>6. CASE RecordFailure(w)
    BY <1>3, <2>1, <2>6 DEF RecordFailure, HeldSteps
  <2> QED
    BY <1>5, <2>2, <2>3, <2>4, <2>5, <2>6
<1>6. CASE Load(w) \/ Post(w)
  <2>1. status' = status /\ action' = action /\ tick[w].pc \in {"load", "cleared"}
    BY <1>6 DEF Load, Post, rowVars
  <2>2. tick'[w].row = tick[w].row /\ tick'[w].pc \in {"void", "recheck", "settle", "failure"}
    BY <1>1, <1>6, LoadFields, PostFields
  <2> QED
    BY <2>1, <2>2 DEF HeldSteps
<1>7. CASE Void(w) \/ Settle(w) \/ GiveUp(w) \/ Requeue(w)
  <2>1. action' = action
    BY <1>7 DEF Void, Settle, GiveUp, Requeue
  <2>2. CASE Void(w)
    <3>1. Becomes(r, "cancelled")
      BY <1>1, <2>2 DEF Void, StillLocked, Becomes, TypeOK, RowTypes
    <3> QED
      BY <1>3, <2>1, <2>2, <3>1 DEF Void, HeldSteps
  <2>3. CASE Settle(w)
    <3>1. Becomes(r, "sent")
      BY <1>1, <2>3 DEF Settle, StillLocked, Becomes, TypeOK, RowTypes
    <3> QED
      BY <1>3, <2>1, <2>3, <3>1 DEF Settle, HeldSteps
  <2>4. CASE GiveUp(w)
    <3>1. Becomes(r, "failed")
      BY <1>1, <2>4 DEF GiveUp, StillLocked, Becomes, TypeOK, RowTypes
    <3> QED
      BY <1>3, <2>1, <2>4, <3>1 DEF GiveUp, HeldSteps
  <2>5. CASE Requeue(w)
    <3>1. Becomes(r, "planned")
      BY <1>1, <2>5 DEF Requeue, StillLocked, Becomes, TypeOK, RowTypes
    <3> QED
      BY <1>2, <2>1, <2>5, <3>1 DEF Requeue, HeldSteps
  <2> QED
    BY <1>7, <2>2, <2>3, <2>4, <2>5
<1>8. CASE VoidAction(w) \/ MarkActionExecuted(w) \/ Escalate(w)
  <2>1. status' = status
    BY <1>8 DEF VoidAction, MarkActionExecuted, Escalate, rowVars
  <2>2. CASE VoidAction(w)
    BY <1>1, <1>3, <1>4, <2>1, <2>2 DEF VoidAction, HeldSteps
  <2>3. CASE MarkActionExecuted(w)
    BY <1>1, <1>2, <1>4, <2>1, <2>3 DEF MarkActionExecuted, HeldSteps
  <2>4. CASE Escalate(w)
    BY <1>1, <1>2, <1>4, <2>1, <2>4 DEF Escalate, HeldSteps
  <2> QED
    BY <1>8, <2>2, <2>3, <2>4
<1>9. CASE Poll(w) \/ (\E q \in Rows : Skip(w, q) \/ Claim(w, q)) \/ CrashTick(w)
  BY <1>1, <1>9 DEF Poll, Skip, Claim, CrashTick
<1> QED
  BY <1>5, <1>6, <1>7, <1>8, <1>9 DEF TickStep

\* ... and what it does to a row it does not hold: at most it claims it.
LEMMA BystanderSteps ==
  ASSUME TypeOK, NEW w \in Ticks, NEW r \in Rows, ~Engaged(w, r), TickStep(w) \/ CrashTick(w)
  PROVE  /\ action'[r] = action[r]
         /\ \/ status'[r] = status[r] /\ ~Engaged(w, r)'
            \/ /\ status[r] = "planned" /\ status'[r] = "locked"
               /\ Engaged(w, r)' /\ tick'[w].pc = "load"
<1> USE DEF Engaged
<1>1. action'[r] = action[r]
  <2>1. ASSUME NEW to, MoveAction(tick[w].row, to) PROVE action'[r] = action[r]
    BY <2>1 DEF MoveAction, TypeOK, ActionType
  <2>2. CASE VoidAction(w)
    BY <2>1, <2>2 DEF VoidAction
  <2>3. CASE MarkActionExecuted(w)
    BY <2>1, <2>3 DEF MarkActionExecuted
  <2>4. CASE Escalate(w)
    BY <2>1, <2>4 DEF Escalate
  <2>5. CASE ~VoidAction(w) /\ ~MarkActionExecuted(w) /\ ~Escalate(w)
    BY <2>5 DEF TickStep, CrashTick, Poll, Skip, Claim, Load, Recheck, CheckOwner, Void,
       VoidRecord, DryRun, Post, Settle, Book, RecordFailure, Requeue, GiveUp
  <2> QED
    BY <2>2, <2>3, <2>4, <2>5
<1>2. CASE TickMoves(w)
  BY <1>1, <1>2, RowsAssumption DEF TickMoves, NoRow
<1>3. CASE TickClaims(w)
  BY <1>1, <1>3 DEF TickClaims, TypeOK, RowTypes
<1> QED
  BY <1>2, <1>3, TickEffects

LEMMA TickKeepsActions ==
  ASSUME ActionInv, NEW w \in Ticks, TickStep(w) \/ CrashTick(w), faults' = 0
  PROVE  RowsAgree'
<1> SUFFICES ASSUME NEW r \in Rows \ OperatorRows
             PROVE  ActionAgrees(r)' /\ \A v \in Ticks : HolderAgrees(v, r)'
  BY DEF RowsAgree
<1> USE DEF ActionInv, BudgetInv
<1>1. faults = 0
  <2>1. faults' = faults \/ Fault
    BY DEF TickStep, CrashTick, Poll, Skip, Claim, Load, Recheck, CheckOwner, Void, VoidAction,
       VoidRecord, DryRun, Post, Settle, Book, MarkActionExecuted, RecordFailure, Requeue, GiveUp,
       Escalate
  <2> QED
    BY <2>1 DEF Fault, TypeOK, BudgetTypes
<1>2. ActionAgrees(r) /\ \A v \in Ticks : HolderAgrees(v, r)
  BY <1>1 DEF RowsAgree
<1>3. \A v \in Ticks : v # w => tick'[v] = tick[v]
  BY TickEffects DEF TickMoves, TickClaims
<1>4. CASE Engaged(w, r)
  <2>1. \A v \in Ticks : v # w => ~Engaged(v, r) /\ ~Engaged(v, r)'
    BY <1>3, <1>4 DEF TicksHoldOnce, Engaged
  <2>2. tick[w].pc # "idle" /\ HolderAgrees(w, r)
    BY <1>2, <1>4 DEF HolderAgrees
  <2>3. HeldSteps(w, r)
    BY <1>4, <2>2, HolderSteps
  <2>4. \A pcs : MovesSoon(r, pcs) <=> action[r] = "planned" /\ tick[w].pc \in pcs
    BY <1>4, <2>1 DEF MovesSoon
  <2>5. \A pcs : MovesSoon(r, pcs)' <=> action'[r] = "planned" /\ Engaged(w, r)' /\ tick'[w].pc \in pcs
    BY <2>1 DEF MovesSoon
  <2>6. HolderAgrees(w, r)'
    BY <1>4, <2>2, <2>3 DEF HolderAgrees, HeldSteps, Becomes, Undecided
  <2>7. ActionAgrees(r)'
    BY <1>2, <1>4, <2>2, <2>3, <2>4, <2>5 DEF ActionAgrees, HolderAgrees, HeldSteps, Becomes,
       ActionBecomes, Undecided
  <2> QED
    BY <2>1, <2>6, <2>7 DEF HolderAgrees
<1>5. CASE ~Engaged(w, r)
  <2>1. /\ action'[r] = action[r]
        /\ \/ status'[r] = status[r] /\ ~Engaged(w, r)'
           \/ /\ status[r] = "planned" /\ status'[r] = "locked"
              /\ Engaged(w, r)' /\ tick'[w].pc = "load"
    BY <1>5, BystanderSteps
  <2>2. \A v \in Ticks : Engaged(v, r) => Engaged(v, r)' /\ tick'[v].pc = tick[v].pc
    BY <1>3, <1>5 DEF Engaged
  <2>3. \A pcs : MovesSoon(r, pcs) => MovesSoon(r, pcs)'
    BY <2>1, <2>2 DEF MovesSoon
  <2>4. ActionAgrees(r)'
    BY <1>2, <2>1, <2>3 DEF ActionAgrees
  <2>5. ASSUME NEW v \in Ticks PROVE HolderAgrees(v, r)'
    <3>1. CASE v = w
      BY <2>1, <3>1 DEF HolderAgrees
    <3>2. CASE v # w
      <4>1. Engaged(v, r)' => Engaged(v, r) /\ tick'[v].pc = tick[v].pc /\ status[r] # "planned"
        BY <1>3, <3>2 DEF Engaged, TicksHoldOnce
      <4> QED
        BY <1>2, <2>1, <4>1 DEF HolderAgrees
    <3> QED
      BY <3>1, <3>2
  <2> QED
    BY <2>4, <2>5
<1> QED
  BY <1>4, <1>5

\* An operator cancels a row and its action together; a cycle moves a row it
\* has not yet inserted.
LEMMA EnvKeepsActions ==
  ASSUME ActionInv, faults = 0,
         \/ \E o \in Operators : OperatorStep(o)
         \/ \E q \in Rows : CycleStep(q) \/ BackoffElapses(q) \/ LockAges(q)
         \/ Inbound \/ WindowCloses \/ UNCHANGED vars
  PROVE  RowsAgree'
<1> SUFFICES ASSUME NEW r \in Rows \ OperatorRows
             PROVE  ActionAgrees(r)' /\ \A w \in Ticks : HolderAgrees(w, r)'
  BY DEF RowsAgree
<1> USE DEF ActionInv, BudgetInv
<1>1. ActionAgrees(r) /\ \A w \in Ticks : HolderAgrees(w, r)
  BY DEF RowsAgree
<1>2. tick' = tick
  BY EnvEffects DEF EnvMoves
<1>3. ASSUME status'[r] = status[r], action'[r] = action[r]
      PROVE  ActionAgrees(r)' /\ \A w \in Ticks : HolderAgrees(w, r)'
  BY <1>1, <1>2, <1>3 DEF ActionAgrees, HolderAgrees, MovesSoon, Engaged
<1>4. ASSUME NEW o \in Operators, Commit(o)
      PROVE  ActionAgrees(r)' /\ \A w \in Ticks : HolderAgrees(w, r)'
  <2>1. CASE CancelPendingAutonomousSends
    <3>1. /\ status'[r] = IF status[r] \in {"planned", "locked"} THEN "cancelled" ELSE status[r]
          /\ action'[r] = IF action[r] \in {"proposed", "planned"} THEN "cancelled" ELSE action[r]
      BY <2>1 DEF CancelPendingAutonomousSends, Pending
    <3>2. ActionAgrees(r)'
      BY <1>1, <3>1 DEF ActionAgrees, MovesSoon
    <3>3. \A w \in Ticks : HolderAgrees(w, r)'
      BY <1>1, <1>2, <3>1 DEF HolderAgrees, Engaged
    <3> QED
      BY <3>2, <3>3
  <2>2. CASE UNCHANGED <<status, action>>
    BY <1>3, <2>2
  <2> QED
    BY <1>4, <2>1, <2>2 DEF Commit
<1>5. ASSUME NEW q \in Rows, CycleStep(q)
      PROVE  ActionAgrees(r)' /\ \A w \in Ticks : HolderAgrees(w, r)'
  <2> USE DEF TypeOK, RowTypes, ActionType
  <2>1. CASE q # r
    <3>1. status'[r] = status[r] /\ action'[r] = action[r]
      BY <1>5, <2>1 DEF CycleStep, Decide, Propose, Gate, PlanOperatorRow, rowVars
    <3> QED
      BY <1>3, <3>1
  <2>2. CASE q = r
    <3>1. CASE Decide(r) \/ Propose(r)
      <4>1. status' = status /\ action[r] \in {"none", "decided"}
            /\ action'[r] \in {"decided", "proposed"}
        BY <3>1 DEF Decide, Propose, rowVars
      <4>2. status[r] = "none"
        BY <1>1, <4>1 DEF ActionAgrees, MovesSoon, Statuses
      <4> QED
        BY <1>1, <1>2, <4>1, <4>2 DEF ActionAgrees, HolderAgrees, Engaged
    <3>2. CASE Gate(r)
      <4>1. status[r] = "none" /\ status'[r] = "planned" /\ action'[r] = "planned"
        BY <3>2 DEF Gate
      <4>2. \A w \in Ticks : ~Engaged(w, r)
        BY <4>1 DEF TicksHoldOnce
      <4> QED
        BY <1>2, <4>1, <4>2 DEF ActionAgrees, HolderAgrees, Engaged
    <3>3. CASE PlanOperatorRow(r)
      BY <3>3 DEF PlanOperatorRow
    <3> QED
      BY <1>5, <2>2, <3>1, <3>2, <3>3 DEF CycleStep
  <2> QED
    BY <2>1, <2>2
<1>6. ASSUME UNCHANGED <<status, action>>
      PROVE  ActionAgrees(r)' /\ \A w \in Ticks : HolderAgrees(w, r)'
  BY <1>3, <1>6
<1>7. ASSUME NEW o \in Operators, OperatorStep(o), ~Commit(o) PROVE UNCHANGED <<status, action>>
  BY <1>7 DEF OperatorStep, Read, SendReply, rowVars
<1>8. ASSUME \/ \E q \in Rows : BackoffElapses(q) \/ LockAges(q)
             \/ Inbound \/ WindowCloses \/ UNCHANGED vars
      PROVE  UNCHANGED <<status, action>>
  BY <1>8 DEF BackoffElapses, LockAges, Inbound, WindowCloses, vars, rowVars
<1> QED
  BY <1>4, <1>5, <1>6, <1>7, <1>8

\* Where nothing fails and no HTTP request sends, an action says what became of
\* its row as soon as no worker has the row: operators may interfere at any step.
THEOREM ActionsFollowRows ==
  ASSUME Calls = {}
  PROVE  Spec => []ActionFollowsRow
<1>1. Init /\ BudgetInv => ActionInv
  BY RowsAssumption DEF Init, ActionInv, RowsAgree, ActionAgrees, HolderAgrees, Engaged, IdleTick, NoRow
<1>2. ActionInv /\ BudgetInv' /\ [Next]_vars => ActionInv'
  <2> SUFFICES ASSUME ActionInv, BudgetInv', [Next]_vars, faults' = 0 PROVE RowsAgree'
    BY DEF ActionInv
  <2>1. ASSUME NEW w \in Ticks, TickStep(w) \/ CrashTick(w) PROVE RowsAgree'
    BY <2>1, TickKeepsActions
  <2>2. ASSUME \/ \E o \in Operators : OperatorStep(o)
               \/ \E q \in Rows : CycleStep(q) \/ BackoffElapses(q) \/ LockAges(q)
               \/ Inbound \/ WindowCloses \/ UNCHANGED vars
        PROVE  RowsAgree'
    <3>1. faults' = faults
      BY <2>2 DEF OperatorStep, Read, Commit, SendReply, CycleStep, Decide, Propose, Gate,
         PlanOperatorRow, BackoffElapses, LockAges, Inbound, WindowCloses, vars
    <3> QED
      BY <2>2, <3>1, EnvKeepsActions
  <2> QED
    BY <2>1, <2>2 DEF Next
<1>3. ActionInv => ActionFollowsRow
  BY DEF ActionInv, BudgetInv, TypeOK, RowTypes, Statuses, RowsAgree, ActionAgrees, MovesSoon,
     ActionFollowsRow, Engaged
<1> QED
  BY <1>1, <1>2, <1>3, BudgetHolds, PTL DEF Spec

-----------------------------------------------------------------------------
(* Duplicates of slow workers.  A worker holds a row once and a request sends *)
(* it once, so at most two acceptances are known, and one of them is audited.  *)

\* Nobody has audited a copy of r or is about to.
Silent(r) == ~audited[r] /\ \A w \in Ticks : ~Settling(w, r)

\* An audited row is not queued again, and its worker has only to book the attempt.
AuditedAreDone ==
  \A r \in Rows : audited[r] =>
    /\ status[r] \notin {"none", "planned"}
    /\ \A w \in Ticks : Engaged(w, r) => tick[w].pc \in {"book", "executed"}

\* While r may still be sent, or a request is about to send it, one acceptance less is known.
RowCopies(r) ==
  /\ accepted[r] <= lost[r] + 2
  /\ Silent(r) => accepted[r] <= lost[r] + 1
  /\ status[r] \in Live => accepted[r] <= lost[r] + 1
  /\ status[r] \in Live /\ (\A w \in Ticks : ~Settling(w, r)) => Excused(r)
  /\ \A c \in Calls : Posting(c, r) => accepted[r] <= lost[r] + 1
  /\ \A c \in Calls : Posting(c, r) /\ Silent(r) => Excused(r)
CopiesKnown == \A r \in Rows : RowCopies(r)

DuplicateInv == BudgetInv /\ AuditedAreDone /\ CopiesKnown


\* What is left to a worker once it has settled.
LEMMA BookingEnds ==
  ASSUME TypeOK, NEW w \in Ticks, TickStep(w) \/ CrashTick(w), NEW r \in Rows,
         Engaged(w, r), Engaged(w, r)',
         tick[w].pc \in {"book", "executed"} \/ (Settle(w) /\ Settling(w, r))
  PROVE  tick'[w].pc \in {"book", "executed"}
<1> USE RowsAssumption DEF Engaged, NoRow
<1>1. CASE Settle(w) \/ Book(w)
  BY <1>1, GotoFields DEF Settle, Book, TypeOK
<1>2. CASE MarkActionExecuted(w)
  BY <1>2, DropFields DEF MarkActionExecuted, TypeOK
<1>3. CASE CrashTick(w)
  BY <1>3 DEF CrashTick, IdleTick, TypeOK, TickType
<1> QED
  BY <1>1, <1>2, <1>3 DEF TickStep, Poll, Skip, Claim, Load, Recheck, CheckOwner, Void,
     VoidAction, VoidRecord, DryRun, Post, RecordFailure, Requeue, GiveUp, Escalate, Settling

LEMMA AuditedStayDone ==
  ASSUME DuplicateInv, TicksHoldOnce', [Next]_vars
  PROVE  AuditedAreDone'
<1> SUFFICES ASSUME NEW r \in Rows, audited'[r]
             PROVE  /\ status'[r] \notin {"none", "planned"}
                    /\ \A v \in Ticks : Engaged(v, r)' => tick'[v].pc \in {"book", "executed"}
  BY DEF AuditedAreDone
<1> USE DEF DuplicateInv, BudgetInv
<1>1. ASSUME NEW w \in Ticks, Settle(w), Settling(w, r)
      PROVE  /\ status'[r] \notin {"none", "planned"}
             /\ \A v \in Ticks : Engaged(v, r)' => tick'[v].pc \in {"book", "executed"}
  <2>1. tick'[w].pc = "book" /\ Engaged(w, r)' /\ Engaged(w, r)
    BY <1>1, GotoFields DEF Settle, Settling, Engaged, TypeOK
  <2> QED
    BY <2>1 DEF TicksHoldOnce
<1>2. CASE audited[r]
  <2>1. /\ status[r] \notin {"none", "planned"}
        /\ \A v \in Ticks : Engaged(v, r) => tick[v].pc \in {"book", "executed"}
    BY <1>2 DEF AuditedAreDone
  <2>2. ASSUME NEW w \in Ticks, TickStep(w) \/ CrashTick(w)
        PROVE  /\ status'[r] \notin {"none", "planned"}
               /\ \A v \in Ticks : Engaged(v, r)' => tick'[v].pc \in {"book", "executed"}
    <3>1. status'[r] \notin {"none", "planned"}
      BY <2>1, <2>2, TickSpends DEF Requeue, Live
    <3>2. \A v \in Ticks : Engaged(v, r)' => Engaged(v, r)
      BY <2>1, <2>2, TickEffects, RowsAssumption DEF TickMoves, TickClaims, Engaged, NoRow
    <3>3. \A v \in Ticks : v # w => tick'[v] = tick[v]
      BY <2>2, TickEffects DEF TickMoves, TickClaims
    <3> QED
      BY <2>1, <2>2, <3>1, <3>2, <3>3, BookingEnds
  <2>3. ASSUME NEW c \in Calls, CallMoves(c)
        PROVE  /\ status'[r] \notin {"none", "planned"}
               /\ \A v \in Ticks : Engaged(v, r)' => tick'[v].pc \in {"book", "executed"}
    BY <2>1, <2>3 DEF CallMoves, CallKeeps, CallLocks, CallBegins, CallEnds, Engaged
  <2>4. ASSUME EnvMoves
        PROVE  /\ status'[r] \notin {"none", "planned"}
               /\ \A v \in Ticks : Engaged(v, r)' => tick'[v].pc \in {"book", "executed"}
    BY <2>1, <2>4 DEF EnvMoves, Engaged
  <2> QED
    BY <2>2, <2>3, <2>4, StepKinds, CallEffects
<1> QED
  BY <1>1, <1>2, AuditsStay

LEMMA TickKeepsCopies ==
  ASSUME DuplicateInv, NEW w \in Ticks, TickStep(w) \/ CrashTick(w), NEW r \in Rows
  PROVE  RowCopies(r)'
<1> USE DEF DuplicateInv, BudgetInv
<1>1. accepted[r] \in Nat /\ lost[r] \in Nat /\ RowCopies(r)
  BY DEF TypeOK, ProviderTypes, CopiesKnown, RowCopies
<1>2. call' = call /\ \A v \in Ticks : v # w => (Settling(v, r)' <=> Settling(v, r))
  BY TickEffects DEF TickMoves, TickClaims, Settling
<1>3. \A c \in Calls : Posting(c, r)' <=> Posting(c, r)
  BY <1>2 DEF Posting
<1>4. status'[r] \in Live => status[r] \in Live
  BY TickEffects DEF TickMoves, TickClaims, Live, Terminal, TypeOK, RowTypes
<1>5. audited[r] => audited'[r]
  BY AuditsStay DEF Next
<1>6. CASE Post(w) /\ Engaged(w, r)
  <2>1. Silent(r)
    BY <1>6 DEF Post, Engaged, Silent, Settling, TicksHoldOnce, AuditedAreDone
  <2>2. PICK answer \in Answers :
          /\ Deliver(r, answer)
          /\ tick' = [tick EXCEPT ![w].answer = answer,
                                  ![w].pc = IF answer = "sent" THEN "settle" ELSE "failure"]
    BY <1>6 DEF Post, Engaged
  <2>3. answer = "sent" => Settling(w, r)'
    BY <1>6, <2>2 DEF Settling, Engaged, TypeOK, TickType, TickRecords
  <2>4. /\ accepted'[r] \in {accepted[r], accepted[r] + 1}
        /\ lost'[r] \in {lost[r], lost[r] + 1}
        /\ answer # "sent" => accepted'[r] - accepted[r] = lost'[r] - lost[r]
    BY <2>2, DeliverCopies DEF TypeOK
  <2>5. /\ accepted[r] <= lost[r] + 1
        /\ status[r] \in Live \/ (\E c \in Calls : Posting(c, r)) => accepted[r] <= lost[r]
    BY <1>1, <2>1 DEF RowCopies, Silent, Excused
  <2>6. \A n \in {0, 1} : accepted[r] <= lost[r] + n =>
          accepted'[r] <= lost'[r] + n + 1 /\ (answer # "sent" => accepted'[r] <= lost'[r] + n)
    BY <1>1, <2>4
  <2>7. /\ accepted'[r] <= lost'[r] + 2
        /\ answer # "sent" => accepted'[r] <= lost'[r] + 1
        /\ status[r] \in Live \/ (\E c \in Calls : Posting(c, r)) =>
             accepted'[r] <= lost'[r] + 1 /\ (answer # "sent" => accepted'[r] <= lost'[r])
    BY <1>1, <2>4, <2>5
  <2> QED
    BY <1>3, <1>4, <2>3, <2>7 DEF RowCopies, Silent, Excused
<1>7. CASE ~(Post(w) /\ Engaged(w, r))
  <2>1. accepted'[r] = accepted[r] /\ lost'[r] \in {lost[r], lost[r] + 1}
    BY <1>7, TickCopies
  <2>2. CASE Settling(w, r)
    <3>1. /\ accepted[r] <= lost[r] + 2
          /\ status[r] \in Live \/ (\E c \in Calls : Posting(c, r)) => accepted[r] <= lost[r] + 1
      BY <1>1 DEF RowCopies
    <3>2. CASE lost'[r] = lost[r] + 1
      <4>1. /\ accepted'[r] <= lost'[r] + 1
            /\ status[r] \in Live \/ (\E c \in Calls : Posting(c, r)) => accepted'[r] <= lost'[r]
        BY <1>1, <2>1, <3>1, <3>2
      <4>2. accepted'[r] <= lost'[r] + 2
        BY <1>1, <2>1, <4>1
      <4>3. accepted'[r] <= lost'[r] => accepted'[r] <= lost'[r] + 1
        BY <1>1, <2>1
      <4> QED
        BY <1>3, <1>4, <4>1, <4>2, <4>3 DEF RowCopies, Excused
    <3>3. CASE lost'[r] = lost[r] /\ status'[r] = "sent" /\ status[r] = "locked"
      <4>1. \A c \in Calls : ~Posting(c, r)
        BY <3>3 DEF Posting, CallsSendAlone
      <4>2. accepted'[r] <= lost'[r] + 1 /\ accepted'[r] <= lost'[r] + 2
        BY <1>1, <2>1, <3>1, <3>3 DEF Live
      <4> QED
        BY <1>3, <3>3, <4>1, <4>2 DEF RowCopies, Live
    <3>4. CASE lost'[r] = lost[r] /\ status[r] # "locked" /\ audited'[r]
      <4>1. status[r] \notin Live
        BY <2>2, <3>4 DEF Settling, Engaged, TicksHoldOnce, Live
      <4>2. /\ accepted'[r] <= lost'[r] + 2
            /\ (\E c \in Calls : Posting(c, r)) => accepted'[r] <= lost'[r] + 1
        BY <2>1, <3>1, <3>4
      <4> QED
        BY <1>3, <1>4, <3>4, <4>1, <4>2 DEF RowCopies, Silent
    <3>5. Settle(w) \/ CrashTick(w)
      BY <2>2, TickProgress
    <3>6. CASE Settle(w)
      BY <2>2, <3>2, <3>3, <3>4, <3>6
         DEF Settle, StillLocked, AuditLateSend, Settling, TypeOK, RowTypes, RecordTypes, ProviderTypes
    <3>7. CASE CrashTick(w)
      BY <2>2, <3>2, <3>7 DEF CrashTick, Settling, TypeOK, ProviderTypes
    <3> QED
      BY <3>5, <3>6, <3>7
  <2>3. CASE ~Settling(w, r)
    <3>1. /\ Silent(r)' => Silent(r)
          /\ (\A v \in Ticks : ~Settling(v, r)') => \A v \in Ticks : ~Settling(v, r)
      BY <1>2, <1>5, <2>3 DEF Silent
    <3>2. \A n \in {0, 1, 2} : accepted[r] <= lost[r] + n => accepted'[r] <= lost'[r] + n
      BY <1>1, <2>1
    <3>3. /\ accepted[r] <= lost[r] => accepted'[r] <= lost'[r]
          /\ accepted[r] <= lost[r] + 1 => accepted'[r] <= lost'[r] + 1
          /\ accepted[r] <= lost[r] + 2 => accepted'[r] <= lost'[r] + 2
      BY <1>1, <2>1
    <3> QED
      BY <1>1, <1>3, <1>4, <3>1, <3>3 DEF RowCopies, Excused
  <2> QED
    BY <2>2, <2>3
<1> QED
  BY <1>6, <1>7

LEMMA CallKeepsCopies ==
  ASSUME DuplicateInv, CallsSendAlone', NEW c \in Calls, CallStep(c) \/ CrashCall(c), NEW r \in Rows
  PROVE  RowCopies(r)'
<1> USE DEF DuplicateInv, BudgetInv
<1>1. accepted[r] \in Nat /\ lost[r] \in Nat /\ RowCopies(r)
  BY DEF TypeOK, ProviderTypes, CopiesKnown, RowCopies
<1>2. CallMoves(c)
  BY CallEffects
<1>3. \A d \in Calls : d # c => (Posting(d, r)' <=> Posting(d, r))
  BY <1>2 DEF CallMoves, Posting
<1>4. /\ Silent(r)' <=> Silent(r)
      /\ (\A v \in Ticks : ~Settling(v, r)') <=> (\A v \in Ticks : ~Settling(v, r))
  <2>1. audited' = audited
    BY DEF CallStep, CrashCall, SelectPlanned, SelectStale, LockNext, LockedAll, Reread,
       RereadAll, Begin, CallPost, Finalize
  <2> QED
    BY <1>2, <2>1 DEF CallMoves, Silent, Settling
<1>5. status'[r] \in Live => status[r] \in Live
  BY <1>2 DEF CallMoves, CallKeeps, CallLocks, CallBegins, CallEnds, Live
<1>6. CASE CallPost(c) /\ Posting(c, r)
  <2>1. status[r] = "sending" /\ status'[r] = status[r]
    BY <1>6 DEF CallPost, Posting, CallsSendAlone, rowVars
  <2>2. \A d \in Calls : ~Posting(d, r)'
    <3>1. ~Posting(c, r)'
      BY <1>6, <2>1, CallCopies
    <3>2. \A d \in Calls : d # c => ~Posting(d, r)
      BY <1>6 DEF Posting, CallsSendAlone
    <3> QED
      BY <1>3, <3>1, <3>2
  <2>3. accepted[r] <= lost[r] + 1 /\ (Silent(r) => accepted[r] <= lost[r])
    BY <1>1, <1>6 DEF RowCopies, Excused
  <2>4. /\ accepted'[r] \in {accepted[r], accepted[r] + 1}
        /\ lost'[r] \in {lost[r], lost[r] + 1}
    BY <1>6, DeliverCopies DEF CallPost, Posting, TypeOK
  <2>5. accepted'[r] <= lost'[r] + 2 /\ (Silent(r) => accepted'[r] <= lost'[r] + 1)
    BY <1>1, <2>3, <2>4
  <2> QED
    BY <1>4, <2>1, <2>2, <2>5 DEF RowCopies, Live
<1>7. CASE ~(CallPost(c) /\ Posting(c, r))
  <2>1. accepted'[r] = accepted[r] /\ lost'[r] = lost[r]
    BY <1>7, CallCopies
  <2>2. \A d \in Calls : Posting(d, r)' => Posting(d, r) \/ status[r] \in Live
    BY <1>3, CallCopies DEF Live
  <2> QED
    BY <1>1, <1>4, <1>5, <2>1, <2>2 DEF RowCopies, Excused, Silent
<1> QED
  BY <1>6, <1>7

LEMMA EnvKeepsCopies ==
  ASSUME DuplicateInv, EnvMoves, UNCHANGED <<accepted, lost, audited>>, NEW r \in Rows
  PROVE  RowCopies(r)'
<1>1. status'[r] \in Live => status[r] \in Live
  BY DEF EnvMoves, Live
<1>2. \A w \in Ticks : Settling(w, r)' <=> Settling(w, r)
  BY DEF EnvMoves, Settling
<1>3. \A c \in Calls : Posting(c, r)' <=> Posting(c, r)
  BY DEF EnvMoves, Posting
<1> QED
  BY <1>1, <1>2, <1>3 DEF DuplicateInv, CopiesKnown, RowCopies, Silent, Excused

\* Workers that outlive their locks and recoveries that overtake them cost a customer at
\* most one copy that no lost acknowledgement explains, and that copy is audited.
THEOREM DuplicatesAreAudited == Spec => []NoSilentDuplicate
<1>1. Init /\ BudgetInv => DuplicateInv
  <2> SUFFICES ASSUME Init, BudgetInv PROVE AuditedAreDone /\ CopiesKnown
    BY DEF DuplicateInv
  <2>1. \A r \in Rows : accepted[r] = 0 /\ lost[r] = 0 /\ audited[r] = FALSE
    BY DEF Init
  <2> QED
    BY <2>1 DEF AuditedAreDone, CopiesKnown, RowCopies, Excused
<1>2. DuplicateInv /\ BudgetInv' /\ [Next]_vars => DuplicateInv'
  <2> SUFFICES ASSUME DuplicateInv, BudgetInv', [Next]_vars PROVE DuplicateInv'
    OBVIOUS
  <2>1. AuditedAreDone'
    BY AuditedStayDone DEF BudgetInv
  <2>2. ASSUME NEW r \in Rows PROVE RowCopies(r)'
    <3>1. ASSUME \/ \E o \in Operators : OperatorStep(o)
                 \/ \E q \in Rows : CycleStep(q) \/ BackoffElapses(q) \/ LockAges(q)
                 \/ Inbound \/ WindowCloses \/ UNCHANGED vars
          PROVE  RowCopies(r)'
      <4>1. EnvMoves /\ UNCHANGED <<accepted, lost>>
        BY <3>1, EnvEffects, EnvCopies DEF DuplicateInv, BudgetInv
      <4>2. audited' = audited
        BY <3>1 DEF OperatorStep, Read, Commit, SendReply, CycleStep, Decide, Propose, Gate,
           PlanOperatorRow, BackoffElapses, LockAges, Inbound, WindowCloses, vars
      <4> QED
        BY <4>1, <4>2, EnvKeepsCopies
    <3> QED
      BY <3>1, TickKeepsCopies, CallKeepsCopies DEF Next, BudgetInv
  <2> QED
    BY <2>1, <2>2 DEF DuplicateInv, CopiesKnown
<1>3. DuplicateInv => NoSilentDuplicate
  <2> SUFFICES ASSUME DuplicateInv, NEW r \in Rows, accepted[r] > lost[r] + 1
               PROVE  /\ accepted[r] = lost[r] + 2
                      /\ audited[r] \/ \E w \in Ticks : Engaged(w, r) /\ tick[w].pc = "settle"
    BY DEF NoSilentDuplicate
  <2>1. accepted[r] \in Nat /\ lost[r] \in Nat
    BY DEF DuplicateInv, BudgetInv, TypeOK, ProviderTypes
  <2>2. accepted[r] <= lost[r] + 2 /\ (Silent(r) => accepted[r] <= lost[r] + 1)
    BY DEF DuplicateInv, CopiesKnown, RowCopies
  <2>3. accepted[r] = lost[r] + 2 /\ ~Silent(r)
    BY <2>1, <2>2
  <2> QED
    BY <2>3 DEF Silent, Settling, Engaged
<1> QED
  BY <1>1, <1>2, <1>3, BudgetHolds, PTL DEF Spec

-----------------------------------------------------------------------------
(* Rows left sending. *)

\* Nobody settles, cancels or queues a sending row but the request that has it in hand.
THEOREM OrphanedSendsStay == Spec => OrphansStaySending
<1>1. TypeOK /\ [Next]_vars =>
        \A r \in Rows : status[r] = "sending" /\ (\A c \in Calls : call[c].row # r) =>
          status'[r] = "sending"
  <2> SUFFICES ASSUME TypeOK, [Next]_vars, NEW r \in Rows, status[r] = "sending",
                      \A c \in Calls : call[c].row # r
               PROVE  status'[r] = "sending"
    OBVIOUS
  <2>1. ASSUME NEW w \in Ticks, TickMoves(w) \/ TickClaims(w) PROVE status'[r] = "sending"
    BY <2>1 DEF TickMoves, TickClaims, TypeOK, RowTypes
  <2>2. ASSUME NEW c \in Calls, CallMoves(c) PROVE status'[r] = "sending"
    BY <2>2 DEF CallMoves, CallKeeps, CallLocks, CallBegins, CallEnds
  <2>3. ASSUME EnvMoves PROVE status'[r] = "sending"
    BY <2>3 DEF EnvMoves
  <2> QED
    BY <2>1, <2>2, <2>3, StepEffects
<1> QED
  BY <1>1, TypeCorrectness, PTL DEF Spec, OrphansStaySending
=============================================================================
