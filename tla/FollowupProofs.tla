--------------------------- MODULE FollowupProofs ---------------------------
(***************************************************************************)
(* What holds of follow-ups for any number of them, of workers and faults: *)
(* the types, that a follow-up runs at most once, that a cancellation is   *)
(* never overwritten, that an answered follow-up is not run, and that the *)
(* whole implements FollowupContract.                                      *)
(***************************************************************************)
EXTENDS FollowupWorker, TLAPS

\* Every field a step writes to a worker is one of its record's.
LEMMA WorkerFields ==
  ASSUME WorkerType, NEW w \in Workers
  PROVE  /\ worker[w].pc \in Pcs /\ worker[w].batch \subseteq FollowUps
         /\ worker[w].row \in FollowUps \cup {NoRow} /\ worker[w].outcome \in Outcomes
         /\ worker[w].dry \in BOOLEAN
BY DEF WorkerType, WorkerRecords

LEMMA GotoTypes ==
  ASSUME WorkerType, NEW w \in Workers, NEW pc \in Pcs, Goto(w, pc)
  PROVE  WorkerType'
BY DEF Goto, WorkerType, WorkerRecords

LEMMA DropTypes ==
  ASSUME WorkerType, NEW w \in Workers, Drop(w)
  PROVE  WorkerType'
BY DEF Drop, IdleWorker, WorkerType, WorkerRecords, Pcs, Grounds, Outcomes

LEMMA WorkerStaysTyped ==
  ASSUME FollowupTypeOK, [Next]_vars
  PROVE  WorkerType'
<1> USE DEF FollowupTypeOK
<1>1. ASSUME NEW w \in Workers, Poll(w) PROVE WorkerType'
  BY <1>1 DEF Poll, Candidates, FirstOf, WorkerType, WorkerRecords
<1>2. ASSUME NEW w \in Workers, NEW f \in FollowUps, Take(w, f) PROVE WorkerType'
  BY <1>2 DEF Take, WorkerType, WorkerRecords, Pcs, Grounds
<1>3. ASSUME NEW w \in Workers, Check(w) PROVE WorkerType'
  <2>1. \E pc \in Pcs : Goto(w, pc)
    <3>1. worker[w].pc \in Grounds
      BY <1>3 DEF Check
    <3>2. After(worker[w].pc) \in Pcs /\ "cancel" \in Pcs
      BY <3>1 DEF After, Grounds, Pcs
    <3> QED
      BY <1>3, <3>2 DEF Check
  <2> QED
    BY <2>1, GotoTypes
<1>4. ASSUME NEW w \in Workers, Cancel(w) PROVE WorkerType'
  BY <1>4, DropTypes DEF Cancel
<1>5. ASSUME NEW w \in Workers, DryRun(w) PROVE WorkerType'
  BY <1>5, DropTypes DEF DryRun
<1>6. ASSUME NEW w \in Workers, Claim(w) PROVE WorkerType'
  <2>1. "load" \in Pcs
    BY DEF Pcs
  <2> QED
    BY <1>6, <2>1, DropTypes, GotoTypes DEF Claim
<1>7. ASSUME NEW w \in Workers, Load(w) PROVE WorkerType'
  <2>1. "cancel" \in Pcs /\ "run" \in Pcs
    BY DEF Pcs
  <2> QED
    BY <1>7, <2>1, GotoTypes DEF Load
<1>8. ASSUME NEW w \in Workers, Run(w) PROVE WorkerType'
  <2>1. PICK outcome \in Outcomes :
          worker' = [worker EXCEPT ![w].pc = "conclude", ![w].outcome = outcome]
    BY <1>8 DEF Run
  <2>2. "conclude" \in Pcs
    BY DEF Pcs
  <2> QED
    BY <2>1, <2>2 DEF WorkerType, WorkerRecords
<1>9. ASSUME NEW w \in Workers, Conclude(w) PROVE WorkerType'
  BY <1>9, DropTypes DEF Conclude
<1>10. ASSUME NEW w \in Workers, Crash(w) PROVE WorkerType'
  BY <1>10 DEF Crash, IdleWorker, WorkerType, WorkerRecords, Pcs, Grounds, Outcomes
<1>11. ASSUME NEW f \in FollowUps, Schedule(f) \/ FallsDue(f) \/ Expires(f) \/ AgentSelects(f)
       PROVE  WorkerType'
  BY <1>11 DEF Schedule, FallsDue, Expires, AgentSelects, WorkerType
<1>12. ASSUME Reply \/ ChangeHands \/ AgentCancels \/ UNCHANGED vars PROVE WorkerType'
  BY <1>12 DEF Reply, ChangeHands, AgentCancels, vars, WorkerType
<1> QED
  <2>1. CASE \E w \in Workers : WorkerStep(w) \/ Crash(w)
    BY <2>1, <1>1, <1>2, <1>3, <1>4, <1>5, <1>6, <1>7, <1>8, <1>9, <1>10 DEF WorkerStep
  <2> QED
    BY <2>1, <1>11, <1>12 DEF Next

\* The steps that write a status, and what each writes.
LEMMA StatusWrites ==
  ASSUME FollowupTypeOK, [Next]_vars
  PROVE  \/ UNCHANGED status
         \/ \E w \in Workers : Cancel(w) \/ Claim(w) \/ Conclude(w)
         \/ \E f \in FollowUps : Schedule(f)
         \/ AgentCancels
<1>1. ASSUME NEW w \in Workers, \/ Poll(w) \/ (\E g \in FollowUps : Take(w, g)) \/ Check(w)
                                \/ DryRun(w) \/ Load(w) \/ Run(w) \/ Crash(w)
      PROVE  UNCHANGED status
  BY <1>1 DEF Poll, Take, Check, DryRun, Load, Run, Crash
<1>2. ASSUME NEW g \in FollowUps, FallsDue(g) \/ Expires(g) \/ AgentSelects(g)
      PROVE  UNCHANGED status
  BY <1>2 DEF FallsDue, Expires, AgentSelects
<1>3. ASSUME Reply \/ ChangeHands \/ UNCHANGED vars PROVE UNCHANGED status
  BY <1>3 DEF Reply, ChangeHands, vars
<1> QED
  BY <1>1, <1>2, <1>3 DEF Next, WorkerStep

LEMMA StatusTypes ==
  ASSUME FollowupTypeOK, [Next]_vars
  PROVE  StatusType'
<1> USE DEF FollowupTypeOK, StatusType, Statuses
<1>1. ASSUME NEW w \in Workers, Cancel(w) \/ Claim(w) PROVE StatusType'
  BY <1>1 DEF Cancel, Claim
<1>2. ASSUME NEW w \in Workers, Conclude(w) PROVE StatusType'
  BY <1>2, WorkerFields DEF Conclude, Outcomes
<1>3. ASSUME NEW f \in FollowUps, Schedule(f) PROVE StatusType'
  BY <1>3 DEF Schedule
<1>4. ASSUME AgentCancels PROVE StatusType'
  BY <1>4 DEF AgentCancels
<1> QED
  BY <1>1, <1>2, <1>3, <1>4, StatusWrites

\* Once claimed or concluded, a follow-up never becomes claimable again.
LEMMA NeverReplanned ==
  ASSUME FollowupTypeOK, [Next]_vars, NEW f \in FollowUps,
         status[f] \notin {"none", "planned"}
  PROVE  status'[f] \notin {"none", "planned"}
<1> USE DEF FollowupTypeOK, StatusType
<1>1. ASSUME NEW w \in Workers, Cancel(w) \/ Claim(w)
      PROVE  status'[f] \notin {"none", "planned"}
  BY <1>1 DEF Cancel, Claim
<1>2. ASSUME NEW w \in Workers, Conclude(w) PROVE status'[f] \notin {"none", "planned"}
  BY <1>2, WorkerFields DEF Conclude, Outcomes
<1>3. ASSUME NEW g \in FollowUps, Schedule(g) PROVE status'[f] \notin {"none", "planned"}
  BY <1>3 DEF Schedule
<1>4. ASSUME AgentCancels PROVE status'[f] \notin {"none", "planned"}
  BY <1>4 DEF AgentCancels
<1> QED
  BY <1>1, <1>2, <1>3, <1>4, StatusWrites

LEMMA WorldStaysTyped ==
  ASSUME FollowupTypeOK, [Next]_vars
  PROVE  WorldTypes' /\ ChosenType'
<1> USE DEF FollowupTypeOK, WorldTypes, ChosenType
<1>1. ASSUME NEW w \in Workers, WorkerStep(w) \/ Crash(w) PROVE UNCHANGED <<world, chosen>>
  BY <1>1 DEF WorkerStep, Crash, Poll, Take, Check, Cancel, DryRun, Claim, Load, Run, Conclude
<1>2. ASSUME UNCHANGED <<world, chosen>> PROVE WorldTypes' /\ ChosenType'
  BY <1>2 DEF world
<1>3. ASSUME NEW f \in FollowUps, Schedule(f) \/ FallsDue(f) \/ Expires(f) \/ AgentSelects(f)
      PROVE  WorldTypes' /\ ChosenType'
  BY <1>3 DEF Schedule, FallsDue, Expires, AgentSelects, world
<1>4. ASSUME Reply \/ ChangeHands PROVE WorldTypes' /\ ChosenType'
  BY <1>4 DEF Reply, ChangeHands
<1>5. ASSUME AgentCancels \/ UNCHANGED vars PROVE WorldTypes' /\ ChosenType'
  BY <1>5 DEF AgentCancels, vars, world
<1> QED
  BY <1>1, <1>2, <1>3, <1>4, <1>5 DEF Next

LEMMA CountsStayTyped ==
  ASSUME FollowupTypeOK, [Next]_vars
  PROVE  CountTypes'
<1> USE LimitsAssumption DEF FollowupTypeOK, CountTypes, Fault
<1>1. ASSUME NEW w \in Workers, WorkerStep(w) \/ Crash(w) PROVE CountTypes'
  <2>1. ASSUME Poll(w) \/ (\E f \in FollowUps : Take(w, f)) \/ DryRun(w) PROVE CountTypes'
    BY <2>1 DEF Poll, Take, DryRun
  <2>2. ASSUME Check(w) PROVE CountTypes'
    BY <2>2 DEF Check
  <2>3. ASSUME Cancel(w) PROVE CountTypes'
    BY <2>3 DEF Cancel
  <2>4. ASSUME Claim(w) PROVE CountTypes'
    BY <2>4 DEF Claim
  <2>5. ASSUME Load(w) \/ Conclude(w) \/ Crash(w) PROVE CountTypes'
    BY <2>5 DEF Load, Conclude, Crash
  <2>6. ASSUME Run(w) PROVE CountTypes'
    <3>1. \A f \in FollowUps : runs[f] + 1 \in Nat
      OBVIOUS
    <3> QED
      BY <2>6, <3>1 DEF Run
  <2> QED
    BY <1>1, <2>1, <2>2, <2>3, <2>4, <2>5, <2>6 DEF WorkerStep
<1>2. ASSUME NEW f \in FollowUps, Schedule(f) \/ FallsDue(f) \/ Expires(f) \/ AgentSelects(f)
      PROVE  CountTypes'
  BY <1>2 DEF Schedule, FallsDue, Expires, AgentSelects
<1>3. ASSUME Reply \/ ChangeHands \/ AgentCancels \/ UNCHANGED vars PROVE CountTypes'
  BY <1>3 DEF Reply, ChangeHands, AgentCancels, vars
<1> QED
  BY <1>1, <1>2, <1>3 DEF Next

\* Type correctness of runFollowupTick and the writers around it.
THEOREM FollowupTypeCorrectness == Spec => []FollowupTypeOK
<1>1. Init => FollowupTypeOK
  <2> SUFFICES ASSUME Init PROVE FollowupTypeOK
    OBVIOUS
  <2>1. WorkerType
    BY DEF Init, WorkerType, IdleWorker, WorkerRecords, Pcs, Grounds, Outcomes
  <2>2. StatusType /\ WorldTypes /\ ChosenType
    BY DEF Init, StatusType, Statuses, WorldTypes, ChosenType
  <2>3. CountTypes
    BY LimitsAssumption DEF Init, CountTypes
  <2> QED
    BY <2>1, <2>2, <2>3 DEF FollowupTypeOK
<1>2. FollowupTypeOK /\ [Next]_vars => FollowupTypeOK'
  <2> SUFFICES ASSUME FollowupTypeOK, [Next]_vars PROVE FollowupTypeOK'
    OBVIOUS
  <2>1. StatusType'
    BY StatusTypes
  <2> QED
    BY <2>1, WorkerStaysTyped, WorldStaysTyped, CountsStayTyped DEF FollowupTypeOK
<1> QED
  BY <1>1, <1>2, PTL DEF Spec
-----------------------------------------------------------------------------
(* One run per follow-up.  The claim is the only way to a cycle, it needs a *)
(* planned follow-up, and no step makes one planned again.                  *)

Busy(w, f) == worker[w].row = f /\ worker[w].pc \in {"load", "run", "conclude"}
Fresh(w, f) == worker[w].row = f /\ worker[w].pc \in {"load", "run"}

\* A claimed follow-up has one worker and is not planned; until that worker
\* starts the cycle it has never run.
ClaimIsExclusive ==
  \A f \in FollowUps :
    /\ \A w \in Workers : Busy(w, f) => status[f] \notin {"none", "planned"}
    /\ \A v, w \in Workers : Busy(v, f) /\ Busy(w, f) => v = w
UnclaimedHasNotRun ==
  \A f \in FollowUps :
    /\ status[f] \in {"none", "planned"} => runs[f] = 0
    /\ \A w \in Workers : Fresh(w, f) => runs[f] = 0

RunInv == FollowupTypeOK /\ ClaimIsExclusive /\ UnclaimedHasNotRun /\ RunsAtMostOnce

Claims(w, f) == Claim(w) /\ worker[w].row = f /\ status[f] = "planned"

\* A worker gets a follow-up by claiming it, and runs what it already has.
LEMMA BusyComesFromClaim ==
  ASSUME FollowupTypeOK, [Next]_vars, NEW v \in Workers, NEW f \in FollowUps
  PROVE  /\ Busy(v, f)' => Busy(v, f) \/ Claims(v, f)
         /\ Fresh(v, f)' => Fresh(v, f) \/ Claims(v, f)
<1> DEFINE Step == /\ Busy(v, f)' => Busy(v, f) \/ Claims(v, f)
                   /\ Fresh(v, f)' => Fresh(v, f) \/ Claims(v, f)
<1> USE DEF FollowupTypeOK, WorkerType, WorkerRecords, Busy, Fresh
<1>1. ASSUME UNCHANGED worker PROVE Step
  BY <1>1
<1>2. ASSUME NEW w \in Workers, Poll(w) PROVE Step
  BY <1>2 DEF Poll
<1>3. ASSUME NEW w \in Workers, NEW g \in FollowUps, Take(w, g) PROVE Step
  BY <1>3 DEF Take
<1>4. ASSUME NEW w \in Workers, Check(w) PROVE Step
  <2>1. \E pc : pc \in {"cancel", "owner", "deal", "claim"} /\ Goto(w, pc)
    BY <1>4 DEF Check, After, Grounds
  <2> QED
    BY <2>1 DEF Goto
<1>5. ASSUME NEW w \in Workers, Drop(w) PROVE Step
  BY <1>5 DEF Drop, IdleWorker
<1>6. ASSUME NEW w \in Workers, Cancel(w) \/ DryRun(w) \/ Conclude(w)
      PROVE  Drop(w)
  BY <1>6 DEF Cancel, DryRun, Conclude
<1>7. ASSUME NEW w \in Workers, Claim(w) PROVE Step
  <2>1. CASE Drop(w)
    BY <1>5, <1>7, <2>1 DEF Claim
  <2>2. CASE ~Drop(w)
    <3>1. Claims(w, worker[w].row) /\ Goto(w, "load")
      BY <1>7, <2>2 DEF Claim, Claims, Claimable
    <3> QED
      BY <3>1 DEF Goto
  <2> QED
    BY <2>1, <2>2
<1>8. ASSUME NEW w \in Workers, Load(w) PROVE Step
  <2>1. \E pc : pc \in {"cancel", "run"} /\ Goto(w, pc)
    BY <1>8 DEF Load
  <2> QED
    BY <1>8, <2>1 DEF Load, Goto
<1>9. ASSUME NEW w \in Workers, Run(w) PROVE Step
  <2>1. PICK outcome \in Outcomes :
          worker' = [worker EXCEPT ![w].pc = "conclude", ![w].outcome = outcome]
    BY <1>9 DEF Run
  <2>2. CASE v = w
    <3>1. worker[v].pc = "run" /\ worker'[v].row = worker[v].row /\ worker'[v].pc = "conclude"
      BY <1>9, <2>1, <2>2 DEF Run
    <3> QED
      BY <3>1
  <2>3. CASE v # w
    <3>1. worker'[v] = worker[v]
      BY <2>1, <2>3
    <3> QED
      BY <1>9, <2>3, <3>1
  <2> QED
    BY <2>2, <2>3
<1>10. ASSUME NEW w \in Workers, Crash(w) PROVE Step
  BY <1>10 DEF Crash, IdleWorker
<1>11. ASSUME NEW g \in FollowUps, Schedule(g) \/ FallsDue(g) \/ Expires(g) \/ AgentSelects(g)
       PROVE  UNCHANGED worker
  BY <1>11 DEF Schedule, FallsDue, Expires, AgentSelects
<1>12. ASSUME Reply \/ ChangeHands \/ AgentCancels \/ UNCHANGED vars
       PROVE  UNCHANGED worker
  BY <1>12 DEF Reply, ChangeHands, AgentCancels, vars
<1>13. CASE \E w \in Workers : WorkerStep(w) \/ Crash(w)
  BY <1>2, <1>3, <1>4, <1>5, <1>6, <1>7, <1>8, <1>9, <1>10, <1>13 DEF WorkerStep
<1> QED
  BY <1>1, <1>11, <1>12, <1>13 DEF Next

\* The claims stay exclusive, and a follow-up nobody runs has not run.
LEMMA RunInvKept ==
  ASSUME RunInv, [Next]_vars
  PROVE  ClaimIsExclusive' /\ UnclaimedHasNotRun' /\ RunsAtMostOnce'
<1> USE DEF RunInv
<1>1. \A f \in FollowUps : status[f] \notin {"none", "planned"}
                            => status'[f] \notin {"none", "planned"}
  BY NeverReplanned
<1>2. \A v \in Workers, f \in FollowUps :
        Claims(v, f) => status'[f] = "executing" \/ ~Busy(v, f)'
  BY DEF Claims, Claim, Claimable, Drop, IdleWorker, Busy, FollowupTypeOK, StatusType,
         WorkerType, WorkerRecords
<1>3. \A f \in FollowUps : \A w \in Workers :
        Busy(w, f)' => status'[f] \notin {"none", "planned"}
  BY <1>1, <1>2, BusyComesFromClaim DEF ClaimIsExclusive
<1>4. \A f \in FollowUps, v, w \in Workers : Busy(v, f)' /\ Busy(w, f)' => v = w
  <2> SUFFICES ASSUME NEW f \in FollowUps, NEW v \in Workers, NEW w \in Workers,
                      Busy(v, f)', Busy(w, f)', v # w
               PROVE  FALSE
    OBVIOUS
  <2>1. Busy(v, f) \/ Claims(v, f)
    BY BusyComesFromClaim
  <2>2. Busy(w, f) \/ Claims(w, f)
    BY BusyComesFromClaim
  <2>3. ~(Busy(v, f) /\ Claims(w, f)) /\ ~(Busy(w, f) /\ Claims(v, f))
    BY DEF Claims, ClaimIsExclusive
  <2>4. ~(Claims(v, f) /\ Claims(w, f))
    <3> SUFFICES ASSUME Claims(v, f), Claims(w, f) PROVE FALSE
      OBVIOUS
    <3>1. worker[w].pc = "claim" /\ worker'[w] = worker[w]
      BY DEF Claims, Claim, Drop, Goto, FollowupTypeOK, WorkerType
    <3> QED
      BY <3>1 DEF Busy
  <2> QED
    BY <2>1, <2>2, <2>3, <2>4 DEF ClaimIsExclusive
<1>5. ClaimIsExclusive'
  BY <1>3, <1>4 DEF ClaimIsExclusive
<1>6. \A f \in FollowUps : runs'[f] = runs[f] \/ \E w \in Workers : Run(w) /\ Fresh(w, f)
  <2> SUFFICES ASSUME NEW f \in FollowUps
               PROVE  runs'[f] = runs[f] \/ \E w \in Workers : Run(w) /\ Fresh(w, f)
    OBVIOUS
  <2>1. ASSUME NEW w \in Workers, Run(w)
        PROVE  runs'[f] = runs[f] \/ Fresh(w, f)
    BY <2>1 DEF Run, Fresh, FollowupTypeOK, CountTypes
  <2>2. ASSUME NEW w \in Workers, WorkerStep(w) \/ Crash(w), ~Run(w) PROVE UNCHANGED runs
    BY <2>2 DEF WorkerStep, Crash, Poll, Take, Check, Cancel, DryRun, Claim, Load, Conclude
  <2>3. ASSUME NEW g \in FollowUps, Schedule(g) \/ FallsDue(g) \/ Expires(g) \/ AgentSelects(g)
        PROVE  UNCHANGED runs
    BY <2>3 DEF Schedule, FallsDue, Expires, AgentSelects
  <2>4. ASSUME Reply \/ ChangeHands \/ AgentCancels \/ UNCHANGED vars PROVE UNCHANGED runs
    BY <2>4 DEF Reply, ChangeHands, AgentCancels, vars
  <2> QED
    BY <2>1, <2>2, <2>3, <2>4 DEF Next
<1>7. \A f \in FollowUps, w \in Workers : Run(w) /\ Fresh(w, f)
        => /\ runs'[f] = runs[f] + 1 /\ runs[f] = 0
           /\ Busy(w, f) /\ ~Fresh(w, f)'
           /\ status'[f] = status[f] /\ status[f] \notin {"none", "planned"}
  <2> SUFFICES ASSUME NEW f \in FollowUps, NEW w \in Workers, Run(w), Fresh(w, f)
               PROVE  /\ runs'[f] = runs[f] + 1 /\ runs[f] = 0
                      /\ Busy(w, f) /\ ~Fresh(w, f)'
                      /\ status'[f] = status[f] /\ status[f] \notin {"none", "planned"}
    OBVIOUS
  <2>1. Busy(w, f)
    BY DEF Busy, Fresh
  <2>2. runs'[f] = runs[f] + 1 /\ status' = status
    BY DEF Run, Fresh, FollowupTypeOK, CountTypes
  <2>3. worker'[w].pc = "conclude"
    BY DEF Run, FollowupTypeOK, WorkerType
  <2> QED
    BY <2>1, <2>2, <2>3 DEF Fresh, UnclaimedHasNotRun, ClaimIsExclusive
<1>8. RunsAtMostOnce'
  <2>1. \A f \in FollowUps : runs[f] \in Nat /\ runs[f] <= 1
    BY DEF RunsAtMostOnce, FollowupTypeOK, CountTypes
  <2> QED
    BY <1>6, <1>7, <2>1 DEF RunsAtMostOnce
<1>9. \A f \in FollowUps : status'[f] \in {"none", "planned"} => runs'[f] = 0
  BY <1>1, <1>6, <1>7 DEF UnclaimedHasNotRun
<1>10. \A f \in FollowUps, w \in Workers : Fresh(w, f)' => runs'[f] = 0
  <2> SUFFICES ASSUME NEW f \in FollowUps, NEW w \in Workers, Fresh(w, f)', runs'[f] # 0
               PROVE  FALSE
    OBVIOUS
  <2>1. Busy(w, f)'
    BY DEF Busy, Fresh
  <2>2. runs[f] = 0
    BY BusyComesFromClaim DEF Claims, UnclaimedHasNotRun
  <2>3. CASE \E v \in Workers : Run(v) /\ Fresh(v, f)
    <3>1. PICK v \in Workers : Run(v) /\ Fresh(v, f)
      BY <2>3
    <3>2. worker'[v].pc = "conclude" /\ worker'[v].row = f
      BY <3>1 DEF Run, Fresh, FollowupTypeOK, WorkerType, WorkerRecords
    <3>3. v # w /\ Busy(v, f)'
      BY <3>2 DEF Busy, Fresh
    <3> QED
      BY <2>1, <3>3, <1>4
  <2>4. CASE runs'[f] = runs[f]
    BY <2>2, <2>4
  <2> QED
    BY <1>6, <2>3, <2>4
<1> QED
  BY <1>5, <1>8, <1>9, <1>10 DEF UnclaimedHasNotRun

\* "a concurrent worker can never re-run the same follow-up", for any number of
\* workers, follow-ups, crashes and failed statements.
THEOREM AtMostOneRun == Spec => []RunsAtMostOnce
<1>1. Init /\ FollowupTypeOK => RunInv
  BY DEF Init, RunInv, ClaimIsExclusive, UnclaimedHasNotRun, RunsAtMostOnce, Busy, Fresh,
         IdleWorker
<1>2. RunInv /\ FollowupTypeOK' /\ [Next]_vars => RunInv'
  BY RunInvKept DEF RunInv
<1>3. RunInv => RunsAtMostOnce
  BY DEF RunInv
<1> QED
  BY <1>1, <1>2, <1>3, FollowupTypeCorrectness, PTL DEF Spec

\* No step of a worker, of the agent or of a late cycle overwrites a
\* cancellation.
THEOREM CancellationsAreKept == Spec => CancellationIsKept
<1> DEFINE Kept == \A f \in FollowUps : status[f] = "cancelled" => status'[f] = "cancelled"
<1>1. FollowupTypeOK /\ [Next]_vars => Kept
  <2> SUFFICES ASSUME FollowupTypeOK, [Next]_vars, NEW f \in FollowUps, status[f] = "cancelled"
               PROVE  status'[f] = "cancelled"
    OBVIOUS
  <2> USE DEF FollowupTypeOK, StatusType
  <2>1. ASSUME NEW w \in Workers, Cancel(w) \/ Claim(w) PROVE status'[f] = "cancelled"
    BY <2>1 DEF Cancel, Claim, Claimable
  <2>2. ASSUME NEW w \in Workers, Conclude(w) PROVE status'[f] = "cancelled"
    BY <2>2 DEF Conclude, StillExecuting
  <2>3. ASSUME NEW g \in FollowUps, Schedule(g) PROVE status'[f] = "cancelled"
    BY <2>3 DEF Schedule
  <2>4. ASSUME AgentCancels PROVE status'[f] = "cancelled"
    BY <2>4 DEF AgentCancels
  <2> QED
    BY <2>1, <2>2, <2>3, <2>4, StatusWrites
<1> QED
  BY <1>1, FollowupTypeCorrectness, PTL DEF Spec, CancellationIsKept
-----------------------------------------------------------------------------
(* An answered follow-up is not run: who has not yet looked for a reply     *)
(* finds it.                                                                *)

HeardInv == \A f \in outdated :
  replied[f] /\ (faults = 0 => \A w \in Workers : ~PastReply(w, f))

\* Without a failed read nobody gets past a reply that is there.
LEMMA NobodyPassesAReply ==
  ASSUME FollowupTypeOK, [Next]_vars, NEW v \in Workers, NEW f \in FollowUps,
         replied[f], faults' = 0, PastReply(v, f)'
  PROVE  PastReply(v, f)
<1> USE DEF FollowupTypeOK, WorkerType, WorkerRecords, PastReply
<1>1. ASSUME UNCHANGED worker PROVE PastReply(v, f)
  BY <1>1
<1>2. ~Fault
  <2>1. faults \in Nat
    BY LimitsAssumption DEF CountTypes
  <2> QED
    BY <2>1 DEF Fault
<1>3. ASSUME NEW w \in Workers, Poll(w) PROVE PastReply(v, f)
  BY <1>3 DEF Poll
<1>4. ASSUME NEW w \in Workers, NEW g \in FollowUps, Take(w, g) PROVE PastReply(v, f)
  BY <1>4 DEF Take
<1>5. ASSUME NEW w \in Workers, Check(w) PROVE PastReply(v, f)
  <2>1. Goto(w, IF Holds(worker[w].row, worker[w].pc) THEN "cancel" ELSE After(worker[w].pc))
    BY <1>2, <1>5 DEF Check
  <2>2. CASE v # w
    BY <2>1, <2>2 DEF Goto
  <2>3. CASE v = w
    <3>1. worker'[v].row = worker[v].row
      BY <2>1, <2>3 DEF Goto
    <3>2. worker[v].row = f /\ worker[v].pc \in Grounds
      BY <1>5, <2>3, <3>1 DEF Check
    <3>3. CASE worker[v].pc = "reply"
      <4>1. worker'[v].pc = "cancel"
        BY <2>1, <2>3, <3>2, <3>3 DEF Goto, Holds
      <4> QED
        BY <4>1
    <3> QED
      BY <3>2, <3>3 DEF Grounds
  <2> QED
    BY <2>2, <2>3
<1>6. ASSUME NEW w \in Workers, Drop(w) PROVE PastReply(v, f)
  BY <1>6 DEF Drop, IdleWorker
<1>7. ASSUME NEW w \in Workers, Cancel(w) \/ DryRun(w) \/ Conclude(w) PROVE PastReply(v, f)
  BY <1>6, <1>7 DEF Cancel, DryRun, Conclude
<1>8. ASSUME NEW w \in Workers, Claim(w) PROVE PastReply(v, f)
  <2>1. worker[w].pc = "claim" /\ (Drop(w) \/ Goto(w, "load"))
    BY <1>8 DEF Claim
  <2> QED
    BY <1>6, <2>1 DEF Goto
<1>9. ASSUME NEW w \in Workers, Load(w) PROVE PastReply(v, f)
  <2>1. worker[w].pc = "load" /\ \E pc : Goto(w, pc)
    BY <1>9 DEF Load
  <2> QED
    BY <2>1 DEF Goto
<1>10. ASSUME NEW w \in Workers, Run(w) PROVE PastReply(v, f)
  <2>1. worker[w].pc = "run"
    BY <1>10 DEF Run
  <2>2. PICK outcome \in Outcomes :
          worker' = [worker EXCEPT ![w].pc = "conclude", ![w].outcome = outcome]
    BY <1>10 DEF Run
  <2>3. CASE v # w
    <3>1. worker'[v] = worker[v]
      BY <2>2, <2>3
    <3> QED
      BY <3>1
  <2>4. CASE v = w
    <3>1. worker'[v].row = worker[v].row
      BY <2>2, <2>4
    <3>2. worker[v].row = f
      BY <3>1
    <3> QED
      BY <2>1, <2>4, <3>2
  <2> QED
    BY <2>3, <2>4
<1>11. ASSUME NEW w \in Workers, Crash(w) PROVE PastReply(v, f)
  BY <1>2, <1>11 DEF Crash
<1>12. ASSUME NEW g \in FollowUps, Schedule(g) \/ FallsDue(g) \/ Expires(g) \/ AgentSelects(g)
       PROVE  UNCHANGED worker
  BY <1>12 DEF Schedule, FallsDue, Expires, AgentSelects
<1>13. ASSUME Reply \/ ChangeHands \/ AgentCancels \/ UNCHANGED vars
       PROVE  UNCHANGED worker
  BY <1>13 DEF Reply, ChangeHands, AgentCancels, vars
<1>14. CASE \E w \in Workers : WorkerStep(w) \/ Crash(w)
  BY <1>3, <1>4, <1>5, <1>7, <1>8, <1>9, <1>10, <1>11, <1>14 DEF WorkerStep
<1> QED
  BY <1>1, <1>12, <1>13, <1>14 DEF Next

\* A reply is not taken back, a fault not forgotten, and only Reply adds to outdated.
LEMMA RepliesStay ==
  ASSUME FollowupTypeOK, [Next]_vars
  PROVE  /\ \A f \in FollowUps : replied[f] => replied'[f]
         /\ faults' = 0 => faults = 0
         /\ outdated' = outdated \/ Reply
<1> USE LimitsAssumption DEF FollowupTypeOK, WorldTypes, CountTypes
<1>1. ASSUME NEW w \in Workers, WorkerStep(w) \/ Crash(w)
      PROVE  UNCHANGED <<replied, outdated>> /\ (faults' = 0 => faults = 0)
  <2>1. UNCHANGED <<replied, outdated>>
    BY <1>1 DEF WorkerStep, Crash, world, Poll, Take, Check, Cancel, DryRun, Claim, Load, Run, Conclude
  <2>2. UNCHANGED faults \/ Fault
    <3>1. ASSUME \/ Poll(w) \/ (\E f \in FollowUps : Take(w, f)) \/ DryRun(w) \/ Load(w) \/ Run(w)
          PROVE  UNCHANGED faults
      BY <3>1 DEF Poll, Take, DryRun, Load, Run
    <3>2. ASSUME Check(w) \/ Cancel(w) \/ Claim(w) \/ Conclude(w) \/ Crash(w)
          PROVE  UNCHANGED faults \/ Fault
      BY <3>2 DEF Check, Cancel, Claim, Conclude, Crash
    <3> QED
      BY <1>1, <3>1, <3>2 DEF WorkerStep
  <2>3. faults' = 0 => faults = 0
    BY <2>2 DEF Fault
  <2> QED
    BY <2>1, <2>3
<1>2. ASSUME NEW f \in FollowUps, Schedule(f) \/ FallsDue(f) \/ Expires(f) \/ AgentSelects(f)
      PROVE  UNCHANGED <<replied, outdated, faults>>
  BY <1>2 DEF Schedule, FallsDue, Expires, AgentSelects, world
<1>3. ASSUME ChangeHands \/ AgentCancels \/ UNCHANGED vars
      PROVE  UNCHANGED <<replied, outdated, faults>>
  BY <1>3 DEF ChangeHands, AgentCancels, vars, world
<1>4. ASSUME Reply
      PROVE  UNCHANGED faults /\ \A f \in FollowUps : replied[f] => replied'[f]
  BY <1>4 DEF Reply
<1> QED
  BY <1>1, <1>2, <1>3, <1>4 DEF Next

LEMMA HeardInvKept ==
  ASSUME FollowupTypeOK, HeardInv, [Next]_vars
  PROVE  HeardInv'
<1> SUFFICES ASSUME NEW f \in outdated'
             PROVE  replied'[f] /\ (faults' = 0 => \A w \in Workers : ~PastReply(w, f)')
  BY DEF HeardInv
<1>1. CASE f \in outdated
  <2>1. f \in FollowUps /\ replied[f]
    BY <1>1 DEF HeardInv, FollowupTypeOK, CountTypes
  <2> QED
    BY <1>1, <2>1, RepliesStay, NobodyPassesAReply DEF HeardInv
<1>2. CASE Reply /\ f \notin outdated
  <2>1. /\ f \in FollowUps /\ replied'[f] /\ UNCHANGED worker
        /\ \A w \in Workers : ~PastReply(w, f)
    BY <1>2 DEF Reply
  <2> QED
    BY <2>1 DEF PastReply
<1> QED
  BY <1>1, <1>2, RepliesStay

\* A follow-up the customer answered before anybody had looked is not run, for any
\* number of workers, as long as no read fails.
THEOREM AnsweredFollowUpsAreLeft == Spec => AnsweredIsNotRun
<1> DEFINE Left == \A f \in outdated : faults = 0 => runs'[f] = runs[f]
<1>1. Init => HeardInv
  BY DEF Init, HeardInv
<1>2. FollowupTypeOK /\ HeardInv /\ [Next]_vars => HeardInv'
  BY HeardInvKept
<1>3. FollowupTypeOK /\ HeardInv /\ [Next]_vars => Left
  <2> SUFFICES ASSUME FollowupTypeOK, HeardInv, [Next]_vars, NEW f \in outdated, faults = 0
               PROVE  runs'[f] = runs[f]
    OBVIOUS
  <2>1. ASSUME NEW w \in Workers, Run(w) PROVE runs'[f] = runs[f]
    <3>1. worker[w].row # f
      BY <2>1 DEF HeardInv, PastReply, Run
    <3> QED
      BY <2>1, <3>1 DEF Run, FollowupTypeOK, CountTypes
  <2>2. ASSUME NEW w \in Workers, WorkerStep(w) \/ Crash(w), ~Run(w) PROVE UNCHANGED runs
    BY <2>2 DEF WorkerStep, Crash, Poll, Take, Check, Cancel, DryRun, Claim, Load, Conclude
  <2>3. ASSUME NEW g \in FollowUps, Schedule(g) \/ FallsDue(g) \/ Expires(g) \/ AgentSelects(g)
        PROVE  UNCHANGED runs
    BY <2>3 DEF Schedule, FallsDue, Expires, AgentSelects
  <2>4. ASSUME Reply \/ ChangeHands \/ AgentCancels \/ UNCHANGED vars PROVE UNCHANGED runs
    BY <2>4 DEF Reply, ChangeHands, AgentCancels, vars
  <2> QED
    BY <2>1, <2>2, <2>3, <2>4 DEF Next
<1> QED
  BY <1>1, <1>2, <1>3, FollowupTypeCorrectness, PTL DEF Spec, AnsweredIsNotRun
-----------------------------------------------------------------------------
(* The follow-up worker implements FollowupContract.  What a worker has read *)
(* of its follow-up stays true until it is done with it.                     *)

\* What worker w relies on: its candidates were due, the one it claims names somebody to
\* write to, the one it concludes was run.
Knows(w) ==
  /\ \A f \in worker[w].batch : due[f]
  /\ worker[w].pc # "idle" => worker[w].row \in FollowUps /\ due[worker[w].row]
  /\ worker[w].pc \notin {"idle", "cancel"} => worker[w].row \notin NoWaId
  /\ worker[w].pc = "conclude" => runs[worker[w].row] = 1
WorkersKnow == \A w \in Workers : Knows(w)
DueAreThere == \A f \in FollowUps : due[f] => status[f] # "none"
ChosenIsThere == chosen # NoRow => status[chosen] # "none"

ContractInv == RunInv /\ WorkersKnow /\ DueAreThere /\ ChosenIsThere

\* A follow-up is never deleted, and its time does not go back.
LEMMA FollowUpsStay ==
  ASSUME FollowupTypeOK, [Next]_vars, NEW f \in FollowUps
  PROVE  /\ status[f] # "none" => status'[f] # "none"
         /\ due[f] => due'[f]
         /\ ~due[f] /\ due'[f] => status[f] # "none"
<1>1. status[f] # "none" => status'[f] # "none"
  <2> USE DEF FollowupTypeOK, StatusType
  <2>1. ASSUME NEW w \in Workers, Cancel(w) \/ Claim(w), status[f] # "none"
        PROVE  status'[f] # "none"
    BY <2>1 DEF Cancel, Claim
  <2>2. ASSUME NEW w \in Workers, Conclude(w), status[f] # "none" PROVE status'[f] # "none"
    BY <2>2, WorkerFields DEF Conclude, Outcomes
  <2>3. ASSUME NEW g \in FollowUps, Schedule(g), status[f] # "none" PROVE status'[f] # "none"
    BY <2>3 DEF Schedule
  <2>4. ASSUME AgentCancels, status[f] # "none" PROVE status'[f] # "none"
    BY <2>4 DEF AgentCancels
  <2> QED
    BY <2>1, <2>2, <2>3, <2>4, StatusWrites
<1>2. due' = due \/ \E g \in FollowUps : FallsDue(g)
  BY DEF Next, WorkerStep, Crash, world, Poll, Take, Check, Cancel, DryRun, Claim, Load, Run,
     Conclude, Schedule, Expires, AgentSelects, Reply, ChangeHands, AgentCancels, vars
<1>3. ASSUME NEW g \in FollowUps, FallsDue(g)
      PROVE  /\ due[f] => due'[f]
             /\ ~due[f] /\ due'[f] => status[f] # "none"
  BY <1>3 DEF FallsDue, FollowupTypeOK, WorldTypes
<1> QED
  BY <1>1, <1>2, <1>3

\* A cycle that was run stays run.
LEMMA RunsStay ==
  ASSUME RunInv, RunsAtMostOnce', [Next]_vars, NEW f \in FollowUps, runs[f] = 1
  PROVE  runs'[f] = 1
<1>1. ASSUME NEW w \in Workers, Run(w) PROVE runs'[f] = 1
  <2>1. runs'[f] \in {1, 2}
    BY <1>1 DEF Run, RunInv, FollowupTypeOK, CountTypes
  <2> QED
    BY <2>1 DEF RunsAtMostOnce
<1>2. ASSUME NEW w \in Workers, WorkerStep(w) \/ Crash(w), ~Run(w) PROVE UNCHANGED runs
  BY <1>2 DEF WorkerStep, Crash, Poll, Take, Check, Cancel, DryRun, Claim, Load, Conclude
<1>3. ASSUME NEW g \in FollowUps, Schedule(g) \/ FallsDue(g) \/ Expires(g) \/ AgentSelects(g)
      PROVE  UNCHANGED runs
  BY <1>3 DEF Schedule, FallsDue, Expires, AgentSelects
<1>4. ASSUME Reply \/ ChangeHands \/ AgentCancels \/ UNCHANGED vars PROVE UNCHANGED runs
  BY <1>4 DEF Reply, ChangeHands, AgentCancels, vars
<1> QED
  BY <1>1, <1>2, <1>3, <1>4 DEF Next

\* What a step of a worker does to its own record, and to nobody else's.
LEMMA WorkerMoves ==
  ASSUME FollowupTypeOK, NEW w \in Workers, WorkerStep(w) \/ Crash(w)
  PROVE  \A v \in Workers : v # w => worker'[v] = worker[v]
<1> USE DEF FollowupTypeOK, WorkerType
<1>1. CASE Poll(w) \/ (\E f \in FollowUps : Take(w, f)) \/ Check(w) \/ Load(w) \/ Run(w) \/ Crash(w)
  BY <1>1 DEF Poll, Take, Check, Load, Run, Crash, Goto
<1>2. CASE Cancel(w) \/ DryRun(w) \/ Claim(w) \/ Conclude(w)
  BY <1>2 DEF Cancel, DryRun, Claim, Conclude, Goto, Drop
<1> QED
  BY <1>1, <1>2 DEF WorkerStep

\* The row and the batch stay when a worker goes on, and the row is gone when it is done.
LEMMA GotoKeeps ==
  ASSUME WorkerType, NEW w \in Workers, NEW pc, Goto(w, pc)
  PROVE  /\ worker'[w].pc = pc /\ worker'[w].row = worker[w].row
         /\ worker'[w].batch = worker[w].batch
BY DEF Goto, WorkerType, WorkerRecords

LEMMA DropEmpties ==
  ASSUME WorkerType, NEW w \in Workers, Drop(w)
  PROVE  worker'[w].pc = "idle" /\ worker'[w].batch = worker[w].batch
BY DEF Drop, IdleWorker, WorkerType

LEMMA StepKeepsKnowledge ==
  ASSUME ContractInv, RunsAtMostOnce', [Next]_vars, NEW w \in Workers, WorkerStep(w) \/ Crash(w)
  PROVE  Knows(w)'
<1> USE DEF ContractInv, RunInv, FollowupTypeOK
<1>1. Knows(w) /\ \A f \in FollowUps : due[f] => due'[f]
  BY FollowUpsStay DEF WorkersKnow
<1>2. worker[w].batch \subseteq FollowUps
  BY WorkerFields
<1>3. ASSUME Drop(w) PROVE Knows(w)'
  BY <1>1, <1>2, <1>3, DropEmpties DEF Knows
<1>4. ASSUME NEW pc, Goto(w, pc), worker[w].pc # "idle", pc # "conclude",
             worker[w].pc = "cancel" => pc = "cancel"
      PROVE  Knows(w)'
  BY <1>1, <1>2, <1>4, GotoKeeps DEF Knows
<1>5. CASE Poll(w)
  <2>1. /\ worker'[w].pc = "idle"
        /\ \A f \in worker'[w].batch : f \in FollowUps /\ due[f]
    BY <1>5 DEF Poll, FirstOf, Candidates, WorkerType
  <2> QED
    BY <1>1, <2>1 DEF Knows
<1>6. ASSUME NEW f \in FollowUps, Take(w, f) PROVE Knows(w)'
  <2>1. /\ worker'[w].row = f /\ worker'[w].batch = worker[w].batch \ {f}
        /\ worker'[w].pc = IF f \in NoWaId THEN "cancel" ELSE "reply"
        /\ f \in worker[w].batch
    BY <1>6 DEF Take, WorkerType, WorkerRecords
  <2> QED
    BY <1>1, <1>2, <2>1 DEF Knows
<1>7. CASE Check(w)
  BY <1>4, <1>7 DEF Check, Grounds, After
<1>8. CASE Cancel(w) \/ DryRun(w) \/ Conclude(w)
  BY <1>3, <1>8 DEF Cancel, DryRun, Conclude
<1>9. CASE Claim(w)
  BY <1>3, <1>4, <1>9 DEF Claim
<1>10. CASE Load(w)
  BY <1>4, <1>10 DEF Load
<1>11. CASE Run(w)
  <2>1. /\ worker'[w].row = worker[w].row /\ worker'[w].batch = worker[w].batch
        /\ worker'[w].pc = "conclude" /\ worker[w].pc = "run"
    BY <1>11 DEF Run, WorkerType, WorkerRecords
  <2>2. worker[w].row \in FollowUps /\ Fresh(w, worker[w].row)
    BY <1>1, <2>1 DEF Knows, Fresh
  <2>3. runs'[worker[w].row] = 1
    BY <1>11, <2>2 DEF Run, UnclaimedHasNotRun, CountTypes
  <2> QED
    BY <1>1, <1>2, <2>1, <2>3 DEF Knows
<1>12. CASE Crash(w)
  <2>1. worker'[w].pc = "idle" /\ worker'[w].batch = {}
    BY <1>12 DEF Crash, IdleWorker, WorkerType
  <2> QED
    BY <2>1 DEF Knows
<1> QED
  BY <1>5, <1>6, <1>7, <1>8, <1>9, <1>10, <1>11, <1>12 DEF WorkerStep

LEMMA KnowledgeStays ==
  ASSUME ContractInv, RunsAtMostOnce', [Next]_vars, NEW v \in Workers, worker'[v] = worker[v]
  PROVE  Knows(v)'
<1> USE DEF ContractInv, RunInv, FollowupTypeOK
<1>1. Knows(v) /\ worker[v].batch \subseteq FollowUps
  BY WorkerFields DEF WorkersKnow
<1>2. \A f \in FollowUps : (due[f] => due'[f]) /\ (runs[f] = 1 => runs'[f] = 1)
  BY FollowUpsStay, RunsStay
<1> QED
  BY <1>1, <1>2 DEF Knows

LEMMA ContractInvKept ==
  ASSUME ContractInv, FollowupTypeOK', [Next]_vars
  PROVE  ContractInv'
<1> USE DEF ContractInv
<1>1. RunInv'
  BY RunInvKept DEF RunInv
<1>2. RunsAtMostOnce' /\ FollowupTypeOK
  BY <1>1 DEF RunInv
<1>3. WorkersKnow'
  <2> SUFFICES ASSUME NEW v \in Workers PROVE Knows(v)'
    BY DEF WorkersKnow
  <2>1. ASSUME NEW w \in Workers, WorkerStep(w) \/ Crash(w) PROVE Knows(v)'
    <3>1. v = w \/ worker'[v] = worker[v]
      BY <1>2, <2>1, WorkerMoves
    <3> QED
      BY <1>2, <2>1, <3>1, StepKeepsKnowledge, KnowledgeStays
  <2>2. ASSUME NEW f \in FollowUps, Schedule(f) \/ FallsDue(f) \/ Expires(f) \/ AgentSelects(f)
        PROVE  UNCHANGED worker
    BY <2>2 DEF Schedule, FallsDue, Expires, AgentSelects
  <2>3. ASSUME Reply \/ ChangeHands \/ AgentCancels \/ UNCHANGED vars PROVE UNCHANGED worker
    BY <2>3 DEF Reply, ChangeHands, AgentCancels, vars
  <2> QED
    BY <1>2, <2>1, <2>2, <2>3, KnowledgeStays DEF Next
<1>4. DueAreThere'
  BY <1>2, FollowUpsStay DEF DueAreThere, FollowupTypeOK, WorldTypes
<1>5. ChosenIsThere'
  <2>1. \/ chosen' = chosen \/ chosen' = NoRow
        \/ \E f \in FollowUps : AgentSelects(f)
    BY DEF Next, WorkerStep, Crash, Poll, Take, Check, Cancel, DryRun, Claim, Load, Run,
       Conclude, Schedule, FallsDue, Expires, Reply, ChangeHands, AgentCancels, vars
  <2>2. ASSUME NEW f \in FollowUps, AgentSelects(f) PROVE chosen' = f /\ status'[f] # "none"
    BY <2>2 DEF AgentSelects
  <2>3. ASSUME chosen' = chosen, chosen # NoRow PROVE status'[chosen] # "none"
    BY <1>2, <2>3, FollowUpsStay DEF ChosenIsThere, FollowupTypeOK, ChosenType
  <2> QED
    BY <2>1, <2>2, <2>3 DEF ChosenIsThere
<1> QED
  BY <1>1, <1>3, <1>4, <1>5

\* What a step makes of the follow-ups in hand: only the worker that steps changes them.
LEMMA HeldAfter ==
  ASSUME RunInv, NEW w \in Workers, WorkerStep(w) \/ Crash(w), NEW f \in FollowUps
  PROVE  f \in Held' <=> Fresh(w, f)' \/ (f \in Held /\ ~Fresh(w, f))
<1>1. \A v \in Workers : v # w => (Fresh(v, f)' <=> Fresh(v, f))
  BY WorkerMoves DEF RunInv, Fresh
<1>2. \A v \in Workers : Fresh(v, f) /\ Fresh(w, f) => v = w
  BY DEF RunInv, ClaimIsExclusive, Busy, Fresh
<1>3. /\ f \in Held <=> \E v \in Workers : Fresh(v, f)
      /\ f \in Held' <=> \E v \in Workers : Fresh(v, f)'
  BY DEF Held, Fresh
<1> QED
  BY <1>1, <1>2, <1>3

\* A worker that neither had nor has a follow-up to run leaves those in hand as they are.
LEMMA HeldKept ==
  ASSUME RunInv, NEW w \in Workers, WorkerStep(w) \/ Crash(w),
         \A f \in FollowUps : Fresh(w, f)' <=> Fresh(w, f)
  PROVE  Held' = Held
<1>1. \A f \in FollowUps : f \in Held' <=> f \in Held
  BY HeldAfter DEF Held, Fresh
<1> QED
  BY <1>1 DEF Held

\* A worker that puts down what it had in hand takes it out of everybody's.
LEMMA HeldDropped ==
  ASSUME RunInv, NEW w \in Workers, WorkerStep(w) \/ Crash(w),
         worker'[w].pc \notin {"load", "run"}
  PROVE  \/ Held' = Held /\ \A f \in FollowUps : ~Fresh(w, f)
         \/ \E f \in FollowUps : Fresh(w, f) /\ f \in Held /\ Held' = Held \ {f}
<1>1. \A f \in FollowUps : ~Fresh(w, f)'
  BY DEF Fresh
<1>2. CASE \A f \in FollowUps : ~Fresh(w, f)
  BY <1>1, <1>2, HeldKept
<1>3. ASSUME NEW f \in FollowUps, Fresh(w, f)
      PROVE  f \in Held /\ Held' = Held \ {f}
  <2>1. \A g \in FollowUps : g \in Held' <=> g \in Held /\ g # f
    BY <1>1, <1>3, HeldAfter DEF Fresh
  <2> QED
    BY <1>3, <2>1 DEF Held, Fresh
<1> QED
  BY <1>2, <1>3

\* The steps of the worker, each as a step of the contract or as none.
LEMMA WorkerRefines ==
  ASSUME ContractInv, NEW w \in Workers, WorkerStep(w) \/ Crash(w)
  PROVE  [Contract!Next]_Contract!contract
<1> USE DEF ContractInv, RunInv, FollowupTypeOK, Contract!contract
<1>1. Knows(w) /\ worker[w].row \in FollowUps \cup {NoRow}
  BY WorkerFields DEF WorkersKnow
<1>2. \A f \in FollowUps : Fresh(w, f) <=> worker[w].row = f /\ worker[w].pc \in {"load", "run"}
  BY DEF Fresh
<1>3. ASSUME worker[w].pc \notin {"load", "run"}, worker'[w].pc \notin {"load", "run"}
      PROVE  Held' = Held
  BY <1>2, <1>3, HeldDropped
<1>4. CASE Poll(w) \/ \E f \in FollowUps : Take(w, f)
  <2>1. worker[w].pc = "idle" /\ UNCHANGED <<status, due, runs>>
    BY <1>4 DEF Poll, Take, world
  <2>2. worker'[w].pc \in {"idle", "cancel", "reply"}
    <3>1. ASSUME Poll(w) PROVE worker'[w].pc = "idle"
      BY <3>1, <2>1 DEF Poll, WorkerType, WorkerRecords
    <3>2. ASSUME NEW f \in FollowUps, Take(w, f) PROVE worker'[w].pc \in {"cancel", "reply"}
      BY <3>2 DEF Take, WorkerType, WorkerRecords
    <3> QED
      BY <1>4, <3>1, <3>2
  <2> QED
    BY <1>3, <2>1, <2>2
<1>5. CASE Check(w)
  <2>1. worker[w].pc \in Grounds /\ UNCHANGED <<status, due, runs>>
    BY <1>5 DEF Check, world
  <2>2. worker'[w].pc \in {"cancel", "owner", "deal", "claim"}
    <3>1. \E pc \in {"cancel", "owner", "deal", "claim"} : Goto(w, pc)
      BY <1>5, <2>1 DEF Check, After, Grounds
    <3> QED
      BY <3>1, GotoKeeps
  <2> QED
    BY <1>3, <2>1, <2>2 DEF Grounds
<1>6. CASE Cancel(w)
  <2>1. worker[w].pc = "cancel" /\ worker'[w].pc = "idle" /\ UNCHANGED <<due, runs>>
    BY <1>6, DropEmpties DEF Cancel, world
  <2>2. Held' = Held
    BY <1>3, <2>1
  <2>3. worker[w].row \in FollowUps /\ status[worker[w].row] # "none"
    BY <1>1, <2>1 DEF Knows, DueAreThere
  <2>4. UNCHANGED status \/ Contract!Cancel(worker[w].row)
    BY <1>6, <2>1, <2>2, <2>3 DEF Cancel, Contract!Cancel, Contract!Becomes
  <2> QED
    BY <2>1, <2>2, <2>3, <2>4 DEF Contract!Next
<1>7. CASE DryRun(w)
  BY <1>3, <1>7, DropEmpties DEF DryRun, world
<1>8. CASE Claim(w)
  <2>1. worker[w].pc = "claim" /\ UNCHANGED <<due, runs>>
    BY <1>8 DEF Claim, world
  <2>2. CASE UNCHANGED status /\ Drop(w)
    BY <1>3, <2>1, <2>2, DropEmpties
  <2>3. CASE ~(UNCHANGED status /\ Drop(w))
    <3> DEFINE f == worker[w].row
    <3>1. /\ status[f] = "planned" /\ status' = [status EXCEPT ![f] = "executing"]
          /\ Goto(w, "load")
      BY <1>8, <2>3 DEF Claim, Claimable
    <3>2. f \in FollowUps /\ due[f] /\ f \notin NoWaId
      BY <1>1, <2>1 DEF Knows
    <3>3. Held' = Held \cup {f}
      <4>1. worker'[w].pc = "load" /\ worker'[w].row = f
        BY <3>1, GotoKeeps
      <4>2. \A g \in FollowUps : g \in Held' <=> g = f \/ g \in Held
        BY <1>2, <2>1, <4>1, HeldAfter DEF Fresh
      <4> QED
        BY <3>2, <4>2 DEF Held
    <3>4. Contract!Claim(f)
      BY <2>1, <3>1, <3>2, <3>3 DEF Contract!Claim, Contract!Becomes
    <3> QED
      BY <3>2, <3>4 DEF Contract!Next
  <2> QED
    BY <2>2, <2>3
<1>9. CASE Load(w)
  <2>1. worker[w].pc = "load" /\ UNCHANGED <<status, due, runs>>
    BY <1>9 DEF Load, world
  <2>2. CASE Goto(w, "run")
    <3>1. \A f \in FollowUps : Fresh(w, f)' <=> Fresh(w, f)
      BY <2>1, <2>2, GotoKeeps DEF Fresh
    <3> QED
      BY <2>1, <3>1, HeldKept
  <2>3. CASE Goto(w, "cancel")
    BY <2>1, <2>3, HeldDropped, GotoKeeps DEF Contract!Next, Contract!Abandon
  <2> QED
    BY <1>9, <2>2, <2>3 DEF Load
<1>10. CASE Run(w)
  <2> DEFINE f == worker[w].row
  <2>1. /\ worker[w].pc = "run" /\ worker'[w].pc = "conclude" /\ UNCHANGED <<status, due>>
        /\ runs' = [runs EXCEPT ![f] = @ + 1]
    BY <1>10 DEF Run, world, WorkerType
  <2>2. f \in FollowUps /\ Fresh(w, f) /\ runs[f] = 0
    BY <1>1, <1>2, <2>1 DEF Knows, UnclaimedHasNotRun
  <2>3. f \in Held /\ Held' = Held \ {f}
    BY <2>1, <2>2, HeldDropped DEF Fresh
  <2>4. runs' = [runs EXCEPT ![f] = 1]
    BY <2>1, <2>2 DEF CountTypes
  <2>5. Contract!Run(f)
    BY <2>1, <2>2, <2>3, <2>4 DEF Contract!Run
  <2> QED
    BY <2>2, <2>5 DEF Contract!Next
<1>11. CASE Conclude(w)
  <2> DEFINE f == worker[w].row
  <2>1. worker[w].pc = "conclude" /\ worker'[w].pc = "idle" /\ UNCHANGED <<due, runs>>
    BY <1>11, DropEmpties DEF Conclude, world
  <2>2. Held' = Held
    BY <1>3, <2>1
  <2>3. f \in FollowUps /\ runs[f] = 1
    BY <1>1, <2>1 DEF Knows
  <2>4. /\ worker[w].outcome \in {"executed", "failed"}
        /\ \/ UNCHANGED status
           \/ status[f] = "executing" /\ status' = [status EXCEPT ![f] = worker[w].outcome]
    BY <1>11, WorkerFields DEF Conclude, StillExecuting, Outcomes
  <2>5. UNCHANGED status \/ Contract!Finish(f)
    BY <2>1, <2>2, <2>3, <2>4 DEF Contract!Finish, Contract!Becomes
  <2> QED
    BY <2>1, <2>2, <2>3, <2>5 DEF Contract!Next
<1>12. CASE Crash(w)
  <2>1. worker'[w].pc = "idle" /\ UNCHANGED <<status, due, runs>>
    BY <1>12 DEF Crash, IdleWorker, WorkerType, world
  <2> QED
    BY <2>1, HeldDropped DEF Contract!Next, Contract!Abandon
<1> QED
  BY <1>4, <1>5, <1>6, <1>7, <1>8, <1>9, <1>10, <1>11, <1>12 DEF WorkerStep

\* The steps of everybody else.
LEMMA OthersRefine ==
  ASSUME ContractInv,
         \/ \E f \in FollowUps : Schedule(f) \/ FallsDue(f) \/ Expires(f) \/ AgentSelects(f)
         \/ Reply \/ ChangeHands \/ AgentCancels \/ UNCHANGED vars
  PROVE  [Contract!Next]_Contract!contract
<1> USE DEF ContractInv, RunInv, FollowupTypeOK, Contract!contract, Held
<1>1. ASSUME NEW f \in FollowUps, Schedule(f) PROVE Contract!Schedule(f)
  BY <1>1 DEF Schedule, Contract!Schedule, Contract!Becomes, world
<1>2. ASSUME NEW f \in FollowUps, FallsDue(f) PROVE Contract!FallsDue(f)
  BY <1>2 DEF FallsDue, Contract!FallsDue
<1>3. ASSUME NEW f \in FollowUps, Expires(f) \/ AgentSelects(f) PROVE UNCHANGED Contract!contract
  BY <1>3 DEF Expires, AgentSelects, world
<1>4. ASSUME AgentCancels PROVE chosen \in FollowUps /\ Contract!Cancel(chosen)
  BY <1>4 DEF AgentCancels, ChosenIsThere, ChosenType, Contract!Cancel, Contract!Becomes, world
<1>5. ASSUME Reply \/ ChangeHands \/ UNCHANGED vars PROVE UNCHANGED Contract!contract
  BY <1>5 DEF Reply, ChangeHands, vars, world
<1> QED
  BY <1>1, <1>2, <1>3, <1>4, <1>5 DEF Contract!Next

\* The follow-up worker, the sales agent and crashes implement FollowupContract, for any
\* number of workers and follow-ups.
THEOREM FollowupsKeepTheirContract == Spec => KeepsFollowupContract
<1>1. Init => Contract!Init
  <2> SUFFICES ASSUME Init PROVE Contract!Init
    OBVIOUS
  <2>1. \A w \in Workers : worker[w].pc = "idle"
    BY DEF Init, IdleWorker
  <2>2. Held = {}
    BY <2>1 DEF Held
  <2> QED
    BY <2>2 DEF Init, Contract!Init
<1>2. Init /\ FollowupTypeOK => ContractInv
  <2> SUFFICES ASSUME Init, FollowupTypeOK PROVE ContractInv
    OBVIOUS
  <2>1. RunInv
    BY DEF Init, RunInv, ClaimIsExclusive, UnclaimedHasNotRun, RunsAtMostOnce, Busy, Fresh,
           IdleWorker
  <2>2. WorkersKnow /\ DueAreThere /\ ChosenIsThere
    BY DEF Init, WorkersKnow, Knows, IdleWorker, DueAreThere, ChosenIsThere
  <2> QED
    BY <2>1, <2>2 DEF ContractInv
<1>3. ContractInv /\ FollowupTypeOK' /\ [Next]_vars => ContractInv'
  BY ContractInvKept
<1>4. ContractInv /\ [Next]_vars => [Contract!Next]_Contract!contract
  BY WorkerRefines, OthersRefine DEF Next
<1> QED
  BY <1>1, <1>2, <1>3, <1>4, FollowupTypeCorrectness, PTL
     DEF Spec, KeepsFollowupContract, Contract!Spec
=============================================================================
