--------------------------- MODULE FollowupWorker ---------------------------
(***************************************************************************)
(* runFollowupTick: workers that poll crm_agent_actions for due follow-ups *)
(* and run one agent cycle for each.  A candidate is read in a batch, then *)
(* checked, claimed, run and concluded by separate statements, while the   *)
(* customer replies, operators and the deal change, other workers poll the *)
(* same table and the sales agent cancels follow-ups on its own.           *)
(***************************************************************************)
EXTENDS Naturals, FiniteSets

CONSTANTS
  FollowUps,    \* schedule_followup actions, in the order of scheduled_for
  NoWaId,       \* those without wa_id
  Workers,      \* follow-up workers (one runFollowupTick loop each)
  DryWorkers,   \* those started with --dry-run at first
  BatchSize,    \* LIMIT of the poll
  MaxFaults     \* bound: crashes and failed database calls

ASSUME FollowUpsAssumption == /\ FollowUps \subseteq Nat \ {0}
                              /\ NoWaId \subseteq FollowUps
                              /\ DryWorkers \subseteq Workers
ASSUME LimitsAssumption == BatchSize \in Nat \ {0} /\ MaxFaults \in Nat

VARIABLES
  status,    \* status[f] of the action, "none" before it is inserted
  due,       \* due[f]: scheduled_for has passed
  expired,   \* expired[f]: expires_at has passed
  replied,   \* replied[f]: the customer wrote after f was created
  barred,    \* the conversation is closed, paused or an operator's
  over,      \* the opportunity is won, lost, cancelled or archived
  worker,    \* worker[w]: where worker w stands
  chosen,    \* the follow-up the sales agent has selected to cancel, or NoRow
  runs,      \* runs[f]: cycles started for f
  outdated,  \* follow-ups replied to before any worker had passed that check
  faults     \* faults so far

vars == <<status, due, expired, replied, barred, over, worker, chosen, runs,
          outdated, faults>>
world == <<due, expired, replied, barred, over>>

NoRow == 0
Statuses == {"none", "planned", "executing", "executed", "failed", "cancelled"}
Concluded == {"executed", "failed", "cancelled"}
Grounds == {"reply", "owner", "deal"}
Pcs == {"idle", "cancel", "claim", "load", "run", "conclude"} \cup Grounds
\* What a cycle ends in; a third outcome, unknown to the status column, is a
\* mutation.
OutcomesWithTimeout == {"executed", "failed", "timeout"}
Outcomes == {"executed", "failed"}
IdleWorker(dry) ==
  [pc |-> "idle", batch |-> {}, row |-> NoRow, outcome |-> "failed", dry |-> dry]
WorkerRecords == [pc : Pcs, batch : SUBSET FollowUps, row : FollowUps \cup {NoRow},
                  outcome : Outcomes, dry : BOOLEAN]

StatusType == status \in [FollowUps -> Statuses]
WorldTypes == /\ due \in [FollowUps -> BOOLEAN]
              /\ expired \in [FollowUps -> BOOLEAN]
              /\ replied \in [FollowUps -> BOOLEAN]
              /\ barred \in BOOLEAN /\ over \in BOOLEAN
WorkerType == worker \in [Workers -> WorkerRecords]
ChosenType == chosen \in FollowUps \cup {NoRow}
CountTypes == /\ runs \in [FollowUps -> Nat]
              /\ outdated \in SUBSET FollowUps
              /\ faults \in 0..MaxFaults

FollowupTypeOK == StatusType /\ WorldTypes /\ WorkerType /\ ChosenType /\ CountTypes

Init ==
  /\ status = [f \in FollowUps |-> "none"]
  /\ due = [f \in FollowUps |-> FALSE]
  /\ expired = [f \in FollowUps |-> FALSE]
  /\ replied = [f \in FollowUps |-> FALSE]
  /\ barred = FALSE /\ over = FALSE
  /\ worker = [w \in Workers |-> IdleWorker(w \in DryWorkers)]
  /\ chosen = NoRow
  /\ runs = [f \in FollowUps |-> 0]
  /\ outdated = {}
  /\ faults = 0

Fault == faults < MaxFaults /\ faults' = faults + 1

-----------------------------------------------------------------------------
(* The worker. *)

Goto(w, pc) == worker' = [worker EXCEPT ![w].pc = pc]

\* continue: on to the next candidate of the batch.  (A mutation: RecheckInPlace
\* takes the same one again.)
RecheckInPlace(w) == Goto(w, "reply")
Drop(w) ==
  worker' = [worker EXCEPT ![w] = [IdleWorker(worker[w].dry) EXCEPT !.batch = worker[w].batch]]

Candidates == {f \in FollowUps : status[f] = "planned" /\ due[f] /\ ~expired[f]}
FirstOf(S, n) == {f \in S : Cardinality({g \in S : g < f}) < n}

Poll(w) ==
  /\ worker[w].pc = "idle" /\ worker[w].batch = {}
  /\ Candidates # {}
  /\ worker' = [worker EXCEPT ![w].batch = FirstOf(Candidates, BatchSize)]
  /\ UNCHANGED <<status, world, chosen, runs, outdated, faults>>

Take(w, f) ==
  /\ worker[w].pc = "idle"
  /\ f \in worker[w].batch /\ \A g \in worker[w].batch : f <= g
  /\ worker' = [worker EXCEPT ![w].batch = @ \ {f}, ![w].row = f,
                              ![w].pc = IF f \in NoWaId THEN "cancel" ELSE "reply"]
  /\ UNCHANGED <<status, world, chosen, runs, outdated, faults>>

\* shouldCancelFollowUp: three reads, in this order.  A read that fails finds
\* no ground to cancel.  (A mutation: IgnoreReplies skips the first.)
After(ground) == CASE ground = "reply" -> "owner"
                   [] ground = "owner" -> "deal"
                   [] ground = "deal"  -> "claim"
IgnoreReplies(f, ground) == CASE ground = "reply" -> FALSE
                              [] ground = "owner" -> barred
                              [] ground = "deal"  -> over
Holds(f, ground) == CASE ground = "reply" -> replied[f]
                      [] ground = "owner" -> barred
                      [] ground = "deal"  -> over

Check(w) ==
  LET ground == worker[w].pc IN
  /\ ground \in Grounds
  /\ \/ /\ Goto(w, IF Holds(worker[w].row, ground) THEN "cancel" ELSE After(ground))
        /\ UNCHANGED faults
     \/ Fault /\ Goto(w, After(ground))
  /\ UNCHANGED <<status, world, chosen, runs, outdated>>

\* cancelFollowUp: the UPDATE names the action only, whatever its status is.
Cancel(w) ==
  /\ worker[w].pc = "cancel"
  /\ \/ status' = [status EXCEPT ![worker[w].row] = "cancelled"] /\ UNCHANGED faults
     \/ Fault /\ UNCHANGED status
  /\ Drop(w)
  /\ UNCHANGED <<world, chosen, runs, outdated>>

DryRun(w) ==
  /\ worker[w].dry /\ worker[w].pc = "claim"
  /\ Drop(w)
  /\ UNCHANGED <<status, world, chosen, runs, outdated, faults>>

\* markFollowUpExecuting: a compare-and-set on 'planned'.  (A mutation:
\* AnyClaimable forgets the WHERE clause.)
AnyClaimable(f) == TRUE
Claimable(f) == status[f] = "planned"

Claim(w) ==
  LET f == worker[w].row IN
  /\ ~worker[w].dry /\ worker[w].pc = "claim"
  /\ \/ /\ IF Claimable(f)
           THEN status' = [status EXCEPT ![f] = "executing"] /\ Goto(w, "load")
           ELSE UNCHANGED status /\ Drop(w)
        /\ UNCHANGED faults
     \/ Fault /\ UNCHANGED status /\ Drop(w)
  /\ UNCHANGED <<world, chosen, runs, outdated>>

\* A conversation that is missing, or cannot be read, ends the follow-up.
Load(w) ==
  /\ worker[w].pc = "load"
  /\ \/ Goto(w, "run")
     \/ Goto(w, "cancel")
  /\ UNCHANGED <<status, world, chosen, runs, outdated, faults>>

\* The cycle returns, or throws.
Run(w) ==
  /\ worker[w].pc = "run"
  /\ runs' = [runs EXCEPT ![worker[w].row] = @ + 1]
  /\ \E outcome \in Outcomes :
       worker' = [worker EXCEPT ![w].pc = "conclude", ![w].outcome = outcome]
  /\ UNCHANGED <<status, world, chosen, outdated, faults>>

\* executing -> executed or failed; any other status is left as it is.
\* (Mutations: no WHERE clause, or the one of the claim.)
AnyConcludes(f) == TRUE
PlannedConcludes(f) == status[f] = "planned"
StillExecuting(f) == status[f] = "executing"

Conclude(w) ==
  LET f == worker[w].row IN
  /\ worker[w].pc = "conclude"
  /\ \/ /\ status' = IF StillExecuting(f)
                     THEN [status EXCEPT ![f] = worker[w].outcome] ELSE status
        /\ UNCHANGED faults
     \/ Fault /\ UNCHANGED status
  /\ Drop(w)
  /\ UNCHANGED <<world, chosen, runs, outdated>>

\* The process dies and is started again, with or without --dry-run.
Crash(w) ==
  /\ Fault
  /\ \E dry \in BOOLEAN : worker' = [worker EXCEPT ![w] = IdleWorker(dry)]
  /\ worker' # worker
  /\ UNCHANGED <<status, world, chosen, runs, outdated>>

WorkerStep(w) ==
  \/ Poll(w)
  \/ \E f \in FollowUps : Take(w, f)
  \/ Check(w) \/ Cancel(w) \/ DryRun(w) \/ Claim(w) \/ Load(w) \/ Run(w) \/ Conclude(w)

-----------------------------------------------------------------------------
(* Everyone else. *)

\* createFollowUpAction inserts the action as planned.
Schedule(f) ==
  /\ status[f] = "none"
  /\ status' = [status EXCEPT ![f] = "planned"]
  /\ UNCHANGED <<world, worker, chosen, runs, outdated, faults>>

FallsDue(f) ==
  /\ status[f] # "none" /\ ~due[f]
  /\ due' = [due EXCEPT ![f] = TRUE]
  /\ UNCHANGED <<status, expired, replied, barred, over, worker, chosen, runs, outdated, faults>>

Expires(f) ==
  /\ due[f] /\ ~expired[f]
  /\ expired' = [expired EXCEPT ![f] = TRUE]
  /\ UNCHANGED <<status, due, replied, barred, over, worker, chosen, runs, outdated, faults>>

\* A worker that has read the replies to f and found none.
PastReply(w, f) == worker[w].row = f /\ worker[w].pc \notin {"idle", "reply", "cancel"}

Reply ==
  LET unheard == {f \in FollowUps : status[f] # "none" /\ ~replied[f]} IN
  /\ unheard # {}
  /\ replied' = [f \in FollowUps |-> replied[f] \/ f \in unheard]
  /\ outdated' = outdated \cup {f \in unheard : \A w \in Workers : ~PastReply(w, f)}
  /\ UNCHANGED <<status, due, expired, barred, over, worker, chosen, runs, faults>>

\* Take, pause, close and their opposites; the deal concludes or is reopened.
\* Neither touches a follow-up: the takeover cancels send actions only.
ChangeHands ==
  /\ \/ barred' = ~barred /\ UNCHANGED over
     \/ over' = ~over /\ UNCHANGED barred
  /\ UNCHANGED <<status, due, expired, replied, worker, chosen, runs, outdated, faults>>

\* cancelFollowUpActionRecord: the latest planned follow-up is selected ...
AgentSelects(f) ==
  /\ chosen = NoRow
  /\ status[f] = "planned"
  /\ \A g \in FollowUps : status[g] = "planned" => g <= f
  /\ chosen' = f
  /\ UNCHANGED <<status, world, worker, runs, outdated, faults>>

\* ... and cancelled by id, in a second statement without a status guard.
AgentCancels ==
  /\ chosen # NoRow
  /\ status' = [status EXCEPT ![chosen] = "cancelled"]
  /\ chosen' = NoRow
  /\ UNCHANGED <<world, worker, runs, outdated, faults>>

Next ==
  \/ \E w \in Workers : WorkerStep(w) \/ Crash(w)
  \/ \E f \in FollowUps : Schedule(f) \/ FallsDue(f) \/ Expires(f) \/ AgentSelects(f)
  \/ Reply \/ ChangeHands \/ AgentCancels

Spec == Init /\ [][Next]_vars

\* Each worker polls for ever and catches what a tick throws.
FairSpec == Spec /\ \A w \in Workers : WF_vars(WorkerStep(w))

-----------------------------------------------------------------------------
(* Properties. *)

\* "a concurrent worker can never re-run the same follow-up": one cycle at most,
\* whatever workers, cancellations and crashes do around the claim.
RunsAtMostOnce == \A f \in FollowUps : runs[f] <= 1

\* A cancellation, by a worker or by the sales agent, before or after the claim,
\* is never overwritten by a claim or a late completion.
CancellationIsKept ==
  [][\A f \in FollowUps : status[f] = "cancelled" => status'[f] = "cancelled"]_vars

\* A follow-up the customer answered before any worker had looked for answers is
\* never run, as long as the reads succeed: a failed one counts as no answer.
AnsweredIsNotRun ==
  [][\A f \in outdated : faults = 0 => runs'[f] = runs[f]]_vars

\* What somebody has claimed and not yet run.
Held == {f \in FollowUps :
           \E w \in Workers : worker[w].row = f /\ worker[w].pc \in {"load", "run"}}

Contract == INSTANCE FollowupContract WITH held <- Held

\* Workers, the sales agent and crashes together implement the contract: a follow-up is
\* claimed once, due and addressed, run once and only by who claimed it, concluded only
\* after its cycle, and a cancellation is not undone, by a late completion either.
KeepsFollowupContract == Contract!Spec

\* As long as a worker is left that is no dry run, every follow-up that is due is
\* claimed, cancelled or expires, however many are due at once and whoever else polls,
\* crashes, or holds it in a batch.
EveryDueFollowUpIsTaken ==
  \A f \in FollowUps : status[f] = "planned" /\ due[f] ~> status[f] # "planned" \/ expired[f]

\* Without faults a claimed follow-up is concluded.
EveryClaimConcludes ==
  \A f \in FollowUps : status[f] = "executing" ~> status[f] \in Concluded \/ faults > 0
=============================================================================
