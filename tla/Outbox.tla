------------------------------- MODULE Outbox -------------------------------
(***************************************************************************)
(* The outbox as a whole: agent cycles and operators put rows in, ticks    *)
(* and HTTP requests take them out, operators take the conversation over,  *)
(* processes crash and database calls fail.                                *)
(***************************************************************************)
EXTENDS OutboxTick, OutboxWorker, ConversationControl

(* Agent cycles: read the conversation, persist the action, pass the gate. *)

InOrder(r) == \A s \in Rows : s < r => status[s] # "none" \/ action[s] = "cancelled"

\* The cycle loads its context and selects a reply for a conversation that
\* is the AI's; evaluateExecutionGate later judges this same context.
Decide(r) ==
  /\ r \notin OperatorRows /\ action[r] = "none"
  /\ \A s \in Rows \ OperatorRows : s < r => action[s] # "none"
  /\ ~conv.human /\ conv.ai /\ ~conv.closed
  /\ action' = [action EXCEPT ![r] = "decided"]
  /\ UNCHANGED <<rowVars, conv, tick, call, op, provider, executions, audited,
                 revoked, faults, controls>>

\* persistAgentAction.
Propose(r) ==
  /\ action[r] = "decided"
  /\ action' = [action EXCEPT ![r] = "proposed"]
  /\ UNCHANGED <<rowVars, conv, tick, call, op, provider, executions, audited,
                 revoked, faults, controls>>

\* executeActionThroughGate, one transaction: the action is read FOR UPDATE,
\* must still be ready, and is marked planned with the row it inserts.
Gate(r) ==
  /\ action[r] = "proposed" /\ status[r] = "none" /\ InOrder(r)
  /\ status' = [status EXCEPT ![r] = "planned"]
  /\ action' = [action EXCEPT ![r] = "planned"]
  /\ UNCHANGED <<attempts, waiting, aged, conv, tick, call, op, provider, executions,
                 audited, revoked, faults, controls>>

\* createOutboxPlannedRecord for a message that comes from no agent action.
PlanOperatorRow(r) ==
  /\ r \in OperatorRows /\ status[r] = "none" /\ InOrder(r)
  /\ status' = [status EXCEPT ![r] = "planned"]
  /\ UNCHANGED <<attempts, waiting, aged, action, conv, tick, call, op, provider,
                 executions, audited, revoked, faults, controls>>

CycleStep(r) == Decide(r) \/ Propose(r) \/ Gate(r) \/ PlanOperatorRow(r)

Next ==
  \/ \E w \in Ticks : TickStep(w) \/ CrashTick(w)
  \/ \E c \in Calls : CallStep(c) \/ CrashCall(c)
  \/ \E o \in Operators : OperatorStep(o)
  \/ \E r \in Rows : CycleStep(r) \/ BackoffElapses(r) \/ LockAges(r)
  \/ Inbound \/ WindowCloses

Spec == Init /\ [][Next]_vars

\* The workers poll for ever (sleep, tick, catch), so a tick that can step
\* does; backoffs elapse.  Nothing is assumed of operators, cycles, the
\* provider or the customer.
Fairness ==
  /\ \A w \in Ticks : WF_vars(TickStep(w))
  /\ \A r \in Rows : WF_vars(BackoffElapses(r))

FairSpec == Spec /\ Fairness

-----------------------------------------------------------------------------
(* Safety. *)

\* Who may still call the provider, or has called it and not yet moved the row.
TickSends(w, r) == Engaged(w, r) /\ tick[w].pc \in {"cleared", "settle", "failure", "requeue", "giveUp"}
CallSends(c, r) == call[c].row = r

\* Claims are exclusive: no two workers of any kind are between revalidation
\* and settlement of the same row (lockOutboxRecord, transitionLockedSendRow).
OneSenderPerRow ==
  \A r \in Rows :
    /\ \A v, w \in Ticks : TickSends(v, r) /\ TickSends(w, r) => v = w
    /\ \A c, d \in Calls : CallSends(c, r) /\ CallSends(d, r) => c = d
    /\ \A w \in Ticks, c \in Calls : ~(TickSends(w, r) /\ CallSends(c, r))

\* A customer gets a message twice only if the acknowledgement of an earlier
\* copy was lost (timeout after acceptance, crash or failed update before the
\* row was marked sent); every extra copy costs one lost acknowledgement.
NoUnexplainedDuplicate == \A r \in Rows : accepted[r] <= lost[r] + 1

\* Retries, requeues, crashes and recoveries together never call the provider
\* more than MaxAttempts times plus the one sendLocked recovery.
BoundedSends == \A r \in Rows : posts[r] <= MaxAttempts + 1

\* crm_action_executions holds at most one record per attempt, in the order of
\* the attempts, whoever made them and whichever inserts were lost.
OneExecutionPerAttempt ==
  \A r \in Rows : \A i, j \in DOMAIN executions[r] :
    i < j => executions[r][i].attempt < executions[r][j].attempt

\* A row an operator cancelled before its last status check stays cancelled and
\* nobody is about to send it, whatever happens afterwards: release, reopen,
\* retries in flight, HTTP recoveries.
RevokedIsFinal ==
  \A r \in revoked : /\ status[r] = "cancelled"
                     /\ \A w \in Ticks : ~PastRecheck(w, r)
                     /\ \A c \in Calls : call[c].row # r

\* ... and no step calls the provider for it.
RevokedIsNeverSent == [][\A r \in revoked : posts'[r] = posts[r]]_vars

\* sent, failed and cancelled are final for every writer.
TerminalIsFinal == [][\A r \in Rows : status[r] \in Terminal => status'[r] = status[r]]_vars

\* Without faults the action agrees with its row.  While the row is queued the action is
\* live; once no worker has the row, a cancelled row has a cancelled action and
\* a finished row an action that is finished the same way, or cancelled by an
\* operator between the row's update and the action's.
ActionFollowsRow ==
  faults = 0 => \A r \in Rows \ OperatorRows :
    LET idle == \A w \in Ticks : ~Engaged(w, r) IN
    /\ status[r] \in {"planned", "locked"} => action[r] = "planned"
    /\ action[r] = "executed" => status[r] = "sent"
    /\ idle /\ status[r] = "sent" => action[r] \in {"executed", "cancelled"}
    /\ idle /\ status[r] = "failed" => action[r] \in {"failed", "cancelled"}
    /\ idle /\ status[r] = "cancelled" => action[r] = "cancelled"

\* An acceptance that an operator's cancellation overtook is on record: once
\* the tick is done, a cancelled row with a known acceptance is audited.
LateSendIsAudited ==
  \A r \in Rows :
    (/\ status[r] = "cancelled" /\ accepted[r] > lost[r]
     /\ \A w \in Ticks : ~Engaged(w, r)) => audited[r]

\* A copy that no lost acknowledgement explains, because a worker outlived its lock and
\* a recovery sent the row too, is the only one, and never a silent one: the worker
\* writes outbox.sent_after_cancel as soon as it settles.
NoSilentDuplicate ==
  \A r \in Rows : accepted[r] > lost[r] + 1 =>
    /\ accepted[r] = lost[r] + 2
    /\ audited[r] \/ \E w \in Ticks : Engaged(w, r) /\ tick[w].pc = "settle"

\* A row that is sending and that no request has in hand any more, because its process
\* died or its last update failed, is never settled, cancelled or queued again.
OrphansStaySending ==
  [][\A r \in Rows : status[r] = "sending" /\ (\A c \in Calls : call[c].row # r) =>
        status'[r] = "sending"]_vars

-----------------------------------------------------------------------------
(* The promise the outbox keeps towards the rest of the system. *)

Phase(r) == IF status[r] = "none" THEN "new"
            ELSE IF status[r] \in Terminal THEN "closed" ELSE "open"

Contract == INSTANCE MessageContract
            WITH Messages <- Rows, phase <- [r \in Rows |-> Phase(r)],
                 copies <- accepted, excused <- lost

\* Every behaviour of the workers is one the contract allows: one conclusion
\* per message, no copy while an earlier one is unexcused.
KeepsContract == Contract!Spec

-----------------------------------------------------------------------------
(* Liveness. *)

\* Without crashes and database faults every queued row the allowlist admits
\* reaches a terminal status, however the provider and the operators behave.
EveryRowSettles == \A r \in AllowedRows : status[r] = "planned" ~> status[r] \in Terminal

\* No tick keeps a row for ever.
EveryClaimEnds == \A w \in Ticks : tick[w].row # NoRow ~> tick[w].row = NoRow
=============================================================================
