----------------------------- MODULE OutboxTick -----------------------------
(***************************************************************************)
(* runOutboxTick: the autonomous worker.  A tick reads a batch of due rows *)
(* and takes them one by one: claim, load, revalidate, send, settle, book. *)
(* Every step below is one database statement or one provider call, so     *)
(* that other ticks, HTTP requests and operators run between any two.      *)
(***************************************************************************)
EXTENDS OutboxTable

Goto(w, pc) == tick' = [tick EXCEPT ![w].pc = pc]

\* continue: on to the next candidate of the batch.  (A mutation: ReloadInPlace
\* takes the same row again.)
ReloadInPlace(w) == Goto(w, "load")
Drop(w) == tick' = [tick EXCEPT ![w] = [IdleTick EXCEPT !.batch = tick[w].batch]]

Poll(w) ==
  /\ tick[w].pc = "idle" /\ tick[w].batch = {}
  /\ Candidates # {}
  /\ tick' = [tick EXCEPT ![w].batch = FirstOf(Candidates, BatchSize)]
  /\ UNCHANGED <<rowVars, action, conv, call, op, provider, executions, audited,
                 revoked, faults, controls>>

\* The allowlist is consulted before the lock: the row stays planned.
Skip(w, r) ==
  /\ tick[w].pc = "idle" /\ IsFirst(r, tick[w].batch)
  /\ r \notin AllowedRows
  /\ tick' = [tick EXCEPT ![w].batch = @ \ {r}]
  /\ UNCHANGED <<rowVars, action, conv, call, op, provider, executions, audited,
                 revoked, faults, controls>>

\* The claim; a candidate another worker took first is skipped, and so is one
\* whose lock transaction fails.
Claim(w, r) ==
  /\ tick[w].pc = "idle" /\ IsFirst(r, tick[w].batch)
  /\ r \in AllowedRows
  /\ \/ /\ Lock(r)
        /\ tick' = IF Lockable(r)
                   THEN [tick EXCEPT ![w].batch = @ \ {r}, ![w].pc = "load", ![w].row = r]
                   ELSE [tick EXCEPT ![w].batch = @ \ {r}]
        /\ UNCHANGED faults
     \/ /\ Fault
        /\ tick' = [tick EXCEPT ![w].batch = @ \ {r}]
        /\ UNCHANGED <<status, aged>>
  /\ UNCHANGED <<attempts, waiting, action, conv, call, op, provider, executions,
                 audited, revoked, controls>>

\* loadFullOutboxRow; a failed read leaves the row locked by nobody.
Load(w) ==
  LET r == tick[w].row IN
  /\ tick[w].pc = "load"
  /\ \/ /\ tick' = [tick EXCEPT ![w].attempt = attempts[r],
                                ![w].pc = IF r \in InvalidRows THEN "void" ELSE "recheck"]
        /\ UNCHANGED faults
     \/ Fault /\ Drop(w)
  /\ UNCHANGED <<rowVars, action, conv, call, op, provider, executions, audited,
                 revoked, controls>>

\* The attempt in progress: attempt_count as loaded, plus one.  The two
\* off-by-one forms are mutations.
AttemptBelow(w) == tick[w].attempt - 1
SameAttempt(w) == tick[w].attempt
ThisAttempt(w) == tick[w].attempt + 1

\* revalidateBeforeSend, first read: the row must still be locked.
\* (A mutation: NeverSuperseded skips it.)
NeverSuperseded(r) == FALSE
Superseded(r) == status[r] # "locked"

Recheck(w) ==
  LET r == tick[w].row IN
  /\ tick[w].pc = "recheck"
  /\ \/ /\ IF Superseded(r) THEN Drop(w)
           ELSE Goto(w, IF r \in OperatorRows THEN "cleared" ELSE "owner")
        /\ UNCHANGED faults
     \/ Fault /\ Drop(w)
  /\ UNCHANGED <<rowVars, action, conv, call, op, provider, executions, audited,
                 revoked, controls>>

MayAutoSend == ~conv.closed /\ ~conv.human /\ conv.ai /\ conv.window

\* revalidateBeforeSend, second read: a failed read of the conversation is
\* taken for a missing conversation, and the send goes on.
CheckOwner(w) ==
  /\ tick[w].pc = "owner"
  /\ \/ Goto(w, IF MayAutoSend THEN "cleared" ELSE "void") /\ UNCHANGED faults
     \/ Fault /\ Goto(w, "cleared")
  /\ UNCHANGED <<rowVars, action, conv, call, op, provider, executions, audited,
                 revoked, controls>>

\* cancelLockedRow: the row first ...
Void(w) ==
  /\ tick[w].pc = "void"
  /\ \/ /\ status' = IF StillLocked(tick[w].row)
                     THEN [status EXCEPT ![tick[w].row] = "cancelled"] ELSE status
        /\ UNCHANGED faults
     \/ Fault /\ UNCHANGED status
  /\ Goto(w, "voidAction")
  /\ UNCHANGED <<attempts, waiting, aged, action, conv, call, op, provider,
                 executions, audited, revoked, controls>>

\* ... then its action ...
VoidAction(w) ==
  /\ tick[w].pc = "voidAction"
  /\ \/ MoveAction(tick[w].row, "cancelled") /\ UNCHANGED faults
     \/ Fault /\ UNCHANGED action
  /\ Goto(w, "voidRecord")
  /\ UNCHANGED <<rowVars, conv, call, op, provider, executions, audited, revoked, controls>>

\* ... then the execution record.
VoidRecord(w) ==
  /\ tick[w].pc = "voidRecord"
  /\ \/ Record(tick[w].row, ThisAttempt(w), "cancelled") /\ UNCHANGED faults
     \/ Fault /\ UNCHANGED executions
  /\ Drop(w)
  /\ UNCHANGED <<rowVars, action, conv, call, op, provider, audited, revoked, controls>>

\* --dry-run stops here: the row keeps the lock this tick took.
DryRun(w) ==
  /\ w \in DryTicks
  /\ tick[w].pc = "cleared"
  /\ Drop(w)
  /\ UNCHANGED <<rowVars, action, conv, call, op, provider, executions, audited,
                 revoked, faults, controls>>

Post(w) ==
  /\ w \notin DryTicks
  /\ tick[w].pc = "cleared"
  /\ \E answer \in Answers :
       /\ Deliver(tick[w].row, answer)
       /\ tick' = [tick EXCEPT ![w].answer = answer,
                               ![w].pc = IF answer = "sent" THEN "settle" ELSE "failure"]
  /\ UNCHANGED <<rowVars, action, conv, call, op, executions, audited, revoked,
                 faults, controls>>

\* Success: UPDATE ... SET status = 'sent' WHERE status = 'locked'.  If it
\* changes no row, or fails, outbox.sent_after_cancel is audited.
\* (A mutation: AuditNothing.)
AuditNothing(r) == UNCHANGED audited
AuditLateSend(r) == audited' = [audited EXCEPT ![r] = TRUE]

Settle(w) ==
  LET r == tick[w].row IN
  /\ tick[w].pc = "settle"
  /\ \/ /\ StillLocked(r)
        /\ status' = [status EXCEPT ![r] = "sent"]
        /\ attempts' = [attempts EXCEPT ![r] = ThisAttempt(w)]
        /\ waiting' = [waiting EXCEPT ![r] = FALSE]
        /\ UNCHANGED <<audited, lost, faults>>
     \/ /\ ~StillLocked(r)
        /\ AuditLateSend(r)
        /\ UNCHANGED <<status, attempts, waiting, lost, faults>>
     \/ /\ Fault
        /\ AuditLateSend(r)
        /\ lost' = [lost EXCEPT ![r] = @ + 1]
        /\ UNCHANGED <<status, attempts, waiting>>
  /\ Goto(w, "book")
  /\ UNCHANGED <<aged, action, conv, call, op, posts, accepted, executions, revoked, controls>>

\* persistActionExecution, persistActionOutcome, persistCanonicalOutboundMessage.
Book(w) ==
  /\ tick[w].pc = "book"
  /\ \/ Record(tick[w].row, ThisAttempt(w), "succeeded") /\ UNCHANGED faults
     \/ Fault /\ UNCHANGED executions
  /\ Goto(w, "executed")
  /\ UNCHANGED <<rowVars, action, conv, call, op, provider, audited, revoked, controls>>

MarkActionExecuted(w) ==
  /\ tick[w].pc = "executed"
  /\ \/ MoveAction(tick[w].row, "executed") /\ UNCHANGED faults
     \/ Fault /\ UNCHANGED action
  /\ Drop(w)
  /\ UNCHANGED <<rowVars, conv, call, op, provider, executions, audited, revoked, controls>>

\* Failure: the attempt is recorded before the row is moved.
MayRetry(w) == tick[w].answer \in Retryable /\ ThisAttempt(w) < MaxAttempts

RecordFailure(w) ==
  /\ tick[w].pc = "failure"
  /\ \/ Record(tick[w].row, ThisAttempt(w), "failed") /\ UNCHANGED faults
     \/ Fault /\ UNCHANGED executions
  /\ Goto(w, IF MayRetry(w) THEN "requeue" ELSE "giveUp")
  /\ UNCHANGED <<rowVars, action, conv, call, op, provider, audited, revoked, controls>>

\* locked -> planned with attempt_count and next_attempt_at in the future.
Requeue(w) ==
  LET r == tick[w].row IN
  /\ tick[w].pc = "requeue"
  /\ \/ /\ StillLocked(r)
        /\ status' = [status EXCEPT ![r] = "planned"]
        /\ attempts' = [attempts EXCEPT ![r] = ThisAttempt(w)]
        /\ waiting' = [waiting EXCEPT ![r] = TRUE]
        /\ UNCHANGED faults
     \/ /\ ~StillLocked(r)
        /\ UNCHANGED <<status, attempts, waiting, faults>>
     \/ Fault /\ UNCHANGED <<status, attempts, waiting>>
  /\ Drop(w)
  /\ UNCHANGED <<aged, action, conv, call, op, provider, executions, audited,
                 revoked, controls>>

GiveUp(w) ==
  LET r == tick[w].row IN
  /\ tick[w].pc = "giveUp"
  /\ \/ /\ StillLocked(r)
        /\ status' = [status EXCEPT ![r] = "failed"]
        /\ attempts' = [attempts EXCEPT ![r] = ThisAttempt(w)]
        /\ UNCHANGED faults
     \/ ~StillLocked(r) /\ UNCHANGED <<status, attempts, faults>>
     \/ Fault /\ UNCHANGED <<status, attempts>>
  /\ Goto(w, "escalate")
  /\ UNCHANGED <<waiting, aged, action, conv, call, op, provider, executions, audited,
                 revoked, controls>>

\* The failed outcome, markActionFailed and the escalation audit: they follow
\* whether or not the row was moved.
Escalate(w) ==
  /\ tick[w].pc = "escalate"
  /\ \/ MoveAction(tick[w].row, "failed") /\ UNCHANGED faults
     \/ Fault /\ UNCHANGED action
  /\ Drop(w)
  /\ UNCHANGED <<rowVars, conv, call, op, provider, executions, audited, revoked, controls>>

\* The process dies and restarts; an acceptance it had not settled is lost.
CrashTick(w) ==
  LET r == tick[w].row IN
  /\ Fault
  /\ tick[w] # IdleTick
  /\ tick' = [tick EXCEPT ![w] = IdleTick]
  /\ lost' = IF tick[w].pc = "settle" THEN [lost EXCEPT ![r] = @ + 1] ELSE lost
  /\ UNCHANGED <<rowVars, action, conv, call, op, posts, accepted, executions,
                 audited, revoked, controls>>

TickStep(w) ==
  \/ Poll(w)
  \/ \E r \in Rows : Skip(w, r) \/ Claim(w, r)
  \/ Load(w) \/ Recheck(w) \/ CheckOwner(w) \/ Void(w) \/ VoidAction(w)
  \/ VoidRecord(w) \/ DryRun(w)
  \/ Post(w) \/ Settle(w) \/ Book(w) \/ MarkActionExecuted(w)
  \/ RecordFailure(w) \/ Requeue(w) \/ GiveUp(w) \/ Escalate(w)
=============================================================================
