---------------------------- MODULE OutboxWorker ----------------------------
(***************************************************************************)
(* planOutboxWorkerRun: the worker behind the HTTP endpoint.  A request    *)
(* either locks a batch and stops (lockOnly), locks a batch and sends it   *)
(* (planned send), or re-sends locks that outlived lock_seconds            *)
(* (sendLocked).  Sending goes through a status of its own, locked ->      *)
(* sending -> sent or failed, without retries, without looking at the      *)
(* conversation and without touching the agent action.                     *)
(***************************************************************************)
EXTENDS OutboxTable

CallGoto(c, pc) == call' = [call EXCEPT ![c].pc = pc]
CallDone(c) == call' = [call EXCEPT ![c] = IdleCall]

SelectPlanned(c, mode) ==
  /\ call[c].pc = "idle"
  /\ mode \in {"lockOnly", "plannedSend"}
  /\ Candidates # {}
  /\ call' = [call EXCEPT ![c].pc = "lock", ![c].mode = mode,
                          ![c].queue = FirstOf(Candidates, BatchSize)]
  /\ UNCHANGED <<rowVars, action, conv, tick, op, provider, executions, audited,
                 revoked, faults, controls>>

\* By outboxId one row, without it a batch in the order of locked_at.
SelectStale(c) ==
  /\ call[c].pc = "idle"
  /\ \E S \in SUBSET StaleLocks :
       /\ S # {} /\ Cardinality(S) <= BatchSize
       /\ call' = [call EXCEPT ![c].pc = "reread", ![c].mode = "recover", ![c].queue = S]
  /\ UNCHANGED <<rowVars, action, conv, tick, op, provider, executions, audited,
                 revoked, faults, controls>>

\* lockOutboxBatch, one candidate: the rows it won are held.
LockNext(c, r) ==
  /\ call[c].pc = "lock" /\ IsFirst(r, call[c].queue)
  /\ \/ /\ Lock(r)
        /\ call' = [call EXCEPT ![c].queue = @ \ {r},
                                ![c].held = IF Lockable(r) THEN @ \cup {r} ELSE @]
        /\ UNCHANGED faults
     \/ /\ Fault
        /\ call' = [call EXCEPT ![c].queue = @ \ {r}]
        /\ UNCHANGED <<status, aged>>
  /\ UNCHANGED <<attempts, waiting, action, conv, tick, op, provider, executions,
                 audited, revoked, controls>>

\* lockOnly answers here and leaves its rows locked.
LockedAll(c) ==
  /\ call[c].pc = "lock" /\ call[c].queue = {}
  /\ IF call[c].mode = "lockOnly" \/ call[c].held = {} THEN CallDone(c)
     ELSE call' = [call EXCEPT ![c].pc = "reread", ![c].queue = call[c].held, ![c].held = {}]
  /\ UNCHANGED <<rowVars, action, conv, tick, op, provider, executions, audited,
                 revoked, faults, controls>>

\* selectOutboxById: keep a row that is still locked (and still stale); one
\* that cannot be read is skipped and stays locked.
Reread(c, r) ==
  /\ call[c].pc = "reread" /\ IsFirst(r, call[c].queue)
  /\ \/ /\ call' = [call EXCEPT ![c].queue = @ \ {r},
                                ![c].held = IF /\ StillLocked(r)
                                               /\ call[c].mode = "recover" => aged[r]
                                            THEN @ \cup {r} ELSE @]
        /\ UNCHANGED faults
     \/ Fault /\ call' = [call EXCEPT ![c].queue = @ \ {r}]
  /\ UNCHANGED <<rowVars, action, conv, tick, op, provider, executions, audited,
                 revoked, controls>>

RereadAll(c) ==
  /\ call[c].pc = "reread" /\ call[c].queue = {}
  /\ IF call[c].held = {} THEN CallDone(c) ELSE CallGoto(c, "send")
  /\ UNCHANGED <<rowVars, action, conv, tick, op, provider, executions, audited,
                 revoked, faults, controls>>

\* On to the next held row once r is dealt with.
NextHeld(c, r) ==
  IF call[c].held \subseteq {r} THEN IdleCall
  ELSE [IdleCall EXCEPT !.pc = "send", !.mode = call[c].mode, !.held = call[c].held \ {r}]

\* sendLockedOutboxRecord up to the send: an invalid payload fails the row,
\* a valid one goes locked -> sending; a row no longer locked is skipped.
Begin(c, r) ==
  LET skipped == NextHeld(c, r) IN
  /\ call[c].pc = "send" /\ IsFirst(r, call[c].held)
  /\ \/ /\ StillLocked(r) /\ r \notin InvalidRows
        /\ status' = [status EXCEPT ![r] = "sending"]
        /\ call' = [call EXCEPT ![c].held = @ \ {r}, ![c].row = r, ![c].pc = "post"]
        /\ UNCHANGED faults
     \/ /\ r \in InvalidRows
        /\ status' = IF StillLocked(r) THEN [status EXCEPT ![r] = "failed"] ELSE status
        /\ call' = [call EXCEPT ![c] = skipped]
        /\ UNCHANGED faults
     \/ /\ ~StillLocked(r) /\ r \notin InvalidRows
        /\ call' = [call EXCEPT ![c] = skipped]
        /\ UNCHANGED <<status, faults>>
     \/ Fault /\ call' = [call EXCEPT ![c] = skipped] /\ UNCHANGED status
  /\ UNCHANGED <<attempts, waiting, aged, action, conv, tick, op, provider, executions,
                 audited, revoked, controls>>

CallPost(c) ==
  /\ call[c].pc = "post"
  /\ \E answer \in Answers :
       /\ Deliver(call[c].row, answer)
       /\ call' = [call EXCEPT ![c].answer = answer, ![c].pc = "finalize"]
  /\ UNCHANGED <<rowVars, action, conv, tick, op, executions, audited, revoked,
                 faults, controls>>

\* sending -> sent or failed; a failed transaction leaves the row sending.
Outcome(c) == IF call[c].answer = "sent" THEN "sent" ELSE "failed"

Finalize(c) ==
  LET r == call[c].row IN
  /\ call[c].pc = "finalize"
  /\ \/ /\ status' = IF status[r] = "sending"
                     THEN [status EXCEPT ![r] = Outcome(c)] ELSE status
        /\ UNCHANGED faults
     \/ Fault /\ UNCHANGED status
  /\ call' = [call EXCEPT ![c] = NextHeld(c, r)]
  /\ UNCHANGED <<attempts, waiting, aged, action, conv, tick, op, provider, executions,
                 audited, revoked, controls>>

CrashCall(c) ==
  /\ Fault
  /\ call[c] # IdleCall
  /\ CallDone(c)
  /\ UNCHANGED <<rowVars, action, conv, tick, op, provider, executions, audited,
                 revoked, controls>>

CallStep(c) ==
  \/ \E mode \in Modes : SelectPlanned(c, mode)
  \/ SelectStale(c)
  \/ \E r \in Rows : LockNext(c, r) \/ Reread(c, r) \/ Begin(c, r)
  \/ LockedAll(c) \/ RereadAll(c) \/ CallPost(c) \/ Finalize(c)
=============================================================================
