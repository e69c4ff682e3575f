------------------------- MODULE ConversationControl -------------------------
(***************************************************************************)
(* applyConversationControl and sendConversationManualReply.  A command is *)
(* validated against a read of the conversation and committed later in one *)
(* transaction, without a second look: other commands, customer messages   *)
(* and workers run in between.  A command that takes the right to send     *)
(* from the AI cancels the queued rows in that same transaction.           *)
(***************************************************************************)
EXTENDS OutboxTable

Revoking == {"take", "reply", "pause", "close"}

Read(o, command) ==
  /\ op[o] = "none"
  /\ controls < MaxControls /\ controls' = controls + 1
  /\ IF command = "reopen" THEN conv.closed ELSE ~conv.closed
  /\ op' = [op EXCEPT ![o] = command]
  /\ UNCHANGED <<rowVars, action, conv, tick, call, provider, executions, audited,
                 revoked, faults>>

\* What the transaction of each command writes to the conversation row.
Owned(command) ==
  CASE command \in {"take", "reply"} -> [conv EXCEPT !.human = TRUE, !.ai = FALSE]
    [] command = "release" -> [conv EXCEPT !.human = FALSE, !.ai = TRUE]
    [] command = "pause"   -> [conv EXCEPT !.human = FALSE, !.ai = FALSE]
    [] command = "close"   -> [conv EXCEPT !.closed = TRUE]
    [] command = "reopen"  -> [conv EXCEPT !.closed = FALSE]

\* cancelPendingAutonomousSendsTx.
Pending == {r \in Rows : status[r] \in {"planned", "locked"}}

CancelPendingAutonomousSends ==
  /\ status' = [r \in Rows |-> IF r \in Pending THEN "cancelled" ELSE status[r]]
  /\ action' = [r \in Rows |-> IF action[r] \in {"proposed", "planned"}
                               THEN "cancelled" ELSE action[r]]

Commit(o) ==
  /\ op[o] \in Commands
  /\ conv' = Owned(op[o])
  /\ IF op[o] \in Revoking
     THEN /\ CancelPendingAutonomousSends
          /\ revoked' = revoked \cup {r \in Pending : \A w \in Ticks : ~PastRecheck(w, r)}
     ELSE UNCHANGED <<status, action, revoked>>
  /\ op' = [op EXCEPT ![o] = IF op[o] = "reply" THEN "replying" ELSE "none"]
  /\ UNCHANGED <<attempts, waiting, aged, tick, call, provider, executions, audited,
                 faults, controls>>

\* The operator's own message goes out after the takeover committed; it is
\* appended to the thread and leaves the outbox alone.
SendReply(o) ==
  /\ op[o] = "replying"
  /\ op' = [op EXCEPT ![o] = "none"]
  /\ UNCHANGED <<rowVars, action, conv, tick, call, provider, executions, audited,
                 revoked, faults, controls>>

OperatorStep(o) ==
  \/ \E command \in Commands : Read(o, command)
  \/ Commit(o)
  \/ SendReply(o)

-----------------------------------------------------------------------------
\* A customer message: the conversation is upserted, a closed one reopened,
\* ownership is never reset, the 24h window starts again.
Inbound ==
  /\ conv.closed \/ ~conv.window
  /\ conv' = [conv EXCEPT !.closed = FALSE, !.window = TRUE]
  /\ UNCHANGED <<rowVars, action, tick, call, op, provider, executions, audited,
                 revoked, faults, controls>>

\* 24 hours without one.
WindowCloses ==
  /\ conv.window
  /\ conv' = [conv EXCEPT !.window = FALSE]
  /\ UNCHANGED <<rowVars, action, tick, call, op, provider, executions, audited,
                 revoked, faults, controls>>
=============================================================================
