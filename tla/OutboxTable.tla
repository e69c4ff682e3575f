---------------------------- MODULE OutboxTable ----------------------------
(***************************************************************************)
(* The tables every writer of the WhatsApp outbox shares: the outbox rows  *)
(* (brain_message_outbox), the agent action each row comes from            *)
(* (crm_agent_actions) and the conversation that says who may speak        *)
(* (conversation).  One conversation is modelled; every row belongs to it. *)
(* The clock is abstracted to the two facts the code derives from it: a    *)
(* row still waits for next_attempt_at, a lock is older than lock_seconds. *)
(***************************************************************************)
EXTENDS Naturals, FiniteSets, Sequences

CONSTANTS
  Rows,          \* ids of outbox rows, in the order of planned_at, id
  OperatorRows,  \* rows with source 'operator', not linked to an action
  InvalidRows,   \* rows without wa_id, phone_number_id or message_text
  AllowedRows,   \* rows whose wa_id the tick's allowlist admits
  Ticks,         \* autonomous outbox workers (one runOutboxTick loop each)
  DryTicks,      \* those started with --dry-run
  SlowTicks,     \* those that may outlive lock_seconds inside one row
  Calls,         \* requests to the HTTP outbox worker
  Operators,     \* operators acting on the conversation
  BatchSize,     \* LIMIT of the candidate queries
  MaxAttempts,   \* BRAIN_OUTBOX_MAX_ATTEMPTS
  MaxFaults,     \* bound: crashes and failed database calls
  MaxControls    \* bound: operator commands

ASSUME RowsAssumption == /\ Rows \subseteq Nat \ {0}
                         /\ IsFiniteSet(Rows)
                         /\ OperatorRows \subseteq Rows
                         /\ InvalidRows \subseteq Rows
                         /\ AllowedRows \subseteq Rows
ASSUME WorkersAssumption == /\ DryTicks \subseteq Ticks
                            /\ SlowTicks \subseteq Ticks
ASSUME BoundsAssumption == /\ BatchSize \in Nat \ {0}
                           /\ MaxAttempts \in Nat \ {0}
                           /\ MaxFaults \in Nat
                           /\ MaxControls \in Nat

VARIABLES
  status,      \* status[r]: status of the outbox row, "none" before INSERT
  attempts,    \* attempts[r]: attempt_count
  waiting,     \* waiting[r]: next_attempt_at is in the future
  aged,        \* aged[r]: locked_at is older than lock_seconds
  action,      \* action[r]: status of the crm_agent_actions row behind r
  conv,        \* the conversation: who owns it, whether it is open
  tick,        \* tick[w]: where worker w stands
  call,        \* call[c]: where HTTP request c stands
  op,          \* op[o]: the command operator o has validated, or "none"
  posts,       \* posts[r]: calls to the provider for row r
  accepted,    \* accepted[r]: of those, the ones the provider accepted
  lost,        \* lost[r]: acceptances that no row update recorded
  executions,  \* executions[r]: crm_action_executions of the row, in order
  audited,     \* audited[r]: outbox.sent_after_cancel was written
  revoked,     \* rows an operator cancelled before their last status check
  faults,      \* faults so far, bounded by MaxFaults
  controls     \* operator commands so far, bounded by MaxControls

rowVars   == <<status, attempts, waiting, aged>>
provider  == <<posts, accepted, lost>>
vars == <<status, attempts, waiting, aged, action, conv, tick, call, op, posts,
          accepted, lost, executions, audited, revoked, faults, controls>>

Statuses == {"none", "planned", "locked", "sending", "sent", "failed", "cancelled"}
Terminal == {"sent", "failed", "cancelled"}
ActionStatuses == {"none", "decided", "proposed", "planned", "executed", "failed", "cancelled"}
Answers  == {"sent", "lostAck", "unavailable", "rejected"}
Retryable == {"lostAck", "unavailable"}
NoRow == 0

TickPcs == {"idle", "load", "recheck", "owner", "void", "voidAction", "voidRecord",
            "cleared", "settle", "book", "executed", "failure", "requeue", "giveUp", "escalate"}
CallPcs == {"idle", "lock", "reread", "send", "post", "finalize"}
Modes   == {"lockOnly", "plannedSend", "recover"}
Commands == {"take", "release", "pause", "close", "reopen", "reply"}
ExecutionRecords == [attempt : Nat, status : {"succeeded", "failed", "cancelled"}]

IdleTick == [pc |-> "idle", batch |-> {}, row |-> NoRow, attempt |-> 0, answer |-> "rejected"]
IdleCall == [pc |-> "idle", mode |-> "lockOnly", queue |-> {}, held |-> {},
             row |-> NoRow, answer |-> "rejected"]

RowTypes == /\ status \in [Rows -> Statuses]
            /\ attempts \in [Rows -> Nat]
            /\ waiting \in [Rows -> BOOLEAN]
            /\ aged \in [Rows -> BOOLEAN]
ActionType == action \in [Rows -> ActionStatuses]
ConvType == conv \in [human : BOOLEAN, ai : BOOLEAN, closed : BOOLEAN, window : BOOLEAN]
TickRecords == [pc : TickPcs, batch : SUBSET Rows, row : Rows \cup {NoRow},
                attempt : Nat, answer : Answers]
TickType == tick \in [Ticks -> TickRecords]
CallRecords == [pc : CallPcs, mode : Modes, queue : SUBSET Rows, held : SUBSET Rows,
                row : Rows \cup {NoRow}, answer : Answers]
CallType == call \in [Calls -> CallRecords]
OpType == op \in [Operators -> Commands \cup {"none", "replying"}]
ProviderTypes == /\ posts \in [Rows -> Nat]
                 /\ accepted \in [Rows -> Nat]
                 /\ lost \in [Rows -> Nat]
ExecutionType == executions \in [Rows -> Seq(ExecutionRecords)]
RecordTypes == /\ audited \in [Rows -> BOOLEAN]
               /\ revoked \in SUBSET Rows
BudgetTypes == faults \in 0..MaxFaults /\ controls \in 0..MaxControls

TypeOK == /\ RowTypes /\ ActionType /\ ConvType
          /\ TickType /\ CallType /\ OpType
          /\ ProviderTypes /\ ExecutionType /\ RecordTypes /\ BudgetTypes

Init ==
  /\ status = [r \in Rows |-> "none"]
  /\ attempts = [r \in Rows |-> 0]
  /\ waiting = [r \in Rows |-> FALSE]
  /\ aged = [r \in Rows |-> FALSE]
  /\ action = [r \in Rows |-> "none"]
  /\ conv = [human |-> FALSE, ai |-> TRUE, closed |-> FALSE, window |-> TRUE]
  /\ tick = [w \in Ticks |-> IdleTick]
  /\ call = [c \in Calls |-> IdleCall]
  /\ op = [o \in Operators |-> "none"]
  /\ posts = [r \in Rows |-> 0]
  /\ accepted = [r \in Rows |-> 0]
  /\ lost = [r \in Rows |-> 0]
  /\ executions = [r \in Rows |-> << >>]
  /\ audited = [r \in Rows |-> FALSE]
  /\ revoked = {}
  /\ faults = 0
  /\ controls = 0

-----------------------------------------------------------------------------
(* Statements the writers share. *)

\* SELECT ... WHERE status = 'planned' AND next_attempt_at is null or due.
Candidates == {r \in Rows : status[r] = "planned" /\ ~waiting[r]}

\* SELECT ... WHERE status = 'locked' AND locked_at is older than lock_seconds.
StaleLocks == {r \in Rows : status[r] = "locked" /\ aged[r]}

\* ORDER BY planned_at, id LIMIT n.  (A mutation: OneTooFew is off by one.)
OneTooFew(S, n) == {r \in S : Cardinality({s \in S : s < r}) + 1 < n}
FirstOf(S, n) == {r \in S : Cardinality({s \in S : s < r}) < n}
IsFirst(r, S) == r \in S /\ \A s \in S : r <= s

\* A failed database call or a crash, drawn from the budget.
Fault == faults < MaxFaults /\ faults' = faults + 1

\* The WHERE clauses that make a claim and a settlement compare-and-set.  An
\* Any... operator is its clause forgotten, a mutation kept for comparison.
AnyRowLockable(r) == TRUE
Lockable(r) == status[r] = "planned"
AnyRowSettles(r) == TRUE
StillLocked(r) == status[r] = "locked"

\* lockOutboxRecord: status alone is tested, next_attempt_at is not.
Lock(r) ==
  /\ status' = IF Lockable(r) THEN [status EXCEPT ![r] = "locked"] ELSE status
  /\ aged' = IF Lockable(r) THEN [aged EXCEPT ![r] = FALSE] ELSE aged

\* markActionExecuted, markActionFailed and the worker's own cancellation; a
\* row without an action updates nothing.  MoveAnyAction is the mutation that
\* forgets the status guard.
MoveAnyAction(r, to) ==
  action' = IF action[r] # "none" THEN [action EXCEPT ![r] = to] ELSE action
MoveAction(r, to) ==
  action' = IF action[r] \in {"proposed", "planned"}
            THEN [action EXCEPT ![r] = to] ELSE action

Record(r, n, outcome) ==
  executions' = [executions EXCEPT ![r] = Append(@, [attempt |-> n, status |-> outcome])]

\* One call to the Meta client: what the caller is told, and whether the
\* provider took the message.  A timeout ("lostAck") hides an acceptance.
Deliver(r, answer) ==
  /\ posts' = [posts EXCEPT ![r] = @ + 1]
  /\ accepted' = [accepted EXCEPT ![r] = IF answer \in {"sent", "lostAck"} THEN @ + 1 ELSE @]
  /\ lost' = [lost EXCEPT ![r] = IF answer = "lostAck" THEN @ + 1 ELSE @]

\* A tick past the claim of r and not yet done with it.
Engaged(w, r) == tick[w].row = r
\* A tick that has read the row's status for the last time before the provider
\* call; a later cancellation of the row goes unseen.
PastRecheck(w, r) == tick[w].row = r /\ tick[w].pc \in {"owner", "cleared"}

\* Time passes: a backoff elapses, a lock outlives lock_seconds.  A tick that
\* still works on the row keeps its lock young unless it is one of SlowTicks.
BackoffElapses(r) ==
  /\ waiting[r]
  /\ waiting' = [waiting EXCEPT ![r] = FALSE]
  /\ UNCHANGED <<status, attempts, aged, action, conv, tick, call, op, provider,
                 executions, audited, revoked, faults, controls>>

LockAges(r) ==
  /\ status[r] = "locked" /\ ~aged[r]
  /\ \A w \in Ticks : Engaged(w, r) => w \in SlowTicks
  /\ aged' = [aged EXCEPT ![r] = TRUE]
  /\ UNCHANGED <<status, attempts, waiting, action, conv, tick, call, op, provider,
                 executions, audited, revoked, faults, controls>>
=============================================================================
