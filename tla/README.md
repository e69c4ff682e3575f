# A verification of the CRM's autonomous messaging

CRM-Customer-360 answers customers on WhatsApp, partly by itself and partly
through operators. What it may never do is what no unit test of it reaches:
send a message twice, send after an operator took the conversation over, lose
a message that came in or is queued, let a late delivery status undo an earlier
one, run a scheduled follow-up the customer has already answered, lose track of a
request, replace a quote the customer accepted, or move a conversation to another
customer's account. Those promises rest on a few
`UPDATE ... WHERE status = ...` statements and unique keys, used by independent
processes (webhook requests, agent cycles, the autonomous outbox worker, the
HTTP outbox worker, operators' requests, the follow-up worker and ticks).
This directory models those processes statement by statement, checks the models
with TLC and proves theorems about them with TLAPS.

## 1. The system

| part | state it keeps | operations | modelled in |
| --- | --- | --- | --- |
| outbox table (`brain_message_outbox`) | status, attempt_count, next_attempt_at, locked_at of each row | insert, lock, settle, requeue, cancel | `OutboxTable` |
| autonomous outbox worker (`autonomousOutboxTick.ts`) | none but the batch in memory | `runOutboxTick` | `OutboxTick` |
| HTTP outbox worker (`outboxWorker.ts`) | none but the batch in memory | lockOnly, planned send, sendLocked recovery | `OutboxWorker` |
| conversation control (`control.ts`, `manual-reply.ts`) | owner, AI switch, open/closed, 24 h window | take, release, pause, close, reopen, reply | `ConversationControl` |
| action queue, execution gate, bridge | status of `crm_agent_actions`, `crm_action_executions` | persist, gate, mark executed/failed | `Outbox` (partly) |
| Meta client | none; the provider's side is external | one call, four answers | `Deliver` in `OutboxTable` |
| follow-up worker (`runFollowupTick.ts`) | status of `schedule_followup` actions | select, check, claim, run, conclude, cancel | `FollowupWorker` |
| inbound webhook (`route.ts`, `service.ts`) | conversation, messages, customer, external identity | post, dedupe, resolve or create the customer, store, run the cycle | `Inbound` |
| outbound timeline (`outboundMessages.ts`), delivery statuses (`service.ts`) | message status, `provider_status` of the row, outcomes | record, insert, project a status | `DeliveryStatus` |
| conversation requests, turn plans, definitions, facts, escalations (`multi-request`, `conversation-request`) | request status, events, facts, open escalations, plan of a turn | one cycle per inbound message; a reduction | `RequestTable`, `TurnCycle` |
| escalation desk, quotes, request follow-ups | escalations, quote versions, follow-up actions | resolve, draft, send, decide, expire, schedule, tick | `RequestDesk` |
| native cycle, operational loop, policy, sales agent | decisions, commercial state | one turn per inbound message | seen as `Decide`, `Propose`, `RunCycle` |
| customer onboarding (`customer-onboarding/orchestrator.ts` and its tools) | `crm_customer_onboarding`, `customer_conversation_link`, accounts | one turn per message: load, look up, create, link, write back | `Onboarding` |
| capability gateway, CRM domains, decision logic | audit rows, commercial data | called from a turn | not modelled, section 5 |

The parts do not call each other: they meet in the tables. An agent cycle
inserts an action, the gate turns it into an outbox row, a worker polls the
row, the operator's transaction cancels rows and actions, the webhook changes
the conversation. There is no queue, no lock held across statements (the gate
and takeover transactions excepted) and no leader: exclusion is the
compare-and-set of one UPDATE, and every other read is stale once it returns.

What is hard, and what the models are about:

* **interleaving**: everything between the SELECT of a batch and the final
  UPDATE of a row, across workers of two kinds, operators and cycles;
* **failure**: `safeExecute` swallows a failed statement and the code goes on;
  a process may die anywhere; a provider timeout hides an acceptance;
* **time**: a lock is judged stale by its age, a retry waits for its backoff,
  the 24 h window closes;
* **delivery**: Meta posts a payload until it is answered 200, also twice at
  once, and posts statuses out of order;
* **split updates**: a row, its action, its execution record and the audit
  entry are separate statements; so are a request, its events and its facts.

What each modelled part must satisfy is stated with the properties, in the
last sections of `Outbox`, `FollowupWorker`, `Inbound`, `DeliveryStatus`,
`Requests` and `Onboarding`. The hazards, each at its source line, are in `PROJECT.json`.

## 2. The modules

| module | contents |
| --- | --- |
| `OutboxTable` | constants, variables, types, initial state, the statements shared by all writers |
| `OutboxTick` | `runOutboxTick`, one action per statement, and the crash of a worker |
| `OutboxWorker` | `planOutboxWorkerRun`, one action per statement, and the crash of a request |
| `ConversationControl` | operator commands and replies, inbound messages, the window |
| `Outbox` | composes these with the agent cycle: `Next`, `Spec`, `Fairness`, the properties |
| `MessageContract` | the abstract specification: what the outbox promises about one message |
| `OutboxTypes` | theorem: the type invariant |
| `OutboxSafety` | theorems: finality, revocation, exclusive sending, accounting of copies, the budget of sends, execution records, the audit of late sends, actions and rows, the duplicates of slow workers, rows left sending |
| `OutboxRefinement` | theorem: the outbox implements `MessageContract` |
| `FollowupWorker` | `runFollowupTick` and everyone who touches a follow-up |
| `FollowupContract` | the abstract specification: what is promised about one follow-up |
| `FollowupProofs` | theorems: one run, kept cancellations, answered follow-ups, the refinement of `FollowupContract` |
| `Inbound` | Meta's payloads, the webhook handlers, customer and identity |
| `InboundContract` | the abstract specification: what the webhook promises of messages and payloads |
| `InboundProofs` | theorems: what a 200 promises, redeliveries, kept links, the refinement of `InboundContract` |
| `DeliveryStatus` | the sender's bookkeeping after an acceptance against the status webhooks |
| `DeliveryContract` | the abstract specification: what the webhook promises of the statuses of a message |
| `DeliveryProofs` | theorems: statuses move forward, outcomes are single, answered statuses are kept, the refinement of `DeliveryContract` |
| `RequestTable` | the tables of conversation requests, the transition and the reduction everybody uses |
| `TurnCycle` | `runMultiRequestAutonomousCycle`: plan, apply, reduce, work, mark |
| `RequestDesk` | operators, quotes, follow-ups of requests |
| `Requests` | composes the last three, with crashes; the properties |
| `RequestContract` | the abstract specification: what is promised about one request of a customer |
| `RequestProofs` | theorems: the transition table, plans, escalations, quotes, follow-ups, quiet requests are accounted for, warranties are never resolved, the refinement of `RequestContract` |
| `Onboarding` | `runCustomerOnboardingLoop`, overlapping turns included |
| `OnboardingContract` | the abstract specification: what is promised of a conversation's link, its account and its row |
| `OnboardingProofs` | theorems: completed conversations are linked, links are kept, the account is the one offered, the refinement of `OnboardingContract` |
| `MCInbound`, `MCDeliveryStatus`, `MCRequests`, `MCOnboarding` | instances and symmetry for TLC |

### How state and actions correspond to the code

A row's `status` is the column; `attempts` is `attempt_count`; `waiting` says
that `next_attempt_at` is still ahead; `aged` that `locked_at` is older than
`lock_seconds`. `action` is the status of the row's `crm_agent_actions` row
("decided" is an action that exists only in the memory of a cycle). `conv` is
the one conversation to which all rows belong.

A worker is a program counter and its local variables: `tick[w]` holds the rest
of the batch, the row in hand, the `attempt_count` read at load and the
provider's answer; `call[c]` the queue and the rows an HTTP request holds. One
action is one statement: `Recheck` and `CheckOwner` are the two reads of
`revalidateBeforeSend`, `Void`, `VoidAction` and `VoidRecord` the three writes
of `cancelLockedRow`, and so on; PROJECT.json names the lines of each. Each
disjunct with `Fault` is the same statement failing, with what the code then
does: a failed lock skips the candidate, a failed read of the row leaves it
locked, a failed read of the conversation lets the row through.

An operator's command is two actions, `Read` (validation) and `Commit` (the
transaction); `revoked` remembers the rows a commit cancelled while no worker
had read their status for the last time. `posts`, `accepted` and `lost` record
what the provider has seen: `lost` counts acceptances that the worker never
heard of (timeout) or could not write down (crash, failed UPDATE).

In `FollowupWorker` a follow-up is a `schedule_followup` action; `due`,
`expired`, `replied`, `barred` (the conversation is closed, paused or an
operator's) and `over` (the deal is finished) are what the worker's queries
derive from other tables. The sales agent cancels on its own, in two
statements, with no status guard on the second.

In `Inbound` a handler is one execution of `POST`: `todo` is what is left of its
payload, `old` the messages that were stored when it came in. Each database call
of `processNativeWhatsAppInbound` is an action, with its failure as a disjunct:
a failed lookup finds no duplicate, a failed read of the customer leaves the
message without one, whatever throws ends the payload with a 500. A number
belongs to one customer: the branches for conflicting identities are left out.
`misread` and `repeated` are history for `RedeliveryIsIdle`.

In `DeliveryStatus` the sender (tick, HTTP worker or manual reply) accepts,
records the provider's id on the row and inserts the message; a handler reads
the message, projects, reads the row, projects, records the outcome, answers.
The two projections are UPDATEs that do not look at the status again, so two
requests with different statuses of one message can undo each other: `mixed`
(and, for the outcome row, `overlapped`) name the messages this happened to. A
read that fails is answered 200 (`misread`), and so is a status that comes
before the message is in the timeline (`missed`). The properties exclude these
messages, because the code gives them no second chance, so that they do not cover
the overlap of different statuses itself; everything else, order, repetition,
crashes, failed UPDATEs, is covered.

In `Requests` a request is named by the turn that creates it (its creation key
derives from the message). `plan` and `stage` are the row of `crm_ai_turn_plans`,
`events` keeps the event types that a condition of a definition looks for,
`fact` holds the requests with an active fact of their kind. The nine definitions
have five shapes. Information is answered by a capability that can do with the text
of the message; an order must have its fact (`NeedsFact`) before its capability is
called; a warranty has a capability that cannot do without the fact (`NeedsInput`)
although its definition does not require it, and whose answer is recorded as another
event (`Emits`) than the one that resolves it (`ResolvedBy`); a quote is made by a
seller, a complaint handed to an operator. `executeRequestTurn` ends in `Skip`, with
nothing deferred and nothing reduced again, where it finds no input or the capability
calls its input invalid: nobody checks what a provider proposes as the value of a
fact, so that it may be blank. The capabilities of today's registry refuse nothing
but a blank input, which has been ruled out before they are called; `UseCapability`
allows the refusal all the same, as the code does.

A worker is a program counter with its local variables: `from` the status it loaded,
`to` the one it is about to write, `then` where the cycle goes on after a reduction,
`skipped` whether its work ended in `Skip`. A plan has one operation; reopening,
mentions, versions of a fact, the confirmation of facts, the completion of a
deferred action, the steps of an escalation between opening and closing, and the
grounded response are left out; of these only reopening moves a request, from
resolved back to active. A follow-up and a quote exist for kinds whose definition
has one, and a follow-up is scheduled once. Within `src/`, the cycle is called by
`native-cycle/runNativeAutonomousCycle.ts`; the operations of `RequestDesk` are
library functions that only tests call so far, and the model calls them in any
order.

In `Onboarding` a turn is one execution of `runCustomerOnboardingLoop`. It loads
the row and the link in two reads (`Load`), decides on the reply and on the tools
(`AlreadyLinked` to `Confirm` by what the message says and what was loaded), looks
the account up, creates it, links it in three statements (`check`, `upsert` or
`blind` when the look failed, `confirm`), and writes the whole row back from what
it loaded. An account is its address; a message is an address, several, a
confirmation with or without a name, or something else. `offer` is the last
address a reply offered to create an account for, `overlapped` names the
conversations in which a turn began while another was in progress: nothing in
the code keeps turns apart. What overlapping turns do to each other's offer, and
the link that one of them or a failed look replaces, are therefore excluded from
`OfferIsWhatIsMade` and from the contract, which cover the rest.

Simplifications worth knowing: the audit entry of a late send is written with
the update it follows; the status `approved` of actions is omitted (no endpoint
sets it); the clock is only the two facts above; all rows belong to one
conversation and so share its window, the worst case for takeovers; `BatchSize`
has to exceed the number of rows outside the allowlist, otherwise the code
starves the others (they stay planned at the head of every SELECT). No property
covers that hazard; `EveryRowSettles` is checked where the batch is large enough.

Definitions called mutations in their comments (`AnyRowLockable`,
`NeverSuperseded`, `IgnoreReplies`, ...) are what a guard would be if it were
forgotten or wrong. No action uses them. Replacing the guard by its mutation
must break the property that PROJECT.json pairs with it: this is how each
property is known to say something about the code.

## 3. What is checked

| run | instance | what it shows |
| --- | --- | --- |
| `OutboxTakeover` | 2 workers, 2 rows of which one is admitted, batches of 2, 2 attempts, 2 operators, 2 commands | what was cancelled before its last check is never sent, row and action agree, late sends are audited; admitted rows settle and no worker keeps a row |
| `OutboxRecovery` | a real and a dry-run worker, 1 HTTP request, an invalid operator row and an agent row, 1 cycle, 1 operator, 1 fault | exclusive sending, duplicates only for lost acknowledgements, terminal rows are final, the refinement of `MessageContract` |
| `Followups` | 2 workers, 2 follow-ups (one without conversation), batches of 1, 1 fault | at most one run, answered follow-ups not run, the refinement of `FollowupContract`: claimed when due, run by who claimed it, concluded after its cycle, cancelled for good; due follow-ups are taken or expire also when a worker crashes, claims are concluded |
| `Inbound` | 2 handlers, 4 messages of 2 contacts (one refused) in 2 payloads, 1 duplicate post, 1 fault | a 200 loses nothing, a redelivery runs no second cycle, the refinement of `InboundContract`: one cycle per admission and after the message is stored, a customer is not unlinked; every message gets its cycle |
| `Delivery` | 2 handlers, 1 message, 1 duplicate post, 1 fault | one outcome for each status, the refinement of `DeliveryContract`: a status is projected forward, counted when the row says as much, acknowledged when message and row do; every status is projected in the end |
| `Requests` | 3 cycles of 2 turns, two of them of one message, kinds complaint, order and warranty, 1 fault | one plan per turn, one open escalation, what becomes of every request of a quiet conversation, the refinement of `RequestContract`: a request moves for a recorded reason |
| `RequestDesk` | 1 cycle, 1 operator, 2 sellers, 2 ticks, kinds complaint and quote, 2 versions, 1 fault | one current quote, a follow-up runs once, the refinement of `RequestContract`: an accepted quote is kept, what is settled stays settled |
| `Onboarding` | 1 conversation, 2 turns that may overlap, 3 addresses of which one has an account, 2 faults | a completed conversation is linked; the account that is created is the one last offered; the refinement of `OnboardingContract`: linked to existing accounts, at addresses written in the conversation, a link is not replaced |

Four more runs refute sentences of the repository; each is a finding in
PROJECT.json with the sentence quoted.

| run | sentence | what happens |
| --- | --- | --- |
| `FindSlowLock` | concurrent workers never double-send | a worker slower than `lock_seconds` and a sendLocked recovery both send |
| `FindTimeline` | the canonical message of a sent row exists | two messages of a conversation get one `public_id`; the second INSERT fails unnoticed |
| `FindLostSwap` | a lost swap is harmless | the loser's decision was based on events the winner had not seen, and nobody decides again |
| `FindFollowupRace` | a follow-up only executes if the request is workable and no human owns it | the request is resolved or handed over between the tick's checks and its claim |

Also seen in the models, but not written as runs because no sentence of the
repository speaks of them: a takeover and a release between the two reads of a
revalidation let a cancelled row pass; a failed read of the conversation counts
as no conversation; the action of a delivered message can be cancelled; the sales
agent's cancellation rewrites an executed follow-up; a customer created by a
request that dies before linking the identity makes every later message of that
number end in a 500; an operator who hands a request back while its `escalated`
event stays in the log has it parked again by the next reduction; overlapping
onboarding turns of a conversation replace its link, or create an account for an
address that was not the last one offered; after the handoff for a conflicting
email the next message completes the row with that email; a customer who gives
only a name after confirming is asked to confirm again.

A warranty is never resolved. A comment at `executeRequestTurn.ts:83` says of a
capability that "a found-or-not-found answer both resolve the request", but
`find_order` answers with `order_status_provided` (`executeReadCapability.ts:26`)
and `warranty` is resolved by `information_provided` alone (`definitions.ts:90`).
The answered request stays active with nothing deferred, and every later cycle
that works on it answers it again. Without an order identifier its cycle ends in
`no_input_available` (`executeRequestTurn.ts:73`): nothing is asked, attempted or
deferred. Both are in the model, `RequestsAreAccountedFor` names them
(`AnsweredInVain`, `Skipped`), and the theorem `WarrantiesAreNeverResolved` says
that nothing else in the program resolves such a request either.

### Bounds, and why they are enough

Two workers of a kind give every race a compare-and-set can lose; a third would
only repeat the role of the second. Two attempts include a first failure, a
retry and the last attempt. One fault allows a lost acknowledgement, a crash
half-way, or a failed read, and leaves the recovery to work; that two failures
do not add up to more is what the theorems say, for any number of faults. Two
commands include a take and a release; two operators make a command stale when
it commits. The second row of each outbox run is there for batches, order,
invalid rows and starvation. Two payloads, one with two messages of a contact and
a refused one between, give a first message that races another payload of its
contact and a throw that leaves a payload half-done. Three cycles are an
overlap and a later message about the same request. Two ticks and two sellers
lose every race there is for a follow-up and a quote; two versions include a
superseded one. Two onboarding turns overlap in every way two can; a second
conversation would touch the first only through the accounts, and an account that
appears under a turn is what the overlapping turn makes. `MaxFaults`, `MaxControls`, `MaxDuplicates` and `MaxVersions` are
the only artificial bounds; attempts are bounded by the code itself.
`FindSlowLock` puts a worker in `SlowTicks`: the other runs assume, as the
default of 90 s against a provider timeout of a few seconds suggests, that a
live worker is done with a row before its lock ages. `CHECK_DEADLOCK FALSE` is
set where the instance really stops: everything handled, nobody left to post.

### Fairness

`scripts/autonomous-outbox-worker.ts` and `scripts/autonomous-followup-worker.ts`
loop for ever: tick, catch what it throws, sleep. A worker that can step
therefore does (weak fairness of `TickStep`, `WorkerStep`), and a backoff
elapses. A webhook request that was accepted runs to its end (weak fairness of
`HandlerStep`), and Meta repeats what it has no 200 for (strong fairness of
`Redelivery`: it tries again and again, and a handler is free again and again).
Nothing is assumed of operators, customers, HTTP requests, agent cycles
or the provider's answers. The outbox liveness properties are checked without
faults; `EveryDueFollowUpIsTaken` holds with a crashed worker, and
`EveryClaimConcludes` for behaviours without a fault. `EveryMessageIsAnswered` is
stated for behaviours without any: a message stored by a request that died before
its cycle is a duplicate when it comes again. `EveryStatusIsProjected` holds with
faults, since the redelivery makes up for them. A row left
`locked` or `sending` by a crash is not picked up by the autonomous worker, and
neither is a follow-up left `executing`; only sendLocked recovers the former,
and somebody has to request it. That is why no liveness is promised of them.

## 4. What is proved

TLAPS checks these for every value of the constants that satisfies the named
assumptions of the components' modules: rows and follow-ups are positive
identifiers (the set of rows is finite), messages are numbers and 0 is none of
those handed to Meta, addresses are no other words, the kinds of process are
disjoint, the dry and the slow workers are workers, a cycle has a turn, the limits
are natural numbers. Numbers of rows, workers, requests, operators, messages,
handlers, turns, attempts, faults and commands are arbitrary, and no theorem uses
fairness.

| theorem | statement | strengthening |
| --- | --- | --- |
| `TypeCorrectness` | the type invariant of the outbox | none: `TypeOK` is inductive, one lemma per conjunct |
| `TerminalRows` | sent, failed and cancelled are final (`TerminalIsFinal`) | `TypeOK` |
| `Revocation`, `RevokedRowsAreNotSent` | what was cancelled before its last check stays cancelled and is not posted | `RevocationInv` |
| `ExclusiveSending` | one sender per row, if `SlowTicks = {}` | `ExclusionInv` |
| `ExplainedDuplicates` | at most one copy more than lost acceptances, if `SlowTicks = {}` | `AccountInv` |
| `SendsAreBounded` | at most `MaxAttempts + 1` calls to the provider for a row (`BoundedSends`) | `BudgetInv` |
| `ExecutionsFollowAttempts` | records of a row follow its attempts (`OneExecutionPerAttempt`) | `RecordInv` |
| `LateSendsAreAudited` | an acceptance that a cancellation overtook is audited (`LateSendIsAudited`) | `AuditInv` |
| `ActionsFollowRows` | without faults an action says what became of its row (`ActionFollowsRow`), if `Calls = {}` | `ActionInv` |
| `DuplicatesAreAudited` | however slow workers are, at most one copy is not explained by a lost acceptance, and its worker audits it (`NoSilentDuplicate`) | `DuplicateInv` |
| `OrphanedSendsStay` | a sending row no request has in hand is never settled, cancelled or queued again (`OrphansStaySending`) | `TypeOK` |
| `OutboxKeepsContract` | the outbox implements `MessageContract` (`KeepsContract`), if `SlowTicks = {}` | `RefinementInv` |
| `FollowupTypeCorrectness` | the type invariant of the follow-up worker | none |
| `AtMostOneRun` | a follow-up's cycle runs at most once | `RunInv` |
| `CancellationsAreKept` | a cancelled follow-up stays cancelled (`CancellationIsKept`) | `FollowupTypeOK` |
| `FollowupsKeepTheirContract` | workers, the sales agent and crashes implement `FollowupContract` (`KeepsFollowupContract`) | `ContractInv`: what a worker has read of its follow-up is still so when it acts on it |
| `AnsweredFollowUpsAreLeft` | a follow-up answered before anyone had looked for an answer is not run, as long as no read fails | `HeardInv`: its reply is recorded, and no worker is past the read of replies with it |
| `InboundTypeCorrectness`, `AnsweredPayloadsAreStored`, `RedeliveriesAreIdle`, `LinksAreKept` | the types of the webhook; a 200 loses nothing (`AnsweredIsStored`); no second cycle (`RedeliveryIsIdle`); `LinkIsKept` | `InboundInv` |
| `InboundKeepsItsContract` | requests, redeliveries, failures and crashes implement `InboundContract` (`KeepsInboundContract`) | `InboundInv` |
| `DeliveryTypeCorrectness`, `OutcomesAreSingle`, `StatusesMoveForward` | the types of the projection; `OneOutcomePerStatus`; `StatusMovesForward` | `DeliveryInv` |
| `AnswersAreKept` | what was answered 200 is on the message and on its row (`AcknowledgedIsProjected`) | `AnswerInv`: a request past the projection of a status has left it, or a later one, on message and row |
| `DeliveryKeepsItsContract` | sender, requests, failures and crashes implement `DeliveryContract` (`KeepsDeliveryContract`) | `AnswerInv` |
| `RequestTypeCorrectness`, `TransitionsFollowTheTable`, `EscalationsAreSingle`, `PlansAreShared` | the types of the request tables; `StatusFollowsTable`; `OneOpenEscalation`; `PlanIsShared` | `RequestInv` |
| `QuotesAreSingle`, `AcceptedQuotesAreKept` | `OneCurrentQuote`; `AcceptedIsKept` | `QuoteInv` |
| `RequestFollowupsRunOnce` | `FollowupRunsOnce` | `FollowupInv` |
| `RequestsStayAccountedFor` | without faults a quiet conversation has no request whose fate is unknown (`RequestsAreAccountedFor`) | `AttendedInv`: a request that is not parked is in a cycle's hands, settled, or an operator closed an escalation of it |
| `WarrantiesAreNeverResolved` | no warranty is ever resolved (`NeverResolved`) | `WarrantyInv`: `information_provided` is recorded for requests of information only, escalations are closed of complaints only |
| `RequestsKeepTheirContract` | cycles, operators, sellers and ticks implement `RequestContract` (`KeepsRequestContract`) | `ActInv`: a worker that is about to move a request has read a recorded reason |
| `OnboardingTypeCorrectness`, `CompletedConversationsAreLinked` | the types of the onboarding; `CompletedIsLinked` | `OnboardingInv` |
| `BindingsAreKept` | a link is not replaced unless turns overlap or a look failed (`BindingIsKept`) | `BindingInv` |
| `OffersAreWhatIsMade` | an account is made for the address offered last (`OfferIsWhatIsMade`) | `OfferInv` |
| `OnboardingKeepsItsContract` | overlapping, failing and dying turns implement `OnboardingContract` (`KeepsOnboardingContract`) | `SeenInv`: what an orderly turn saw of the link is still so when it acts on it |

The argument for the outbox. A step of the specification is first reduced to
what it does to the statuses and to the rows in hand (`StepEffects`): a tick
moves the one locked row it holds (`TickMoves`) or claims a planned one
(`TickClaims`), a request keeps, locks, begins or ends rows (`CallMoves`),
everybody else may cancel planned and locked rows, insert rows and age locks
(`EnvMoves`). The invariants then follow from the effects, without looking at
the actions again.

Finality follows from the effects alone: no UPDATE starts from a terminal
status. Revocation needs `CallsSendAlone`, that a request holds for sending only
rows it moved to `sending` itself and no two requests hold the same: a revoked
row is cancelled, so no worker sees it locked again, no request begins it, and
none has it in hand (`RevocationInv`). Exclusive sending is not inductive: a worker's row may be
cancelled under its feet, and a request may take over a lock that has aged.
`ExclusionInv` adds why neither gives a second sender. A worker's row is locked
or terminal and no other worker's (`TicksHoldAlone`); a lock old enough for
recovery has no worker behind it (`StaleLocksAreFree`), which is where
`SlowTicks = {}` is needed, as `FindSlowLock` shows; rows a request has
reserved have none either (`ReservedRowsAreFree`). `AccountInv` adds the books
of the provider: an accepted row that is still live, and that no worker is
settling, has lost every acceptance (`CopiesAccounted`), so its next acceptance
is the only one the system knows of.

Five results need no limit on how slow a worker is, because they rest on
`BudgetInv` instead. A row in a worker's hands is neither absent nor queued, so no
two workers hold one (`TicksHoldOnce`), only the holder can queue it again, and
nobody else writes `attempt_count`: the attempt the holder has loaded is still the
row's (`AttemptsKnown`). A slow worker and a recovery may then both be about to call
the provider, each with a call of its own (`SendsBudgeted`). `RecordInv` adds that
the records of a queued row, and of a row whose holder has yet to write one, are of
earlier attempts; `AuditInv` that a live or cancelled row without an audit entry
owes at most the one acceptance its worker is settling; `ActionInv` that a finished
row whose action is still queued has a worker just before the statement that moves
it. That one assumes `Calls = {}`: an HTTP request ends rows and never touches the
action. `DuplicateInv` is what `FindSlowLock` leaves true when a worker does outlive
its lock: the worker calls the provider once while it holds the row and the recovery
once, so at most two acceptances are known (`CopiesKnown`); if the recovery was first
to end the row, the worker no longer finds it locked and audits its own acceptance,
and an audited row is never queued again (`AuditedAreDone`), so there is no third.
No run checks `NoSilentDuplicate`, whose violation takes a slow worker, a recovery
and two acknowledgements; the run `FindSlowLock` shows that its case occurs.
`OrphansStaySending` has no run either: it follows from the effects of the steps
alone.

For the refinement every effect of a step is mapped to a step of the contract or
to a stutter. `RefinementInv` is `AccountInv` and `SettledIsAccepted`: a row that a
worker is about to write as sent was accepted by the provider.

For follow-ups, `RunInv` says that between the claim and the conclusion a
follow-up has one worker and is neither absent nor planned, and that it has not
run before that worker starts its cycle; claims, and only they, make a planned
follow-up somebody's. A follow-up left `executing` by a crash is never planned
again, which is why crashes do no harm here (and why it stays executing).

`FollowupContract` has no workers: a follow-up is claimed, held, run and finished.
Who holds one is computed from the workers between their claim and their cycle.
`ContractInv` adds to `RunInv` what a worker relies on (`Knows`): its candidates are
due, the one it is about to claim names somebody to write to, the one it concludes
was run. A check or a poll is then a stutter, the claim's compare-and-set a `Claim`,
a missing conversation or a crash an `Abandon`. The contract says in passing that a
follow-up cancelled before its claim never runs, that one cancelled after it may
still run and stays cancelled, and that `executed` and `failed` always mean that the
cycle was started. `CancellationIsKept` follows from it, which is why no run lists
it; `CancellationsAreKept` proves it directly.

For the webhook and the onboarding the argument is one of growth: no request
deletes a customer, an identity, a link, a message or an account, so what a request
has seen stays true under all others. `RequestKnows` and `TurnKnows` say, for each
program counter, what that is: the rows its next statement refers to exist, the
messages of its payload are still to come, at hand or stored, the link it is about
to report is there. `BindingInv` adds that a conversation whose turns never
overlapped has one turn at a time, so that what the turn saw of the link is still
so when it writes. `OfferInv` follows the offer of such a conversation from the
message that made it into the row and into the turn that acts on it.

`InboundContract` knows neither program counters nor payloads in progress: a request
admits a message, registers and identifies its customer, stores the message, runs
its cycle, or gives up. `RequestKnows` is what each of these steps asks, so the proof
goes statement by statement (`HandsMove` carries a handler's step over to what it has
in hand). The contract leaves one thing open that the code leaves open: two requests
may admit the same message before either has stored it, and then both run a cycle;
what is stored is admitted again only if the duplicate lookup failed. `LinkIsKept`
follows from it and is proved directly as `LinksAreKept`; no run lists it.

`OnboardingContract` has no program counters either, but it follows the addresses: a
request has the one of its message and those it has read from the row of its
conversation, it may forget some and learns none from elsewhere. It may create, bind,
offer and write only addresses it has, so the contract says that no conversation is
linked to an account whose address was not written in it, which holds also for turns
that overlap and fail. (The run has one conversation and shows it of addresses nobody
wrote; that none comes from another conversation is the theorem's.) In the refinement these addresses are the message, the row as
loaded and the address at work (`Addresses`). `SeenInv` adds to `OfferInv` that the
link a turn has read is the one in the table, as long as the conversation's turns come
one after the other and nothing fails (`TurnSees`): accounts and offers are then made
only while there is no link. `BindingIsKept`, `OfferIsWhatIsMade` and
`CompletedIsLinked` follow; each is also proved directly.

For delivery statuses nothing grows: a request projects on a column it read before.
`MessageKnown` and `RowKnown` say what is left of that reading. While no request
with another status was in progress, the column still has the value read, or the
status itself, or (the row only) what the sender has written since; in each case the
projection moves forward, by `ProjectionsMoveForward`. `Counted` says that a status
with an outcome is one its row cannot take any more, `DoneStays` that no projection
makes it possible again.

`DeliveryContract` has no reads: a request takes a status up, projects it on the
message and on the row as these are now, counts it, and acknowledges it or gives up.
What a request read is old by the time it writes, so the proof has to show that the
write was still allowed, which is what `MessageKnown` and `RowKnown` are for; and
that an answer 200 is true of the columns at that moment. `AnswerInv` says of each
program counter which of the two projections is behind the request (`Projected`):
the message has the status or one it may not overwrite, then the row has too. Two
lemmas carry this over every step (`MessageStaysDone`, `SureRowStaysDone`), a third
one covers the request that found no row: a message that is in the timeline gets no
row any more (`RowStaysMissing`), because the sender writes the row first. That order
of the sender's two statements is why an early 200 is safe. The exceptions are in the
contract as they are in the code: requests with different statuses for one message
at once (`mixed`), a failed read (`misread`), and a status that came before its message
(`missed`), which is answered 200 and lost unless Meta repeats it. `StatusMovesForward`
and `AcknowledgedIsProjected` follow from the contract, which is why no run lists them.

For requests every step is reduced to what it does to each table (`TablesMove`):
the status moves along the table because each compare-and-set names the status it
starts from, a plan is stored once, an escalation is opened where none is open, a
draft supersedes what is current. `QuoteInv` and `FollowupInv` add to `RequestInv`
that the versions of a request have one current member, and that a follow-up has run
exactly when it is executed.

`RequestsAreAccountedFor` speaks of quiet states and says nothing about the steps
that lead there, so it is far from inductive. `WorkInv` says what each cycle knows of the
request in its hands: which events it has read, that a parked status is the one the
definition asks for, that an escalation is opened for a kind that has one.
`AttendedInv` adds who looks after a request while cycles are at work. A `detected`
request is in the hands of a cycle that has yet to activate it (`Creates`), an
`active` one is settled or in those of a cycle that has yet to reduce it, to answer
it or to escalate it (`Serves`). Settled are also a request whose answer is on its
trail and does not resolve it, and one that a cycle has skipped: a cycle that has
skipped its work has only the plan left to mark (`SkipIsLast`), so that its report
is never taken back. A cycle puts a request down only after the
statement that settles it, a lost swap included: whoever won it has settled or
taken over the request. When everybody rests, no hands are left.

That no warranty is ever resolved needs `ActInv`: a request becomes resolved only
where an operator has closed an escalation of it or the event its definition names is
on its trail (`ResolvedForAReason`, from the refinement). Only complaints have
escalations, and the event of a warranty, `information_provided`, is recorded only for
requests whose capability emits it, which are those of information.

`RequestContract` has no workers and no tables: a request with a status, and a trail
of reasons that is never shortened. In the refinement the trail is computed from what
is stored: the plans of the turns, the events, the escalations operators closed.
`ActInv` says that whoever is about to write a status has the reason in the tables
already: a cancellation comes from a stored plan, a reduction's target from an event
it has read, and since events, plans and closed escalations only grow
(`TrailsGrow`), the reason is there however old the reading is. Each action is then
a step of the contract or leaves it alone: a compare-and-set is one move, an INSERT
of a plan, of an event or of a closed escalation adds one reason, a draft supersedes
only quotes nobody has accepted, a tick's claim is the one chase. The table of
transitions lets a resolved request become active again; the contract does not, and
the proof shows that no writer in the model takes that edge: in the code it belongs to
the operation `reopen` alone, which is left out (section 5). `StatusFollowsTable`
and `AcceptedIsKept` follow from the contract, which is why no run lists them;
`TransitionsFollowTheTable` and `AcceptedQuotesAreKept` prove them directly.

The strengthenings were checked by TLC before they were proved: `AccountInv` and
`RunInv` on the instances of `OutboxRecovery` and `Followups`, `ContractInv` on the
latter, `AnswerInv` on that of `Delivery`, `SeenInv` on that of `Onboarding`, the
parts of `DuplicateInv` on the first 11 million states of an instance with slow
workers and two requests, `AttendedInv` and `ActInv` on those of `Requests` and `RequestDesk` and on larger ones with operators,
sellers and all kinds of requests.

Only model-checked is liveness under fairness (`EveryRowSettles`, `EveryClaimEnds`,
`EveryDueFollowUpIsTaken`, `EveryClaimConcludes`, `EveryMessageIsAnswered`,
`EveryStatusIsProjected`): fairness is about ENABLED, which is beyond the prover.
Every safety property of every passing run is proved.

## 5. What is not modelled

* **Decision logic** (prompts, scoring, policies, the single-intent pipeline, the
  planners): text and rules over commercial data, with no state shared between
  processes. The models see its outcome as a nondeterministic choice: an action is
  proposed or not, an operation is planned, a capability answers or fails.
* **Capability gateway**: it validates, calls, retries and writes an audit row; it
  keeps no state that a second caller reads. `TurnCycle` sees its four results:
  succeeded, unavailable or failed (both defer), invalid input.
* **CRM domains, user interface, catalog, infrastructure**: queries, single updates
  by one operator, rendering, schema scripts, authorisation.
* **Sending rows**: a `sending` row after a crash is never selected by any query;
  `OrphanedSendsStay` proves that nobody ever settles, cancels or queues it again.
* **Lock order** between the gate's and the takeover's transactions (a possible
  database deadlock) is below the grain of the models: a transaction is one action.
* **Rules of the execution gate and approvals**, the idempotency keys of actions and
  of rows: a row is inserted once in `Outbox`.
* Of the requests: reopening, the one operation that takes a request from resolved back
  to active (what the contract says of resolved requests is said of plans without it);
  several operations in one plan, the versions and confirmation of facts, mentions,
  rescheduling of deferred actions.

The HTTP worker sends a locked row without looking at the conversation and never
updates the agent action; the model does the same.

## 6. Plan

What is left, in order:

1. `ExecutionGate`: idempotency keys of actions and rows, approvals, duplicate
   INSERTs, the gate's transaction against the takeover's.
2. `TurnCycle` with several operations in a plan, and the versions of a fact
   (proposed, confirmed, superseded) in `RequestTable`.
3. The pure follow-up planner as operators against a reference definition.
