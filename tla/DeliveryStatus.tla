--------------------------- MODULE DeliveryStatus ---------------------------
(***************************************************************************)
(* What happens to a message after Meta has accepted it.  The sender writes *)
(* the provider's id on the outbox row and then inserts the message of the  *)
(* timeline; meanwhile Meta posts its delivery statuses, more than once and *)
(* in any order, and applyMetaDeliveryStatus projects each on the message   *)
(* and on the row, in separate statements, from what it read before.        *)
(***************************************************************************)
EXTENDS Naturals

CONSTANTS
  Sends,          \* messages handed to Meta
  PublicId,       \* PublicId[s]: the public_id the sender builds for s
  Handlers,       \* concurrent webhook requests
  MaxDuplicates,  \* bound: posts of a status that was already answered 200
  MaxFaults       \* bound: failed database calls and crashes

ASSUME SendsAssumption == 0 \notin Sends
ASSUME LimitsAssumption == MaxDuplicates \in Nat /\ MaxFaults \in Nat

VARIABLES
  stage,       \* stage[s]: what the sender has done
  message,     \* message[s].status in the timeline, or "none"
  row,         \* row[s].provider_status, "null", or "none" when no row has the id
  posted,      \* posted[s]: statuses Meta has reached for s
  answered,    \* answered[s]: those it has got a 200 for
  duplicates,  \* posts after the answer
  handler,     \* handler[h]: where request h stands
  outcomes,    \* outcomes[s][t]: delivery outcomes t recorded by the webhook
  overlapped,  \* sends two requests have handled at the same time
  mixed,       \* those for which they held different statuses
  missed,      \* sends a status of which came before the message was there
  misread,     \* sends a read of which has failed
  faults       \* faults so far

sender == <<stage, duplicates>>
history == <<overlapped, mixed, missed, misread>>
vars == <<sender, message, row, posted, answered, handler, outcomes, history, faults>>

Statuses == {"sent", "delivered", "read", "failed"}
NoHandler == [pc |-> "idle", send |-> 0, status |-> "sent", message |-> "none", row |-> "none"]
Pcs == {"idle", "message", "project", "row", "projectRow", "outcome", "answer"}
Columns == Statuses \cup {"null", "none"}

DeliveryTypeOK ==
  /\ stage \in [Sends -> {"posting", "accepted", "recorded", "done"}]
  /\ message \in [Sends -> Columns \ {"null"}] /\ row \in [Sends -> Columns]
  /\ posted \in [Sends -> SUBSET Statuses]
  /\ answered \in [Sends -> SUBSET Statuses]
  /\ \A s \in Sends : /\ answered[s] \subseteq posted[s]
                      /\ posted[s] # {} => stage[s] # "posting"
  /\ duplicates \in 0..MaxDuplicates
  /\ handler \in [Handlers -> [pc : Pcs, send : Sends \cup {0}, status : Statuses,
                               message : Columns, row : Columns]]
  /\ outcomes \in [Sends -> [Statuses -> Nat]]
  /\ mixed \subseteq overlapped /\ overlapped \subseteq Sends
  /\ missed \subseteq Sends /\ misread \subseteq Sends
  /\ faults \in 0..MaxFaults

Init ==
  /\ stage = [s \in Sends |-> "posting"]
  /\ message = [s \in Sends |-> "none"] /\ row = [s \in Sends |-> "none"]
  /\ posted = [s \in Sends |-> {}] /\ answered = [s \in Sends |-> {}]
  /\ duplicates = 0
  /\ handler = [h \in Handlers |-> NoHandler]
  /\ outcomes = [s \in Sends |-> [t \in Statuses |-> 0]]
  /\ overlapped = {} /\ mixed = {} /\ missed = {} /\ misread = {}
  /\ faults = 0

Fault == faults < MaxFaults /\ faults' = faults + 1
webhook == <<posted, answered, handler, outcomes, history>>

-----------------------------------------------------------------------------
(* The sender. *)

Accept(s) ==
  /\ stage[s] = "posting"
  /\ stage' = [stage EXCEPT ![s] = "accepted"]
  /\ UNCHANGED <<message, row, duplicates, webhook, faults>>

\* The tick leaves provider_status as it is, the HTTP worker sets it; the UPDATE
\* finds no row when the row was cancelled meanwhile, or fails; a manual reply
\* has no row.
Record(s) ==
  /\ stage[s] = "accepted"
  /\ stage' = [stage EXCEPT ![s] = "recorded"]
  /\ \/ \E p \in {"null", "sent", "none"} : row' = [row EXCEPT ![s] = p]
        /\ UNCHANGED faults
     \/ Fault /\ UNCHANGED row
  /\ UNCHANGED <<message, duplicates, webhook>>

\* (A mutation: the message is inserted without a status.)
NullStatus == "null"
InsertedStatus == "sent"

\* public_id is unique: the INSERT of a second message with the same one fails,
\* like any other failure unnoticed.
Taken(s) == \E r \in Sends \ {s} : message[r] # "none" /\ PublicId[r] = PublicId[s]

Persist(s) ==
  /\ stage[s] = "recorded"
  /\ stage' = [stage EXCEPT ![s] = "done"]
  /\ \/ /\ message' = IF Taken(s) THEN message ELSE [message EXCEPT ![s] = InsertedStatus]
        /\ UNCHANGED faults
     \/ Fault /\ UNCHANGED message
  /\ UNCHANGED <<row, duplicates, webhook>>

CrashSender(s) ==
  /\ Fault
  /\ stage[s] \in {"accepted", "recorded"}
  /\ stage' = [stage EXCEPT ![s] = "done"]
  /\ UNCHANGED <<message, row, duplicates, webhook>>

-----------------------------------------------------------------------------
(* Meta. *)

\* sent, then delivered, then read; or a failure, before the delivery.
Reach(s, t) ==
  /\ stage[s] # "posting" /\ t \notin posted[s]
  /\ \/ t = "sent" /\ posted[s] = {}
     \/ t = "delivered" /\ posted[s] = {"sent"}
     \/ t = "read" /\ posted[s] = {"sent", "delivered"}
     \/ t = "failed" /\ posted[s] \subseteq {"sent"}
  /\ posted' = [posted EXCEPT ![s] = @ \cup {t}]
  /\ UNCHANGED <<sender, message, row, answered, handler, outcomes, history, faults>>

\* A request comes in with a status; the later may come before the earlier.
Post(h, s, t) ==
  /\ handler[h].pc = "idle" /\ t \in posted[s]
  /\ IF t \in answered[s]
     THEN duplicates < MaxDuplicates /\ duplicates' = duplicates + 1
     ELSE UNCHANGED duplicates
  /\ handler' = [handler EXCEPT ![h] =
       [NoHandler EXCEPT !.pc = "message", !.send = s, !.status = t]]
  /\ LET others == {g \in Handlers : handler[g].send = s} IN
     /\ overlapped' = IF others # {} THEN overlapped \cup {s} ELSE overlapped
     /\ mixed' = IF \E g \in others : handler[g].status # t THEN mixed \cup {s} ELSE mixed
  /\ UNCHANGED <<stage, message, row, posted, answered, outcomes, missed, misread, faults>>

-----------------------------------------------------------------------------
(* applyMetaDeliveryStatus. *)

\* (A mutation: "read" may be undone.)
ReadMayChange(current, next) ==
  \/ current \in {"null", "none", "read"}
  \/ current = "delivered" /\ next = "read"
  \/ current = "sent" /\ next \in {"delivered", "read", "failed"}
ShouldProject(current, next) ==
  \/ current \in {"null", "none"}
  \/ current = "delivered" /\ next = "read"
  \/ current = "sent" /\ next \in {"delivered", "read", "failed"}

\* A read that fails, or finds nothing, answers 200: message_not_found.
ReadMessage(h) ==
  LET s == handler[h].send IN
  /\ handler[h].pc = "message"
  /\ \/ /\ handler' = [handler EXCEPT ![h].message = message[s],
                         ![h].pc = IF message[s] = "none" THEN "answer" ELSE "project"]
        /\ missed' = IF message[s] = "none" THEN missed \cup {s} ELSE missed
        /\ UNCHANGED <<misread, faults>>
     \/ /\ Fault /\ misread' = misread \cup {s} /\ UNCHANGED missed
        /\ handler' = [handler EXCEPT ![h].pc = "answer"]
  /\ UNCHANGED <<sender, message, row, posted, answered, outcomes, overlapped, mixed>>

\* A throw answers 500, and Meta posts the status again.  (A mutation: Swallow
\* answers 200.)
Swallow(h) == handler' = [handler EXCEPT ![h].pc = "answer"]
Throw(h) == handler' = [handler EXCEPT ![h] = NoHandler]

\* The UPDATE does not look at the status again.
ProjectMessage(h) ==
  LET s == handler[h].send IN
  /\ handler[h].pc = "project"
  /\ \/ /\ message' = IF ShouldProject(handler[h].message, handler[h].status)
                      THEN [message EXCEPT ![s] = handler[h].status] ELSE message
        /\ handler' = [handler EXCEPT ![h].pc = "row", ![h].message = "none"]
        /\ UNCHANGED faults
     \/ Fault /\ Throw(h) /\ UNCHANGED message
  /\ UNCHANGED <<sender, row, posted, answered, outcomes, history>>

ReadRow(h) ==
  LET s == handler[h].send IN
  /\ handler[h].pc = "row"
  /\ \/ /\ handler' = [handler EXCEPT ![h].pc = "projectRow", ![h].row = row[s]]
        /\ UNCHANGED <<misread, faults>>
     \/ /\ Fault /\ misread' = misread \cup {s}
        /\ handler' = [handler EXCEPT ![h].pc = "projectRow"]
  /\ UNCHANGED <<sender, message, row, posted, answered, outcomes, overlapped, mixed, missed>>

\* Without a row that was read as projectable there is no outcome.  (A mutation:
\* EveryOutcome records one for each status that comes in.)
EveryOutcome(h) == handler[h].row # "none"
HasOutcome(h) == handler[h].row # "none" /\ ShouldProject(handler[h].row, handler[h].status)

ProjectRow(h) ==
  LET s == handler[h].send IN
  /\ handler[h].pc = "projectRow"
  /\ \/ /\ row' = IF ShouldProject(handler[h].row, handler[h].status) /\ row[s] # "none"
                  THEN [row EXCEPT ![s] = handler[h].status] ELSE row
        /\ handler' = [handler EXCEPT ![h].pc = IF HasOutcome(h) THEN "outcome" ELSE "answer",
                                      ![h].row = "none"]
        /\ UNCHANGED faults
     \/ Fault /\ Throw(h) /\ UNCHANGED row
  /\ UNCHANGED <<sender, message, posted, answered, outcomes, history>>

\* recordDeliveryOutcome is best-effort.
RecordOutcome(h) ==
  /\ handler[h].pc = "outcome"
  /\ \/ outcomes' = [outcomes EXCEPT ![handler[h].send][handler[h].status] = @ + 1]
        /\ UNCHANGED faults
     \/ Fault /\ UNCHANGED outcomes
  /\ handler' = [handler EXCEPT ![h].pc = "answer"]
  /\ UNCHANGED <<sender, message, row, posted, answered, history>>

Answer(h) ==
  /\ handler[h].pc = "answer"
  /\ \/ answered' = [answered EXCEPT ![handler[h].send] = @ \cup {handler[h].status}]
        /\ UNCHANGED faults
     \/ Fault /\ UNCHANGED answered
  /\ Throw(h)
  /\ UNCHANGED <<sender, message, row, posted, outcomes, history>>

Crash(h) ==
  /\ Fault
  /\ handler[h].pc # "idle" /\ Throw(h)
  /\ UNCHANGED <<sender, message, row, posted, answered, outcomes, history>>

HandlerStep(h) == \/ ReadMessage(h) \/ ProjectMessage(h) \/ ReadRow(h) \/ ProjectRow(h)
                  \/ RecordOutcome(h) \/ Answer(h)
SenderStep(s) == Accept(s) \/ Record(s) \/ Persist(s)

Next ==
  \/ \E s \in Sends : SenderStep(s) \/ CrashSender(s) \/ \E t \in Statuses : Reach(s, t)
  \/ \E h \in Handlers : \/ \E s \in Sends, t \in Statuses : Post(h, s, t)
                         \/ HandlerStep(h) \/ Crash(h)

Spec == Init /\ [][Next]_vars

\* A request runs to its end; Meta posts what it has no answer for again and again.
Redelivery(s, t) == t \notin answered[s] /\ \E h \in Handlers : Post(h, s, t)
FairSpec == /\ Spec
            /\ \A h \in Handlers : WF_vars(HandlerStep(h))
            /\ \A s \in Sends, t \in Statuses : SF_vars(Redelivery(s, t))

-----------------------------------------------------------------------------
(* Properties. *)

Rank == [none |-> 0, null |-> 0, sent |-> 1, delivered |-> 2, read |-> 3, failed |-> 4]
\* current says at least as much as t: a message that failed, or was delivered,
\* stays so.
Covers(current, t) == \/ current = "failed" \/ Rank[t] <= Rank[current]
                      \/ t = "failed" /\ current \in {"delivered", "read"}
Forward(old, new) ==
  old # new => Rank[old] < Rank[new] /\ ~(old \in {"delivered", "read"} /\ new = "failed")

\* "an out-of-order webhook": unless two requests handle different statuses of a
\* message at once, or a read fails, neither its status nor its row's ever goes
\* back, whatever the order, the repetitions, and the requests that die half-way.
StatusMovesForward ==
  [][\A s \in Sends \ (mixed \cup misread) :
       (row[s] # "none" => Forward(row[s], row'[s])) /\ Forward(message[s], message'[s])]_vars

\* A status that was answered 200 is not lost: the message, and its row if it has one, say
\* at least as much from then on, unless different statuses of the message were handled at
\* once, a read failed, or one came before the message.
AcknowledgedIsProjected ==
  \A s \in Sends \ (mixed \cup missed \cup misread) : \A t \in answered[s] :
    Covers(message[s], t) /\ (row[s] # "none" => Covers(row[s], t))

\* "a duplicate or out-of-order webhook must not create a duplicate outcome row",
\* unless two requests overlap or a read fails.
OneOutcomePerStatus ==
  \A s \in Sends \ (overlapped \cup misread) : \A t \in Statuses : outcomes[s][t] <= 1

\* What a request works on, until it answers, throws or dies.
HeldBy(x) == IF x.pc = "idle" THEN {} ELSE {<<x.send, x.status>>}
Held == [h \in Handlers |-> HeldBy(handler[h])]

Contract == INSTANCE DeliveryContract WITH Requests <- Handlers, held <- Held

\* Requests that read, project and answer in separate statements, repeated and out of
\* order, half-finished by failures and crashes, together implement the contract: a
\* status is projected forward on what is there, counted once and acknowledged only when
\* message and row say as much.
KeepsDeliveryContract == Contract!Spec

\* Every status is projected on the message and on its row in the end, when each
\* came after the message and no other was handled with it: a failed UPDATE, a
\* crash and a lost answer are made good by the redelivery.
EveryStatusIsProjected ==
  \A s \in Sends, t \in Statuses :
    [](s \notin mixed \cup missed \cup misread)
      => (t \in posted[s] ~> Covers(message[s], t)
                             /\ (row[s] # "none" => Covers(row[s], t)))

\* "Canonical outbound message exists for the HUB timeline": without faults a message
\* that was sent is there when its sender is done.  The second public_id breaks it.
SentIsInTimeline == faults = 0 => \A s \in Sends : stage[s] = "done" => message[s] # "none"
=============================================================================
