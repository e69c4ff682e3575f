------------------------------ MODULE Inbound ------------------------------
(***************************************************************************)
(* Meta's webhook and processNativeWhatsAppInbound.  Meta posts payloads of *)
(* several messages, posts a payload again until it is answered 200, and    *)
(* may post it twice at once.  A handler takes the messages one by one:     *)
(* duplicate lookup, identity, customer, one transaction for conversation,  *)
(* message and event, and then the agent's cycle.  Each database call is a  *)
(* step; whatever throws ends the payload with a 500.                       *)
(***************************************************************************)
EXTENDS Naturals

CONSTANTS
  Messages,       \* inbound messages, numbered in the order of a payload
  Contacts,       \* the numbers they come from
  From,           \* From[m]: the contact that wrote m
  Rejected,       \* messages the recipient allowlist refuses
  Payloads,       \* what Meta posts: sets of messages
  Handlers,       \* concurrent executions of POST
  MaxDuplicates,  \* bound: posts of a payload that was already answered 200
  MaxFaults       \* bound: failed database calls, lost answers and crashes

ASSUME MessagesAssumption == /\ Messages \subseteq Nat /\ Rejected \subseteq Messages
                             /\ From \in [Messages -> Contacts]
ASSUME PayloadsAssumption == Payloads \subseteq SUBSET Messages
ASSUME LimitsAssumption == MaxDuplicates \in Nat /\ MaxFaults \in Nat

VARIABLES
  sent,        \* payloads Meta has posted at least once
  answered,    \* payloads Meta has got a 200 for
  duplicates,  \* posts after the answer
  customer,    \* contacts with a row in master_customer (its email is unique)
  identity,    \* contacts with a row in customer_external_identity
  linked,      \* contacts whose conversation has its customer_id
  stored,      \* messages in conversation_message, each with its event
  handler,     \* handler[h]: where handler h stands
  cycles,      \* cycles[m]: agent cycles run for m
  misread,     \* messages whose duplicate lookup has failed
  repeated,    \* messages that got a cycle from a post made after their storage
  faults       \* faults so far

tables == <<customer, identity, linked, stored>>
meta == <<sent, answered, duplicates>>
history == <<cycles, misread, repeated>>
vars == <<meta, tables, handler, history, faults>>

Pcs == {"idle", "next", "lookup", "identity", "customer", "number", "create",
        "link", "store", "cycle"}
\* todo: messages left; msg: the one at hand; known: its customer was loaded;
\* old: those stored when the payload came in.
IdleHandler == [pc |-> "idle", payload |-> {}, todo |-> {}, msg |-> 0,
                known |-> FALSE, old |-> {}]
HandlerRecords == [pc : Pcs, payload : Payloads \cup {{}}, todo : SUBSET Messages,
                   msg : Messages \cup {0}, known : BOOLEAN, old : SUBSET Messages]

InboundTypeOK ==
  /\ sent \subseteq Payloads /\ answered \subseteq sent
  /\ duplicates \in 0..MaxDuplicates
  /\ customer \subseteq Contacts /\ identity \subseteq customer
  /\ linked \subseteq identity /\ stored \subseteq Messages \ Rejected
  /\ handler \in [Handlers -> HandlerRecords]
  /\ cycles \in [Messages -> Nat]
  /\ misread \subseteq Messages /\ repeated \subseteq stored
  /\ faults \in 0..MaxFaults

Init ==
  /\ sent = {} /\ answered = {} /\ duplicates = 0
  /\ customer = {} /\ identity = {} /\ linked = {} /\ stored = {}
  /\ handler = [h \in Handlers |-> IdleHandler]
  /\ cycles = [m \in Messages |-> 0]
  /\ misread = {} /\ repeated = {}
  /\ faults = 0

Fault == faults < MaxFaults /\ faults' = faults + 1
Contact(h) == From[handler[h].msg]
Goto(h, pc) == handler' = [handler EXCEPT ![h].pc = pc]

\* A throw leaves POST with a 500: the rest of the payload is not looked at.
\* (A mutation: SkipFailed goes on with the next message.)
SkipFailed(h) == Goto(h, "next")
Throw(h) == handler' = [handler EXCEPT ![h] = IdleHandler]

-----------------------------------------------------------------------------
(* Meta and POST. *)

\* Meta posts a payload, and posts it again for as long as it has no answer.
Post(h, p) ==
  /\ handler[h].pc = "idle"
  /\ IF p \in answered
     THEN duplicates < MaxDuplicates /\ duplicates' = duplicates + 1
     ELSE UNCHANGED duplicates
  /\ sent' = sent \cup {p}
  /\ handler' = [handler EXCEPT ![h] = [IdleHandler EXCEPT
       !.pc = "next", !.payload = p, !.todo = p, !.old = p \cap stored]]
  /\ UNCHANGED <<answered, tables, history, faults>>

\* isAllowedRecipient.  (A mutation: everyone is allowed.)
NoneRefused(m) == FALSE
Refused(m) == m \in Rejected

TakeMessage(h, m) ==
  /\ handler[h].pc = "next"
  /\ m \in handler[h].todo /\ \A n \in handler[h].todo : m <= n
  /\ handler' = [handler EXCEPT ![h].todo = @ \ {m}, ![h].msg = m, ![h].known = FALSE,
                                ![h].pc = IF Refused(m) THEN "next" ELSE "lookup"]
  /\ UNCHANGED <<meta, tables, history, faults>>

\* The answer, or an answer that Meta does not get.
Answer(h) ==
  /\ handler[h].pc = "next" /\ handler[h].todo = {}
  /\ \/ answered' = answered \cup {handler[h].payload} /\ UNCHANGED faults
     \/ Fault /\ UNCHANGED answered
  /\ Throw(h)
  /\ UNCHANGED <<sent, duplicates, tables, history>>

-----------------------------------------------------------------------------
(* processNativeWhatsAppInbound. *)

\* A lookup that fails finds no duplicate.  (A mutation: no lookup.)
NoLookup(m) == FALSE
IsDuplicate(m) == m \in stored

Lookup(h) ==
  LET m == handler[h].msg IN
  /\ handler[h].pc = "lookup"
  /\ \/ Goto(h, IF IsDuplicate(m) THEN "next" ELSE "identity") /\ UNCHANGED <<misread, faults>>
     \/ Fault /\ misread' = misread \cup {m} /\ Goto(h, "identity")
  /\ UNCHANGED <<meta, tables, cycles, repeated>>

\* (A mutation: the identity is written but never found again.)
NeverKnown(c) == FALSE
HasIdentity(c) == c \in identity

FindIdentity(h) ==
  /\ handler[h].pc = "identity"
  /\ \/ Goto(h, IF HasIdentity(Contact(h)) THEN "customer" ELSE "number") /\ UNCHANGED faults
     \/ Fault /\ Goto(h, "number")
  /\ UNCHANGED <<meta, tables, history>>

\* Of a known identity: a customer that cannot be read is no customer.
LoadCustomer(h) ==
  /\ handler[h].pc = "customer"
  /\ \/ handler' = [handler EXCEPT ![h].pc = "store", ![h].known = TRUE] /\ UNCHANGED faults
     \/ Fault /\ Goto(h, "store")
  /\ UNCHANGED <<meta, tables, history>>

\* By the normalized number: another request may have linked it meanwhile.
FindByNumber(h) ==
  /\ handler[h].pc = "number"
  /\ \/ Goto(h, IF HasIdentity(Contact(h)) THEN "link" ELSE "create") /\ UNCHANGED faults
     \/ Fault /\ Goto(h, "create")
  /\ UNCHANGED <<meta, tables, history>>

\* createMasterCustomer: a duplicate email throws; so does a failed INSERT, and
\* a failed read of the row that was just inserted.
Create(h) ==
  /\ handler[h].pc = "create"
  /\ \/ /\ Contact(h) \notin customer
        /\ customer' = customer \cup {Contact(h)} /\ Goto(h, "link") /\ UNCHANGED faults
     \/ Contact(h) \in customer /\ Throw(h) /\ UNCHANGED <<customer, faults>>
     \/ /\ Fault /\ Throw(h)
        /\ customer' \in {customer, customer \cup {Contact(h)}}
  /\ UNCHANGED <<meta, identity, linked, stored, history>>

LinkIdentity(h) ==
  /\ handler[h].pc = "link"
  /\ \/ /\ identity' = identity \cup {Contact(h)}
        /\ handler' = [handler EXCEPT ![h].pc = "store", ![h].known = TRUE]
        /\ UNCHANGED faults
     \/ Fault /\ Throw(h) /\ UNCHANGED identity
  /\ UNCHANGED <<meta, customer, linked, stored, history>>

\* customer_id = COALESCE(VALUES(customer_id), customer_id).  (A mutation:
\* Overwrite, without the COALESCE.)
Overwrite(c, known) == IF known THEN linked \cup {c} ELSE linked \ {c}
Coalesce(c, known) == IF known THEN linked \cup {c} ELSE linked

\* The transaction: conversation, message, event, conversation again.
Store(h) ==
  /\ handler[h].pc = "store"
  /\ \/ /\ stored' = stored \cup {handler[h].msg}
        /\ linked' = Coalesce(Contact(h), handler[h].known)
        /\ Goto(h, "cycle") /\ UNCHANGED faults
     \/ Fault /\ Throw(h) /\ UNCHANGED <<stored, linked>>
  /\ UNCHANGED <<meta, customer, identity, history>>

\* The cycle runs after the commit; what it throws is logged.
RunCycle(h) ==
  LET m == handler[h].msg IN
  /\ handler[h].pc = "cycle"
  /\ cycles' = [cycles EXCEPT ![m] = @ + 1]
  /\ repeated' = IF m \in handler[h].old THEN repeated \cup {m} ELSE repeated
  /\ Goto(h, "next")
  /\ UNCHANGED <<meta, tables, misread, faults>>

Crash(h) ==
  /\ Fault
  /\ handler[h].pc # "idle" /\ Throw(h)
  /\ UNCHANGED <<meta, tables, history>>

HandlerStep(h) ==
  \/ \E m \in Messages : TakeMessage(h, m)
  \/ Answer(h) \/ Lookup(h) \/ FindIdentity(h) \/ LoadCustomer(h) \/ FindByNumber(h)
  \/ Create(h) \/ LinkIdentity(h) \/ Store(h) \/ RunCycle(h)

Next ==
  \E h \in Handlers : (\E p \in Payloads : Post(h, p)) \/ HandlerStep(h) \/ Crash(h)

Spec == Init /\ [][Next]_vars

\* A handler runs to its end, and Meta posts what it has no answer for again
\* and again.
Redelivery(p) == p \notin answered /\ \E h \in Handlers : Post(h, p)
FairSpec == Spec /\ (\A h \in Handlers : WF_vars(HandlerStep(h)))
                 /\ (\A p \in Payloads : SF_vars(Redelivery(p)))

-----------------------------------------------------------------------------
(* Properties. *)

\* A payload is answered 200 only when every message of it that the allowlist
\* lets in is in the timeline: whatever fails inside it, none is lost.
AnsweredIsStored == \A p \in answered : p \ Rejected \subseteq stored

\* A redelivery of a message that was stored when it came in runs no second cycle,
\* however the first delivery ended, unless the duplicate lookup itself failed.
RedeliveryIsIdle == repeated \subseteq misread

\* "never let a fresh resolution silently swap it": a conversation keeps its
\* customer when a later message of the contact is handled without one.
LinkIsKept == [][linked \subseteq linked']_vars

\* The message a request is past the lookup with, and the one it has stored.
AdmittedBy(x) ==
  IF x.pc \in {"identity", "customer", "number", "create", "link", "store"} THEN {x.msg} ELSE {}
CommittedBy(x) == IF x.pc = "cycle" THEN {x.msg} ELSE {}
Admitted == [h \in Handlers |-> AdmittedBy(handler[h])]
Committed == [h \in Handlers |-> CommittedBy(handler[h])]

Contract == INSTANCE InboundContract WITH
  Requests <- Handlers, admitted <- Admitted, committed <- Committed, excused <- misread

\* Concurrent requests, redeliveries, failures and crashes together implement the contract:
\* no message in the timeline is worked on again unless its lookup failed, none is run
\* before it is stored or more than once per admission, a conversation's customer is never
\* lost, a 200 covers the whole payload.
KeepsInboundContract == Contract!Spec

\* Without faults every message that is let in is stored and gets a cycle, also
\* when two first messages of a contact create its customer at the same time.
EveryMessageIsAnswered ==
  [](faults = 0) => \A m \in Messages \ Rejected : <>(cycles[m] > 0)
=============================================================================
