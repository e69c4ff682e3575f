--------------------------- MODULE InboundProofs ---------------------------
(***************************************************************************)
(* The safety of the webhook for any messages, contacts, payloads, number  *)
(* of concurrent requests, redeliveries and faults.  The tables only grow, *)
(* so what one request relies on is not undone by the others; the          *)
(* invariant says what that is at each of its statements.                  *)
(***************************************************************************)
EXTENDS Inbound, TLAPS

Working == Pcs \ {"idle", "next"}
PastLookup == Working \ {"lookup"}

\* What a request relies on: its message is one the allowlist lets in, the rows its
\* next statement refers to exist, every message of its payload is still to come, at
\* hand or stored, and a message it ought to have found stored was misread.
RequestKnows(h) ==
  LET x == handler[h] IN
  /\ x.pc # "idle" => x.payload \in sent
  /\ x.pc \in Working => x.msg \in Messages \ Rejected
  /\ x.pc = "customer" => From[x.msg] \in identity
  /\ x.pc = "link" => From[x.msg] \in customer
  /\ x.pc = "store" /\ x.known => From[x.msg] \in identity
  /\ x.pc = "cycle" => x.msg \in stored
  /\ x.pc # "idle" =>
       x.payload \ Rejected \subseteq x.todo \cup stored \cup (IF x.pc \in Working THEN {x.msg} ELSE {})
  /\ x.old \subseteq stored
  /\ x.pc \in PastLookup /\ x.msg \in x.old => x.msg \in misread

Knows == \A h \in Handlers : RequestKnows(h)
InboundInv == InboundTypeOK /\ Knows /\ AnsweredIsStored /\ RedeliveryIsIdle

Fields(x) == /\ x.pc \in Pcs /\ x.payload \in Payloads \cup {{}} /\ x.todo \in SUBSET Messages
             /\ x.msg \in Messages \cup {0} /\ x.known \in BOOLEAN /\ x.old \in SUBSET Messages

LEMMA HandlerFields == ASSUME NEW x \in HandlerRecords PROVE Fields(x)
  BY DEF HandlerRecords, Fields

LEMMA IdleIsAHandler == IdleHandler \in HandlerRecords
  BY DEF IdleHandler, HandlerRecords, Pcs

LEMMA InitIsInv == Init => InboundInv
  <1> SUFFICES ASSUME Init PROVE InboundInv OBVIOUS
  <1>1. InboundTypeOK
    BY IdleIsAHandler, LimitsAssumption DEF Init, InboundTypeOK
  <1>2. Knows
    BY DEF Init, Knows, RequestKnows, IdleHandler, Working, PastLookup
  <1> QED BY <1>1, <1>2 DEF InboundInv, Init, AnsweredIsStored, RedeliveryIsIdle

\* Nothing is taken out of a table, nor off the record of what was sent and misread.
Grows == /\ sent \subseteq sent' /\ customer \subseteq customer' /\ identity \subseteq identity'
         /\ stored \subseteq stored' /\ misread \subseteq misread'

LEMMA HandlerFacts ==
  ASSUME InboundInv, NEW h \in Handlers
  PROVE  /\ handler \in [Handlers -> HandlerRecords] /\ handler[h] \in HandlerRecords
         /\ RequestKnows(h) /\ Fields(handler[h])
  <1>1. handler \in [Handlers -> HandlerRecords] /\ handler[h] \in HandlerRecords /\ RequestKnows(h)
    BY DEF InboundInv, InboundTypeOK, Knows
  <1> QED BY <1>1, HandlerFields

LEMMA OthersKnow ==
  ASSUME InboundInv, Grows, NEW g \in Handlers, handler'[g] = handler[g]
  PROVE  RequestKnows(g)'
  BY HandlerFacts DEF RequestKnows, Grows

LEMMA OneHandlerMoves ==
  ASSUME InboundInv, Grows, NEW h \in Handlers, NEW y \in HandlerRecords,
         handler' = [handler EXCEPT ![h] = y], RequestKnows(h)'
  PROVE  Knows' /\ handler' \in [Handlers -> HandlerRecords]
  <1>1. handler \in [Handlers -> HandlerRecords] BY DEF InboundInv, InboundTypeOK
  <1>2. ASSUME NEW g \in Handlers, g # h PROVE RequestKnows(g)'
    <2>1. handler'[g] = handler[g] BY <1>1, <1>2
    <2> QED BY <2>1, OthersKnow
  <1> QED BY <1>1, <1>2 DEF Knows

\* Goto and Throw as the record a handler moves to.
LEMMA Goes ==
  ASSUME InboundInv, NEW h \in Handlers, NEW pc \in Pcs, Goto(h, pc)
  PROVE  \E y \in HandlerRecords :
           /\ handler' = [handler EXCEPT ![h] = y] /\ handler'[h] = y
           /\ y.pc = pc /\ y.payload = handler[h].payload /\ y.todo = handler[h].todo
           /\ y.msg = handler[h].msg /\ y.known = handler[h].known /\ y.old = handler[h].old
  <1> DEFINE y == [handler[h] EXCEPT !.pc = pc]
  <1>1. handler \in [Handlers -> HandlerRecords] /\ handler[h] \in HandlerRecords
    BY HandlerFacts
  <1>2. y \in HandlerRecords BY <1>1 DEF HandlerRecords
  <1>3. handler' = [handler EXCEPT ![h] = y] /\ handler'[h] = y BY <1>1 DEF Goto
  <1>4. /\ y.pc = pc /\ y.payload = handler[h].payload /\ y.todo = handler[h].todo
        /\ y.msg = handler[h].msg /\ y.known = handler[h].known /\ y.old = handler[h].old
    BY <1>1 DEF HandlerRecords
  <1> QED BY <1>2, <1>3, <1>4

LEMMA Throws ==
  ASSUME InboundInv, NEW h \in Handlers, Throw(h)
  PROVE  /\ handler' = [handler EXCEPT ![h] = IdleHandler] /\ handler'[h] = IdleHandler
         /\ RequestKnows(h)'
  <1>1. handler' = [handler EXCEPT ![h] = IdleHandler] BY DEF Throw
  <1>2. handler'[h] = IdleHandler BY <1>1, HandlerFacts
  <1> QED BY <1>1, <1>2 DEF RequestKnows, IdleHandler, Working, PastLookup

LEMMA FaultsBounded ==
  ASSUME InboundInv, Fault \/ UNCHANGED faults
  PROVE  faults' \in 0..MaxFaults
  BY LimitsAssumption DEF InboundInv, InboundTypeOK, Fault

\* A step that moves one handler and at most adds to what was misread.
LEMMA PrivateStep ==
  ASSUME InboundInv, NEW h \in Handlers, NEW y \in HandlerRecords,
         handler' = [handler EXCEPT ![h] = y], RequestKnows(h)',
         Fault \/ UNCHANGED faults,
         UNCHANGED <<meta, tables, cycles, repeated>>,
         misread \subseteq misread' /\ misread' \subseteq Messages
  PROVE  InboundInv'
  <1>1. Grows BY DEF Grows, meta, tables
  <1>2. Knows' /\ handler' \in [Handlers -> HandlerRecords] BY <1>1, OneHandlerMoves
  <1>3. faults' \in 0..MaxFaults BY FaultsBounded
  <1>4. InboundTypeOK' BY <1>2, <1>3 DEF InboundInv, InboundTypeOK, meta, tables
  <1> QED BY <1>2, <1>4 DEF InboundInv, AnsweredIsStored, RedeliveryIsIdle, meta, tables

LEMMA QuietHistory ==
  InboundInv /\ UNCHANGED history =>
    UNCHANGED <<cycles, repeated>> /\ misread \subseteq misread' /\ misread' \subseteq Messages
  BY DEF InboundInv, InboundTypeOK, history

\* A request that goes on from one working state to another, or is done with its
\* message because it is stored.
LEMMA MoveKeepsInv ==
  ASSUME InboundInv, NEW h \in Handlers, NEW pc \in Pcs, Goto(h, pc),
         handler[h].pc \in Working,
         Fault \/ UNCHANGED faults,
         UNCHANGED <<meta, tables, cycles, repeated>>,
         misread \subseteq misread' /\ misread' \subseteq Messages,
         pc = "next" => handler[h].msg \in stored,
         pc = "customer" => Contact(h) \in identity,
         pc = "link" => Contact(h) \in customer,
         pc = "store" => ~handler[h].known,
         pc # "idle" /\ pc # "cycle",
         pc \in PastLookup /\ handler[h].msg \in handler[h].old => handler[h].msg \in misread'
  PROVE  InboundInv'
  <1>1. PICK y \in HandlerRecords :
           /\ handler' = [handler EXCEPT ![h] = y] /\ handler'[h] = y
           /\ y.pc = pc /\ y.payload = handler[h].payload /\ y.todo = handler[h].todo
           /\ y.msg = handler[h].msg /\ y.known = handler[h].known /\ y.old = handler[h].old
    BY Goes
  <1>2. RequestKnows(h) BY HandlerFacts
  <1>3. RequestKnows(h)'
    <2>1. handler'[h].payload \in sent' /\ handler'[h].old \subseteq stored'
      BY <1>1, <1>2 DEF RequestKnows, Working, meta, tables
    <2>2. handler'[h].pc \in Working => handler'[h].msg \in Messages \ Rejected
      BY <1>1, <1>2 DEF RequestKnows
    <2>3. handler'[h].payload \ Rejected \subseteq
            handler'[h].todo \cup stored'
              \cup (IF handler'[h].pc \in Working THEN {handler'[h].msg} ELSE {})
      BY <1>1, <1>2 DEF RequestKnows, Working, tables
    <2>4. /\ handler'[h].pc = "customer" => From[handler'[h].msg] \in identity'
          /\ handler'[h].pc = "link" => From[handler'[h].msg] \in customer'
          /\ handler'[h].pc = "store" => ~handler'[h].known
          /\ handler'[h].pc # "cycle"
          /\ handler'[h].pc \in PastLookup /\ handler'[h].msg \in handler'[h].old =>
               handler'[h].msg \in misread'
      BY <1>1, <1>2 DEF Contact, tables
    <2> QED BY <2>1, <2>2, <2>3, <2>4 DEF RequestKnows
  <1> QED BY <1>1, <1>3, PrivateStep

LEMMA PostKeepsInv ==
  ASSUME InboundInv, NEW h \in Handlers, NEW p \in Payloads, Post(h, p)
  PROVE  InboundInv'
  <1> DEFINE y == [IdleHandler EXCEPT !.pc = "next", !.payload = p, !.todo = p,
                                      !.old = p \cap stored]
  <1>1. y \in HandlerRecords
    BY IdleIsAHandler, PayloadsAssumption DEF HandlerRecords, Pcs
  <1>2. handler' = [handler EXCEPT ![h] = y] BY DEF Post
  <1>3. handler'[h] = y BY <1>2, HandlerFacts
  <1>4. y.pc = "next" /\ y.payload = p /\ y.todo = p /\ y.old = p \cap stored
    BY DEF IdleHandler
  <1>5. sent' = sent \cup {p} /\ UNCHANGED <<answered, tables, history, faults>> BY DEF Post
  <1>6. RequestKnows(h)'
    <2> HIDE DEF y
    <2> QED BY <1>3, <1>4, <1>5 DEF RequestKnows, Working, PastLookup, tables
  <1>7. Grows BY <1>5 DEF Grows, tables, history
  <1>8. Knows' /\ handler' \in [Handlers -> HandlerRecords]
    BY <1>1, <1>2, <1>6, <1>7, OneHandlerMoves
  <1>9. duplicates' \in 0..MaxDuplicates
    BY LimitsAssumption DEF Post, InboundInv, InboundTypeOK
  <1>10. InboundTypeOK' BY <1>5, <1>8, <1>9 DEF InboundInv, InboundTypeOK, tables, history
  <1> QED BY <1>5, <1>8, <1>10
          DEF InboundInv, AnsweredIsStored, RedeliveryIsIdle, tables, history

LEMMA TakeKeepsInv ==
  ASSUME InboundInv, NEW h \in Handlers, NEW m \in Messages, TakeMessage(h, m)
  PROVE  InboundInv'
  <1> DEFINE pc == IF Refused(m) THEN "next" ELSE "lookup"
             left == handler[h].todo \ {m}
             y == [handler[h] EXCEPT !.todo = left, !.msg = m, !.known = FALSE, !.pc = pc]
  <1>1. y \in HandlerRecords BY HandlerFacts DEF HandlerRecords, Pcs
  <1>2. handler' = [handler EXCEPT ![h] = y] BY HandlerFacts DEF TakeMessage
  <1>3. handler'[h] = y BY <1>2, HandlerFacts
  <1>4. /\ handler'[h].pc = pc /\ handler'[h].msg = m /\ handler'[h].todo = left
        /\ handler'[h].payload = handler[h].payload /\ handler'[h].old = handler[h].old
    BY <1>3, HandlerFacts DEF HandlerRecords
  <1>5. handler[h].pc = "next" /\ RequestKnows(h) BY HandlerFacts DEF TakeMessage
  <1>6. UNCHANGED <<meta, tables, history, faults>> BY DEF TakeMessage
  <1>7. pc = IF m \in Rejected THEN "next" ELSE "lookup" BY DEF Refused
  <1>8. RequestKnows(h)'
    <2> HIDE DEF y, pc
    <2> QED BY <1>4, <1>5, <1>6, <1>7
            DEF RequestKnows, Working, PastLookup, Pcs, meta, tables, history
  <1>9. UNCHANGED <<cycles, repeated, misread>> BY <1>6 DEF history
  <1> QED BY <1>1, <1>2, <1>6, <1>8, <1>9, QuietHistory, PrivateStep

LEMMA AnswerKeepsInv ==
  ASSUME InboundInv, NEW h \in Handlers, Answer(h)
  PROVE  InboundInv'
  <1>1. /\ handler' = [handler EXCEPT ![h] = IdleHandler] /\ RequestKnows(h)'
    BY Throws DEF Answer
  <1>2. UNCHANGED <<sent, duplicates, tables, history>> /\ (Fault \/ UNCHANGED faults)
    BY DEF Answer
  <1>3. Grows BY <1>2 DEF Grows, tables, history
  <1>4. Knows' /\ handler' \in [Handlers -> HandlerRecords]
    BY <1>1, <1>3, IdleIsAHandler, OneHandlerMoves
  <1>5. handler[h].payload \in sent /\ handler[h].payload \ Rejected \subseteq stored
    BY HandlerFacts DEF RequestKnows, Answer, Working
  <1>6. answered' \subseteq answered \cup {handler[h].payload} BY DEF Answer
  <1>7. answered' \subseteq sent' BY <1>2, <1>5, <1>6 DEF InboundInv, InboundTypeOK
  <1>8. faults' \in 0..MaxFaults BY <1>2, FaultsBounded
  <1>9. InboundTypeOK' BY <1>2, <1>4, <1>7, <1>8 DEF InboundInv, InboundTypeOK, tables, history
  <1>10. AnsweredIsStored' BY <1>2, <1>5, <1>6 DEF InboundInv, AnsweredIsStored, tables
  <1> QED BY <1>2, <1>4, <1>9, <1>10 DEF InboundInv, RedeliveryIsIdle, history

LEMMA LookupKeepsInv ==
  ASSUME InboundInv, NEW h \in Handlers, Lookup(h)
  PROVE  InboundInv'
  <1>1. handler[h].pc = "lookup" /\ RequestKnows(h) BY HandlerFacts DEF Lookup
  <1>2. handler[h].msg \in Messages /\ handler[h].pc \in Working
    BY <1>1 DEF RequestKnows, Working, Pcs
  <1>3. UNCHANGED <<meta, tables, cycles, repeated>> BY DEF Lookup
  <1>4. CASE handler[h].msg \in stored /\ Goto(h, "next") /\ UNCHANGED <<misread, faults>>
    BY <1>2, <1>3, <1>4, MoveKeepsInv DEF Pcs, PastLookup, Working, InboundInv, InboundTypeOK
  <1>5. CASE /\ handler[h].msg \notin stored /\ Goto(h, "identity")
             /\ UNCHANGED <<misread, faults>>
    <2>1. handler[h].msg \notin handler[h].old BY <1>1, <1>5 DEF RequestKnows
    <2> QED BY <1>2, <1>3, <1>5, <2>1, MoveKeepsInv DEF Pcs, InboundInv, InboundTypeOK
  <1>6. CASE Fault /\ misread' = misread \cup {handler[h].msg} /\ Goto(h, "identity")
    <2>1. misread \subseteq misread' /\ misread' \subseteq Messages
      BY <1>2, <1>6 DEF InboundInv, InboundTypeOK
    <2> QED BY <1>2, <1>3, <1>6, <2>1, MoveKeepsInv DEF Pcs
  <1> QED BY <1>4, <1>5, <1>6 DEF Lookup, IsDuplicate

LEMMA FindKeepsInv ==
  ASSUME InboundInv, NEW h \in Handlers, FindIdentity(h) \/ FindByNumber(h)
  PROVE  InboundInv'
  <1>1. handler[h].pc \in {"identity", "number"} /\ RequestKnows(h)
    BY HandlerFacts DEF FindIdentity, FindByNumber
  <1>2. handler[h].pc \in Working /\ handler[h].pc \in PastLookup
    BY <1>1 DEF Working, PastLookup, Pcs
  <1>3. handler[h].msg \in handler[h].old => handler[h].msg \in misread
    BY <1>1, <1>2 DEF RequestKnows
  <1>4. UNCHANGED <<meta, tables, history>> /\ (Fault \/ UNCHANGED faults)
    BY DEF FindIdentity, FindByNumber
  <1>5. misread' = misread BY <1>4 DEF history
  <1>6. ASSUME NEW pc \in {"customer", "number", "link", "create"}, Goto(h, pc),
               pc \in {"customer", "link"} => Contact(h) \in identity
        PROVE  InboundInv'
    <2>1. pc = "link" => Contact(h) \in customer BY <1>6 DEF InboundInv, InboundTypeOK
    <2>2. pc \in Pcs BY <1>6 DEF Pcs
    <2> QED BY <1>2, <1>3, <1>4, <1>5, <1>6, <2>1, <2>2, QuietHistory, MoveKeepsInv
  <1>7. \E pc \in {"customer", "number", "link", "create"} :
          Goto(h, pc) /\ (pc \in {"customer", "link"} => Contact(h) \in identity)
    BY DEF FindIdentity, FindByNumber, HasIdentity
  <1> QED BY <1>6, <1>7

LEMMA LoadKeepsInv ==
  ASSUME InboundInv, NEW h \in Handlers, LoadCustomer(h) \/ LinkIdentity(h)
  PROVE  InboundInv'
  <1>1. /\ handler[h].pc \in {"customer", "link"} /\ RequestKnows(h) /\ Contact(h) \in customer
        /\ handler[h].pc = "customer" => Contact(h) \in identity
    BY HandlerFacts DEF LoadCustomer, LinkIdentity, RequestKnows, Contact, InboundInv, InboundTypeOK
  <1>2. handler[h].pc \in Working /\ handler[h].pc \in PastLookup
    BY <1>1 DEF Working, PastLookup, Pcs
  <1>3. UNCHANGED <<meta, customer, linked, stored, history>> /\ (Fault \/ UNCHANGED faults)
    BY DEF LoadCustomer, LinkIdentity, tables
  <1>4. identity \subseteq identity' /\ identity' \subseteq customer
    BY <1>1 DEF LoadCustomer, LinkIdentity, tables, InboundInv, InboundTypeOK
  <1>5. Grows BY <1>3, <1>4 DEF Grows, meta, history
  <1>6. ASSUME NEW y \in HandlerRecords, handler' = [handler EXCEPT ![h] = y], RequestKnows(h)'
        PROVE  InboundInv'
    <2>1. Knows' /\ handler' \in [Handlers -> HandlerRecords] BY <1>5, <1>6, OneHandlerMoves
    <2>2. faults' \in 0..MaxFaults BY <1>3, FaultsBounded
    <2>3. InboundTypeOK'
      BY <1>3, <1>4, <2>1, <2>2 DEF InboundInv, InboundTypeOK, meta, history
    <2> QED BY <1>3, <2>1, <2>3 DEF InboundInv, AnsweredIsStored, RedeliveryIsIdle, meta, history
  <1>7. CASE Throw(h) BY <1>6, <1>7, Throws, IdleIsAHandler
  <1>8. ASSUME NEW known \in BOOLEAN, known => Contact(h) \in identity',
               handler' = [handler EXCEPT ![h] = [handler[h] EXCEPT !.pc = "store", !.known = known]]
        PROVE  InboundInv'
    <2> DEFINE y == [handler[h] EXCEPT !.pc = "store", !.known = known]
    <2>1. y \in HandlerRecords BY HandlerFacts DEF HandlerRecords, Pcs
    <2>2. handler'[h] = y BY <1>8, HandlerFacts
    <2>3. /\ handler'[h].pc = "store" /\ handler'[h].known = known
          /\ handler'[h].msg = handler[h].msg /\ handler'[h].todo = handler[h].todo
          /\ handler'[h].payload = handler[h].payload /\ handler'[h].old = handler[h].old
      BY <2>2, HandlerFacts DEF HandlerRecords
    <2>4. RequestKnows(h)'
      <3> HIDE DEF y
      <3> QED BY <1>1, <1>2, <1>3, <1>8, <2>3
              DEF RequestKnows, Working, PastLookup, Pcs, Contact, meta, history
    <2> QED BY <1>6, <1>8, <2>1, <2>4
  <1>9. CASE LoadCustomer(h) /\ Goto(h, "store")
    <2>1. UNCHANGED tables BY <1>9 DEF LoadCustomer
    <2>2. PICK y \in HandlerRecords :
            /\ handler' = [handler EXCEPT ![h] = y] /\ handler'[h] = y
            /\ y.pc = "store" /\ y.payload = handler[h].payload /\ y.todo = handler[h].todo
            /\ y.msg = handler[h].msg /\ y.known = handler[h].known /\ y.old = handler[h].old
      BY <1>9, Goes DEF Pcs
    <2>3. Contact(h) \in identity' BY <1>1, <1>9, <2>1 DEF LoadCustomer, tables
    <2>4. RequestKnows(h)'
      BY <1>1, <1>2, <1>3, <2>2, <2>3 DEF RequestKnows, Working, PastLookup, Pcs, Contact, meta, history
    <2> QED BY <1>6, <2>2, <2>4
  <1>10. CASE LoadCustomer(h)
    <2>1. Contact(h) \in identity' BY <1>1, <1>10 DEF LoadCustomer, tables
    <2>2. CASE handler' = [handler EXCEPT ![h].pc = "store", ![h].known = TRUE]
      <3>1. handler' = [handler EXCEPT ![h] = [handler[h] EXCEPT !.pc = "store", !.known = TRUE]]
        BY <2>2, HandlerFacts
      <3> QED BY <1>8, <2>1, <3>1
    <2> QED BY <1>9, <1>10, <2>2 DEF LoadCustomer
  <1>11. CASE LinkIdentity(h)
    <2>1. CASE /\ identity' = identity \cup {Contact(h)}
               /\ handler' = [handler EXCEPT ![h].pc = "store", ![h].known = TRUE]
      <3>1. handler' = [handler EXCEPT ![h] = [handler[h] EXCEPT !.pc = "store", !.known = TRUE]]
        BY <2>1, HandlerFacts
      <3> QED BY <1>8, <2>1, <3>1
    <2> QED BY <1>7, <1>11, <2>1 DEF LinkIdentity
  <1> QED BY <1>10, <1>11

LEMMA CreateKeepsInv ==
  ASSUME InboundInv, NEW h \in Handlers, Create(h)
  PROVE  InboundInv'
  <1>1. handler[h].pc = "create" /\ RequestKnows(h) BY HandlerFacts DEF Create
  <1>2. handler[h].pc \in Working /\ handler[h].pc \in PastLookup
    BY <1>1 DEF Working, PastLookup, Pcs
  <1>3. Contact(h) \in Contacts BY <1>1, <1>2, MessagesAssumption DEF RequestKnows, Contact
  <1>4. UNCHANGED <<meta, identity, linked, stored, history>> /\ (Fault \/ UNCHANGED faults)
    BY DEF Create
  <1>5. customer \subseteq customer' /\ customer' \subseteq Contacts
    BY <1>3 DEF Create, InboundInv, InboundTypeOK
  <1>6. Grows BY <1>4, <1>5 DEF Grows, meta, history
  <1>7. ASSUME NEW y \in HandlerRecords, handler' = [handler EXCEPT ![h] = y], RequestKnows(h)'
        PROVE  InboundInv'
    <2>1. Knows' /\ handler' \in [Handlers -> HandlerRecords] BY <1>6, <1>7, OneHandlerMoves
    <2>2. faults' \in 0..MaxFaults BY <1>4, FaultsBounded
    <2>3. InboundTypeOK'
      BY <1>4, <1>5, <2>1, <2>2 DEF InboundInv, InboundTypeOK, meta, history
    <2> QED BY <1>4, <2>1, <2>3 DEF InboundInv, AnsweredIsStored, RedeliveryIsIdle, meta, history
  <1>8. CASE Throw(h) BY <1>7, <1>8, Throws, IdleIsAHandler
  <1>9. CASE customer' = customer \cup {Contact(h)} /\ Goto(h, "link")
    <2>1. PICK y \in HandlerRecords :
            /\ handler' = [handler EXCEPT ![h] = y] /\ handler'[h] = y
            /\ y.pc = "link" /\ y.payload = handler[h].payload /\ y.todo = handler[h].todo
            /\ y.msg = handler[h].msg /\ y.known = handler[h].known /\ y.old = handler[h].old
      BY <1>9, Goes DEF Pcs
    <2>2. RequestKnows(h)'
      BY <1>1, <1>2, <1>4, <1>9, <2>1 DEF RequestKnows, Working, PastLookup, Pcs, Contact, meta, history
    <2> QED BY <1>7, <2>1, <2>2
  <1> QED BY <1>8, <1>9 DEF Create

LEMMA StoreKeepsInv ==
  ASSUME InboundInv, NEW h \in Handlers, Store(h)
  PROVE  InboundInv'
  <1>1. handler[h].pc = "store" /\ RequestKnows(h) BY HandlerFacts DEF Store
  <1>2. handler[h].pc \in Working /\ handler[h].pc \in PastLookup
    BY <1>1 DEF Working, PastLookup, Pcs
  <1>3. /\ handler[h].msg \in Messages \ Rejected
        /\ handler[h].known => Contact(h) \in identity
    BY <1>1, <1>2 DEF RequestKnows, Contact
  <1>4. UNCHANGED <<meta, customer, identity, history>> /\ (Fault \/ UNCHANGED faults)
    BY DEF Store
  <1>5. /\ stored \subseteq stored' /\ stored' \subseteq Messages \ Rejected
        /\ linked' \subseteq identity
    BY <1>3 DEF Store, Coalesce, InboundInv, InboundTypeOK
  <1>6. Grows BY <1>4, <1>5 DEF Grows, meta, history
  <1>7. ASSUME NEW y \in HandlerRecords, handler' = [handler EXCEPT ![h] = y], RequestKnows(h)'
        PROVE  InboundInv'
    <2>1. Knows' /\ handler' \in [Handlers -> HandlerRecords] BY <1>6, <1>7, OneHandlerMoves
    <2>2. faults' \in 0..MaxFaults BY <1>4, FaultsBounded
    <2>3. InboundTypeOK'
      BY <1>4, <1>5, <2>1, <2>2 DEF InboundInv, InboundTypeOK, meta, history
    <2>4. AnsweredIsStored' BY <1>4, <1>5 DEF InboundInv, AnsweredIsStored, meta
    <2> QED BY <1>4, <2>1, <2>3, <2>4 DEF InboundInv, RedeliveryIsIdle, history
  <1>8. CASE Throw(h) BY <1>7, <1>8, Throws, IdleIsAHandler
  <1>9. CASE stored' = stored \cup {handler[h].msg} /\ Goto(h, "cycle")
    <2>1. PICK y \in HandlerRecords :
            /\ handler' = [handler EXCEPT ![h] = y] /\ handler'[h] = y
            /\ y.pc = "cycle" /\ y.payload = handler[h].payload /\ y.todo = handler[h].todo
            /\ y.msg = handler[h].msg /\ y.known = handler[h].known /\ y.old = handler[h].old
      BY <1>9, Goes DEF Pcs
    <2>2. RequestKnows(h)'
      BY <1>1, <1>2, <1>4, <1>9, <2>1 DEF RequestKnows, Working, PastLookup, Pcs, meta, history
    <2> QED BY <1>7, <2>1, <2>2
  <1> QED BY <1>8, <1>9 DEF Store

LEMMA CycleKeepsInv ==
  ASSUME InboundInv, NEW h \in Handlers, RunCycle(h)
  PROVE  InboundInv'
  <1>1. /\ handler[h].pc = "cycle" /\ RequestKnows(h) /\ handler[h].msg \in stored
        /\ handler[h].msg \in Messages
        /\ handler[h].msg \in handler[h].old => handler[h].msg \in misread
    BY HandlerFacts DEF RunCycle, RequestKnows, Working, PastLookup, Pcs
  <1>2. UNCHANGED <<meta, tables, misread, faults>> BY DEF RunCycle
  <1>3. /\ cycles' \in [Messages -> Nat] /\ repeated' \subseteq stored
        /\ repeated' \subseteq misread
    BY <1>1 DEF RunCycle, InboundInv, InboundTypeOK, RedeliveryIsIdle
  <1>4. PICK y \in HandlerRecords :
            /\ handler' = [handler EXCEPT ![h] = y] /\ handler'[h] = y
            /\ y.pc = "next" /\ y.payload = handler[h].payload /\ y.todo = handler[h].todo
            /\ y.msg = handler[h].msg /\ y.known = handler[h].known /\ y.old = handler[h].old
    BY Goes DEF RunCycle, Pcs
  <1>5. RequestKnows(h)'
    BY <1>1, <1>2, <1>4 DEF RequestKnows, Working, PastLookup, Pcs, meta, tables
  <1>6. Grows BY <1>2 DEF Grows, meta, tables
  <1>7. Knows' /\ handler' \in [Handlers -> HandlerRecords] BY <1>4, <1>5, <1>6, OneHandlerMoves
  <1>8. InboundTypeOK' BY <1>2, <1>3, <1>7 DEF InboundInv, InboundTypeOK, meta, tables
  <1> QED BY <1>2, <1>3, <1>7, <1>8
          DEF InboundInv, AnsweredIsStored, RedeliveryIsIdle, meta, tables

LEMMA CrashKeepsInv ==
  ASSUME InboundInv, NEW h \in Handlers, Crash(h)
  PROVE  InboundInv'
  <1>1. handler' = [handler EXCEPT ![h] = IdleHandler] /\ RequestKnows(h)' BY Throws DEF Crash
  <1>2. UNCHANGED <<meta, tables, history>> /\ Fault BY DEF Crash
  <1> QED BY <1>1, <1>2, IdleIsAHandler, QuietHistory, PrivateStep

LEMMA NextKeepsInv == InboundInv /\ [Next]_vars => InboundInv'
  <1> SUFFICES ASSUME InboundInv, [Next]_vars PROVE InboundInv' OBVIOUS
  <1>1. CASE UNCHANGED vars
    BY <1>1 DEF vars, meta, tables, history, InboundInv, InboundTypeOK, Knows, RequestKnows,
                AnsweredIsStored, RedeliveryIsIdle
  <1>2. CASE Next
    <2>1. PICK h \in Handlers : (\E p \in Payloads : Post(h, p)) \/ HandlerStep(h) \/ Crash(h)
      BY <1>2 DEF Next
    <2>2. CASE HandlerStep(h)
      BY <2>2, TakeKeepsInv, AnswerKeepsInv, LookupKeepsInv, FindKeepsInv, LoadKeepsInv,
         CreateKeepsInv, StoreKeepsInv, CycleKeepsInv DEF HandlerStep
    <2> QED BY <2>1, <2>2, PostKeepsInv, CrashKeepsInv
  <1> QED BY <1>1, <1>2

LEMMA InvHolds == Spec => []InboundInv
  BY InitIsInv, NextKeepsInv, PTL DEF Spec

\* Every reachable state of the webhook has the declared types: no conversation is
\* linked without an identity, no identity without a customer, and nothing the
\* allowlist refuses is stored.
THEOREM InboundTypeCorrectness == Spec => []InboundTypeOK
  <1>1. InboundInv => InboundTypeOK BY DEF InboundInv
  <1> QED BY <1>1, InvHolds, PTL

\* No message of a payload that was answered 200 is missing from the timeline.
THEOREM AnsweredPayloadsAreStored == Spec => []AnsweredIsStored
  <1>1. InboundInv => AnsweredIsStored BY DEF InboundInv
  <1> QED BY <1>1, InvHolds, PTL

\* A redelivered message that was stored gets no second cycle, unless its duplicate
\* lookup failed.
THEOREM RedeliveriesAreIdle == Spec => []RedeliveryIsIdle
  <1>1. InboundInv => RedeliveryIsIdle BY DEF InboundInv
  <1> QED BY <1>1, InvHolds, PTL

\* No step takes the customer off a conversation.
THEOREM LinksAreKept == Spec => LinkIsKept
  <1>1. [Next]_vars => linked \subseteq linked'
    BY ZenonT(60)
       DEF Next, HandlerStep, Post, TakeMessage, Answer, Lookup, FindIdentity, LoadCustomer,
           FindByNumber, Create, LinkIdentity, Store, Coalesce, RunCycle, Crash, vars, tables
  <1> QED BY <1>1, PTL DEF Spec, LinkIsKept

-----------------------------------------------------------------------------
(* The webhook implements InboundContract: what a request has in hand is its  *)
(* program counter, and RequestKnows is what each step of the contract asks.  *)

PastLookupPcs == {"identity", "customer", "number", "create", "link", "store"}

\* The contract's view of one request changes with that request only.
LEMMA HandsMove ==
  ASSUME InboundInv, NEW h \in Handlers, NEW y \in HandlerRecords,
         handler' = [handler EXCEPT ![h] = y]
  PROVE  /\ Admitted' = [Admitted EXCEPT ![h] = AdmittedBy(y)]
         /\ Committed' = [Committed EXCEPT ![h] = CommittedBy(y)]
         /\ Admitted[h] = AdmittedBy(handler[h]) /\ Committed[h] = CommittedBy(handler[h])
         /\ AdmittedBy(y) = AdmittedBy(handler[h]) => Admitted' = Admitted
         /\ CommittedBy(y) = CommittedBy(handler[h]) => Committed' = Committed
  <1>1. \A g \in Handlers : handler'[g] = IF g = h THEN y ELSE handler[g]
    BY HandlerFacts
  <1>2. Admitted[h] = AdmittedBy(handler[h]) /\ Committed[h] = CommittedBy(handler[h])
    BY DEF Admitted, Committed
  <1>3. Admitted' = [Admitted EXCEPT ![h] = AdmittedBy(y)]
    BY ZenonT(60), <1>1 DEF Admitted, AdmittedBy
  <1>4. Committed' = [Committed EXCEPT ![h] = CommittedBy(y)]
    BY ZenonT(60), <1>1 DEF Committed, CommittedBy
  <1>5. /\ Admitted = [Admitted EXCEPT ![h] = AdmittedBy(handler[h])]
        /\ Committed = [Committed EXCEPT ![h] = CommittedBy(handler[h])]
    BY DEF Admitted, Committed
  <1> QED BY <1>2, <1>3, <1>4, <1>5

\* What has the contract's eyes on it, besides the hands.
Visible == <<stored, cycles, misread, answered, customer, identity, linked>>

\* A request that goes on with the message it has, or takes one up, is no step.
LEMMA GoesUnseen ==
  ASSUME InboundInv, NEW h \in Handlers, NEW y \in HandlerRecords,
         handler' = [handler EXCEPT ![h] = y], UNCHANGED Visible,
         AdmittedBy(y) = AdmittedBy(handler[h]), CommittedBy(y) = CommittedBy(handler[h])
  PROVE  UNCHANGED Contract!contract
  BY HandsMove DEF Visible, Contract!contract, Contract!people

\* A throw, or the end of the process, gives up what the request had in hand.
LEMMA ThrowsGiveUp ==
  ASSUME InboundInv, NEW h \in Handlers, Throw(h), UNCHANGED Visible
  PROVE  Contract!GiveUp(h)
  <1>1. AdmittedBy(IdleHandler) = {} /\ CommittedBy(IdleHandler) = {}
    BY DEF AdmittedBy, CommittedBy, IdleHandler
  <1> QED BY <1>1, Throws, IdleIsAHandler, HandsMove
          DEF Visible, Contract!GiveUp, Contract!people

LEMMA PostRefines ==
  ASSUME InboundInv, NEW h \in Handlers, NEW p \in Payloads, Post(h, p)
  PROVE  UNCHANGED Contract!contract
  <1> DEFINE y == [IdleHandler EXCEPT !.pc = "next", !.payload = p, !.todo = p,
                                      !.old = p \cap stored]
  <1>1. y \in HandlerRecords
    BY IdleIsAHandler, PayloadsAssumption DEF HandlerRecords, Pcs
  <1>2. handler' = [handler EXCEPT ![h] = y] /\ handler[h].pc = "idle" BY DEF Post
  <1>3. y.pc = "next" BY DEF IdleHandler
  <1>4. UNCHANGED Visible BY DEF Post, tables, history, Visible
  <1>5. /\ AdmittedBy(y) = {} /\ CommittedBy(y) = {}
        /\ AdmittedBy(handler[h]) = {} /\ CommittedBy(handler[h]) = {}
    <2> HIDE DEF y
    <2> QED BY <1>2, <1>3 DEF AdmittedBy, CommittedBy
  <1> QED BY <1>1, <1>2, <1>4, <1>5, GoesUnseen

LEMMA TakeRefines ==
  ASSUME InboundInv, NEW h \in Handlers, NEW m \in Messages, TakeMessage(h, m)
  PROVE  UNCHANGED Contract!contract
  <1> DEFINE pc == IF Refused(m) THEN "next" ELSE "lookup"
             left == handler[h].todo \ {m}
             y == [handler[h] EXCEPT !.todo = left, !.msg = m, !.known = FALSE, !.pc = pc]
  <1>1. y \in HandlerRecords BY HandlerFacts DEF HandlerRecords, Pcs
  <1>2. handler' = [handler EXCEPT ![h] = y] /\ handler[h].pc = "next"
    BY HandlerFacts DEF TakeMessage
  <1>3. y.pc \in {"next", "lookup"} BY HandlerFacts DEF HandlerRecords
  <1>4. UNCHANGED Visible BY DEF TakeMessage, meta, tables, history, Visible
  <1>5. /\ AdmittedBy(y) = {} /\ CommittedBy(y) = {}
        /\ AdmittedBy(handler[h]) = {} /\ CommittedBy(handler[h]) = {}
    <2> HIDE DEF y
    <2> QED BY <1>2, <1>3 DEF AdmittedBy, CommittedBy
  <1> QED BY <1>1, <1>2, <1>4, <1>5, GoesUnseen

LEMMA AnswerRefines ==
  ASSUME InboundInv, NEW h \in Handlers, Answer(h)
  PROVE  [Contract!Next]_Contract!contract
  <1>1. /\ handler[h].payload \in Payloads
        /\ handler[h].payload \ Rejected \subseteq stored /\ handler[h].pc = "next"
    BY HandlerFacts DEF Answer, RequestKnows, Working, InboundInv, InboundTypeOK
  <1>2. /\ Admitted' = Admitted
        /\ Committed' = Committed
    <2>1. /\ AdmittedBy(handler[h]) = {} /\ CommittedBy(handler[h]) = {}
          /\ AdmittedBy(IdleHandler) = {} /\ CommittedBy(IdleHandler) = {}
      BY <1>1 DEF AdmittedBy, CommittedBy, IdleHandler
    <2> QED BY <2>1, Throws, IdleIsAHandler, HandsMove DEF Answer
  <1>3. UNCHANGED <<stored, cycles, misread, customer, identity, linked>>
    BY DEF Answer, tables, history
  <1>4. CASE answered' = answered \cup {handler[h].payload}
    <2>1. Contract!Acknowledge(handler[h].payload)
      BY <1>1, <1>2, <1>3, <1>4 DEF Contract!Acknowledge, Contract!people
    <2> QED BY <1>1, <2>1 DEF Contract!Next
  <1>5. CASE UNCHANGED answered
    BY <1>2, <1>3, <1>5 DEF Contract!contract, Contract!people
  <1> QED BY <1>4, <1>5 DEF Answer

\* Going on from one statement to another while the message stays in hand.
LEMMA GoesOn ==
  ASSUME InboundInv, NEW h \in Handlers, NEW pc \in PastLookupPcs, Goto(h, pc),
         handler[h].pc \in PastLookupPcs
  PROVE  \E y \in HandlerRecords :
           /\ handler' = [handler EXCEPT ![h] = y]
           /\ AdmittedBy(y) = AdmittedBy(handler[h]) /\ CommittedBy(y) = CommittedBy(handler[h])
  <1>1. pc \in Pcs BY DEF Pcs, PastLookupPcs
  <1> QED BY <1>1, Goes DEF AdmittedBy, CommittedBy, PastLookupPcs

LEMMA LookupRefines ==
  ASSUME InboundInv, NEW h \in Handlers, Lookup(h)
  PROVE  [Contract!Next]_Contract!contract
  <1> DEFINE m == handler[h].msg
  <1>1. handler[h].pc = "lookup" /\ m \in Messages \ Rejected
    BY HandlerFacts DEF Lookup, RequestKnows, Working, Pcs
  <1>2. AdmittedBy(handler[h]) = {} /\ CommittedBy(handler[h]) = {}
    BY <1>1 DEF AdmittedBy, CommittedBy
  <1>3. UNCHANGED <<stored, cycles, answered, customer, identity, linked>>
    BY DEF Lookup, meta, tables
  <1>4. CASE Goto(h, "next") /\ UNCHANGED misread
    <2>1. PICK y \in HandlerRecords : handler' = [handler EXCEPT ![h] = y] /\ y.pc = "next"
      BY <1>4, Goes DEF Pcs
    <2>2. AdmittedBy(y) = {} /\ CommittedBy(y) = {}
      BY <2>1 DEF AdmittedBy, CommittedBy
    <2> QED BY <1>2, <1>3, <1>4, <2>1, <2>2, GoesUnseen DEF Visible
  <1>5. CASE /\ Goto(h, "identity")
             /\ (m \notin stored /\ UNCHANGED misread) \/ misread' = misread \cup {m}
    <2>1. PICK y \in HandlerRecords :
            handler' = [handler EXCEPT ![h] = y] /\ y.pc = "identity" /\ y.msg = m
      BY <1>5, Goes DEF Pcs
    <2>2. AdmittedBy(y) = {m} /\ CommittedBy(y) = {}
      BY <2>1 DEF AdmittedBy, CommittedBy
    <2>3. /\ Admitted[h] = {} /\ Committed[h] = {}
          /\ Admitted' = [Admitted EXCEPT ![h] = {m}] /\ Committed' = Committed
      <3>1. /\ Admitted' = [Admitted EXCEPT ![h] = AdmittedBy(y)] /\ Committed' = Committed
            /\ Admitted[h] = AdmittedBy(handler[h]) /\ Committed[h] = CommittedBy(handler[h])
        <4>1. CommittedBy(y) = CommittedBy(handler[h]) BY <1>2, <2>2
        <4>2. handler' = [handler EXCEPT ![h] = y] BY <2>1
        <4> QED BY <4>1, <4>2, HandsMove
      <3> QED BY <1>2, <2>2, <3>1
    <2>4. Contract!Admit(h, m)
      BY <1>1, <1>3, <1>5, <2>3 DEF Contract!Admit, Contract!people
    <2> QED BY <1>1, <2>4 DEF Contract!Next
  <1> QED BY <1>4, <1>5 DEF Lookup, IsDuplicate

LEMMA FindRefines ==
  ASSUME InboundInv, NEW h \in Handlers, FindIdentity(h) \/ FindByNumber(h) \/ LoadCustomer(h)
  PROVE  UNCHANGED Contract!contract
  <1>1. handler[h].pc \in PastLookupPcs
    BY DEF FindIdentity, FindByNumber, LoadCustomer, PastLookupPcs
  <1>2. UNCHANGED Visible
    BY DEF FindIdentity, FindByNumber, LoadCustomer, meta, tables, history, Visible
  <1>3. ASSUME NEW pc \in PastLookupPcs, Goto(h, pc) PROVE UNCHANGED Contract!contract
    BY <1>1, <1>2, <1>3, GoesOn, GoesUnseen
  <1>4. CASE handler' = [handler EXCEPT ![h].pc = "store", ![h].known = TRUE]
    <2> DEFINE y == [handler[h] EXCEPT !.pc = "store", !.known = TRUE]
    <2>1. y \in HandlerRecords BY HandlerFacts DEF HandlerRecords, Pcs
    <2>2. handler' = [handler EXCEPT ![h] = y] BY <1>4, HandlerFacts
    <2>3. y.pc = "store" /\ y.msg = handler[h].msg BY HandlerFacts DEF HandlerRecords
    <2>4. AdmittedBy(y) = AdmittedBy(handler[h]) /\ CommittedBy(y) = CommittedBy(handler[h])
      <3> HIDE DEF y
      <3> QED BY <1>1, <2>3 DEF AdmittedBy, CommittedBy, PastLookupPcs
    <2> QED BY <1>2, <2>1, <2>2, <2>4, GoesUnseen
  <1>5. \/ \E pc \in PastLookupPcs : Goto(h, pc)
        \/ handler' = [handler EXCEPT ![h].pc = "store", ![h].known = TRUE]
    BY DEF FindIdentity, FindByNumber, LoadCustomer, PastLookupPcs
  <1> QED BY <1>3, <1>4, <1>5

\* What is in hand at the statements that write.
LEMMA InHand ==
  ASSUME InboundInv, NEW h \in Handlers, handler[h].pc \in PastLookupPcs
  PROVE  /\ handler[h].msg \in Messages
         /\ handler[h].msg \in Admitted[h]
         /\ Contact(h) = From[handler[h].msg]
  BY HandlerFacts DEF RequestKnows, Working, Pcs, PastLookupPcs, AdmittedBy, Admitted, Contact

LEMMA CreateRefines ==
  ASSUME InboundInv, NEW h \in Handlers, Create(h)
  PROVE  [Contract!Next]_Contract!contract
  <1> DEFINE m == handler[h].msg
  <1>1. handler[h].pc \in PastLookupPcs BY DEF Create, PastLookupPcs
  <1>2. UNCHANGED <<stored, cycles, misread, answered, identity, linked>>
    BY DEF Create, meta, history
  <1>3. CASE Contact(h) \notin customer /\ customer' = customer \cup {Contact(h)} /\ Goto(h, "link")
    <2>1. Admitted' = Admitted
      BY <1>1, <1>3, GoesOn, HandsMove DEF PastLookupPcs
    <2>2. Committed' = Committed
      BY <1>1, <1>3, GoesOn, HandsMove DEF PastLookupPcs
    <2>3. Contract!Register(h, m)
      BY <1>1, <1>2, <1>3, <2>1, <2>2, InHand DEF Contract!Register
    <2> QED BY <1>1, <2>3, InHand DEF Contract!Next
  <1>4. CASE Contact(h) \notin customer /\ customer' = customer \cup {Contact(h)} /\ Throw(h)
    <2>1. AdmittedBy(IdleHandler) = {} /\ CommittedBy(IdleHandler) = {} /\ CommittedBy(handler[h]) = {}
      BY <1>1 DEF AdmittedBy, CommittedBy, IdleHandler, PastLookupPcs
    <2>2. /\ Admitted'
               = [Admitted EXCEPT ![h] = {}]
          /\ Committed' = Committed
      BY <1>4, <2>1, Throws, IdleIsAHandler, HandsMove
    <2>3. Contract!Register(h, m)
      BY <1>1, <1>2, <1>4, <2>2, InHand DEF Contract!Register
    <2> QED BY <1>1, <2>3, InHand DEF Contract!Next
  <1>5. CASE UNCHANGED customer /\ Throw(h)
    BY <1>2, <1>5, ThrowsGiveUp DEF Contract!Next, Visible
  <1>6. customer \cup {Contact(h)} = customer \/ Contact(h) \notin customer
    OBVIOUS
  <1> QED BY <1>3, <1>4, <1>5, <1>6 DEF Create

LEMMA LinkRefines ==
  ASSUME InboundInv, NEW h \in Handlers, LinkIdentity(h)
  PROVE  [Contract!Next]_Contract!contract
  <1> DEFINE m == handler[h].msg
  <1>1. handler[h].pc \in PastLookupPcs /\ Contact(h) \in customer
    BY HandlerFacts DEF LinkIdentity, PastLookupPcs, RequestKnows, Contact
  <1>2. UNCHANGED <<stored, cycles, misread, answered, customer, linked>>
    BY DEF LinkIdentity, meta, history
  <1>3. CASE /\ identity' = identity \cup {Contact(h)}
             /\ handler' = [handler EXCEPT ![h].pc = "store", ![h].known = TRUE]
    <2> DEFINE y == [handler[h] EXCEPT !.pc = "store", !.known = TRUE]
    <2>1. y \in HandlerRecords BY HandlerFacts DEF HandlerRecords, Pcs
    <2>2. handler' = [handler EXCEPT ![h] = y] BY <1>3, HandlerFacts
    <2>3. y.pc = "store" /\ y.msg = handler[h].msg BY HandlerFacts DEF HandlerRecords
    <2>4. AdmittedBy(y) = AdmittedBy(handler[h]) /\ CommittedBy(y) = CommittedBy(handler[h])
      <3> HIDE DEF y
      <3> QED BY <1>1, <2>3 DEF AdmittedBy, CommittedBy, PastLookupPcs
    <2>5. /\ Admitted' = Admitted
          /\ Committed' = Committed
      <3> HIDE DEF y
      <3> QED BY <2>1, <2>2, <2>4, HandsMove
    <2>6. Contract!Identify(h, m)
      BY <1>1, <1>2, <1>3, <2>5, InHand DEF Contract!Identify
    <2> QED BY <1>1, <2>6, InHand DEF Contract!Next
  <1>4. CASE UNCHANGED identity /\ Throw(h)
    BY <1>2, <1>4, ThrowsGiveUp DEF Contract!Next, Visible
  <1> QED BY <1>3, <1>4 DEF LinkIdentity

LEMMA StoreRefines ==
  ASSUME InboundInv, NEW h \in Handlers, Store(h)
  PROVE  [Contract!Next]_Contract!contract
  <1> DEFINE m == handler[h].msg
  <1>1. /\ handler[h].pc \in PastLookupPcs
        /\ handler[h].known => Contact(h) \in identity
    BY HandlerFacts DEF Store, PastLookupPcs, RequestKnows, Contact
  <1>2. UNCHANGED <<cycles, misread, answered, customer, identity>>
    BY DEF Store, meta, history
  <1>3. CASE /\ stored' = stored \cup {m} /\ linked' = Coalesce(Contact(h), handler[h].known)
             /\ Goto(h, "cycle")
    <2>1. PICK y \in HandlerRecords :
            handler' = [handler EXCEPT ![h] = y] /\ y.pc = "cycle" /\ y.msg = m
      BY <1>3, Goes DEF Pcs
    <2>2. AdmittedBy(y) = {} /\ CommittedBy(y) = {m}
      BY <2>1 DEF AdmittedBy, CommittedBy
    <2>3. UNCHANGED linked \/ (Contact(h) \in identity /\ linked' = linked \cup {Contact(h)})
      BY <1>1, <1>3 DEF Coalesce
    <2>4. /\ Admitted' = [Admitted EXCEPT ![h] = {}]
          /\ Committed' = [Committed EXCEPT ![h] = {m}]
      <3>1. /\ Admitted' = [Admitted EXCEPT ![h] = AdmittedBy(y)]
            /\ Committed' = [Committed EXCEPT ![h] = CommittedBy(y)]
        BY <2>1, HandsMove
      <3> QED BY <2>2, <3>1
    <2>5. Contract!Store(h, m)
      BY <1>1, <1>2, <1>3, <2>3, <2>4, InHand DEF Contract!Store
    <2> QED BY <1>1, <2>5, InHand DEF Contract!Next
  <1>4. CASE UNCHANGED <<stored, linked>> /\ Throw(h)
    BY <1>2, <1>4, ThrowsGiveUp DEF Contract!Next, Visible
  <1> QED BY <1>3, <1>4 DEF Store

LEMMA CycleRefines ==
  ASSUME InboundInv, NEW h \in Handlers, RunCycle(h)
  PROVE  [Contract!Next]_Contract!contract
  <1> DEFINE m == handler[h].msg
  <1>1. handler[h].pc = "cycle" /\ m \in Messages
    BY HandlerFacts DEF RunCycle, RequestKnows, Working, Pcs
  <1>2. PICK y \in HandlerRecords : handler' = [handler EXCEPT ![h] = y] /\ y.pc = "next"
    BY Goes DEF RunCycle, Pcs
  <1>3. /\ AdmittedBy(y) = {} /\ CommittedBy(y) = {}
        /\ AdmittedBy(handler[h]) = {} /\ CommittedBy(handler[h]) = {m}
    BY <1>1, <1>2 DEF AdmittedBy, CommittedBy
  <1>4. UNCHANGED <<stored, misread, answered, customer, identity, linked>>
    BY DEF RunCycle, meta, tables
  <1>5. cycles' = [cycles EXCEPT ![m] = @ + 1]
    BY DEF RunCycle
  <1>6. /\ m \in Committed[h] /\ Admitted' = Admitted
        /\ Committed' = [Committed EXCEPT ![h] = {}]
    <2>1. /\ Admitted' = Admitted /\ Committed[h] = CommittedBy(handler[h])
          /\ Committed' = [Committed EXCEPT ![h] = CommittedBy(y)]
      BY <1>2, <1>3, HandsMove
    <2> QED BY <1>3, <2>1
  <1>7. Contract!Run(h, m)
    BY <1>4, <1>5, <1>6 DEF Contract!Run, Contract!people
  <1> QED BY <1>1, <1>7 DEF Contract!Next

LEMMA CrashRefines ==
  ASSUME InboundInv, NEW h \in Handlers, Crash(h)
  PROVE  [Contract!Next]_Contract!contract
  <1>1. UNCHANGED Visible /\ Throw(h) BY DEF Crash, meta, tables, history, Visible
  <1> QED BY <1>1, ThrowsGiveUp DEF Contract!Next

\* Every step of the webhook is a step of its contract or none, for any messages, contacts,
\* concurrent requests, redeliveries and faults.
THEOREM InboundKeepsItsContract == Spec => KeepsInboundContract
  <1>1. Init => Contract!Init
    <2> SUFFICES ASSUME Init PROVE Contract!Init OBVIOUS
    <2>1. \A h \in Handlers : AdmittedBy(handler[h]) = {} /\ CommittedBy(handler[h]) = {}
      BY DEF Init, IdleHandler, AdmittedBy, CommittedBy
    <2>2. /\ Admitted = [h \in Handlers |-> {}] /\ Committed = [h \in Handlers |-> {}]
      BY <2>1 DEF Admitted, Committed
    <2> QED BY <2>2 DEF Init, Contract!Init
  <1>2. InboundInv /\ [Next]_vars => [Contract!Next]_Contract!contract
    <2> SUFFICES ASSUME InboundInv, [Next]_vars PROVE [Contract!Next]_Contract!contract
      OBVIOUS
    <2>1. CASE UNCHANGED vars
      BY <2>1 DEF vars, meta, tables, history, Contract!contract, Contract!people,
                  Admitted, Committed, AdmittedBy, CommittedBy
    <2>2. CASE Next
      <3>1. PICK h \in Handlers : (\E p \in Payloads : Post(h, p)) \/ HandlerStep(h) \/ Crash(h)
        BY <2>2 DEF Next
      <3>2. CASE HandlerStep(h)
        BY <3>2, TakeRefines, AnswerRefines, LookupRefines, FindRefines, CreateRefines,
           LinkRefines, StoreRefines, CycleRefines DEF HandlerStep
      <3> QED BY <3>1, <3>2, PostRefines, CrashRefines
    <2> QED BY <2>1, <2>2
  <1> QED BY <1>1, <1>2, InvHolds, PTL DEF Spec, KeepsInboundContract, Contract!Spec
=============================================================================
