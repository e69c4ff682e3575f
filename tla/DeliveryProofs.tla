--------------------------- MODULE DeliveryProofs ---------------------------
(***************************************************************************)
(* What holds of delivery statuses for any number of messages, webhook     *)
(* requests, repetitions and faults.                                       *)
(***************************************************************************)
EXTENDS DeliveryStatus, TLAPS

\* A column that t cannot change any more.
Done(column, t) == column # "none" /\ ~ShouldProject(column, t)

Excluded == mixed \cup misread
Apart == overlapped \cup misread

\* What a request relies on.  The message it is about to project on still has the
\* status it read, or another request has projected its own status already; so has
\* the row, unless the sender has written it since.
MessageKnown(x) ==
  x.pc = "project" =>
    /\ message[x.send] # "none" /\ x.message # "none"
    /\ x.send \notin mixed => message[x.send] \in {x.message, x.status}
RowKnown(x) ==
  x.pc = "projectRow" =>
    /\ x.send \notin Excluded =>
         \/ row[x.send] \in {x.row, x.status}
         \/ x.row = "none" /\ row[x.send] \in {"null", "sent"}
    /\ x.send \notin Apart =>
         /\ x.row \in {row[x.send], "none"}
         /\ x.row = "none" => \A t \in Statuses : outcomes[x.send][t] = 0
OutcomeDue(x) ==
  x.pc = "outcome" /\ x.send \notin Apart =>
    Done(row[x.send], x.status) /\ outcomes[x.send][x.status] = 0
Running(x) == x.pc # "idle" => x.send \in Sends /\ x.status \in posted[x.send]
HandlerKnows(h) ==
  /\ Running(handler[h])
  /\ MessageKnown(handler[h]) /\ RowKnown(handler[h]) /\ OutcomeDue(handler[h])

\* The sender writes the row and the message once.
SenderKnows(s) ==
  /\ stage[s] \in {"posting", "accepted"} => row[s] = "none"
  /\ stage[s] # "done" => message[s] = "none"

\* Requests for one message hold one status, or are one request.
OneStatus(s) == \A g, h \in Handlers :
  s \notin mixed /\ handler[g].send = s /\ handler[h].send = s => handler[g].status = handler[h].status
Alone(s) == \A g, h \in Handlers :
  s \notin overlapped /\ handler[g].send = s /\ handler[h].send = s => g = h

\* A status has an outcome only when the row cannot take it again.
Counted(s) == s \notin Apart =>
  \A t \in Statuses : outcomes[s][t] <= 1 /\ (outcomes[s][t] # 0 => Done(row[s], t))

DeliveryInv ==
  /\ DeliveryTypeOK
  /\ \A h \in Handlers : HandlerKnows(h)
  /\ \A s \in Sends : SenderKnows(s) /\ OneStatus(s) /\ Alone(s) /\ Counted(s)

-----------------------------------------------------------------------------
(* The projection. *)

\* A status that may be projected on a column moves it forward.
LEMMA ProjectionsMoveForward ==
  ASSUME NEW column \in Columns \ {"none"}, NEW t \in Statuses,
         column = t \/ ShouldProject(column, t)
  PROVE  Forward(column, t)
  BY DEF Columns, Statuses, ShouldProject, Forward, Rank

\* What cannot change a column cannot change it later either.
LEMMA DoneStays ==
  ASSUME NEW column \in Columns, NEW t \in Statuses, NEW u \in Statuses,
         Done(column, t), ShouldProject(column, u)
  PROVE  Done(u, t)
  BY DEF Columns, Statuses, ShouldProject, Done

LEMMA ProjectedIsDone ==
  ASSUME NEW t \in Statuses
  PROVE  Done(t, t)
  BY DEF Statuses, ShouldProject, Done

LEMMA HandlerFields ==
  ASSUME DeliveryTypeOK, NEW h \in Handlers
  PROVE  /\ handler[h] = [pc |-> handler[h].pc, send |-> handler[h].send,
                          status |-> handler[h].status, message |-> handler[h].message,
                          row |-> handler[h].row]
         /\ handler[h].pc \in Pcs /\ handler[h].send \in Sends \cup {0}
         /\ handler[h].status \in Statuses
         /\ handler[h].message \in Columns /\ handler[h].row \in Columns
  BY DEF DeliveryTypeOK

HandlerRecords == [pc : Pcs, send : Sends \cup {0}, status : Statuses,
                   message : Columns, row : Columns]

LEMMA NoHandlerIsOne == NoHandler \in HandlerRecords
  BY DEF NoHandler, HandlerRecords, Pcs, Statuses, Columns

LEMMA InitIsInv == Init => DeliveryInv
  <1> SUFFICES ASSUME Init PROVE DeliveryInv OBVIOUS
  <1>1. DeliveryTypeOK
    <2>1. handler \in [Handlers -> HandlerRecords] BY NoHandlerIsOne DEF Init
    <2>2. \A s \in Sends : answered[s] \subseteq posted[s] /\ (posted[s] # {} => stage[s] # "posting")
      BY DEF Init
    <2> QED BY <2>1, <2>2, LimitsAssumption DEF Init, DeliveryTypeOK, HandlerRecords, Columns, Statuses
  <1>2. \A h \in Handlers : handler[h] = NoHandler BY DEF Init
  <1>3. NoHandler.pc = "idle" /\ NoHandler.send = 0 BY DEF NoHandler
  <1>4. \A h \in Handlers : HandlerKnows(h)
    BY <1>2, <1>3 DEF HandlerKnows, Running, MessageKnown, RowKnown, OutcomeDue
  <1>5. \A s \in Sends : SenderKnows(s) BY DEF Init, SenderKnows
  <1>6. \A s \in Sends : OneStatus(s) /\ Alone(s)
    BY <1>2, <1>3, SendsAssumption DEF OneStatus, Alone
  <1>7. \A s \in Sends : Counted(s)
    <2> SUFFICES ASSUME NEW s \in Sends, NEW t \in Statuses
                 PROVE  outcomes[s][t] <= 1 /\ (outcomes[s][t] # 0 => Done(row[s], t))
      BY DEF Counted
    <2>1. outcomes[s][t] = 0 BY DEF Init
    <2> QED BY <2>1
  <1> QED BY <1>1, <1>4, <1>5, <1>6, <1>7 DEF DeliveryInv

-----------------------------------------------------------------------------
(* What a step does to the message, the row, the outcomes and the sender. *)

MessageMoves == \A s \in Sends :
  \/ message'[s] = message[s]
  \/ message[s] = "none" /\ message'[s] = "sent" /\ stage'[s] = "done"
  \/ \E h \in Handlers :
       /\ handler[h].pc = "project" /\ handler[h].send = s
       /\ ShouldProject(handler[h].message, handler[h].status)
       /\ message'[s] = handler[h].status
RowMoves == \A s \in Sends :
  \/ row'[s] = row[s]
  \/ /\ row[s] = "none" /\ row'[s] \in {"null", "sent", "none"}
     /\ stage[s] = "accepted" /\ stage'[s] = "recorded"
  \/ \E h \in Handlers :
       /\ handler[h].pc = "projectRow" /\ handler[h].send = s /\ row[s] # "none"
       /\ ShouldProject(handler[h].row, handler[h].status)
       /\ row'[s] = handler[h].status /\ handler'[h].pc # "projectRow"
OutcomesMove == \A s \in Sends :
  \/ outcomes'[s] = outcomes[s]
  \/ \E h \in Handlers :
       /\ handler[h].pc = "outcome" /\ handler[h].send = s /\ handler'[h].pc # "outcome"
       /\ outcomes'[s] = [outcomes[s] EXCEPT ![handler[h].status] = @ + 1]
StageMoves == \A s \in Sends :
  /\ stage'[s] \in {"posting", "accepted"} => stage[s] \in {"posting", "accepted"}
  /\ stage'[s] # "done" => stage[s] # "done"
PostedGrow == \A s \in Sends : posted[s] \subseteq posted'[s]
SetsGrow == overlapped \subseteq overlapped' /\ mixed \subseteq mixed' /\ misread \subseteq misread'

\* Everything but the handlers keeps its type.
TablesOK ==
  /\ stage \in [Sends -> {"posting", "accepted", "recorded", "done"}]
  /\ message \in [Sends -> Columns \ {"null"}] /\ row \in [Sends -> Columns]
  /\ posted \in [Sends -> SUBSET Statuses]
  /\ answered \in [Sends -> SUBSET Statuses]
  /\ \A s \in Sends : /\ answered[s] \subseteq posted[s]
                      /\ posted[s] # {} => stage[s] # "posting"
  /\ duplicates \in 0..MaxDuplicates
  /\ outcomes \in [Sends -> [Statuses -> Nat]]
  /\ mixed \subseteq overlapped /\ overlapped \subseteq Sends
  /\ missed \subseteq Sends /\ misread \subseteq Sends
  /\ faults \in 0..MaxFaults

Effects == MessageMoves /\ RowMoves /\ OutcomesMove /\ StageMoves /\ PostedGrow /\ SetsGrow
           /\ TablesOK'

LEMMA TypeParts == DeliveryTypeOK <=> TablesOK /\ handler \in [Handlers -> HandlerRecords]
  BY DEF DeliveryTypeOK, TablesOK, HandlerRecords

LEMMA Facts ==
  ASSUME DeliveryInv, NEW h \in Handlers
  PROVE  /\ TablesOK /\ handler \in [Handlers -> HandlerRecords] /\ HandlerKnows(h)
         /\ handler[h] \in HandlerRecords
         /\ handler[h].pc \in Pcs /\ handler[h].send \in Sends \cup {0}
         /\ handler[h].status \in Statuses
         /\ handler[h].message \in Columns /\ handler[h].row \in Columns
         /\ handler[h].pc # "idle" => handler[h].send \in Sends
  BY TypeParts, HandlerFields DEF DeliveryInv, HandlerKnows, Running

\* The status of an excluded message stays excluded.
LEMMA ExclusionGrows ==
  ASSUME SetsGrow, NEW s
  PROVE  /\ s \notin mixed' => s \notin mixed
         /\ s \notin Excluded' => s \notin Excluded
         /\ s \notin Apart' => s \notin Apart
  BY DEF SetsGrow, Excluded, Apart

LEMMA ApartIsMore ==
  ASSUME DeliveryInv, NEW s, s \notin Apart
  PROVE  s \notin Excluded
  BY TypeParts DEF DeliveryInv, TablesOK, Apart, Excluded

\* What a request relies on survives the steps of the others.
LEMMA MessageStaysKnown ==
  ASSUME DeliveryInv, Effects, NEW g \in Handlers, NEW x \in HandlerRecords, x = handler[g]
  PROVE  MessageKnown(x)'
  <1> SUFFICES ASSUME x.pc = "project"
               PROVE  /\ message'[x.send] # "none" /\ x.message # "none"
                      /\ x.send \notin mixed' => message'[x.send] \in {x.message, x.status}
    BY DEF MessageKnown
  <1>1. x.send \in Sends /\ HandlerKnows(g) BY Facts
  <1>2. /\ message[x.send] # "none" /\ x.message # "none"
        /\ x.send \notin mixed => message[x.send] \in {x.message, x.status}
    BY <1>1 DEF HandlerKnows, MessageKnown
  <1>3. CASE message'[x.send] = message[x.send]
    BY <1>2, <1>3, ExclusionGrows DEF Effects
  <1>4. CASE \E h \in Handlers :
               /\ handler[h].pc = "project" /\ handler[h].send = x.send
               /\ message'[x.send] = handler[h].status
    <2>1. PICK h \in Handlers :
            /\ handler[h].pc = "project" /\ handler[h].send = x.send
            /\ message'[x.send] = handler[h].status
      BY <1>4
    <2>2. handler[h].status \in Statuses BY Facts
    <2>3. x.send \notin mixed => handler[h].status = x.status
      BY <1>1, <2>1 DEF DeliveryInv, OneStatus
    <2> QED BY <1>2, <2>1, <2>2, <2>3, ExclusionGrows DEF Effects, Statuses
  <1> QED BY <1>1, <1>2, <1>3, <1>4 DEF Effects, MessageMoves

LEMMA RowStaysKnown ==
  ASSUME DeliveryInv, Effects, NEW g \in Handlers, NEW x \in HandlerRecords,
         x = handler[g], handler'[g] = x
  PROVE  RowKnown(x)'
  <1> SUFFICES ASSUME x.pc = "projectRow"
               PROVE  /\ x.send \notin Excluded' =>
                           \/ row'[x.send] \in {x.row, x.status}
                           \/ x.row = "none" /\ row'[x.send] \in {"null", "sent"}
                      /\ x.send \notin Apart' =>
                           /\ x.row \in {row'[x.send], "none"}
                           /\ x.row = "none" => \A t \in Statuses : outcomes'[x.send][t] = 0
    BY DEF RowKnown
  <1>1. x.send \in Sends /\ HandlerKnows(g) BY Facts
  <1>2. /\ x.send \notin Excluded =>
             \/ row[x.send] \in {x.row, x.status}
             \/ x.row = "none" /\ row[x.send] \in {"null", "sent"}
        /\ x.send \notin Apart =>
             /\ x.row \in {row[x.send], "none"}
             /\ x.row = "none" => \A t \in Statuses : outcomes[x.send][t] = 0
    BY <1>1 DEF HandlerKnows, RowKnown
  <1>3. ASSUME x.send \notin Excluded'
        PROVE  \/ row'[x.send] \in {x.row, x.status}
               \/ x.row = "none" /\ row'[x.send] \in {"null", "sent"}
    <2>1. x.send \notin Excluded /\ x.send \notin mixed
      BY <1>3, ExclusionGrows DEF Effects, Excluded
    <2>2. CASE row'[x.send] = row[x.send] BY <1>2, <2>1, <2>2
    <2>3. CASE /\ row[x.send] = "none" /\ row'[x.send] \in {"null", "sent", "none"}
      <3>1. x.row = "none" \/ x.status = "none" BY <1>2, <2>1, <2>3
      <3>2. x.status \in Statuses BY Facts
      <3>3. x.row = "none" BY <3>1, <3>2 DEF Statuses
      <3> QED BY <2>3, <3>3
    <2>4. CASE \E h \in Handlers : handler[h].send = x.send /\ row'[x.send] = handler[h].status
      BY <1>1, <2>1, <2>4 DEF DeliveryInv, OneStatus
    <2> QED BY <1>1, <2>2, <2>3, <2>4 DEF Effects, RowMoves
  <1>4. ASSUME x.send \notin Apart'
        PROVE  /\ x.row \in {row'[x.send], "none"}
               /\ x.row = "none" => \A t \in Statuses : outcomes'[x.send][t] = 0
    <2>1. x.send \notin Apart /\ x.send \notin overlapped
      BY <1>4, ExclusionGrows DEF Effects, Apart
    <2>2. \A h \in Handlers : handler[h].send = x.send => h = g
      BY <1>1, <2>1 DEF DeliveryInv, Alone
    <2>3. row'[x.send] = row[x.send] \/ row[x.send] = "none"
      BY <1>1, <2>2 DEF Effects, RowMoves
    <2>4. outcomes'[x.send] = outcomes[x.send]
      BY <1>1, <2>2 DEF Effects, OutcomesMove
    <2> QED BY <1>2, <2>1, <2>3, <2>4
  <1> QED BY <1>3, <1>4

\* A step keeps a column that is done, done.
LEMMA RowsStayDone ==
  ASSUME DeliveryInv, Effects, NEW s \in Sends, s \notin Apart, NEW t \in Statuses,
         Done(row[s], t), outcomes[s][t] # 0
  PROVE  Done(row'[s], t)
  <1>1. row[s] # "none" /\ row[s] \in Columns BY TypeParts DEF Done, DeliveryInv, TablesOK
  <1>2. CASE row'[s] = row[s] BY <1>2
  <1>3. CASE \E h \in Handlers :
               /\ handler[h].pc = "projectRow" /\ handler[h].send = s
               /\ ShouldProject(handler[h].row, handler[h].status)
               /\ row'[s] = handler[h].status
    <2>1. PICK h \in Handlers :
               /\ handler[h].pc = "projectRow" /\ handler[h].send = s
               /\ ShouldProject(handler[h].row, handler[h].status)
               /\ row'[s] = handler[h].status
      BY <1>3
    <2>2. handler[h].status \in Statuses /\ HandlerKnows(h) BY Facts
    <2>3. handler[h].row = row[s] BY <2>1, <2>2 DEF HandlerKnows, RowKnown
    <2> QED BY <1>1, <2>1, <2>2, <2>3, DoneStays
  <1> QED BY <1>1, <1>2, <1>3 DEF Effects, RowMoves

LEMMA OutcomeStaysDue ==
  ASSUME DeliveryInv, Effects, NEW g \in Handlers, NEW x \in HandlerRecords,
         x = handler[g], handler'[g] = x
  PROVE  OutcomeDue(x)'
  <1> SUFFICES ASSUME x.pc = "outcome", x.send \notin Apart'
               PROVE  Done(row'[x.send], x.status) /\ outcomes'[x.send][x.status] = 0
    BY DEF OutcomeDue, Done
  <1>1. x.send \in Sends /\ HandlerKnows(g) /\ x.status \in Statuses BY Facts
  <1>2. x.send \notin Apart /\ x.send \notin overlapped
    BY ExclusionGrows DEF Effects, Apart
  <1>3. Done(row[x.send], x.status) /\ outcomes[x.send][x.status] = 0
    BY <1>1, <1>2 DEF HandlerKnows, OutcomeDue
  <1>4. \A h \in Handlers : handler[h].send = x.send => h = g
    BY <1>1, <1>2 DEF DeliveryInv, Alone
  <1>5. row'[x.send] = row[x.send]
    BY <1>1, <1>3, <1>4 DEF Effects, RowMoves, Done
  <1>6. outcomes'[x.send] = outcomes[x.send]
    <2>1. \A h \in Handlers : handler[h].send = x.send => handler'[h].pc = "outcome" BY <1>4
    <2> QED BY <1>1, <2>1 DEF Effects, OutcomesMove
  <1> QED BY <1>3, <1>5, <1>6

\* One request takes a step: it ends, goes on with its status, or comes in.
Posted(y) ==
  /\ y.pc = "message" /\ y.send \in Sends /\ y.status \in posted'[y.send]
  /\ \A g \in Handlers : handler[g].send = y.send =>
       y.send \in overlapped' /\ (handler[g].status # y.status => y.send \in mixed')
Continues(h, y) ==
  /\ y.send = handler[h].send /\ y.status = handler[h].status /\ handler[h].pc # "idle"
  /\ MessageKnown(y)' /\ RowKnown(y)' /\ OutcomeDue(y)'
HandlerMoves ==
  \/ UNCHANGED handler
  \/ \E h \in Handlers, y \in HandlerRecords :
       /\ handler' = [handler EXCEPT ![h] = y]
       /\ y = NoHandler \/ Posted(y) \/ Continues(h, y)

LEMMA HandlersStayKnown ==
  ASSUME DeliveryInv, Effects, HandlerMoves, NEW g \in Handlers
  PROVE  HandlerKnows(g)'
  <1>1. ASSUME NEW x \in HandlerRecords, x = handler[g], handler'[g] = x
        PROVE  HandlerKnows(g)'
    <2>1. MessageKnown(x)' /\ RowKnown(x)' /\ OutcomeDue(x)'
      BY <1>1, MessageStaysKnown, RowStaysKnown, OutcomeStaysDue
    <2>2. Running(x)' BY <1>1, Facts DEF HandlerKnows, Running, Effects, PostedGrow
    <2> QED BY <1>1, <2>1, <2>2 DEF HandlerKnows
  <1>2. CASE UNCHANGED handler BY <1>1, <1>2, Facts
  <1>3. CASE \E h \in Handlers, y \in HandlerRecords :
               /\ handler' = [handler EXCEPT ![h] = y]
               /\ y = NoHandler \/ Posted(y) \/ Continues(h, y)
    <2>1. PICK h \in Handlers, y \in HandlerRecords :
               /\ handler' = [handler EXCEPT ![h] = y]
               /\ y = NoHandler \/ Posted(y) \/ Continues(h, y)
      BY <1>3
    <2>2. handler'[h] = y /\ (g # h => handler'[g] = handler[g]) BY <2>1, Facts
    <2>3. CASE g # h BY <1>1, <2>2, <2>3, Facts
    <2>4. CASE g = h
      <3>1. Running(y)'
        <4>1. CASE Continues(h, y)
          <5>1. HandlerKnows(h) BY Facts
          <5> QED BY <4>1, <5>1 DEF Continues, HandlerKnows, Running, Effects, PostedGrow
        <4>2. CASE y = NoHandler \/ Posted(y) BY <4>2 DEF NoHandler, Posted, Running
        <4> QED BY <2>1, <4>1, <4>2
      <3>2. MessageKnown(y)' /\ RowKnown(y)' /\ OutcomeDue(y)'
        <4>1. CASE Continues(h, y) BY <4>1 DEF Continues
        <4>2. CASE y.pc \in {"idle", "message"} BY <4>2 DEF MessageKnown, RowKnown, OutcomeDue
        <4> QED BY <2>1, <4>1, <4>2 DEF NoHandler, Posted
      <3> QED BY <2>2, <2>4, <3>1, <3>2 DEF HandlerKnows
    <2> QED BY <2>3, <2>4
  <1> QED BY <1>2, <1>3 DEF HandlerMoves

LEMMA SinglesStay ==
  ASSUME DeliveryInv, Effects, HandlerMoves, NEW s \in Sends
  PROVE  OneStatus(s)' /\ Alone(s)'
  <1>1. OneStatus(s) /\ Alone(s) BY DEF DeliveryInv
  <1>2. (s \notin mixed' => s \notin mixed) /\ (s \notin overlapped' => s \notin overlapped)
    BY DEF Effects, SetsGrow
  <1>3. CASE UNCHANGED handler BY <1>1, <1>2, <1>3 DEF OneStatus, Alone
  <1>4. CASE \E h \in Handlers, y \in HandlerRecords :
               /\ handler' = [handler EXCEPT ![h] = y]
               /\ y = NoHandler \/ Posted(y) \/ Continues(h, y)
    <2>1. PICK h \in Handlers, y \in HandlerRecords :
               /\ handler' = [handler EXCEPT ![h] = y]
               /\ y = NoHandler \/ Posted(y) \/ Continues(h, y)
      BY <1>4
    <2>2. handler'[h] = y /\ \A g \in Handlers : g # h => handler'[g] = handler[g]
      BY <2>1, Facts
    <2>3. \A g \in Handlers : g # h /\ handler[g].send = s /\ y.send = s =>
            /\ s \notin mixed' => handler[g].status = y.status
            /\ s \in overlapped'
      <3>1. CASE y = NoHandler BY <3>1, SendsAssumption DEF NoHandler
      <3>2. CASE Posted(y) BY <3>2 DEF Posted
      <3>3. CASE Continues(h, y) BY <1>1, <1>2, <3>3 DEF Continues, OneStatus, Alone
      <3> QED BY <2>1, <3>1, <3>2, <3>3
    <2>4. OneStatus(s)'
      <3> SUFFICES ASSUME NEW f \in Handlers, NEW g \in Handlers, s \notin mixed',
                          handler'[f].send = s, handler'[g].send = s
                   PROVE  handler'[f].status = handler'[g].status
        BY DEF OneStatus
      <3>1. CASE f # h /\ g # h BY <1>1, <1>2, <2>2, <3>1 DEF OneStatus
      <3>2. CASE f = h \/ g = h BY <2>2, <2>3, <3>2
      <3> QED BY <3>1, <3>2
    <2>5. Alone(s)'
      <3> SUFFICES ASSUME NEW f \in Handlers, NEW g \in Handlers, s \notin overlapped',
                          handler'[f].send = s, handler'[g].send = s
                   PROVE  f = g
        BY DEF Alone
      <3>1. CASE f # h /\ g # h BY <1>1, <1>2, <2>2, <3>1 DEF Alone
      <3>2. CASE f = h \/ g = h BY <2>2, <2>3, <3>2
      <3> QED BY <3>1, <3>2
    <2> QED BY <2>4, <2>5
  <1> QED BY <1>3, <1>4 DEF HandlerMoves

LEMMA SenderStaysKnown ==
  ASSUME DeliveryInv, Effects, NEW s \in Sends
  PROVE  SenderKnows(s)'
  <1>1. SenderKnows(s) BY DEF DeliveryInv
  <1>2. ASSUME stage'[s] \in {"posting", "accepted"} PROVE row'[s] = "none"
    <2>1. row[s] = "none" BY <1>1, <1>2 DEF Effects, StageMoves, SenderKnows
    <2> QED BY <1>2, <2>1 DEF Effects, RowMoves
  <1>3. ASSUME stage'[s] # "done" PROVE message'[s] = "none"
    <2>1. message[s] = "none" BY <1>1, <1>3 DEF Effects, StageMoves, SenderKnows
    <2>2. \A h \in Handlers : ~(handler[h].pc = "project" /\ handler[h].send = s)
      <3> SUFFICES ASSUME NEW h \in Handlers, handler[h].pc = "project", handler[h].send = s
                   PROVE  FALSE
        OBVIOUS
      <3>1. HandlerKnows(h) BY Facts
      <3> QED BY <2>1, <3>1 DEF HandlerKnows, MessageKnown
    <2> QED BY <1>3, <2>1, <2>2 DEF Effects, MessageMoves
  <1> QED BY <1>2, <1>3 DEF SenderKnows

LEMMA CountsStay ==
  ASSUME DeliveryInv, Effects, NEW s \in Sends
  PROVE  Counted(s)'
  <1> SUFFICES ASSUME s \notin Apart', NEW t \in Statuses
               PROVE  outcomes'[s][t] <= 1 /\ (outcomes'[s][t] # 0 => Done(row'[s], t))
    BY DEF Counted, Done
  <1>1. s \notin Apart /\ s \notin overlapped BY ExclusionGrows DEF Effects, Apart
  <1>2. outcomes[s][t] <= 1 /\ (outcomes[s][t] # 0 => Done(row[s], t))
    BY <1>1 DEF DeliveryInv, Counted
  <1>3. CASE outcomes'[s][t] = outcomes[s][t] BY <1>1, <1>2, <1>3, RowsStayDone
  <1>4. CASE \E h \in Handlers :
               /\ handler[h].pc = "outcome" /\ handler[h].send = s /\ handler'[h].pc # "outcome"
               /\ outcomes'[s] = [outcomes[s] EXCEPT ![handler[h].status] = @ + 1]
    <2>1. PICK h \in Handlers :
               /\ handler[h].pc = "outcome" /\ handler[h].send = s /\ handler'[h].pc # "outcome"
               /\ outcomes'[s] = [outcomes[s] EXCEPT ![handler[h].status] = @ + 1]
      BY <1>4
    <2>2. HandlerKnows(h) /\ handler[h].status \in Statuses BY Facts
    <2>3. Done(row[s], handler[h].status) /\ outcomes[s][handler[h].status] = 0
      BY <1>1, <2>1, <2>2 DEF HandlerKnows, OutcomeDue
    <2>4. outcomes \in [Sends -> [Statuses -> Nat]] BY TypeParts DEF DeliveryInv, TablesOK
    <2>5. CASE t # handler[h].status
      <3>1. outcomes'[s][t] = outcomes[s][t] BY <2>1, <2>4, <2>5
      <3> QED BY <1>3, <3>1
    <2>6. CASE t = handler[h].status
      <3>1. outcomes'[s][t] = 1 BY <2>1, <2>2, <2>3, <2>4, <2>6
      <3>2. \A g \in Handlers : handler[g].send = s => g = h
        BY <1>1, <2>1 DEF DeliveryInv, Alone
      <3>3. row'[s] = row[s] BY <2>1, <2>3, <3>2 DEF Effects, RowMoves, Done
      <3> QED BY <2>3, <2>6, <3>1, <3>3
    <2> QED BY <2>5, <2>6
  <1> QED BY <1>3, <1>4 DEF Effects, OutcomesMove

LEMMA InvFollows ==
  ASSUME DeliveryInv, Effects, HandlerMoves
  PROVE  DeliveryInv'
  <1>1. handler' \in [Handlers -> HandlerRecords]
    <2>1. handler \in [Handlers -> HandlerRecords] BY TypeParts DEF DeliveryInv
    <2> QED BY <2>1 DEF HandlerMoves
  <1>2. DeliveryTypeOK' BY <1>1, TypeParts DEF Effects, DeliveryTypeOK, TablesOK, HandlerRecords
  <1>3. \A h \in Handlers : HandlerKnows(h)' BY HandlersStayKnown
  <1>4. \A s \in Sends : SenderKnows(s)' /\ OneStatus(s)' /\ Alone(s)' /\ Counted(s)'
    BY SenderStaysKnown, SinglesStay, CountsStay
  <1> QED BY <1>2, <1>3, <1>4 DEF DeliveryInv

-----------------------------------------------------------------------------
(* Every action moves so. *)

\* A step that leaves the tables alone has no effect on them.
LEMMA QuietSteps ==
  ASSUME DeliveryInv, UNCHANGED <<stage, message, row, posted, answered, outcomes>>,
         duplicates' \in 0..MaxDuplicates, faults' \in 0..MaxFaults, SetsGrow,
         mixed' \subseteq overlapped', overlapped' \subseteq Sends,
         missed' \subseteq Sends, misread' \subseteq Sends
  PROVE  Effects
  <1>1. TablesOK' BY TypeParts DEF DeliveryInv, TablesOK
  <1>2. MessageMoves /\ RowMoves /\ OutcomesMove /\ StageMoves /\ PostedGrow
    BY DEF MessageMoves, RowMoves, OutcomesMove, StageMoves, PostedGrow
  <1> QED BY <1>1, <1>2 DEF Effects

LEMMA FaultsStayBounded ==
  ASSUME DeliveryInv, Fault \/ UNCHANGED faults
  PROVE  faults' \in 0..MaxFaults
  BY TypeParts, LimitsAssumption DEF DeliveryInv, TablesOK, Fault

LEMMA SenderMoves ==
  ASSUME DeliveryInv, NEW s \in Sends, SenderStep(s) \/ CrashSender(s)
  PROVE  Effects /\ HandlerMoves
  <1>1. TablesOK BY TypeParts DEF DeliveryInv
  <1>2. SenderKnows(s) BY DEF DeliveryInv
  <1>3. /\ UNCHANGED <<duplicates, posted, answered, handler, outcomes,
                       overlapped, mixed, missed, misread>>
        /\ Fault \/ UNCHANGED faults
    BY DEF SenderStep, Accept, Record, Persist, CrashSender, webhook, history
  <1>4. faults' \in 0..MaxFaults BY <1>3, FaultsStayBounded
  <1>5. PICK u \in {"accepted", "recorded", "done"} :
          /\ stage' = [stage EXCEPT ![s] = u]
          /\ u = "accepted" => stage[s] = "posting"
          /\ u = "recorded" => stage[s] = "accepted"
    BY DEF SenderStep, Accept, Record, Persist, CrashSender
  <1>6. StageMoves BY <1>1, <1>5 DEF TablesOK, StageMoves
  <1>7. /\ stage' \in [Sends -> {"posting", "accepted", "recorded", "done"}]
        /\ \A r \in Sends : posted[r] # {} => stage'[r] # "posting"
    BY <1>1, <1>5 DEF TablesOK
  <1>8. row' \in [Sends -> Columns] /\ RowMoves
    <2>1. CASE UNCHANGED row BY <1>1, <2>1 DEF TablesOK, RowMoves
    <2>2. CASE Record(s)
      <3>1. CASE \E p \in {"null", "sent", "none"} : row' = [row EXCEPT ![s] = p]
        <4>1. PICK p \in {"null", "sent", "none"} : row' = [row EXCEPT ![s] = p] BY <3>1
        <4>2. p \in Columns BY DEF Columns, Statuses
        <4>3. stage[s] = "accepted" /\ stage'[s] = "recorded" /\ row[s] = "none"
          BY <1>1, <1>2, <2>2 DEF Record, TablesOK, SenderKnows
        <4> QED BY <1>1, <4>1, <4>2, <4>3 DEF TablesOK, RowMoves
      <3> QED BY <2>1, <2>2, <3>1 DEF Record
    <2> QED BY <2>1, <2>2 DEF SenderStep, Accept, Persist, CrashSender
  <1>9. message' \in [Sends -> Columns \ {"null"}] /\ MessageMoves
    <2>1. CASE UNCHANGED message BY <1>1, <2>1 DEF TablesOK, MessageMoves
    <2>2. CASE Persist(s)
      <3>1. CASE message' = [message EXCEPT ![s] = "sent"]
        <4>1. "sent" \in Columns \ {"null"} BY DEF Columns, Statuses
        <4>2. message[s] = "none" /\ stage'[s] = "done"
          BY <1>1, <1>2, <2>2 DEF Persist, TablesOK, SenderKnows
        <4> QED BY <1>1, <3>1, <4>1, <4>2 DEF TablesOK, MessageMoves
      <3> QED BY <2>1, <2>2, <3>1 DEF Persist, InsertedStatus
    <2> QED BY <2>1, <2>2 DEF SenderStep, Accept, Record, CrashSender
  <1>10. OutcomesMove /\ SetsGrow /\ PostedGrow BY <1>3 DEF OutcomesMove, SetsGrow, PostedGrow
  <1>11. TablesOK' BY <1>1, <1>3, <1>4, <1>7, <1>8, <1>9 DEF TablesOK
  <1> QED BY <1>3, <1>6, <1>8, <1>9, <1>10, <1>11 DEF Effects, HandlerMoves

LEMMA ReachMoves ==
  ASSUME DeliveryInv, NEW s \in Sends, NEW t \in Statuses, Reach(s, t)
  PROVE  Effects /\ HandlerMoves
  <1>1. TablesOK BY TypeParts DEF DeliveryInv
  <1>2. /\ UNCHANGED <<stage, duplicates, message, row, answered, handler, outcomes,
                       overlapped, mixed, missed, misread, faults>>
        /\ posted' = [posted EXCEPT ![s] = @ \cup {t}] /\ stage[s] # "posting"
    BY DEF Reach, sender, history
  <1>3. /\ posted' \in [Sends -> SUBSET Statuses] /\ PostedGrow
        /\ \A r \in Sends : /\ answered[r] \subseteq posted'[r]
                            /\ posted'[r] # {} => stage[r] # "posting"
    BY <1>1, <1>2 DEF TablesOK, PostedGrow
  <1>4. TablesOK' BY <1>1, <1>2, <1>3 DEF TablesOK
  <1>5. MessageMoves /\ RowMoves /\ OutcomesMove /\ StageMoves /\ SetsGrow
    BY <1>2 DEF MessageMoves, RowMoves, OutcomesMove, StageMoves, SetsGrow
  <1> QED BY <1>2, <1>3, <1>4, <1>5 DEF Effects, HandlerMoves

LEMMA PostMoves ==
  ASSUME DeliveryInv, NEW h \in Handlers, NEW s \in Sends, NEW t \in Statuses, Post(h, s, t)
  PROVE  Effects /\ HandlerMoves
  <1>1. TablesOK BY TypeParts DEF DeliveryInv
  <1>2. /\ UNCHANGED <<stage, message, row, posted, answered, outcomes, missed, misread, faults>>
        /\ t \in posted[s]
    BY DEF Post
  <1>3. duplicates' \in 0..MaxDuplicates
    BY <1>1, LimitsAssumption DEF Post, TablesOK
  <1> DEFINE others == {g \in Handlers : handler[g].send = s}
  <1>4. /\ overlapped' = IF others # {} THEN overlapped \cup {s} ELSE overlapped
        /\ mixed' = IF \E g \in others : handler[g].status # t THEN mixed \cup {s} ELSE mixed
    BY DEF Post
  <1>5. /\ SetsGrow /\ mixed' \subseteq overlapped' /\ overlapped' \subseteq Sends
        /\ \A g \in Handlers : handler[g].send = s =>
             s \in overlapped' /\ (handler[g].status # t => s \in mixed')
    BY <1>1, <1>2, <1>4 DEF TablesOK, SetsGrow
  <1>6. Effects BY <1>1, <1>2, <1>3, <1>5, QuietSteps DEF TablesOK
  <1>7. PICK y \in HandlerRecords :
          y = [NoHandler EXCEPT !.pc = "message", !.send = s, !.status = t]
    BY NoHandlerIsOne DEF HandlerRecords, Pcs, NoHandler
  <1>8. y.pc = "message" /\ y.send = s /\ y.status = t BY <1>7 DEF NoHandler
  <1>9. Posted(y) BY <1>2, <1>5, <1>8 DEF Posted
  <1>10. handler' = [handler EXCEPT ![h] = y] BY <1>7 DEF Post
  <1> QED BY <1>6, <1>9, <1>10 DEF HandlerMoves

\* A request that ends or dies.
LEMMA ThrowMoves ==
  ASSUME NEW h \in Handlers, Throw(h)
  PROVE  HandlerMoves
  BY NoHandlerIsOne DEF Throw, HandlerMoves

LEMMA CrashMoves ==
  ASSUME DeliveryInv, NEW h \in Handlers, Crash(h)
  PROVE  Effects /\ HandlerMoves
  <1>1. TablesOK BY TypeParts DEF DeliveryInv
  <1>2. /\ UNCHANGED <<stage, message, row, posted, answered, outcomes, duplicates,
                       overlapped, mixed, missed, misread>>
        /\ faults' \in 0..MaxFaults /\ Throw(h)
    BY FaultsStayBounded DEF Crash, sender, history
  <1>3. SetsGrow BY <1>2 DEF SetsGrow
  <1>4. Effects BY <1>1, <1>2, <1>3, QuietSteps DEF TablesOK
  <1> QED BY <1>2, <1>4, ThrowMoves

LEMMA AnswerMoves ==
  ASSUME DeliveryInv, NEW h \in Handlers, Answer(h)
  PROVE  Effects /\ HandlerMoves
  <1>1. TablesOK BY TypeParts DEF DeliveryInv
  <1>2. /\ UNCHANGED <<stage, message, row, posted, outcomes, duplicates,
                       overlapped, mixed, missed, misread>>
        /\ faults' \in 0..MaxFaults /\ Throw(h)
    BY FaultsStayBounded DEF Answer, sender, history
  <1>3. handler[h].send \in Sends /\ handler[h].status \in posted[handler[h].send]
    BY Facts DEF Answer, HandlerKnows, Running
  <1>4. answered' \in [Sends -> SUBSET Statuses] /\ \A s \in Sends : answered'[s] \subseteq posted[s]
    <2>1. /\ answered \in [Sends -> SUBSET Statuses] /\ posted \in [Sends -> SUBSET Statuses]
          /\ \A s \in Sends : answered[s] \subseteq posted[s]
      BY <1>1 DEF TablesOK
    <2>2. PICK x \in HandlerRecords : x = handler[h] BY Facts
    <2>3. \/ UNCHANGED answered
          \/ answered' = [answered EXCEPT ![x.send] = @ \cup {x.status}]
      BY <2>2 DEF Answer
    <2> QED BY <1>3, <2>1, <2>2, <2>3
  <1>5. TablesOK' BY <1>1, <1>2, <1>4 DEF TablesOK
  <1>6. MessageMoves /\ RowMoves /\ OutcomesMove /\ StageMoves /\ PostedGrow /\ SetsGrow
    BY <1>2 DEF MessageMoves, RowMoves, OutcomesMove, StageMoves, PostedGrow, SetsGrow
  <1> QED BY <1>2, <1>5, <1>6, ThrowMoves DEF Effects

LEMMA ReadMessageMoves ==
  ASSUME DeliveryInv, NEW h \in Handlers, ReadMessage(h)
  PROVE  Effects /\ HandlerMoves
  <1>1. TablesOK BY TypeParts DEF DeliveryInv
  <1>2. PICK x \in HandlerRecords : x = handler[h] BY Facts
  <1>3. x.pc = "message" /\ x.send \in Sends BY <1>2, Facts DEF ReadMessage
  <1>4. /\ UNCHANGED <<stage, duplicates, message, row, posted, answered, outcomes,
                       overlapped, mixed>>
        /\ faults' \in 0..MaxFaults
    BY FaultsStayBounded DEF ReadMessage, sender
  <1>5. /\ misread \subseteq misread' /\ misread' \subseteq Sends /\ missed' \subseteq Sends
    BY <1>1, <1>2, <1>3 DEF ReadMessage, TablesOK
  <1>6. SetsGrow BY <1>4, <1>5 DEF SetsGrow
  <1>7. Effects BY <1>1, <1>4, <1>5, <1>6, QuietSteps DEF TablesOK
  <1>8. message[x.send] \in Columns BY <1>1, <1>3 DEF TablesOK
  <1>9. CASE handler' = [handler EXCEPT ![h].message = message[x.send],
                           ![h].pc = IF message[x.send] = "none" THEN "answer" ELSE "project"]
    <2>1. PICK y \in HandlerRecords :
            y = [x EXCEPT !.message = message[x.send],
                          !.pc = IF message[x.send] = "none" THEN "answer" ELSE "project"]
      BY <1>8 DEF HandlerRecords, Pcs
    <2>2. /\ y.send = x.send /\ y.status = x.status /\ y.message = message[x.send]
          /\ y.pc = IF message[x.send] = "none" THEN "answer" ELSE "project"
      BY <2>1 DEF HandlerRecords
    <2>3. MessageKnown(y)' /\ RowKnown(y)' /\ OutcomeDue(y)'
      BY <1>4, <2>2 DEF MessageKnown, RowKnown, OutcomeDue
    <2>4. Continues(h, y) BY <1>2, <1>3, <2>2, <2>3 DEF Continues
    <2>5. handler' = [handler EXCEPT ![h] = y] BY <1>1, <1>2, <1>9, <2>1, Facts
    <2> QED BY <1>7, <2>4, <2>5 DEF HandlerMoves
  <1>10. CASE handler' = [handler EXCEPT ![h].pc = "answer"]
    <2>1. PICK y \in HandlerRecords : y = [x EXCEPT !.pc = "answer"] BY DEF HandlerRecords, Pcs
    <2>2. y.send = x.send /\ y.status = x.status /\ y.pc = "answer" BY <2>1 DEF HandlerRecords
    <2>3. MessageKnown(y)' /\ RowKnown(y)' /\ OutcomeDue(y)'
      BY <2>2 DEF MessageKnown, RowKnown, OutcomeDue
    <2>4. Continues(h, y) BY <1>2, <1>3, <2>2, <2>3 DEF Continues
    <2>5. handler' = [handler EXCEPT ![h] = y] BY <1>2, <1>10, <2>1, Facts
    <2> QED BY <1>7, <2>4, <2>5 DEF HandlerMoves
  <1> QED BY <1>2, <1>7, <1>9, <1>10 DEF ReadMessage

LEMMA ProjectMessageMoves ==
  ASSUME DeliveryInv, NEW h \in Handlers, ProjectMessage(h)
  PROVE  Effects /\ HandlerMoves
  <1>1. TablesOK BY TypeParts DEF DeliveryInv
  <1>2. PICK x \in HandlerRecords : x = handler[h] BY Facts
  <1>3. x.pc = "project" /\ x.send \in Sends /\ x.status \in Statuses
    BY <1>2, Facts DEF ProjectMessage
  <1>4. /\ UNCHANGED <<stage, duplicates, row, posted, answered, outcomes,
                       overlapped, mixed, missed, misread>>
        /\ faults' \in 0..MaxFaults
    BY FaultsStayBounded DEF ProjectMessage, sender, history
  <1>5. \/ UNCHANGED message
        \/ ShouldProject(x.message, x.status) /\ message' = [message EXCEPT ![x.send] = x.status]
    BY <1>2 DEF ProjectMessage
  <1>6. message' \in [Sends -> Columns \ {"null"}] /\ MessageMoves
    <2>1. x.status \in Columns \ {"null"} BY <1>3 DEF Statuses, Columns
    <2> QED BY <1>1, <1>2, <1>3, <1>5, <2>1 DEF TablesOK, MessageMoves
  <1>7. TablesOK' BY <1>1, <1>4, <1>6 DEF TablesOK
  <1>8. RowMoves /\ OutcomesMove /\ StageMoves /\ PostedGrow /\ SetsGrow
    BY <1>4 DEF RowMoves, OutcomesMove, StageMoves, PostedGrow, SetsGrow
  <1>9. CASE handler' = [handler EXCEPT ![h].pc = "row", ![h].message = "none"]
    <2>1. PICK y \in HandlerRecords : y = [x EXCEPT !.pc = "row", !.message = "none"]
      BY DEF HandlerRecords, Pcs, Columns
    <2>2. y.send = x.send /\ y.status = x.status /\ y.pc = "row" BY <2>1 DEF HandlerRecords
    <2>3. MessageKnown(y)' /\ RowKnown(y)' /\ OutcomeDue(y)'
      BY <2>2 DEF MessageKnown, RowKnown, OutcomeDue
    <2>4. Continues(h, y) BY <1>2, <1>3, <2>2, <2>3 DEF Continues
    <2>5. handler' = [handler EXCEPT ![h] = y] BY <1>2, <1>9, <2>1, Facts
    <2> QED BY <1>6, <1>7, <1>8, <2>4, <2>5 DEF Effects, HandlerMoves
  <1> QED BY <1>6, <1>7, <1>8, <1>9, ThrowMoves DEF Effects, ProjectMessage

LEMMA ReadRowMoves ==
  ASSUME DeliveryInv, NEW h \in Handlers, ReadRow(h)
  PROVE  Effects /\ HandlerMoves
  <1>1. TablesOK BY TypeParts DEF DeliveryInv
  <1>2. PICK x \in HandlerRecords : x = handler[h] BY Facts
  <1>3. x.pc = "row" /\ x.send \in Sends BY <1>2, Facts DEF ReadRow
  <1>4. /\ UNCHANGED <<stage, duplicates, message, row, posted, answered, outcomes,
                       overlapped, mixed, missed>>
        /\ faults' \in 0..MaxFaults
    BY FaultsStayBounded DEF ReadRow, sender
  <1>5. misread \subseteq misread' /\ misread' \subseteq Sends
    BY <1>1, <1>2, <1>3 DEF ReadRow, TablesOK
  <1>6. SetsGrow BY <1>4, <1>5 DEF SetsGrow
  <1>7. Effects BY <1>1, <1>4, <1>5, <1>6, QuietSteps DEF TablesOK
  <1>8. row[x.send] \in Columns BY <1>1, <1>3 DEF TablesOK
  <1>9. CASE handler' = [handler EXCEPT ![h].pc = "projectRow", ![h].row = row[x.send]]
    <2>1. PICK y \in HandlerRecords : y = [x EXCEPT !.pc = "projectRow", !.row = row[x.send]]
      BY <1>8 DEF HandlerRecords, Pcs
    <2>2. /\ y.send = x.send /\ y.status = x.status
          /\ y.row = row[x.send] /\ y.pc = "projectRow"
      BY <2>1 DEF HandlerRecords
    <2>3. x.send \notin Apart' /\ row[x.send] = "none" =>
            \A t \in Statuses : outcomes[x.send][t] = 0
      <3> SUFFICES ASSUME x.send \notin Apart', row[x.send] = "none", NEW t \in Statuses
                   PROVE  outcomes[x.send][t] = 0
        OBVIOUS
      <3>1. x.send \notin Apart BY <1>6, ExclusionGrows
      <3> QED BY <1>3, <3>1 DEF DeliveryInv, Counted, Done
    <2>4. RowKnown(y)' BY <1>4, <2>2, <2>3 DEF RowKnown
    <2>5. MessageKnown(y)' /\ OutcomeDue(y)' BY <2>2 DEF MessageKnown, OutcomeDue
    <2>6. Continues(h, y) BY <1>2, <1>3, <2>2, <2>4, <2>5 DEF Continues
    <2>7. handler' = [handler EXCEPT ![h] = y] BY <1>2, <1>9, <2>1, Facts
    <2> QED BY <1>7, <2>6, <2>7 DEF HandlerMoves
  <1>10. CASE handler' = [handler EXCEPT ![h].pc = "projectRow"] /\ x.send \in misread'
    <2>1. PICK y \in HandlerRecords : y = [x EXCEPT !.pc = "projectRow"]
      BY DEF HandlerRecords, Pcs
    <2>2. y.send = x.send /\ y.status = x.status /\ y.pc = "projectRow"
      BY <2>1 DEF HandlerRecords
    <2>3. RowKnown(y)' BY <1>10, <2>2 DEF RowKnown, Excluded, Apart
    <2>4. MessageKnown(y)' /\ OutcomeDue(y)' BY <2>2 DEF MessageKnown, OutcomeDue
    <2>5. Continues(h, y) BY <1>2, <1>3, <2>2, <2>3, <2>4 DEF Continues
    <2>6. handler' = [handler EXCEPT ![h] = y] BY <1>2, <1>10, <2>1, Facts
    <2> QED BY <1>7, <2>5, <2>6 DEF HandlerMoves
  <1> QED BY <1>2, <1>7, <1>9, <1>10 DEF ReadRow

LEMMA ProjectRowMoves ==
  ASSUME DeliveryInv, NEW h \in Handlers, ProjectRow(h)
  PROVE  Effects /\ HandlerMoves
  <1>1. TablesOK BY TypeParts DEF DeliveryInv
  <1>2. PICK x \in HandlerRecords : x = handler[h] BY Facts
  <1>3. x.pc = "projectRow" /\ x.send \in Sends /\ x.status \in Statuses
    BY <1>2, Facts DEF ProjectRow
  <1>4. /\ UNCHANGED <<stage, duplicates, message, posted, answered, outcomes,
                       overlapped, mixed, missed, misread>>
        /\ faults' \in 0..MaxFaults
    BY FaultsStayBounded DEF ProjectRow, sender, history
  <1> DEFINE may == ShouldProject(x.row, x.status) /\ row[x.send] # "none"
             pc == IF x.row # "none" /\ ShouldProject(x.row, x.status) THEN "outcome" ELSE "answer"
  <1>5. \/ /\ row' = IF may THEN [row EXCEPT ![x.send] = x.status] ELSE row
           /\ handler' = [handler EXCEPT ![h].pc = pc, ![h].row = "none"]
        \/ UNCHANGED row /\ Throw(h)
    BY <1>2 DEF ProjectRow, HasOutcome
  <1>6. MessageMoves /\ OutcomesMove /\ StageMoves /\ PostedGrow /\ SetsGrow
    BY <1>4 DEF MessageMoves, OutcomesMove, StageMoves, PostedGrow, SetsGrow
  <1>7. row' \in [Sends -> Columns]
    <2>1. x.status \in Columns BY <1>3 DEF Columns
    <2> QED BY <1>1, <1>3, <1>5, <2>1 DEF TablesOK
  <1>8. TablesOK' BY <1>1, <1>4, <1>7 DEF TablesOK
  <1>9. CASE UNCHANGED row /\ Throw(h)
    <2>1. RowMoves BY <1>9 DEF RowMoves
    <2> QED BY <1>6, <1>8, <1>9, <2>1, ThrowMoves DEF Effects
  <1>10. CASE /\ row' = IF may THEN [row EXCEPT ![x.send] = x.status] ELSE row
              /\ handler' = [handler EXCEPT ![h].pc = pc, ![h].row = "none"]
    <2>1. PICK y \in HandlerRecords : y = [x EXCEPT !.pc = pc, !.row = "none"]
      BY DEF HandlerRecords, Pcs, Columns
    <2>2. y.send = x.send /\ y.status = x.status /\ y.pc = pc
      BY <2>1 DEF HandlerRecords
    <2>3. handler' = [handler EXCEPT ![h] = y] BY <1>2, <1>10, <2>1, Facts
    <2>4. handler'[h].pc # "projectRow" BY <2>2, <2>3, Facts
    <2>5. RowMoves BY <1>1, <1>2, <1>3, <1>10, <2>4 DEF RowMoves, TablesOK
    <2>6. Effects BY <1>6, <1>8, <2>5 DEF Effects
    <2>7. OutcomeDue(y)'
      <3> SUFFICES ASSUME x.row # "none", ShouldProject(x.row, x.status), x.send \notin Apart'
                   PROVE  Done(row'[x.send], x.status) /\ outcomes'[x.send][x.status] = 0
        BY <2>2 DEF OutcomeDue, Done
      <3>1. x.send \notin Apart BY <1>6, ExclusionGrows
      <3>2. HandlerKnows(h) BY Facts
      <3>3. x.row = row[x.send] BY <1>2, <1>3, <3>1, <3>2 DEF HandlerKnows, RowKnown
      <3>4. row'[x.send] = x.status BY <1>1, <1>3, <1>10, <3>3 DEF TablesOK
      <3>5. outcomes[x.send][x.status] = 0
        BY <1>3, <3>1, <3>3 DEF DeliveryInv, Counted, Done
      <3> QED BY <1>3, <1>4, <3>4, <3>5, ProjectedIsDone
    <2>8. MessageKnown(y)' /\ RowKnown(y)' BY <2>2 DEF MessageKnown, RowKnown
    <2>9. Continues(h, y) BY <1>2, <1>3, <2>2, <2>7, <2>8 DEF Continues
    <2> QED BY <2>3, <2>6, <2>9 DEF HandlerMoves
  <1> QED BY <1>5, <1>9, <1>10

LEMMA RecordOutcomeMoves ==
  ASSUME DeliveryInv, NEW h \in Handlers, RecordOutcome(h)
  PROVE  Effects /\ HandlerMoves
  <1>1. TablesOK BY TypeParts DEF DeliveryInv
  <1>2. PICK x \in HandlerRecords : x = handler[h] BY Facts
  <1>3. x.pc = "outcome" /\ x.send \in Sends /\ x.status \in Statuses
    BY <1>2, Facts DEF RecordOutcome
  <1>4. /\ UNCHANGED <<stage, duplicates, message, row, posted, answered,
                       overlapped, mixed, missed, misread>>
        /\ faults' \in 0..MaxFaults
        /\ handler' = [handler EXCEPT ![h].pc = "answer"]
    BY FaultsStayBounded DEF RecordOutcome, sender, history
  <1>5. \/ UNCHANGED outcomes
        \/ outcomes' = [outcomes EXCEPT ![x.send][x.status] = @ + 1]
    BY <1>2 DEF RecordOutcome
  <1>6. PICK y \in HandlerRecords : y = [x EXCEPT !.pc = "answer"] BY DEF HandlerRecords, Pcs
  <1>7. y.send = x.send /\ y.status = x.status /\ y.pc = "answer" BY <1>6 DEF HandlerRecords
  <1>8. handler' = [handler EXCEPT ![h] = y] BY <1>2, <1>4, <1>6, Facts
  <1>9. handler'[h].pc # "outcome" BY <1>7, <1>8, Facts
  <1>10. outcomes' \in [Sends -> [Statuses -> Nat]]
    <2>1. outcomes \in [Sends -> [Statuses -> Nat]] BY <1>1 DEF TablesOK
    <2>2. outcomes[x.send] \in [Statuses -> Nat] BY <1>3, <2>1
    <2>3. outcomes[x.send][x.status] + 1 \in Nat BY <1>3, <2>2
    <2>4. [outcomes[x.send] EXCEPT ![x.status] = @ + 1] \in [Statuses -> Nat]
      BY <2>2, <2>3
    <2> QED BY <1>3, <1>5, <2>1, <2>4
  <1>11. OutcomesMove BY ZenonT(60), <1>1, <1>2, <1>3, <1>5, <1>9 DEF TablesOK, OutcomesMove
  <1>12. MessageMoves /\ RowMoves /\ StageMoves /\ PostedGrow /\ SetsGrow
    BY <1>4 DEF MessageMoves, RowMoves, StageMoves, PostedGrow, SetsGrow
  <1>13. TablesOK' BY <1>1, <1>4, <1>10 DEF TablesOK
  <1>14. MessageKnown(y)' /\ RowKnown(y)' /\ OutcomeDue(y)'
    BY <1>7 DEF MessageKnown, RowKnown, OutcomeDue
  <1>15. Continues(h, y) BY <1>2, <1>3, <1>7, <1>14 DEF Continues
  <1> QED BY <1>8, <1>11, <1>12, <1>13, <1>15 DEF Effects, HandlerMoves

-----------------------------------------------------------------------------
(* The theorems. *)

LEMMA NextMoves ==
  ASSUME DeliveryInv, Next
  PROVE  Effects /\ HandlerMoves
  <1>1. CASE \E s \in Sends : SenderStep(s) \/ CrashSender(s) BY <1>1, SenderMoves
  <1>2. CASE \E s \in Sends, t \in Statuses : Reach(s, t) BY <1>2, ReachMoves
  <1>3. CASE \E h \in Handlers, s \in Sends, t \in Statuses : Post(h, s, t) BY <1>3, PostMoves
  <1>4. CASE \E h \in Handlers : HandlerStep(h)
    BY <1>4, ReadMessageMoves, ProjectMessageMoves, ReadRowMoves, ProjectRowMoves,
       RecordOutcomeMoves, AnswerMoves DEF HandlerStep
  <1>5. CASE \E h \in Handlers : Crash(h) BY <1>5, CrashMoves
  <1> QED BY <1>1, <1>2, <1>3, <1>4, <1>5 DEF Next

LEMMA NextKeepsInv == DeliveryInv /\ [Next]_vars => DeliveryInv'
  <1> SUFFICES ASSUME DeliveryInv, [Next]_vars PROVE DeliveryInv' OBVIOUS
  <1>1. CASE Next BY <1>1, NextMoves, InvFollows
  <1>2. CASE UNCHANGED vars
    <2>1. UNCHANGED <<stage, duplicates, message, row, posted, answered, handler, outcomes,
                      overlapped, mixed, missed, misread, faults>>
      BY <1>2 DEF vars, sender, history
    <2>2. TablesOK BY TypeParts DEF DeliveryInv
    <2>3. Effects BY <2>1, <2>2, QuietSteps DEF TablesOK, SetsGrow
    <2>4. HandlerMoves BY <2>1 DEF HandlerMoves
    <2> QED BY <2>3, <2>4, InvFollows
  <1> QED BY <1>1, <1>2

LEMMA InvHolds == Spec => []DeliveryInv
  BY InitIsInv, NextKeepsInv, PTL DEF Spec

\* The tables and the requests keep their types: what was answered was posted, and
\* Meta posts no status of a message that was not handed to it.
THEOREM DeliveryTypeCorrectness == Spec => []DeliveryTypeOK
  <1>1. DeliveryInv => DeliveryTypeOK BY DEF DeliveryInv
  <1> QED BY <1>1, InvHolds, PTL

\* However often and in whatever order a status is posted, and whatever dies
\* half-way, it has at most one delivery outcome, unless requests for the message
\* overlap or a read fails.
THEOREM OutcomesAreSingle == Spec => []OneOutcomePerStatus
  <1>1. DeliveryInv => OneOutcomePerStatus
    BY DEF DeliveryInv, Counted, Apart, OneOutcomePerStatus
  <1> QED BY <1>1, InvHolds, PTL

\* No request undoes what another status has written on the message or on the row,
\* unless requests with different statuses overlap or a read fails.
THEOREM StatusesMoveForward == Spec => StatusMovesForward
  <1> DEFINE Moves == \A s \in Sends \ (mixed \cup misread) :
        (row[s] # "none" => Forward(row[s], row'[s])) /\ Forward(message[s], message'[s])
  <1>1. ASSUME DeliveryInv, Effects, NEW s \in Sends \ (mixed \cup misread)
        PROVE  Forward(message[s], message'[s])
    <2>1. CASE message'[s] = message[s] BY <2>1 DEF Forward
    <2>2. CASE message[s] = "none" /\ message'[s] = "sent" BY <2>2 DEF Forward, Rank
    <2>3. CASE \E h \in Handlers :
                 /\ handler[h].pc = "project" /\ handler[h].send = s
                 /\ ShouldProject(handler[h].message, handler[h].status)
                 /\ message'[s] = handler[h].status
      <3>1. PICK h \in Handlers :
                 /\ handler[h].pc = "project" /\ handler[h].send = s
                 /\ ShouldProject(handler[h].message, handler[h].status)
                 /\ message'[s] = handler[h].status
        BY <2>3
      <3>2. handler[h].status \in Statuses /\ handler[h].message \in Columns /\ HandlerKnows(h)
        BY <1>1, Facts
      <3>3. /\ message[s] \in {handler[h].message, handler[h].status}
            /\ message[s] # "none" /\ handler[h].message # "none"
        BY <3>1, <3>2 DEF HandlerKnows, MessageKnown
      <3>4. message[s] \in Columns \ {"none"}
        BY <3>2, <3>3 DEF Columns
      <3> QED BY <3>1, <3>2, <3>3, <3>4, ProjectionsMoveForward
    <2> QED BY <1>1, <2>1, <2>2, <2>3 DEF Effects, MessageMoves
  <1>2. ASSUME DeliveryInv, Effects, NEW s \in Sends \ (mixed \cup misread), row[s] # "none"
        PROVE  Forward(row[s], row'[s])
    <2>1. CASE row'[s] = row[s] BY <2>1 DEF Forward
    <2>2. CASE \E h \in Handlers :
                 /\ handler[h].pc = "projectRow" /\ handler[h].send = s
                 /\ ShouldProject(handler[h].row, handler[h].status)
                 /\ row'[s] = handler[h].status
      <3>1. PICK h \in Handlers :
                 /\ handler[h].pc = "projectRow" /\ handler[h].send = s
                 /\ ShouldProject(handler[h].row, handler[h].status)
                 /\ row'[s] = handler[h].status
        BY <2>2
      <3>2. handler[h].status \in Statuses /\ handler[h].row \in Columns /\ HandlerKnows(h)
        BY <1>2, Facts
      <3>3. \/ row[s] \in {handler[h].row, handler[h].status}
            \/ row[s] \in {"null", "sent"}
        BY <3>1, <3>2 DEF HandlerKnows, RowKnown, Excluded
      <3>4. CASE row[s] \in {handler[h].row, handler[h].status}
        <4>1. row[s] \in Columns \ {"none"} BY <1>2, <3>2, <3>4 DEF Columns
        <4> QED BY <3>1, <3>2, <3>4, <4>1, ProjectionsMoveForward
      <3>5. CASE row[s] \in {"null", "sent"}
        BY <3>1, <3>2, <3>5 DEF Forward, Rank, Statuses
      <3> QED BY <3>3, <3>4, <3>5
    <2> QED BY <1>2, <2>1, <2>2 DEF Effects, RowMoves
  <1>3. DeliveryInv /\ Next => Moves BY <1>1, <1>2, NextMoves
  <1>4. UNCHANGED vars => Moves BY DEF vars, Forward
  <1>5. DeliveryInv /\ [Next]_vars => [Moves]_vars BY <1>3, <1>4
  <1> QED BY <1>5, InvHolds, PTL DEF Spec, StatusMovesForward

-----------------------------------------------------------------------------
(* Answered statuses. *)

Sure(s) == s \notin mixed \cup missed \cup misread
Covered(s, t) == Done(message[s], t) /\ (row[s] # "none" => Done(row[s], t))

\* What a request has projected when it comes to the row, and when it answers.
Projected(x) ==
  /\ x.pc \in {"row", "projectRow"} /\ Sure(x.send) => Done(message[x.send], x.status)
  /\ x.pc \in {"outcome", "answer"} /\ Sure(x.send) => Covered(x.send, x.status)

AnswerInv ==
  /\ DeliveryInv
  /\ \A h \in Handlers : handler[h].pc = "idle" => handler[h].send = 0
  /\ \A h \in Handlers : Projected(handler[h])
  /\ \A s \in Sends : Sure(s) => \A t \in answered[s] : Covered(s, t)

LEMMA MissedGrows == Next => missed \subseteq missed'
  BY DEF Next, SenderStep, Accept, Record, Persist, CrashSender, webhook, history, Reach, Post,
         HandlerStep, ReadMessage, ProjectMessage, ReadRow, ProjectRow, RecordOutcome, Answer,
         Crash

LEMMA SureBefore ==
  ASSUME Effects, missed \subseteq missed', NEW s, Sure(s)'
  PROVE  Sure(s) /\ s \notin mixed /\ s \notin Excluded
  BY DEF Effects, SetsGrow, Sure, Excluded

\* No request takes back what a message says when all hold one status.
LEMMA MessageStaysDone ==
  ASSUME DeliveryInv, Effects, NEW s \in Sends, s \notin mixed, NEW t \in Statuses,
         Done(message[s], t)
  PROVE  Done(message'[s], t)
  <1>1. message[s] # "none" /\ message[s] \in Columns
    BY TypeParts DEF Done, DeliveryInv, TablesOK
  <1>2. CASE message'[s] = message[s] BY <1>2
  <1>3. CASE \E h \in Handlers :
               /\ handler[h].pc = "project" /\ handler[h].send = s
               /\ ShouldProject(handler[h].message, handler[h].status)
               /\ message'[s] = handler[h].status
    <2>1. PICK h \in Handlers :
               /\ handler[h].pc = "project" /\ handler[h].send = s
               /\ ShouldProject(handler[h].message, handler[h].status)
               /\ message'[s] = handler[h].status
      BY <1>3
    <2>2. handler[h].status \in Statuses /\ HandlerKnows(h) BY Facts
    <2>3. message[s] \in {handler[h].message, handler[h].status}
      BY <2>1, <2>2 DEF HandlerKnows, MessageKnown
    <2>4. CASE message[s] = handler[h].message BY <1>1, <2>1, <2>2, <2>4, DoneStays
    <2>5. CASE message[s] = handler[h].status BY <2>1, <2>5
    <2> QED BY <2>3, <2>4, <2>5
  <1> QED BY <1>1, <1>2, <1>3 DEF Effects, MessageMoves

\* ... nor what a row says; and a row that is missing when the message is there stays so.
LEMMA SureRowStaysDone ==
  ASSUME DeliveryInv, Effects, NEW s \in Sends, s \notin Excluded, NEW t \in Statuses,
         Done(row[s], t)
  PROVE  Done(row'[s], t)
  <1>1. row[s] # "none" /\ row[s] \in Columns BY TypeParts DEF Done, DeliveryInv, TablesOK
  <1>2. CASE row'[s] = row[s] BY <1>2
  <1>3. CASE \E h \in Handlers :
               /\ handler[h].pc = "projectRow" /\ handler[h].send = s
               /\ ShouldProject(handler[h].row, handler[h].status)
               /\ row'[s] = handler[h].status
    <2>1. PICK h \in Handlers :
               /\ handler[h].pc = "projectRow" /\ handler[h].send = s
               /\ ShouldProject(handler[h].row, handler[h].status)
               /\ row'[s] = handler[h].status
      BY <1>3
    <2>2. handler[h].status \in Statuses /\ HandlerKnows(h) BY Facts
    <2>3. row[s] \in {handler[h].row, handler[h].status} \/ row[s] \in {"null", "sent"}
      BY <2>1, <2>2 DEF HandlerKnows, RowKnown
    <2>4. CASE row[s] = handler[h].row BY <1>1, <2>1, <2>2, <2>4, DoneStays
    <2>5. CASE row[s] = handler[h].status BY <2>1, <2>5
    <2>6. CASE row[s] \in {"null", "sent"}
      BY <2>1, <2>2, <2>6 DEF Done, ShouldProject, Statuses
    <2> QED BY <2>3, <2>4, <2>5, <2>6
  <1> QED BY <1>1, <1>2, <1>3 DEF Effects, RowMoves

LEMMA RowStaysMissing ==
  ASSUME DeliveryInv, Effects, NEW s \in Sends, message[s] # "none", row[s] = "none"
  PROVE  row'[s] = "none"
  <1>1. SenderKnows(s) BY DEF DeliveryInv
  <1>2. stage[s] # "accepted" BY <1>1 DEF SenderKnows
  <1> QED BY <1>2 DEF Effects, RowMoves

LEMMA CoverStays ==
  ASSUME DeliveryInv, Effects, NEW s \in Sends, s \notin mixed, s \notin Excluded,
         NEW t \in Statuses, Covered(s, t)
  PROVE  Covered(s, t)'
  <1>1. Done(message[s], t) /\ message[s] # "none" BY DEF Covered, Done
  <1>2. Done(message'[s], t) BY <1>1, MessageStaysDone
  <1>3. CASE row[s] = "none"
    <2>1. row'[s] = "none" BY <1>1, <1>3, RowStaysMissing
    <2> QED BY <1>2, <2>1 DEF Covered, Done
  <1>4. CASE row[s] # "none"
    <2>1. Done(row[s], t) BY <1>4 DEF Covered
    <2>2. Done(row'[s], t) BY <2>1, SureRowStaysDone
    <2> QED BY <1>2, <2>2 DEF Covered, Done
  <1> QED BY <1>3, <1>4

\* What a request has projected survives the steps of the others.
LEMMA ProjectedStays ==
  ASSUME AnswerInv, Effects, missed \subseteq missed', NEW g \in Handlers,
         NEW x \in HandlerRecords, x = handler[g]
  PROVE  Projected(x)'
  <1>1. DeliveryInv /\ Projected(x) /\ (x.pc # "idle" => x.send \in Sends) /\ x.status \in Statuses
    BY Facts DEF AnswerInv
  <1>2. ASSUME x.pc \in {"row", "projectRow"}, Sure(x.send)' PROVE Done(message'[x.send], x.status)
    <2>1. Sure(x.send) /\ x.send \notin mixed BY <1>2, SureBefore
    <2> QED BY <1>1, <1>2, <2>1, MessageStaysDone DEF Projected
  <1>3. ASSUME x.pc \in {"outcome", "answer"}, Sure(x.send)' PROVE Covered(x.send, x.status)'
    <2>1. Sure(x.send) /\ x.send \notin mixed /\ x.send \notin Excluded BY <1>3, SureBefore
    <2>2. x.send \in Sends /\ Covered(x.send, x.status) BY <1>1, <1>3, <2>1 DEF Projected
    <2> QED BY <1>1, <2>1, <2>2, CoverStays
  <1> QED BY <1>2, <1>3 DEF Projected, Done

-----------------------------------------------------------------------------
(* The contract. *)

Keeps == [Contract!Next]_(Contract!contract)

\* The contract reads a column as the projection does.
LEMMA ContractReads ==
  /\ Contract!Statuses = Statuses
  /\ \A column \in Columns, t \in Statuses :
       /\ column # "none" => (column \in Contract!Overwrites[t] <=> ShouldProject(column, t))
       /\ Contract!Says(column, t) <=> Done(column, t)
  <1>1. DOMAIN Contract!Overwrites = Statuses BY DEF Contract!Overwrites, Statuses
  <1>2. ASSUME NEW column \in Columns, NEW t \in Statuses
        PROVE  column # "none" => (column \in Contract!Overwrites[t] <=> ShouldProject(column, t))
    BY DEF Contract!Overwrites, Statuses, Columns, ShouldProject
  <1>3. ASSUME NEW column \in Columns, NEW t \in Statuses
        PROVE  Contract!Says(column, t) <=> Done(column, t)
    BY <1>2 DEF Contract!Says, Done
  <1> QED BY <1>1, <1>2, <1>3 DEF Contract!Statuses

\* The contract's view of one request changes with that request only.
LEMMA HeldMoves ==
  ASSUME DeliveryInv, NEW h \in Handlers, NEW y \in HandlerRecords,
         handler' = [handler EXCEPT ![h] = y]
  PROVE  /\ Held' = [Held EXCEPT ![h] = HeldBy(y)]
         /\ Held[h] = HeldBy(handler[h])
         /\ HeldBy(y) = HeldBy(handler[h]) => Held' = Held
  <1>1. \A g \in Handlers : handler'[g] = IF g = h THEN y ELSE handler[g] BY Facts
  <1>2. Held[h] = HeldBy(handler[h]) BY DEF Held
  <1>3. Held' = [Held EXCEPT ![h] = HeldBy(y)] BY ZenonT(60), <1>1 DEF Held, HeldBy
  <1>4. Held = [Held EXCEPT ![h] = HeldBy(handler[h])] BY DEF Held
  <1> QED BY <1>2, <1>3, <1>4

LEMMA HeldIs ==
  ASSUME NEW h \in Handlers, handler[h].pc # "idle"
  PROVE  Held[h] = {<<handler[h].send, handler[h].status>>}
  BY DEF Held, HeldBy

\* A request that goes on with its status.
LEMMA GoesOn ==
  ASSUME DeliveryInv, NEW h \in Handlers, NEW y \in HandlerRecords,
         handler' = [handler EXCEPT ![h] = y], handler[h].pc # "idle", y.pc # "idle",
         y.send = handler[h].send, y.status = handler[h].status
  PROVE  UNCHANGED Held
  <1>1. HeldBy(y) = HeldBy(handler[h]) BY DEF HeldBy
  <1> QED BY <1>1, HeldMoves

\* ... and one that ends.
LEMMA Ends ==
  ASSUME DeliveryInv, NEW h \in Handlers, Throw(h)
  PROVE  Held' = [Held EXCEPT ![h] = {}]
  <1>1. HeldBy(NoHandler) = {} BY DEF HeldBy, NoHandler
  <1> QED BY <1>1, NoHandlerIsOne, HeldMoves DEF Throw

\* Where a request that has taken a step stands.
Stands(h, y) ==
  /\ handler' = [handler EXCEPT ![h] = y]
  /\ y.pc = "idle" => y.send = 0
  /\ Projected(y)'
\* What a step may add to the answered statuses.
AnswersCovered == \A s \in Sends : \A t \in answered'[s] \ answered[s] : Sure(s)' => Covered(s, t)'
Steps(h) == Keeps /\ AnswersCovered /\ \E y \in HandlerRecords : Stands(h, y)

LEMMA ThrowStands ==
  ASSUME NEW h \in Handlers, Throw(h)
  PROVE  \E y \in HandlerRecords : Stands(h, y)
  <1>1. NoHandler.pc = "idle" /\ NoHandler.send = 0 BY DEF NoHandler
  <1>2. Projected(NoHandler)' BY <1>1 DEF Projected
  <1> QED BY <1>1, <1>2, NoHandlerIsOne DEF Throw, Stands

LEMMA GiveUpSteps ==
  ASSUME DeliveryInv, NEW h \in Handlers, Throw(h),
         UNCHANGED <<message, row, posted, answered, outcomes, overlapped, mixed, missed, misread>>
  PROVE  Steps(h)
  <1>1. Contract!GiveUp(h)
    BY Ends DEF Contract!GiveUp, Contract!columns, Contract!excuses
  <1>2. Keeps BY <1>1 DEF Keeps, Contract!Next
  <1> QED BY <1>2, ThrowStands DEF Steps, AnswersCovered

LEMMA ReadMessageSteps ==
  ASSUME AnswerInv, NEW h \in Handlers, ReadMessage(h)
  PROVE  Steps(h)
  <1>1. DeliveryInv /\ TablesOK BY Facts DEF AnswerInv
  <1>2. PICK x \in HandlerRecords : x = handler[h] BY <1>1, Facts
  <1>3. x.pc = "message" /\ x.send \in Sends /\ x.status \in Statuses
    BY <1>1, <1>2, Facts DEF ReadMessage
  <1>4. UNCHANGED <<message, row, posted, answered, outcomes, overlapped, mixed>>
    BY DEF ReadMessage
  <1>5. message[x.send] \in Columns BY <1>1, <1>3 DEF TablesOK
  <1>6. Held[h] = {<<x.send, x.status>>} BY <1>2, <1>3, HeldIs
  <1>7. ASSUME NEW y \in HandlerRecords, handler' = [handler EXCEPT ![h] = y],
               y.send = x.send, y.status = x.status, y.pc \in {"answer", "project"},
               y.pc = "answer" => x.send \in missed' \cup misread'
        PROVE  UNCHANGED Held /\ \E z \in HandlerRecords : Stands(h, z)
    <2>1. UNCHANGED Held BY <1>1, <1>2, <1>3, <1>7, GoesOn
    <2>2. Projected(y)' BY <1>7 DEF Projected, Sure
    <2> QED BY <1>7, <2>1, <2>2 DEF Stands
  <1>8. CASE /\ handler' = [handler EXCEPT ![h].message = message[x.send],
                              ![h].pc = IF message[x.send] = "none" THEN "answer" ELSE "project"]
             /\ missed' = IF message[x.send] = "none" THEN missed \cup {x.send} ELSE missed
             /\ UNCHANGED misread
    <2>1. PICK y \in HandlerRecords :
            y = [x EXCEPT !.message = message[x.send],
                          !.pc = IF message[x.send] = "none" THEN "answer" ELSE "project"]
      BY <1>5 DEF HandlerRecords, Pcs
    <2>2. /\ y.send = x.send /\ y.status = x.status
          /\ y.pc = IF message[x.send] = "none" THEN "answer" ELSE "project"
      BY <2>1 DEF HandlerRecords
    <2>3. handler' = [handler EXCEPT ![h] = y] BY <1>1, <1>2, <1>8, <2>1, Facts
    <2>4. UNCHANGED Held /\ \E z \in HandlerRecords : Stands(h, z)
      BY <1>7, <1>8, <2>2, <2>3
    <2>5. CASE message[x.send] = "none"
      <3>1. Contract!Miss(h, x.send, x.status)
        BY <1>4, <1>6, <1>8, <2>4, <2>5 DEF Contract!Miss, Contract!columns
      <3> QED BY <1>3, <1>4, <2>4, <3>1, ContractReads
              DEF Keeps, Contract!Next, Steps, AnswersCovered
    <2>6. CASE message[x.send] # "none"
      <3>1. UNCHANGED Contract!contract
        BY <1>4, <1>8, <2>4, <2>6 DEF Contract!contract, Contract!columns, Contract!excuses
      <3> QED BY <1>4, <2>4, <3>1 DEF Keeps, Steps, AnswersCovered
    <2> QED BY <2>5, <2>6
  <1>9. CASE /\ handler' = [handler EXCEPT ![h].pc = "answer"]
             /\ misread' = misread \cup {x.send} /\ UNCHANGED missed
    <2>1. PICK y \in HandlerRecords : y = [x EXCEPT !.pc = "answer"] BY DEF HandlerRecords, Pcs
    <2>2. y.send = x.send /\ y.status = x.status /\ y.pc = "answer" BY <2>1 DEF HandlerRecords
    <2>3. handler' = [handler EXCEPT ![h] = y] BY <1>1, <1>2, <1>9, <2>1, Facts
    <2>4. UNCHANGED Held /\ \E z \in HandlerRecords : Stands(h, z)
      BY <1>7, <1>9, <2>2, <2>3
    <2>5. Contract!Misread(h, x.send, x.status)
      BY <1>4, <1>6, <1>9, <2>4 DEF Contract!Misread, Contract!columns
    <2> QED BY <1>3, <1>4, <2>4, <2>5, ContractReads
            DEF Keeps, Contract!Next, Steps, AnswersCovered
  <1> QED BY <1>2, <1>8, <1>9 DEF ReadMessage

LEMMA ProjectMessageSteps ==
  ASSUME AnswerInv, NEW h \in Handlers, ProjectMessage(h)
  PROVE  Steps(h)
  <1>1. DeliveryInv /\ TablesOK BY Facts DEF AnswerInv
  <1>2. PICK x \in HandlerRecords : x = handler[h] BY <1>1, Facts
  <1>3. /\ x.pc = "project" /\ x.send \in Sends /\ x.status \in Statuses
        /\ x.message \in Columns /\ HandlerKnows(h)
    BY <1>1, <1>2, Facts DEF ProjectMessage
  <1>4. UNCHANGED <<row, posted, answered, outcomes, overlapped, mixed, missed, misread>>
    BY DEF ProjectMessage, history
  <1>5. Held[h] = {<<x.send, x.status>>} BY <1>2, <1>3, HeldIs
  <1>6. /\ message[x.send] # "none" /\ x.message # "none"
        /\ x.send \notin mixed => message[x.send] \in {x.message, x.status}
    BY <1>2, <1>3 DEF HandlerKnows, MessageKnown
  <1>7. CASE Throw(h) /\ UNCHANGED message BY <1>1, <1>4, <1>7, GiveUpSteps
  <1>8. CASE /\ message' = IF ShouldProject(x.message, x.status)
                             THEN [message EXCEPT ![x.send] = x.status] ELSE message
             /\ handler' = [handler EXCEPT ![h].pc = "row", ![h].message = "none"]
    <2>1. PICK y \in HandlerRecords : y = [x EXCEPT !.pc = "row", !.message = "none"]
      BY DEF HandlerRecords, Pcs, Columns
    <2>2. y.send = x.send /\ y.status = x.status /\ y.pc = "row" BY <2>1 DEF HandlerRecords
    <2>3. handler' = [handler EXCEPT ![h] = y] BY <1>1, <1>2, <1>8, <2>1, Facts
    <2>4. UNCHANGED Held BY <1>1, <1>2, <1>3, <2>2, <2>3, GoesOn
    <2>5. CASE ShouldProject(x.message, x.status)
      <3>1. message' = [message EXCEPT ![x.send] = x.status] BY <1>8, <2>5
      <3>2. message'[x.send] = x.status BY <1>1, <1>3, <3>1 DEF TablesOK
      <3>3. Done(message'[x.send], x.status) BY <1>3, <3>2, ProjectedIsDone
      <3>4. Projected(y)' BY <2>2, <3>3 DEF Projected, Done
      <3>5. CASE message[x.send] = x.status
        <4>1. UNCHANGED message BY <1>1, <1>3, <3>1, <3>5 DEF TablesOK
        <4>2. UNCHANGED Contract!contract
          BY <1>4, <2>4, <4>1 DEF Contract!contract, Contract!columns, Contract!excuses
        <4> QED BY <1>4, <2>2, <2>3, <3>4, <4>2 DEF Keeps, Steps, AnswersCovered, Stands
      <3>6. CASE message[x.send] # x.status
        <4>1. message[x.send] \in Contract!Overwrites[x.status] \/ x.send \in mixed
          BY <1>3, <1>6, <2>5, <3>6, ContractReads
        <4>2. Contract!Project(h, x.send, x.status)
          BY <1>4, <1>5, <1>6, <2>4, <3>1, <4>1 DEF Contract!Project, Contract!excuses
        <4> QED BY <1>3, <1>4, <2>2, <2>3, <3>4, <4>2, ContractReads
                DEF Keeps, Contract!Next, Steps, AnswersCovered, Stands
      <3> QED BY <3>5, <3>6
    <2>6. CASE ~ShouldProject(x.message, x.status)
      <3>1. UNCHANGED message BY <1>8, <2>6
      <3>2. UNCHANGED Contract!contract
        BY <1>4, <2>4, <3>1 DEF Contract!contract, Contract!columns, Contract!excuses
      <3>3. x.send \notin mixed => Done(message[x.send], x.status)
        BY <1>3, <1>6, <2>6, ProjectedIsDone DEF Done
      <3>4. Projected(y)' BY <1>4, <2>2, <3>1, <3>3 DEF Projected, Done, Sure
      <3> QED BY <1>4, <2>2, <2>3, <3>2, <3>4 DEF Keeps, Steps, AnswersCovered, Stands
    <2> QED BY <2>5, <2>6
  <1> QED BY <1>2, <1>7, <1>8 DEF ProjectMessage

LEMMA ReadRowSteps ==
  ASSUME AnswerInv, NEW h \in Handlers, ReadRow(h)
  PROVE  Steps(h)
  <1>1. DeliveryInv /\ TablesOK /\ Projected(handler[h]) BY Facts DEF AnswerInv
  <1>2. PICK x \in HandlerRecords : x = handler[h] BY <1>1, Facts
  <1>3. x.pc = "row" /\ x.send \in Sends /\ x.status \in Statuses
    BY <1>1, <1>2, Facts DEF ReadRow
  <1>4. UNCHANGED <<message, row, posted, answered, outcomes, overlapped, mixed, missed>>
    BY DEF ReadRow
  <1>5. misread' \in {misread, misread \cup {x.send}} BY <1>2 DEF ReadRow
  <1>6. Held[h] = {<<x.send, x.status>>} BY <1>2, <1>3, HeldIs
  <1>7. PICK r \in Columns :
          handler' = [handler EXCEPT ![h].pc = "projectRow", ![h].row = r]
    <2>1. row[x.send] \in Columns BY <1>1, <1>3 DEF TablesOK
    <2>2. CASE handler' = [handler EXCEPT ![h].pc = "projectRow", ![h].row = row[x.send]]
      BY <2>1, <2>2
    <2>3. CASE handler' = [handler EXCEPT ![h].pc = "projectRow"]
      <3>1. handler' = [handler EXCEPT ![h].pc = "projectRow", ![h].row = x.row]
        BY <1>1, <1>2, <2>3, Facts DEF HandlerRecords
      <3>2. x.row \in Columns BY <1>1, <1>2, Facts
      <3> QED BY <3>1, <3>2
    <2> QED BY <1>2, <2>2, <2>3 DEF ReadRow
  <1>8. PICK y \in HandlerRecords : y = [x EXCEPT !.pc = "projectRow", !.row = r]
    BY DEF HandlerRecords, Pcs
  <1>9. y.send = x.send /\ y.status = x.status /\ y.pc = "projectRow" BY <1>8 DEF HandlerRecords
  <1>10. handler' = [handler EXCEPT ![h] = y] BY <1>1, <1>2, <1>7, <1>8, Facts
  <1>11. UNCHANGED Held BY <1>1, <1>2, <1>3, <1>9, <1>10, GoesOn
  <1>12. Projected(y)'
    <2>1. Sure(x.send)' => Sure(x.send) BY <1>4, <1>5 DEF Sure
    <2> QED BY <1>1, <1>2, <1>3, <1>4, <1>9, <2>1 DEF Projected, Done
  <1>13. Contract!Misread(h, x.send, x.status) \/ UNCHANGED Contract!contract
    BY <1>4, <1>5, <1>6, <1>11
       DEF Contract!Misread, Contract!contract, Contract!columns, Contract!excuses
  <1> QED BY <1>3, <1>4, <1>9, <1>10, <1>12, <1>13, ContractReads
          DEF Keeps, Contract!Next, Steps, AnswersCovered, Stands

LEMMA ProjectRowSteps ==
  ASSUME AnswerInv, NEW h \in Handlers, ProjectRow(h)
  PROVE  Steps(h)
  <1>1. DeliveryInv /\ TablesOK /\ Projected(handler[h]) BY Facts DEF AnswerInv
  <1>2. PICK x \in HandlerRecords : x = handler[h] BY <1>1, Facts
  <1>3. /\ x.pc = "projectRow" /\ x.send \in Sends /\ x.status \in Statuses
        /\ x.row \in Columns /\ HandlerKnows(h)
    BY <1>1, <1>2, Facts DEF ProjectRow
  <1>4. UNCHANGED <<message, posted, answered, outcomes, overlapped, mixed, missed, misread>>
    BY DEF ProjectRow, history
  <1>5. Held[h] = {<<x.send, x.status>>} BY <1>2, <1>3, HeldIs
  <1>6. x.send \notin Excluded =>
          row[x.send] \in {x.row, x.status} \/ (x.row = "none" /\ row[x.send] \in {"null", "sent"})
    BY <1>2, <1>3 DEF HandlerKnows, RowKnown
  <1> DEFINE may == ShouldProject(x.row, x.status) /\ row[x.send] # "none"
             pc == IF x.row # "none" /\ ShouldProject(x.row, x.status) THEN "outcome" ELSE "answer"
  <1>7. CASE UNCHANGED row /\ Throw(h) BY <1>1, <1>4, <1>7, GiveUpSteps
  <1>8. CASE /\ row' = IF may THEN [row EXCEPT ![x.send] = x.status] ELSE row
             /\ handler' = [handler EXCEPT ![h].pc = pc, ![h].row = "none"]
    <2>1. PICK y \in HandlerRecords : y = [x EXCEPT !.pc = pc, !.row = "none"]
      BY DEF HandlerRecords, Pcs, Columns
    <2>2. y.send = x.send /\ y.status = x.status /\ y.pc \in {"outcome", "answer"}
      BY <2>1 DEF HandlerRecords
    <2>3. handler' = [handler EXCEPT ![h] = y] BY <1>1, <1>2, <1>8, <2>1, Facts
    <2>4. UNCHANGED Held BY <1>1, <1>2, <1>3, <2>2, <2>3, GoesOn
    <2>5. Sure(x.send) => Done(message[x.send], x.status) /\ x.send \notin Excluded
      BY <1>1, <1>2, <1>3 DEF Projected, Sure, Excluded
    <2>6. ASSUME row' = row, row[x.send] = "none" \/ x.send \in Excluded \/ Done(row[x.send], x.status)
          PROVE  Steps(h)
      <3>1. UNCHANGED Contract!contract
        BY <1>4, <2>4, <2>6 DEF Contract!contract, Contract!columns, Contract!excuses
      <3>2. Projected(y)' BY <1>4, <2>2, <2>5, <2>6 DEF Projected, Covered, Done, Sure
      <3> QED BY <1>4, <2>2, <2>3, <3>1, <3>2 DEF Keeps, Steps, AnswersCovered, Stands
    <2>7. CASE row[x.send] = "none" BY <1>8, <2>6, <2>7
    <2>8. CASE row[x.send] # "none" /\ ShouldProject(x.row, x.status)
      <3>1. row' = [row EXCEPT ![x.send] = x.status] BY <1>8, <2>8
      <3>2. row'[x.send] = x.status BY <1>1, <1>3, <3>1 DEF TablesOK
      <3>3. Done(row'[x.send], x.status) BY <1>3, <3>2, ProjectedIsDone
      <3>4. CASE row[x.send] = x.status
        <4>1. UNCHANGED row BY <1>1, <1>3, <3>1, <3>4 DEF TablesOK
        <4> QED BY <2>6, <3>3, <4>1
      <3>5. CASE row[x.send] # x.status
        <4>1. Projected(y)' BY <1>4, <2>2, <2>5, <3>3 DEF Projected, Covered, Done, Sure
        <4>2. row[x.send] \in Columns BY <1>1, <1>3 DEF TablesOK
        <4>3. x.send \notin Excluded => ShouldProject(row[x.send], x.status)
          BY <1>3, <1>6, <2>8, <3>5 DEF ShouldProject, Statuses
        <4>4. row[x.send] \in Contract!Overwrites[x.status] \/ x.send \in mixed \cup misread
          BY <1>3, <2>8, <4>2, <4>3, ContractReads DEF Excluded
        <4>5. Contract!ProjectRow(h, x.send, x.status)
          BY <1>4, <1>5, <2>4, <2>8, <3>1, <4>4 DEF Contract!ProjectRow, Contract!excuses
        <4> QED BY <1>3, <1>4, <2>2, <2>3, <4>1, <4>5, ContractReads
                DEF Keeps, Contract!Next, Steps, AnswersCovered, Stands
      <3> QED BY <3>4, <3>5
    <2>9. CASE row[x.send] # "none" /\ ~ShouldProject(x.row, x.status)
      <3>1. row' = row BY <1>8, <2>9
      <3>2. x.row # "none" BY <2>9 DEF ShouldProject
      <3>3. x.send \notin Excluded => Done(row[x.send], x.status)
        BY <1>3, <1>6, <2>9, <3>2, ProjectedIsDone DEF Done
      <3> QED BY <2>6, <3>1, <3>3
    <2> QED BY <2>7, <2>8, <2>9
  <1> QED BY <1>2, <1>7, <1>8 DEF ProjectRow, HasOutcome

LEMMA RecordOutcomeSteps ==
  ASSUME AnswerInv, NEW h \in Handlers, RecordOutcome(h)
  PROVE  Steps(h)
  <1>1. DeliveryInv /\ TablesOK /\ Projected(handler[h]) BY Facts DEF AnswerInv
  <1>2. PICK x \in HandlerRecords : x = handler[h] BY <1>1, Facts
  <1>3. x.pc = "outcome" /\ x.send \in Sends /\ x.status \in Statuses /\ HandlerKnows(h)
    BY <1>1, <1>2, Facts DEF RecordOutcome
  <1>4. /\ UNCHANGED <<message, row, posted, answered, overlapped, mixed, missed, misread>>
        /\ handler' = [handler EXCEPT ![h].pc = "answer"]
    BY DEF RecordOutcome, history
  <1>5. \/ UNCHANGED outcomes
        \/ outcomes' = [outcomes EXCEPT ![x.send][x.status] = @ + 1]
    BY <1>2 DEF RecordOutcome
  <1>6. Held[h] = {<<x.send, x.status>>} BY <1>2, <1>3, HeldIs
  <1>7. PICK y \in HandlerRecords : y = [x EXCEPT !.pc = "answer"] BY DEF HandlerRecords, Pcs
  <1>8. y.send = x.send /\ y.status = x.status /\ y.pc = "answer" BY <1>7 DEF HandlerRecords
  <1>9. handler' = [handler EXCEPT ![h] = y] BY <1>1, <1>2, <1>4, <1>7, Facts
  <1>10. UNCHANGED Held BY <1>1, <1>2, <1>3, <1>8, <1>9, GoesOn
  <1>11. Projected(y)' BY <1>1, <1>2, <1>3, <1>4, <1>8 DEF Projected, Covered, Done, Sure
  <1>12. CASE UNCHANGED outcomes
    <2>1. UNCHANGED Contract!contract
      BY <1>4, <1>10, <1>12 DEF Contract!contract, Contract!columns, Contract!excuses
    <2> QED BY <1>4, <1>8, <1>9, <1>11, <2>1 DEF Keeps, Steps, AnswersCovered, Stands
  <1>13. CASE outcomes' = [outcomes EXCEPT ![x.send][x.status] = @ + 1]
    <2>1. x.send \notin Apart => Done(row[x.send], x.status) /\ outcomes[x.send][x.status] = 0
      BY <1>2, <1>3 DEF HandlerKnows, OutcomeDue
    <2>2. row[x.send] \in Columns BY <1>1, <1>3 DEF TablesOK
    <2>3. \/ Contract!Says(row[x.send], x.status) /\ outcomes[x.send][x.status] = 0
          \/ x.send \in overlapped \cup misread
      BY <1>3, <2>1, <2>2, ContractReads DEF Apart
    <2>4. Contract!Count(h, x.send, x.status)
      BY <1>4, <1>6, <1>10, <1>13, <2>3 DEF Contract!Count, Contract!columns, Contract!excuses
    <2> QED BY <1>3, <1>4, <1>8, <1>9, <1>11, <2>4, ContractReads
            DEF Keeps, Contract!Next, Steps, AnswersCovered, Stands
  <1> QED BY <1>5, <1>12, <1>13

LEMMA AnswerSteps ==
  ASSUME AnswerInv, NEW h \in Handlers, Answer(h)
  PROVE  Steps(h)
  <1>1. DeliveryInv /\ TablesOK /\ Projected(handler[h]) BY Facts DEF AnswerInv
  <1>2. PICK x \in HandlerRecords : x = handler[h] BY <1>1, Facts
  <1>3. x.pc = "answer" /\ x.send \in Sends /\ x.status \in Statuses
    BY <1>1, <1>2, Facts DEF Answer
  <1>4. /\ UNCHANGED <<message, row, posted, outcomes, overlapped, mixed, missed, misread>>
        /\ Throw(h)
    BY DEF Answer, history
  <1>5. Held[h] = {<<x.send, x.status>>} BY <1>2, <1>3, HeldIs
  <1>6. CASE UNCHANGED answered BY <1>1, <1>4, <1>6, GiveUpSteps
  <1>7. CASE answered' = [answered EXCEPT ![x.send] = @ \cup {x.status}]
    <2>1. Sure(x.send) => Covered(x.send, x.status) BY <1>1, <1>2, <1>3 DEF Projected
    <2>2. AnswersCovered
      <3> SUFFICES ASSUME NEW s \in Sends, NEW t \in answered'[s] \ answered[s], Sure(s)'
                   PROVE  Covered(s, t)'
        BY DEF AnswersCovered
      <3>1. s = x.send /\ t = x.status BY <1>1, <1>3, <1>7 DEF TablesOK
      <3> QED BY <1>4, <2>1, <3>1 DEF Covered, Done, Sure
    <2>3. message[x.send] \in Columns /\ row[x.send] \in Columns BY <1>1, <1>3 DEF TablesOK
    <2>4. \/ /\ Contract!Says(message[x.send], x.status)
             /\ row[x.send] # "none" => Contract!Says(row[x.send], x.status)
          \/ x.send \in mixed \cup missed \cup misread
      BY <1>3, <2>1, <2>3, ContractReads DEF Covered, Sure
    <2>5. Contract!Acknowledge(h, x.send, x.status)
      BY <1>1, <1>4, <1>5, <1>7, <2>4, Ends
         DEF Contract!Acknowledge, Contract!columns, Contract!excuses
    <2> QED BY <1>3, <1>4, <2>2, <2>5, ContractReads, ThrowStands DEF Keeps, Contract!Next, Steps
  <1> QED BY <1>2, <1>6, <1>7 DEF Answer

LEMMA PostSteps ==
  ASSUME AnswerInv, NEW h \in Handlers, NEW s \in Sends, NEW t \in Statuses, Post(h, s, t)
  PROVE  Steps(h)
  <1>1. DeliveryInv BY DEF AnswerInv
  <1>2. /\ UNCHANGED <<message, row, posted, answered, outcomes, missed, misread>>
        /\ t \in posted[s] /\ handler[h].pc = "idle"
    BY DEF Post
  <1> DEFINE others == {g \in Handlers : handler[g].send = s}
             statuses == {u \in Statuses : \E p \in Handlers : <<s, u>> \in Held[p]}
  <1>3. /\ overlapped' = IF others # {} THEN overlapped \cup {s} ELSE overlapped
        /\ mixed' = IF \E g \in others : handler[g].status # t THEN mixed \cup {s} ELSE mixed
    BY DEF Post
  <1>4. \A g \in Handlers, u \in Statuses :
          <<s, u>> \in Held[g] <=> handler[g].send = s /\ handler[g].status = u
    <2> SUFFICES ASSUME NEW g \in Handlers, NEW u \in Statuses
                 PROVE  <<s, u>> \in Held[g] <=> handler[g].send = s /\ handler[g].status = u
      OBVIOUS
    <2>1. CASE handler[g].pc = "idle"
      <3>1. handler[g].send = 0 BY <2>1 DEF AnswerInv
      <3>2. Held[g] = {} BY <2>1 DEF Held, HeldBy
      <3> QED BY <3>1, <3>2, SendsAssumption
    <2>2. CASE handler[g].pc # "idle" BY <2>2, HeldIs
    <2> QED BY <2>1, <2>2
  <1>5. \A g \in Handlers : handler[g].status \in Statuses BY <1>1, Facts
  <1>6. /\ statuses # {} <=> others # {}
        /\ statuses \ {t} # {} <=> \E g \in others : handler[g].status # t
    <2>1. ASSUME NEW u \in statuses
          PROVE  \E g \in others : handler[g].status = u
      <3>1. PICK g \in Handlers : <<s, u>> \in Held[g] OBVIOUS
      <3> QED BY <1>4, <3>1
    <2>2. ASSUME NEW g \in others
          PROVE  handler[g].status \in statuses
      <3>1. handler[g].status \in Statuses /\ <<s, handler[g].status>> \in Held[g] BY <1>4, <1>5
      <3> QED BY <3>1
    <2> HIDE DEF statuses, others
    <2> QED BY <2>1, <2>2
  <1>7. PICK y \in HandlerRecords :
          y = [NoHandler EXCEPT !.pc = "message", !.send = s, !.status = t]
    BY NoHandlerIsOne DEF HandlerRecords, Pcs, NoHandler
  <1>8. y.pc = "message" /\ y.send = s /\ y.status = t BY <1>7 DEF NoHandler
  <1>9. handler' = [handler EXCEPT ![h] = y] BY <1>7 DEF Post
  <1>10. HeldBy(y) = {<<s, t>>} BY <1>8 DEF HeldBy
  <1>11. Held[h] = {} BY <1>2 DEF Held, HeldBy
  <1>12. Held' = [Held EXCEPT ![h] = {<<s, t>>}] BY <1>1, <1>9, <1>10, HeldMoves
  <1>13. /\ overlapped' = IF statuses # {} THEN overlapped \cup {s} ELSE overlapped
         /\ mixed' = IF statuses \ {t} # {} THEN mixed \cup {s} ELSE mixed
    BY <1>3, <1>6
  <1>14. Contract!TakeUp(h, s, t)
    BY <1>2, <1>11, <1>12, <1>13, ContractReads DEF Contract!TakeUp, Contract!columns
  <1>15. Projected(y)' BY <1>8 DEF Projected
  <1> QED BY <1>2, <1>8, <1>9, <1>14, <1>15, ContractReads
          DEF Keeps, Contract!Next, Steps, AnswersCovered, Stands

LEMMA SenderKeeps ==
  ASSUME DeliveryInv, NEW s \in Sends, SenderStep(s) \/ CrashSender(s)
  PROVE  Keeps /\ UNCHANGED <<handler, answered>>
  <1>1. TablesOK /\ SenderKnows(s) BY TypeParts DEF DeliveryInv
  <1>2. UNCHANGED <<posted, answered, handler, outcomes, overlapped, mixed, missed, misread>>
    BY DEF SenderStep, Accept, Record, Persist, CrashSender, webhook, history
  <1>3. UNCHANGED Held BY <1>2 DEF Held, HeldBy
  <1>4. CASE UNCHANGED <<message, row>>
    BY <1>2, <1>3, <1>4 DEF Keeps, Contract!contract, Contract!columns, Contract!excuses
  <1>5. CASE Record(s)
    <2>1. row[s] = "none" /\ message[s] = "none" /\ UNCHANGED message
      BY <1>1, <1>5 DEF Record, SenderKnows
    <2>2. CASE \E p \in {"null", "sent"} : row' = [row EXCEPT ![s] = p]
      <3>1. Contract!InsertRow(s) BY <1>2, <1>3, <2>1, <2>2 DEF Contract!InsertRow, Contract!excuses
      <3> QED BY <1>2, <3>1 DEF Keeps, Contract!Next
    <2>3. CASE row' = [row EXCEPT ![s] = "none"]
      <3>1. UNCHANGED row BY <1>1, <2>1, <2>3 DEF TablesOK
      <3> QED BY <1>4, <2>1, <3>1
    <2> QED BY <1>4, <1>5, <2>1, <2>2, <2>3 DEF Record
  <1>6. CASE Persist(s)
    <2>1. message[s] = "none" /\ UNCHANGED row
      BY <1>1, <1>6 DEF Persist, SenderKnows
    <2>2. CASE message' = [message EXCEPT ![s] = "sent"]
      <3>1. Contract!InsertMessage(s)
        BY <1>2, <1>3, <2>1, <2>2 DEF Contract!InsertMessage, Contract!excuses
      <3> QED BY <1>2, <3>1 DEF Keeps, Contract!Next
    <2> QED BY <1>4, <1>6, <2>1, <2>2 DEF Persist, InsertedStatus
  <1> QED BY <1>4, <1>5, <1>6 DEF SenderStep, Accept, CrashSender

LEMMA ReachKeeps ==
  ASSUME NEW s \in Sends, NEW t \in Statuses, Reach(s, t)
  PROVE  Keeps /\ UNCHANGED <<handler, answered>>
  <1>1. UNCHANGED Held BY DEF Reach, Held, HeldBy
  <1>2. Contract!Reach(s, t)
    BY <1>1 DEF Reach, Contract!Reach, Contract!columns, Contract!excuses, history
  <1> QED BY <1>2, ContractReads DEF Keeps, Contract!Next, Reach

LEMMA NextSteps ==
  ASSUME AnswerInv, Next
  PROVE  \/ Keeps /\ UNCHANGED <<handler, answered>>
         \/ \E h \in Handlers : Steps(h)
  <1>1. DeliveryInv BY DEF AnswerInv
  <1>2. CASE \E s \in Sends : SenderStep(s) \/ CrashSender(s) BY <1>1, <1>2, SenderKeeps
  <1>3. CASE \E s \in Sends, t \in Statuses : Reach(s, t) BY <1>3, ReachKeeps
  <1>4. CASE \E h \in Handlers, s \in Sends, t \in Statuses : Post(h, s, t) BY <1>4, PostSteps
  <1>5. CASE \E h \in Handlers : HandlerStep(h)
    BY <1>5, ReadMessageSteps, ProjectMessageSteps, ReadRowSteps, ProjectRowSteps,
       RecordOutcomeSteps, AnswerSteps DEF HandlerStep
  <1>6. CASE \E h \in Handlers : Crash(h)
    BY <1>1, <1>6, GiveUpSteps DEF Crash, history
  <1> QED BY <1>2, <1>3, <1>4, <1>5, <1>6 DEF Next

LEMMA NextKeepsAnswerInv ==
  ASSUME AnswerInv, Next
  PROVE  AnswerInv'
  <1>1. DeliveryInv /\ Effects /\ DeliveryInv' /\ missed \subseteq missed'
    BY NextMoves, InvFollows, MissedGrows DEF AnswerInv
  <1>2. ASSUME NEW g \in Handlers, handler'[g] = handler[g]
        PROVE  (handler'[g].pc = "idle" => handler'[g].send = 0) /\ Projected(handler[g])'
    <2>1. PICK x \in HandlerRecords : x = handler[g] BY <1>1, Facts
    <2>2. Projected(x)' BY <1>1, <2>1, ProjectedStays
    <2> QED BY <1>2, <2>1, <2>2 DEF AnswerInv
  <1>3. \A g \in Handlers : (handler'[g].pc = "idle" => handler'[g].send = 0)
                            /\ Projected(handler[g])'
    <2>1. CASE UNCHANGED handler BY <1>2, <2>1
    <2>2. CASE \E h \in Handlers : Steps(h)
      <3>1. PICK h \in Handlers, y \in HandlerRecords : Stands(h, y) BY <2>2 DEF Steps
      <3> SUFFICES ASSUME NEW g \in Handlers
                   PROVE  (handler'[g].pc = "idle" => handler'[g].send = 0) /\ Projected(handler[g])'
        OBVIOUS
      <3>2. handler'[g] = IF g = h THEN y ELSE handler[g] BY <1>1, <3>1, Facts DEF Stands
      <3> QED BY <1>2, <3>1, <3>2 DEF Stands
    <2> QED BY <2>1, <2>2, NextSteps
  <1>4. ASSUME NEW s \in Sends, NEW t \in answered'[s], Sure(s)' PROVE Covered(s, t)'
    <2>1. CASE t \in answered[s]
      <3>1. Sure(s) /\ s \notin mixed /\ s \notin Excluded BY <1>1, <1>4, SureBefore
      <3>2. Covered(s, t) BY <2>1, <3>1 DEF AnswerInv
      <3>3. t \in Statuses BY <1>1, <2>1, TypeParts DEF DeliveryInv, TablesOK
      <3> QED BY <1>1, <3>1, <3>2, <3>3, CoverStays
    <2>2. CASE t \notin answered[s]
      <3>1. AnswersCovered BY <1>4, <2>2, NextSteps DEF Steps
      <3> QED BY <1>4, <2>2, <3>1 DEF AnswersCovered
    <2> QED BY <2>1, <2>2
  <1> QED BY <1>1, <1>3, <1>4 DEF AnswerInv

LEMMA AnswerInvHolds == Spec => []AnswerInv
  <1>1. Init => AnswerInv
    <2> SUFFICES ASSUME Init PROVE AnswerInv OBVIOUS
    <2>1. \A h \in Handlers : handler[h].pc = "idle" /\ handler[h].send = 0
      BY DEF Init, NoHandler
    <2>2. \A h \in Handlers : Projected(handler[h]) BY <2>1 DEF Projected
    <2>3. \A s \in Sends : answered[s] = {} BY DEF Init
    <2> QED BY <2>1, <2>2, <2>3, InitIsInv DEF AnswerInv
  <1>2. AnswerInv /\ UNCHANGED vars => AnswerInv'
    <2> SUFFICES ASSUME AnswerInv, UNCHANGED vars PROVE AnswerInv' OBVIOUS
    <2>1. DeliveryInv' BY NextKeepsInv DEF AnswerInv
    <2>2. UNCHANGED <<message, row, answered, handler, mixed, missed, misread>>
      BY DEF vars, history
    <2>3. \A s \in Sends : \A t \in answered[s] : Sure(s)' => Covered(s, t)'
      BY <2>2 DEF AnswerInv, Sure, Covered, Done
    <2>4. \A h \in Handlers : Projected(handler[h])'
      BY <2>2 DEF AnswerInv, Projected, Sure, Covered, Done
    <2> QED BY <2>1, <2>2, <2>3, <2>4 DEF AnswerInv
  <1> QED BY <1>1, <1>2, NextKeepsAnswerInv, PTL DEF Spec

\* Whatever order statuses come in, however often, and wherever requests fail or die:
\* one that was answered 200 is on the message, and on its row if it has one, ever
\* after, but for messages whose requests interfered, that were misread or came late.
THEOREM AnswersAreKept == Spec => []AcknowledgedIsProjected
  <1>1. ASSUME AnswerInv PROVE AcknowledgedIsProjected
    <2> SUFFICES ASSUME NEW s \in Sends \ (mixed \cup missed \cup misread), NEW t \in answered[s]
                 PROVE  Covers(message[s], t) /\ (row[s] # "none" => Covers(row[s], t))
      BY DEF AcknowledgedIsProjected
    <2>1. /\ Covered(s, t) /\ message[s] \in Columns /\ row[s] \in Columns /\ t \in Statuses
      BY <1>1, TypeParts DEF AnswerInv, Sure, DeliveryInv, TablesOK
    <2>2. \A column \in Columns : Done(column, t) => Covers(column, t)
      BY <2>1 DEF Columns, Statuses, Done, ShouldProject, Covers, Rank
    <2> QED BY <2>1, <2>2 DEF Covered
  <1> QED BY <1>1, AnswerInvHolds, PTL

\* The webhook's reads and writes, the redeliveries, failures and crashes implement the
\* contract of delivery statuses.
THEOREM DeliveryKeepsItsContract == Spec => KeepsDeliveryContract
  <1>1. Init => Contract!Init
    <2> SUFFICES ASSUME Init PROVE Contract!Init OBVIOUS
    <2>1. Held = [h \in Handlers |-> {}] BY DEF Init, Held, HeldBy, NoHandler
    <2> QED BY <2>1, ContractReads DEF Init, Contract!Init
  <1>2. AnswerInv /\ [Next]_vars => [Contract!Next]_(Contract!contract)
    <2> SUFFICES ASSUME AnswerInv, [Next]_vars PROVE Keeps BY DEF Keeps
    <2>1. CASE Next BY <2>1, NextSteps DEF Steps
    <2>2. CASE UNCHANGED vars
      <3>1. UNCHANGED Held BY <2>2 DEF vars, Held, HeldBy
      <3> QED BY <2>2, <3>1 DEF Keeps, vars, history, Contract!contract, Contract!columns,
                                 Contract!excuses
    <2> QED BY <2>1, <2>2
  <1> QED BY <1>1, <1>2, AnswerInvHolds, PTL DEF Spec, KeepsDeliveryContract, Contract!Spec
=============================================================================
