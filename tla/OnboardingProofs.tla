-------------------------- MODULE OnboardingProofs --------------------------
(***************************************************************************)
(* What holds of the onboarding for any number of conversations, turns,    *)
(* addresses and faults: the types, that a completed onboarding is linked, *)
(* that a link is kept, and which address an account is created for.       *)
(***************************************************************************)
EXTENDS Onboarding, TLAPS

LinkedStates == {"customer_linked", "completed"}

\* What a turn relies on between its statements: the account it works on exists, and
\* a link it has seen, or is about to report, is there.
TurnKnows(t) ==
  LET x == turn[t] IN
  /\ x.pc # "idle" => x.conv \in Conversations
  /\ x.pc = "create" => x.email \in Emails
  /\ x.pc \in {"check", "upsert", "blind"} => x.email \in accounts
  /\ x.pc \in {"load", "decide"} /\ x.link # None => link[x.conv] # None
  /\ x.pc = "confirm" => link[x.conv] # None
  /\ x.pc = "persist" /\ x.row.state \in LinkedStates => link[x.conv] # None

Knows == \A t \in Turns : TurnKnows(t)
OnboardingInv == OnboardingTypeOK /\ Knows /\ CompletedIsLinked

\* A record of the declared type, part by part.
LEMMA TurnFields ==
  ASSUME NEW x
  PROVE  x \in TurnRecords <=>
           /\ x = [pc |-> x.pc, conv |-> x.conv, msg |-> x.msg, unread |-> x.unread,
                   link |-> x.link, email |-> x.email, row |-> x.row]
           /\ x.pc \in Pcs /\ x.conv \in Conversations \cup {None} /\ x.msg \in Messages
           /\ x.unread \in SUBSET Tables /\ x.link \in Emails \cup {None}
           /\ x.email \in Emails \cup {None} /\ x.row \in Rows
  BY DEF TurnRecords

LEMMA IdleIsATurn == IdleTurn \in TurnRecords
  BY DEF IdleTurn, TurnRecords, Pcs, Messages, Words, Tables, Rows, NoRow, States

LEMMA InitIsInv == Init => OnboardingInv
  <1> SUFFICES ASSUME Init PROVE OnboardingInv OBVIOUS
  <1>1. OnboardingTypeOK
    BY IdleIsATurn, EmailsAssumption, MaxFaultsAssumption
       DEF Init, OnboardingTypeOK, Rows, NoRow, States
  <1>2. Knows
    BY DEF Init, Knows, TurnKnows, IdleTurn, NoRow, LinkedStates
  <1>3. CompletedIsLinked
    BY DEF Init, CompletedIsLinked, NoRow
  <1> QED BY <1>1, <1>2, <1>3 DEF OnboardingInv

\* Links and accounts are never taken away.
Grows == /\ accounts \subseteq accounts'
         /\ \A c \in Conversations : link[c] # None => link'[c] # None

\* What the other turns know stays true when links and accounts only grow.
LEMMA OthersKnow ==
  ASSUME OnboardingInv, Grows, NEW t \in Turns, NEW u \in Turns, turn'[u] = turn[u]
  PROVE  TurnKnows(u)'
  <1>1. turn[u] \in TurnRecords /\ TurnKnows(u) BY DEF OnboardingInv, OnboardingTypeOK, Knows
  <1>2. turn[u].conv \in Conversations \/ turn[u].conv = None BY <1>1, TurnFields
  <1> QED BY <1>1, <1>2 DEF TurnKnows, Grows

LEMMA OneTurnMoves ==
  ASSUME OnboardingInv, Grows, NEW t \in Turns, NEW y \in TurnRecords,
         turn' = [turn EXCEPT ![t] = y], TurnKnows(t)'
  PROVE  Knows' /\ turn' \in [Turns -> TurnRecords]
  <1>1. turn \in [Turns -> TurnRecords] BY DEF OnboardingInv, OnboardingTypeOK
  <1>2. ASSUME NEW u \in Turns, u # t PROVE TurnKnows(u)'
    <2>1. turn'[u] = turn[u] BY <1>1, <1>2
    <2> QED BY <2>1, OthersKnow
  <1> QED BY <1>1, <1>2 DEF Knows

\* Conclude, Goto and WorkOn as the record a turn moves to.
LEMMA Concludes ==
  ASSUME OnboardingInv, NEW t \in Turns, NEW state \in States, NEW pending \in BOOLEAN,
         Conclude(t, state, pending)
  PROVE  \E y \in TurnRecords :
           /\ turn' = [turn EXCEPT ![t] = y] /\ turn'[t] = y
           /\ y.pc = "persist" /\ y.conv = turn[t].conv /\ y.row.state = state
           /\ y.link = None
  <1> DEFINE new == [state |-> state, pending |-> pending, email |-> KeptEmail(t)]
             y == [turn[t] EXCEPT !.pc = "persist", !.link = None, !.email = None, !.row = new]
  <1>1. turn \in [Turns -> TurnRecords] /\ turn[t] \in TurnRecords
    BY DEF OnboardingInv, OnboardingTypeOK
  <1>2. turn[t].row \in Rows /\ turn[t].conv \in Conversations \cup {None}
    BY <1>1, TurnFields
  <1>3. KeptEmail(t) \in Emails \cup {None} BY <1>2 DEF KeptEmail, Rows
  <1>4. new \in Rows BY <1>3 DEF Rows
  <1>5. y \in TurnRecords BY <1>1, <1>4 DEF TurnRecords, Pcs
  <1>6. turn' = [turn EXCEPT ![t] = y] BY <1>1 DEF Conclude
  <1>7. turn'[t] = y BY <1>1, <1>6
  <1>8. y.pc = "persist" /\ y.conv = turn[t].conv /\ y.row.state = state /\ y.link = None
    BY <1>1 DEF TurnRecords
  <1> QED BY <1>5, <1>6, <1>7, <1>8

LEMMA Goes ==
  ASSUME OnboardingInv, NEW t \in Turns, NEW pc \in Pcs, Goto(t, pc)
  PROVE  \E y \in TurnRecords :
           /\ turn' = [turn EXCEPT ![t] = y] /\ turn'[t] = y
           /\ y.pc = pc /\ y.conv = turn[t].conv /\ y.email = turn[t].email
           /\ y.link = turn[t].link
  <1> DEFINE y == [turn[t] EXCEPT !.pc = pc]
  <1>1. turn \in [Turns -> TurnRecords] /\ turn[t] \in TurnRecords
    BY DEF OnboardingInv, OnboardingTypeOK
  <1>2. y \in TurnRecords BY <1>1 DEF TurnRecords
  <1>3. turn' = [turn EXCEPT ![t] = y] /\ turn'[t] = y BY <1>1 DEF Goto
  <1>4. y.pc = pc /\ y.conv = turn[t].conv /\ y.email = turn[t].email /\ y.link = turn[t].link
    BY <1>1 DEF TurnRecords
  <1> QED BY <1>2, <1>3, <1>4

LEMMA Works ==
  ASSUME OnboardingInv, NEW t \in Turns, NEW pc \in Pcs, NEW email \in Emails,
         WorkOn(t, pc, email)
  PROVE  \E y \in TurnRecords :
           /\ turn' = [turn EXCEPT ![t] = y] /\ turn'[t] = y
           /\ y.pc = pc /\ y.conv = turn[t].conv /\ y.email = email
  <1> DEFINE z == [turn[t].row EXCEPT !.pending = FALSE]
             y == [turn[t] EXCEPT !.pc = pc, !.link = None, !.email = email, !.row = z]
  <1>1. turn \in [Turns -> TurnRecords] /\ turn[t] \in TurnRecords
    BY DEF OnboardingInv, OnboardingTypeOK
  <1>2. turn[t].row \in Rows BY <1>1, TurnFields
  <1>3. z \in Rows BY <1>2 DEF Rows
  <1>4. y \in TurnRecords BY <1>1, <1>3 DEF TurnRecords
  <1>5. turn' = [turn EXCEPT ![t] = y] /\ turn'[t] = y BY <1>1 DEF WorkOn
  <1>6. y.pc = pc /\ y.conv = turn[t].conv /\ y.email = email BY <1>1 DEF TurnRecords
  <1> QED BY <1>4, <1>5, <1>6

\* A turn's own fields under the invariant.
LEMMA TurnFacts ==
  ASSUME OnboardingInv, NEW t \in Turns
  PROVE  /\ turn \in [Turns -> TurnRecords] /\ turn[t] \in TurnRecords /\ TurnKnows(t)
         /\ turn[t].msg \in Messages /\ turn[t].row \in Rows
         /\ turn[t].link \in Emails \cup {None} /\ turn[t].unread \in SUBSET Tables
         /\ turn[t].row.email \in Emails \cup {None}
  <1>1. turn \in [Turns -> TurnRecords] /\ turn[t] \in TurnRecords /\ TurnKnows(t)
    BY DEF OnboardingInv, OnboardingTypeOK, Knows
  <1>2. turn[t].row \in Rows BY <1>1, TurnFields
  <1> QED BY <1>1, <1>2, TurnFields DEF Rows

\* A fault, or none.
LEMMA FaultsBounded ==
  ASSUME OnboardingInv, Fault \/ UNCHANGED faults
  PROVE  faults' \in 0..MaxFaults
  BY MaxFaultsAssumption DEF OnboardingInv, OnboardingTypeOK, Fault

\* A step that leaves the tables alone and takes one turn to a record that knows
\* enough.
LEMMA PrivateStep ==
  ASSUME OnboardingInv, NEW t \in Turns, NEW y \in TurnRecords,
         turn' = [turn EXCEPT ![t] = y], TurnKnows(t)',
         Fault \/ UNCHANGED faults, UNCHANGED <<row, link, accounts, offer>>,
         overlapped' \subseteq Conversations
  PROVE  OnboardingInv'
  <1>1. Grows BY DEF Grows
  <1>2. Knows' /\ turn' \in [Turns -> TurnRecords] BY <1>1, OneTurnMoves
  <1>3. faults' \in 0..MaxFaults BY FaultsBounded
  <1>4. OnboardingTypeOK' BY <1>2, <1>3 DEF OnboardingInv, OnboardingTypeOK
  <1>5. CompletedIsLinked' BY DEF OnboardingInv, CompletedIsLinked
  <1> QED BY <1>2, <1>4, <1>5 DEF OnboardingInv

LEMMA OverlappedIsTyped == OnboardingInv /\ UNCHANGED overlapped => overlapped' \subseteq Conversations
  BY DEF OnboardingInv, OnboardingTypeOK

LEMMA BeginKeepsInv ==
  ASSUME OnboardingInv, NEW t \in Turns, NEW c \in Conversations, NEW m \in Messages,
         Begin(t, c, m)
  PROVE  OnboardingInv'
  <1> DEFINE y == [IdleTurn EXCEPT !.pc = "load", !.conv = c, !.msg = m, !.unread = Tables]
  <1>1. y \in TurnRecords BY IdleIsATurn DEF TurnRecords, Pcs
  <1>2. turn' = [turn EXCEPT ![t] = y] BY DEF Begin
  <1>3. turn'[t] = y BY <1>2, TurnFacts
  <1>4. y.pc = "load" /\ y.conv = c /\ y.link = None BY DEF IdleTurn
  <1>5. TurnKnows(t)' BY <1>3, <1>4 DEF TurnKnows
  <1>6. overlapped' \subseteq Conversations BY DEF Begin, OnboardingInv, OnboardingTypeOK
  <1> QED BY <1>1, <1>2, <1>5, <1>6, PrivateStep DEF Begin

LEMMA LoadKeepsInv ==
  ASSUME OnboardingInv, NEW t \in Turns, NEW table \in Tables, Load(t, table)
  PROVE  OnboardingInv'
  <1>1. PICK found \in BOOLEAN :
          /\ IF found THEN UNCHANGED faults ELSE Fault
          /\ turn' = [turn EXCEPT
            ![t].unread = @ \ {table},
            ![t].pc = IF turn[t].unread = {table} THEN "decide" ELSE "load",
            ![t].row = IF found /\ table = "row"
                         THEN [row[turn[t].conv] EXCEPT !.state = "unresolved"]
                         ELSE @,
            ![t].link = IF found /\ table = "link" THEN link[turn[t].conv] ELSE @]
    BY DEF Load
  <1> DEFINE pc == IF turn[t].unread = {table} THEN "decide" ELSE "load"
             r == IF found /\ table = "row"
                    THEN [row[turn[t].conv] EXCEPT !.state = "unresolved"] ELSE turn[t].row
             l == IF found /\ table = "link" THEN link[turn[t].conv] ELSE turn[t].link
             y == [turn[t] EXCEPT !.unread = @ \ {table}, !.pc = pc, !.row = r, !.link = l]
  <1>2. turn[t].pc = "load" /\ turn[t].conv \in Conversations
    BY TurnFacts DEF Load, TurnKnows
  <1>3. row[turn[t].conv] \in Rows /\ link[turn[t].conv] \in Emails \cup {None}
    BY <1>2 DEF OnboardingInv, OnboardingTypeOK
  <1>13. turn[t].row \in Rows BY TurnFacts DEF TurnRecords
  <1>14. \A x \in Rows : [x EXCEPT !.state = "unresolved"] \in Rows BY DEF Rows, States
  <1>15. [row[turn[t].conv] EXCEPT !.state = "unresolved"] \in Rows BY <1>3, <1>14
  <1>4. r \in Rows
    <2>1. CASE found /\ table = "row" BY <1>15, <2>1
    <2>2. CASE ~(found /\ table = "row") BY <1>13, <2>2
    <2> QED BY <2>1, <2>2
  <1>5. l \in Emails \cup {None} BY <1>3, TurnFacts
  <1>16. pc \in Pcs BY DEF Pcs
  <1>6. y \in TurnRecords
    <2> HIDE DEF pc, r, l
    <2> QED BY <1>4, <1>5, <1>16, TurnFacts DEF TurnRecords
  <1>7. turn' = [turn EXCEPT ![t] = y] BY <1>1, TurnFacts
  <1>8. turn'[t] = y BY <1>7, TurnFacts
  <1>9. /\ turn'[t].pc \in {"load", "decide"} /\ turn'[t].conv = turn[t].conv
        /\ turn'[t].link = l
    BY <1>8, TurnFacts DEF TurnRecords
  <1>10. l # None => link'[turn[t].conv] # None BY <1>2, TurnFacts DEF TurnKnows, Load
  <1>11. TurnKnows(t)'
    <2> HIDE DEF l, y
    <2> QED BY <1>2, <1>9, <1>10 DEF TurnKnows
  <1>12. Fault \/ UNCHANGED faults BY <1>1
  <1> QED BY <1>6, <1>7, <1>11, <1>12, OverlappedIsTyped, PrivateStep DEF Load

\* A turn that ends here and reports a link only if it is there.
LEMMA ConcludeKeepsInv ==
  ASSUME OnboardingInv, NEW t \in Turns, NEW state \in States, NEW pending \in BOOLEAN,
         Conclude(t, state, pending), turn[t].pc # "idle",
         state \in LinkedStates => link[turn[t].conv] # None,
         Fault \/ UNCHANGED faults, UNCHANGED <<row, link, accounts, offer, overlapped>>
  PROVE  OnboardingInv'
  <1>1. PICK y \in TurnRecords :
           /\ turn' = [turn EXCEPT ![t] = y] /\ turn'[t] = y
           /\ y.pc = "persist" /\ y.conv = turn[t].conv /\ y.row.state = state
           /\ y.link = None
    BY Concludes
  <1>2. turn[t].conv \in Conversations BY TurnFacts DEF TurnKnows
  <1>3. TurnKnows(t)' BY <1>1, <1>2 DEF TurnKnows
  <1> QED BY <1>1, <1>3, OverlappedIsTyped, PrivateStep

LEMMA DecideKeepsInv ==
  ASSUME OnboardingInv, NEW t \in Turns,
         AlreadyLinked(t) \/ Reply(t) \/ LookUp(t) \/ Confirmed(t)
  PROVE  OnboardingInv'
  <1>1. turn[t].pc = "decide" BY DEF AlreadyLinked, Reply, LookUp, Confirmed
  <1>2. CASE AlreadyLinked(t)
    <2>1. link[turn[t].conv] # None BY <1>1, <1>2, TurnFacts DEF AlreadyLinked, TurnKnows
    <2>2. \E state \in {"handoff", "completed"} : Conclude(t, state, FALSE)
      BY <1>2 DEF AlreadyLinked
    <2>3. Fault \/ UNCHANGED faults BY <1>2 DEF AlreadyLinked
    <2> QED BY <1>1, <1>2, <2>1, <2>2, <2>3, ConcludeKeepsInv DEF AlreadyLinked, States
  <1>3. CASE Reply(t)
    <2>1. \E state \in States \ LinkedStates, pending \in BOOLEAN : Conclude(t, state, pending)
      BY <1>3 DEF Reply, States, LinkedStates
    <2> QED BY <1>1, <1>3, <2>1, ConcludeKeepsInv DEF Reply
  <1>4. CASE LookUp(t)
    <2>1. CASE Conclude(t, "creation_offered", TRUE)
      <3>1. Fault \/ UNCHANGED faults BY <1>4 DEF LookUp
      <3> QED BY <1>1, <1>4, <2>1, <3>1, ConcludeKeepsInv DEF LookUp, States, LinkedStates
    <2>2. CASE turn[t].msg \in accounts /\ WorkOn(t, "check", turn[t].msg) /\ UNCHANGED faults
      <3>1. PICK y \in TurnRecords :
              /\ turn' = [turn EXCEPT ![t] = y] /\ turn'[t] = y
              /\ y.pc = "check" /\ y.conv = turn[t].conv /\ y.email = turn[t].msg
        BY <1>4, <2>2, Works DEF LookUp, Pcs
      <3>2. TurnKnows(t)' BY <1>1, <1>4, <2>2, <3>1, TurnFacts DEF TurnKnows, LookUp
      <3> QED BY <1>4, <2>2, <3>1, <3>2, OverlappedIsTyped, PrivateStep DEF LookUp
    <2> QED BY <1>4, <2>1, <2>2 DEF LookUp
  <1>5. CASE Confirmed(t)
    <2>1. turn[t].row.email \in Emails BY <1>5, TurnFacts DEF Confirmed
    <2>2. WorkOn(t, "create", turn[t].row.email) BY <1>5 DEF Confirmed
    <2>3. "create" \in Pcs BY DEF Pcs
    <2>4. PICK y \in TurnRecords :
            /\ turn' = [turn EXCEPT ![t] = y] /\ turn'[t] = y
            /\ y.pc = "create" /\ y.conv = turn[t].conv /\ y.email = turn[t].row.email
      BY <2>1, <2>2, <2>3, Works
    <2>5. TurnKnows(t)' BY <1>1, <2>1, <2>4, TurnFacts DEF TurnKnows
    <2> QED BY <1>5, <2>4, <2>5, OverlappedIsTyped, PrivateStep DEF Confirmed
  <1> QED BY <1>2, <1>3, <1>4, <1>5

LEMMA CreateKeepsInv ==
  ASSUME OnboardingInv, NEW t \in Turns, CreateCustomer(t)
  PROVE  OnboardingInv'
  <1>1. turn[t].pc = "create" /\ turn[t].email \in Emails /\ turn[t].conv \in Conversations
    BY TurnFacts DEF CreateCustomer, TurnKnows
  <1>2. /\ accounts \subseteq accounts' /\ accounts' \subseteq Emails
        /\ UNCHANGED <<row, link, offer, overlapped>> /\ (Fault \/ UNCHANGED faults)
    BY <1>1 DEF CreateCustomer, OnboardingInv, OnboardingTypeOK
  <1>3. Grows BY <1>2 DEF Grows
  <1>4. ASSUME turn[t].email \in accounts' /\ Goto(t, "check")
        PROVE  Knows' /\ turn' \in [Turns -> TurnRecords]
    <2>1. "check" \in Pcs BY DEF Pcs
    <2>2. PICK y \in TurnRecords :
            /\ turn' = [turn EXCEPT ![t] = y] /\ turn'[t] = y
            /\ y.pc = "check" /\ y.conv = turn[t].conv /\ y.email = turn[t].email
      BY <1>4, <2>1, Goes
    <2>3. TurnKnows(t)' BY <1>1, <1>4, <2>2 DEF TurnKnows
    <2> QED BY <1>3, <2>2, <2>3, OneTurnMoves
  <1>5. ASSUME Conclude(t, "handoff", FALSE)
        PROVE  Knows' /\ turn' \in [Turns -> TurnRecords]
    <2>1. "handoff" \in States BY DEF States
    <2>2. PICK y \in TurnRecords :
            /\ turn' = [turn EXCEPT ![t] = y] /\ turn'[t] = y
            /\ y.pc = "persist" /\ y.conv = turn[t].conv /\ y.row.state = "handoff"
            /\ y.link = None
      BY <1>5, <2>1, Concludes
    <2>3. TurnKnows(t)' BY <1>1, <2>2 DEF TurnKnows, LinkedStates
    <2> QED BY ZenonT(60), <1>3, <2>2, <2>3, OneTurnMoves
  <1>6. Knows' /\ turn' \in [Turns -> TurnRecords]
    BY <1>4, <1>5 DEF CreateCustomer
  <1>7. faults' \in 0..MaxFaults BY <1>2, FaultsBounded
  <1>8. OnboardingTypeOK' BY <1>2, <1>6, <1>7 DEF OnboardingInv, OnboardingTypeOK
  <1>9. CompletedIsLinked' BY <1>2 DEF OnboardingInv, CompletedIsLinked
  <1> QED BY <1>6, <1>8, <1>9 DEF OnboardingInv

LEMMA LinkedIsAState ==
  ASSUME NEW t \in Turns
  PROVE  Linked(t) \in States /\ Unavailable(t) \in States \ LinkedStates
  BY DEF Linked, States, Unavailable, LinkedStates

LEMMA CheckKeepsInv ==
  ASSUME OnboardingInv, NEW t \in Turns, CheckLink(t)
  PROVE  OnboardingInv'
  <1>1. turn[t].pc = "check" /\ turn[t].email \in accounts /\ turn[t].conv \in Conversations
    BY TurnFacts DEF CheckLink, TurnKnows
  <1>2. UNCHANGED <<row, link, accounts, offer, overlapped>> /\ (Fault \/ UNCHANGED faults)
    BY DEF CheckLink
  <1>3. ASSUME NEW pc \in {"upsert", "blind"}, Goto(t, pc) PROVE OnboardingInv'
    <2>1. pc \in Pcs BY <1>3 DEF Pcs
    <2>2. PICK y \in TurnRecords :
            /\ turn' = [turn EXCEPT ![t] = y] /\ turn'[t] = y
            /\ y.pc = pc /\ y.conv = turn[t].conv /\ y.email = turn[t].email
      BY <1>3, <2>1, Goes
    <2>3. TurnKnows(t)' BY <1>1, <1>2, <1>3, <2>2 DEF TurnKnows
    <2> QED BY <1>2, <2>2, <2>3, OverlappedIsTyped, PrivateStep
  <1>4. ASSUME NEW state \in States, link[turn[t].conv] # None, Conclude(t, state, FALSE)
        PROVE  OnboardingInv'
    BY <1>1, <1>2, <1>4, ConcludeKeepsInv
  <1>5. CASE ~Unbound(turn[t].conv)
             /\ Conclude(t, IF link[turn[t].conv] = turn[t].email THEN Linked(t) ELSE "handoff",
                         FALSE)
    BY <1>4, <1>5, LinkedIsAState DEF Unbound, States
  <1> QED BY <1>3, <1>5 DEF CheckLink

LEMMA UpsertKeepsInv ==
  ASSUME OnboardingInv, NEW t \in Turns, UpsertLink(t)
  PROVE  OnboardingInv'
  <1>1. /\ turn[t].pc \in {"upsert", "blind"} /\ turn[t].email \in accounts
        /\ turn[t].conv \in Conversations
    BY TurnFacts DEF UpsertLink, TurnKnows
  <1>2. UNCHANGED <<row, accounts, offer, overlapped>> /\ (Fault \/ UNCHANGED faults)
    BY DEF UpsertLink
  <1>3. CASE Conclude(t, Unavailable(t), FALSE) /\ UNCHANGED link
    BY <1>1, <1>2, <1>3, LinkedIsAState, ConcludeKeepsInv
  <1>4. CASE link' = [link EXCEPT ![turn[t].conv] = turn[t].email] /\ Goto(t, "confirm")
    <2>1. /\ accounts \subseteq Emails /\ link \in [Conversations -> accounts \cup {None}]
      BY DEF OnboardingInv, OnboardingTypeOK
    <2>2. turn[t].email # None BY <1>1, <2>1, EmailsAssumption
    <2>3. /\ link' \in [Conversations -> accounts' \cup {None}] /\ Grows
          /\ link'[turn[t].conv] # None
      BY <1>1, <1>2, <1>4, <2>1, <2>2 DEF Grows
    <2>4. "confirm" \in Pcs BY DEF Pcs
    <2>5. PICK y \in TurnRecords :
            /\ turn' = [turn EXCEPT ![t] = y] /\ turn'[t] = y
            /\ y.pc = "confirm" /\ y.conv = turn[t].conv
      BY <1>4, <2>4, Goes
    <2>6. TurnKnows(t)' BY <1>1, <2>3, <2>5 DEF TurnKnows
    <2>7. Knows' /\ turn' \in [Turns -> TurnRecords] BY <2>3, <2>5, <2>6, OneTurnMoves
    <2>8. faults' \in 0..MaxFaults BY <1>2, FaultsBounded
    <2>9. OnboardingTypeOK' BY <1>2, <2>3, <2>7, <2>8 DEF OnboardingInv, OnboardingTypeOK
    <2>10. CompletedIsLinked' BY <1>2, <2>3 DEF OnboardingInv, CompletedIsLinked, Grows
    <2> QED BY <2>7, <2>9, <2>10 DEF OnboardingInv
  <1> QED BY <1>3, <1>4 DEF UpsertLink

LEMMA ConfirmKeepsInv ==
  ASSUME OnboardingInv, NEW t \in Turns, ConfirmLink(t)
  PROVE  OnboardingInv'
  <1>1. turn[t].pc = "confirm" /\ link[turn[t].conv] # None BY TurnFacts DEF ConfirmLink, TurnKnows
  <1>2. \E state \in States : Conclude(t, state, FALSE)
    BY LinkedIsAState DEF ConfirmLink, States
  <1>3. UNCHANGED <<row, link, accounts, offer, overlapped>> /\ (Fault \/ UNCHANGED faults)
    BY DEF ConfirmLink
  <1> QED BY <1>1, <1>2, <1>3, ConcludeKeepsInv

LEMMA PersistKeepsInv ==
  ASSUME OnboardingInv, NEW t \in Turns, Persist(t)
  PROVE  OnboardingInv'
  <1>1. /\ turn[t].pc = "persist" /\ turn[t].conv \in Conversations /\ turn[t].row \in Rows
        /\ turn[t].row.state \in LinkedStates => link[turn[t].conv] # None
    BY TurnFacts DEF Persist, TurnKnows
  <1>2. UNCHANGED <<link, accounts, overlapped>> /\ (Fault \/ UNCHANGED faults)
    BY DEF Persist
  <1>3. row' \in [Conversations -> Rows]
    BY <1>1 DEF Persist, OnboardingInv, OnboardingTypeOK
  <1>4. offer' \in [Conversations -> Emails \cup {None}]
    BY <1>1 DEF Persist, OnboardingInv, OnboardingTypeOK
  <1>5. turn' = [turn EXCEPT ![t] = IdleTurn] BY DEF Persist
  <1>6. turn'[t] = IdleTurn BY <1>5, TurnFacts
  <1>7. TurnKnows(t)' BY <1>6 DEF TurnKnows, IdleTurn
  <1>8. Grows BY <1>2 DEF Grows
  <1>9. Knows' /\ turn' \in [Turns -> TurnRecords]
    BY <1>5, <1>7, <1>8, IdleIsATurn, OneTurnMoves
  <1>10. faults' \in 0..MaxFaults BY <1>2, FaultsBounded
  <1>11. OnboardingTypeOK'
    BY <1>2, <1>3, <1>4, <1>9, <1>10 DEF OnboardingInv, OnboardingTypeOK
  <1>12. CompletedIsLinked'
    <2>1. \A c \in Conversations : row'[c] = row[c] \/ (c = turn[t].conv /\ row'[c] = turn[t].row)
      BY <1>1 DEF Persist, OnboardingInv, OnboardingTypeOK
    <2> QED BY <1>1, <1>2, <2>1 DEF OnboardingInv, CompletedIsLinked, LinkedStates
  <1> QED BY <1>9, <1>11, <1>12 DEF OnboardingInv

LEMMA CrashKeepsInv ==
  ASSUME OnboardingInv, NEW t \in Turns, Crash(t)
  PROVE  OnboardingInv'
  <1>1. turn' = [turn EXCEPT ![t] = IdleTurn] BY DEF Crash
  <1>2. turn'[t] = IdleTurn BY <1>1, TurnFacts
  <1>3. TurnKnows(t)' BY <1>2 DEF TurnKnows, IdleTurn
  <1> QED BY <1>1, <1>3, IdleIsATurn, OverlappedIsTyped, PrivateStep DEF Crash

LEMMA NextKeepsInv == OnboardingInv /\ [Next]_vars => OnboardingInv'
  <1> SUFFICES ASSUME OnboardingInv, [Next]_vars PROVE OnboardingInv' OBVIOUS
  <1>1. CASE UNCHANGED vars
    BY <1>1 DEF vars, OnboardingInv, OnboardingTypeOK, Knows, TurnKnows, CompletedIsLinked
  <1>2. CASE Next
    <2>1. PICK t \in Turns :
            \/ \E c \in Conversations, m \in Messages : Begin(t, c, m)
            \/ TurnStep(t) \/ Crash(t)
      BY <1>2 DEF Next
    <2>2. CASE \E c \in Conversations, m \in Messages : Begin(t, c, m) BY <2>2, BeginKeepsInv
    <2>3. CASE TurnStep(t)
      BY <2>3, LoadKeepsInv, DecideKeepsInv, CreateKeepsInv, CheckKeepsInv, UpsertKeepsInv,
         ConfirmKeepsInv, PersistKeepsInv DEF TurnStep
    <2> QED BY <2>1, <2>2, <2>3, CrashKeepsInv
  <1> QED BY <1>1, <1>2

LEMMA InvHolds == Spec => []OnboardingInv
  BY InitIsInv, NextKeepsInv, PTL DEF Spec

\* Every reachable state of the onboarding has the declared types; in particular a
\* link always names an account that exists.
THEOREM OnboardingTypeCorrectness == Spec => []OnboardingTypeOK
  <1>1. OnboardingInv => OnboardingTypeOK BY DEF OnboardingInv
  <1> QED BY <1>1, InvHolds, PTL

\* A conversation whose row says customer_linked or completed is linked, whatever
\* its turns do at the same time and wherever they fail or die.
THEOREM CompletedConversationsAreLinked == Spec => []CompletedIsLinked
  <1>1. OnboardingInv => CompletedIsLinked BY DEF OnboardingInv
  <1> QED BY <1>1, InvHolds, PTL

-----------------------------------------------------------------------------
(* The binding of a conversation. *)

\* Turns that share a conversation have been noticed, and a lone turn that found no
\* link still finds none when it writes its own.
Alone == \A t, u \in Turns :
           t # u /\ turn[t].conv = turn[u].conv /\ turn[t].conv # None =>
             turn[t].conv \in overlapped
Fresh == \A t \in Turns :
           turn[t].pc = "upsert" /\ turn[t].conv \notin overlapped => link[turn[t].conv] = None
BindingInv == OnboardingInv /\ Alone /\ Fresh

\* What a step of turn t, once begun, does to the turns and to the links.
StepShape(t) ==
  /\ \A u \in Turns \ {t} : turn'[u] = turn[u]
  /\ turn'[t].conv \in {turn[t].conv, None}
  /\ overlapped' = overlapped
  /\ turn'[t].pc = "upsert" =>
       turn'[t].conv = turn[t].conv /\ link[turn[t].conv] = None /\ link' = link
  /\ \/ link' = link
     \/ /\ turn[t].pc \in {"upsert", "blind"}
        /\ link' = [link EXCEPT ![turn[t].conv] = turn[t].email]

LEMMA StepsHaveShape ==
  ASSUME OnboardingInv, NEW t \in Turns, TurnStep(t) \/ Crash(t)
  PROVE  StepShape(t)
  <1> DEFINE Moved(P) == /\ \A u \in Turns \ {t} : turn'[u] = turn[u]
                         /\ turn'[t].conv \in {turn[t].conv, None} /\ turn'[t].pc \in P
  <1>1. turn \in [Turns -> TurnRecords] /\ turn[t] \in TurnRecords BY TurnFacts
  <1>2. ASSUME NEW state, NEW pending, Conclude(t, state, pending) PROVE Moved({"persist"})
    BY <1>1, <1>2 DEF Conclude, TurnRecords
  <1>3. ASSUME NEW pc, Goto(t, pc) PROVE Moved({pc}) /\ turn'[t].conv = turn[t].conv
    BY <1>1, <1>3 DEF Goto, TurnRecords
  <1>4. ASSUME NEW pc, NEW email, WorkOn(t, pc, email) PROVE Moved({pc})
    BY <1>1, <1>4 DEF WorkOn, TurnRecords
  <1>5. ASSUME turn' = [turn EXCEPT ![t] = IdleTurn] PROVE Moved({"idle"})
    BY <1>1, <1>5 DEF IdleTurn
  <1>6. ASSUME NEW P, Moved(P), "upsert" \notin P, UNCHANGED <<link, overlapped>> PROVE StepShape(t)
    BY <1>6 DEF StepShape
  <1>7. CASE \E table \in Tables : Load(t, table)
    <2>1. PICK table \in Tables : Load(t, table) BY <1>7
    <2>2. PICK found \in BOOLEAN :
            turn' = [turn EXCEPT
              ![t].unread = @ \ {table},
              ![t].pc = IF turn[t].unread = {table} THEN "decide" ELSE "load",
              ![t].row = IF found /\ table = "row"
                           THEN [row[turn[t].conv] EXCEPT !.state = "unresolved"]
                           ELSE @,
              ![t].link = IF found /\ table = "link" THEN link[turn[t].conv] ELSE @]
      BY <2>1 DEF Load
    <2>3. Moved({"decide", "load"}) BY <1>1, <2>2 DEF TurnRecords
    <2> QED BY <1>6, <2>1, <2>3 DEF Load
  <1>8. CASE AlreadyLinked(t) \/ Reply(t) \/ ConfirmLink(t)
    <2>1. \E state, pending : Conclude(t, state, pending)
      BY <1>8 DEF AlreadyLinked, Reply, ConfirmLink
    <2>2. Moved({"persist"}) BY <1>2, <2>1
    <2> QED BY <1>6, <1>8, <2>2 DEF AlreadyLinked, Reply, ConfirmLink
  <1>9. CASE LookUp(t) \/ Confirmed(t)
    <2>1. \/ WorkOn(t, "check", turn[t].msg) \/ WorkOn(t, "create", turn[t].row.email)
          \/ Conclude(t, "creation_offered", TRUE)
      BY <1>9 DEF LookUp, Confirmed
    <2>2. Moved({"check"}) \/ Moved({"create"}) \/ Moved({"persist"}) BY <1>2, <1>4, <2>1
    <2> QED BY <1>6, <1>9, <2>2 DEF LookUp, Confirmed
  <1>10. CASE CreateCustomer(t)
    <2>1. Goto(t, "check") \/ Conclude(t, "handoff", FALSE) BY <1>10 DEF CreateCustomer
    <2>2. Moved({"check"}) \/ Moved({"persist"}) BY <1>2, <1>3, <2>1
    <2> QED BY <1>6, <1>10, <2>2 DEF CreateCustomer
  <1>11. CASE CheckLink(t)
    <2>1. UNCHANGED <<link, overlapped>> BY <1>11 DEF CheckLink
    <2>2. CASE link[turn[t].conv] = None /\ Goto(t, "upsert")
      <3>1. Moved({"upsert"}) /\ turn'[t].conv = turn[t].conv BY <1>3, <2>2
      <3> QED BY <2>1, <2>2, <3>1 DEF StepShape
    <2>3. CASE Goto(t, "blind")
      <3>1. Moved({"blind"}) BY <1>3, <2>3
      <3> QED BY <1>6, <2>1, <3>1
    <2>4. CASE \E state : Conclude(t, state, FALSE)
      <3>1. Moved({"persist"}) BY <1>2, <2>4
      <3> QED BY <1>6, <2>1, <3>1
    <2> QED BY <1>11, <2>2, <2>3, <2>4 DEF CheckLink, Unbound
  <1>12. CASE UpsertLink(t)
    <2>1. Goto(t, "confirm") \/ \E state : Conclude(t, state, FALSE) BY <1>12 DEF UpsertLink
    <2>2. Moved({"confirm"}) \/ Moved({"persist"}) BY <1>2, <1>3, <2>1
    <2> QED BY <1>12, <2>2 DEF UpsertLink, StepShape
  <1>13. CASE Persist(t) \/ Crash(t)
    <2>1. Moved({"idle"}) BY <1>5, <1>13 DEF Persist, Crash
    <2> QED BY <1>6, <1>13, <2>1 DEF Persist, Crash
  <1> QED BY <1>7, <1>8, <1>9, <1>10, <1>11, <1>12, <1>13 DEF TurnStep

LEMMA ShapedStepsKeepBinding ==
  ASSUME BindingInv, NEW t \in Turns, StepShape(t)
  PROVE  Alone' /\ Fresh'
  <1>1. link \in [Conversations -> accounts \cup {None}] BY DEF BindingInv, OnboardingInv, OnboardingTypeOK
  <1>2. Alone' BY DEF BindingInv, Alone, StepShape
  <1>3. ASSUME NEW u \in Turns, turn'[u].pc = "upsert", turn'[u].conv \notin overlapped'
        PROVE  link'[turn'[u].conv] = None
    <2>1. CASE u = t BY <1>3, <2>1 DEF StepShape
    <2>2. CASE u # t
      <3>1. /\ turn'[u] = turn[u] /\ turn[u].conv \notin overlapped
            /\ link[turn[u].conv] = None /\ turn[u].conv \in Conversations
        BY <1>3, <2>2, TurnFacts DEF BindingInv, Fresh, StepShape, TurnKnows
      <3>2. turn[u].conv # turn[t].conv \/ turn[t].conv = None
        BY <2>2, <3>1 DEF BindingInv, Alone
      <3>3. turn[t].pc \in {"upsert", "blind"} => turn[t].conv \in Conversations
        BY TurnFacts DEF TurnKnows, BindingInv
      <3> QED BY <1>1, <3>1, <3>2, <3>3, EmailsAssumption DEF StepShape
    <2> QED BY <2>1, <2>2
  <1> QED BY <1>2, <1>3 DEF Fresh

LEMMA BeginKeepsBinding ==
  ASSUME BindingInv, NEW t \in Turns, NEW c \in Conversations, NEW m \in Messages,
         Begin(t, c, m)
  PROVE  Alone' /\ Fresh' /\ link' = link
  <1>1. turn \in [Turns -> TurnRecords] BY TurnFacts DEF BindingInv
  <1>2. /\ \A u \in Turns \ {t} : turn'[u] = turn[u]
        /\ turn'[t].conv = c /\ turn'[t].pc = "load"
    BY <1>1 DEF Begin, IdleTurn
  <1>3. /\ overlapped \subseteq overlapped'
        /\ (\E u \in Turns : turn[u].conv = c) => c \in overlapped'
    BY DEF Begin
  <1>4. Alone' BY <1>2, <1>3 DEF BindingInv, Alone
  <1>5. Fresh' BY <1>2, <1>3 DEF BindingInv, Fresh, Begin
  <1> QED BY <1>4, <1>5 DEF Begin

LEMMA NextKeepsBinding == BindingInv /\ [Next]_vars => BindingInv'
  <1> SUFFICES ASSUME BindingInv, [Next]_vars PROVE BindingInv' OBVIOUS
  <1>1. OnboardingInv' BY NextKeepsInv DEF BindingInv
  <1>2. CASE UNCHANGED vars BY <1>1, <1>2 DEF vars, BindingInv, Alone, Fresh
  <1>3. CASE Next
    <2>1. PICK t \in Turns :
            \/ \E c \in Conversations, m \in Messages : Begin(t, c, m)
            \/ TurnStep(t) \/ Crash(t)
      BY <1>3 DEF Next
    <2>2. CASE \E c \in Conversations, m \in Messages : Begin(t, c, m)
      BY <1>1, <2>2, BeginKeepsBinding DEF BindingInv
    <2>3. CASE TurnStep(t) \/ Crash(t)
      <3>1. StepShape(t) BY <2>3, StepsHaveShape DEF BindingInv
      <3> QED BY <1>1, <3>1, ShapedStepsKeepBinding DEF BindingInv
    <2> QED BY <2>1, <2>2, <2>3
  <1> QED BY <1>2, <1>3

LEMMA BindingInvHolds == Spec => []BindingInv
  <1>1. Init => BindingInv
    BY InitIsInv DEF Init, BindingInv, Alone, Fresh, IdleTurn
  <1> QED BY <1>1, NextKeepsBinding, PTL DEF Spec

\* What BindingIsKept says of one step.
LinksStay == \A c \in Conversations : link[c] # None /\ link'[c] # link[c] =>
               c \in overlapped \/ \E t \in Turns : turn[t].conv = c /\ turn[t].pc = "blind"

LEMMA StepsKeepLinks == BindingInv /\ [Next]_vars => LinksStay
  <1> SUFFICES ASSUME BindingInv, [Next]_vars, NEW c \in Conversations,
                      link[c] # None, link'[c] # link[c]
               PROVE  c \in overlapped \/ \E t \in Turns : turn[t].conv = c /\ turn[t].pc = "blind"
    BY DEF LinksStay
  <1>1. Next BY DEF vars
  <1>2. PICK t \in Turns :
          \/ \E d \in Conversations, m \in Messages : Begin(t, d, m)
          \/ TurnStep(t) \/ Crash(t)
    BY <1>1 DEF Next
  <1>3. TurnStep(t) \/ Crash(t) BY <1>2, BeginKeepsBinding
  <1>4. StepShape(t) BY <1>3, StepsHaveShape DEF BindingInv
  <1>5. link \in [Conversations -> accounts \cup {None}]
    BY DEF BindingInv, OnboardingInv, OnboardingTypeOK
  <1>6. turn[t].pc \in {"upsert", "blind"} /\ turn[t].conv = c BY <1>4, <1>5 DEF StepShape
  <1> QED BY <1>6 DEF BindingInv, Fresh

\* A link, once there, is replaced only in a conversation whose turns overlapped, or
\* by a turn whose look at it failed: the upsert itself never moves one.
THEOREM BindingsAreKept == Spec => BindingIsKept
  <1>1. BindingInv /\ [Next]_vars => [LinksStay]_vars BY StepsKeepLinks
  <1>2. BindingIsKept <=> [][LinksStay]_vars BY DEF BindingIsKept, LinksStay
  <1> QED BY <1>1, <1>2, BindingInvHolds, PTL DEF Spec

-----------------------------------------------------------------------------
(* The address an account is created for. *)

\* A conversation whose turns came one after the other, without a fault.
Orderly(c) == c # None /\ c \notin overlapped /\ faults = 0

\* What is pending, in the row or in a turn, is the offer that was last sent; a turn
\* that is about to send one has it in the row it writes.
TurnOffers(t) ==
  LET x == turn[t] IN
  /\ x.row.pending =>
       x.row.email = IF x.pc = "persist" /\ x.msg \in Emails THEN x.msg ELSE offer[x.conv]
  /\ x.pc = "persist" /\ x.row.pending /\ x.msg \in Emails => x.row.state = "creation_offered"
  /\ x.pc = "create" => x.email = offer[x.conv]

OfferInv ==
  /\ BindingInv
  /\ \A c \in Conversations : Orderly(c) /\ row[c].pending => row[c].email = offer[c]
  /\ \A t \in Turns : Orderly(turn[t].conv) => TurnOffers(t)

\* Only the last step of a turn writes the row and sends an offer.
LEMMA OnlyPersistWrites ==
  ASSUME NEW t \in Turns, TurnStep(t) \/ Crash(t), ~Persist(t)
  PROVE  UNCHANGED <<row, offer>> /\ turn[t].pc # "idle"
  <1>1. ASSUME NEW table \in Tables, Load(t, table)
        PROVE  UNCHANGED <<row, offer>> /\ turn[t].pc # "idle"
    BY <1>1 DEF Load
  <1>2. ASSUME AlreadyLinked(t) \/ LookUp(t) \/ Confirmed(t)
        PROVE  UNCHANGED <<row, offer>> /\ turn[t].pc # "idle"
    BY <1>2 DEF AlreadyLinked, LookUp, Confirmed
  <1>3. ASSUME Reply(t) PROVE UNCHANGED <<row, offer>> /\ turn[t].pc # "idle"
    BY <1>3 DEF Reply
  <1>4. ASSUME CreateCustomer(t) \/ CheckLink(t)
        PROVE  UNCHANGED <<row, offer>> /\ turn[t].pc # "idle"
    BY <1>4 DEF CreateCustomer, CheckLink
  <1>5. ASSUME UpsertLink(t) \/ ConfirmLink(t) \/ Crash(t)
        PROVE  UNCHANGED <<row, offer>> /\ turn[t].pc # "idle"
    BY <1>5 DEF UpsertLink, ConfirmLink, Crash
  <1> QED BY <1>1, <1>2, <1>3, <1>4, <1>5 DEF TurnStep

\* Every way a step of an orderly turn goes on before it writes its row.
LEMMA TurnsKeepTheOffer ==
  ASSUME OfferInv, NEW t \in Turns, TurnStep(t), ~Persist(t), Orderly(turn[t].conv), faults' = 0
  PROVE  TurnOffers(t)'
  <1>1. /\ turn \in [Turns -> TurnRecords] /\ turn[t] \in TurnRecords
        /\ turn[t].msg \in Messages /\ turn[t].row \in Rows /\ TurnOffers(t)
        /\ turn[t].conv \in Conversations
    BY TurnFacts, OnlyPersistWrites DEF OfferInv, BindingInv, TurnKnows
  <1>2. UNCHANGED <<row, offer>> BY OnlyPersistWrites
  <1>3. Emails \cap Words = {} BY EmailsAssumption
  <1>4. ASSUME NEW state, NEW pending \in BOOLEAN, Conclude(t, state, pending),
               pending => /\ KeptEmail(t) = IF turn[t].msg \in Emails THEN turn[t].msg
                                            ELSE offer[turn[t].conv]
                          /\ turn[t].msg \in Emails => state = "creation_offered"
        PROVE  TurnOffers(t)'
    <2>1. /\ turn'[t].pc = "persist" /\ turn'[t].conv = turn[t].conv /\ turn'[t].msg = turn[t].msg
          /\ turn'[t].row = [state |-> state, pending |-> pending, email |-> KeptEmail(t)]
      BY <1>1, <1>4 DEF Conclude, TurnRecords
    <2> QED BY <1>2, <1>4, <2>1 DEF TurnOffers
  <1>5. ASSUME NEW state, Conclude(t, state, FALSE) PROVE TurnOffers(t)' BY <1>4, <1>5
  <1>6. ASSUME NEW pc \in {"upsert", "blind", "check", "confirm"}, Goto(t, pc),
               turn[t].pc # "persist"
        PROVE  TurnOffers(t)'
    <2>1. /\ turn'[t].pc = pc /\ turn'[t].conv = turn[t].conv /\ turn'[t].row = turn[t].row
      BY <1>1, <1>6 DEF Goto, TurnRecords
    <2> QED BY <1>1, <1>2, <1>6, <2>1 DEF TurnOffers
  <1>7. ASSUME NEW pc \in {"check", "create"}, NEW email, WorkOn(t, pc, email),
               pc = "create" => email = offer[turn[t].conv]
        PROVE  TurnOffers(t)'
    <2>1. /\ turn'[t].pc = pc /\ turn'[t].conv = turn[t].conv /\ turn'[t].email = email
          /\ turn'[t].row.pending = FALSE
      BY <1>1, <1>7 DEF WorkOn, TurnRecords, Rows
    <2> QED BY <1>2, <1>7, <2>1 DEF TurnOffers
  <1>8. CASE \E table \in Tables : Load(t, table)
    <2>1. PICK table \in Tables : Load(t, table) BY <1>8
    <2>2. PICK found \in BOOLEAN :
            turn' = [turn EXCEPT
              ![t].unread = @ \ {table},
              ![t].pc = IF turn[t].unread = {table} THEN "decide" ELSE "load",
              ![t].row = IF found /\ table = "row"
                           THEN [row[turn[t].conv] EXCEPT !.state = "unresolved"]
                           ELSE @,
              ![t].link = IF found /\ table = "link" THEN link[turn[t].conv] ELSE @]
      BY <2>1 DEF Load
    <2>3. turn[t].pc = "load" BY <2>1 DEF Load
    <2>4. row[turn[t].conv] \in Rows
      BY <1>1 DEF OfferInv, BindingInv, OnboardingInv, OnboardingTypeOK
    <2>5. row[turn[t].conv].pending => row[turn[t].conv].email = offer[turn[t].conv]
      BY <1>1 DEF OfferInv
    <2>6. /\ turn'[t].pc \in {"load", "decide"} /\ turn'[t].conv = turn[t].conv
          /\ \/ turn'[t].row = turn[t].row
             \/ turn'[t].row = [row[turn[t].conv] EXCEPT !.state = "unresolved"]
      <3>1. turn'[t] = [turn[t] EXCEPT
              !.unread = @ \ {table},
              !.pc = IF turn[t].unread = {table} THEN "decide" ELSE "load",
              !.row = IF found /\ table = "row"
                        THEN [row[turn[t].conv] EXCEPT !.state = "unresolved"] ELSE @,
              !.link = IF found /\ table = "link" THEN link[turn[t].conv] ELSE @]
        BY <1>1, <2>2
      <3> QED BY <1>1, <3>1 DEF TurnRecords
    <2>7. turn'[t].row.pending => turn'[t].row.email = offer[turn[t].conv]
      <3>1. CASE turn'[t].row = turn[t].row BY <1>1, <2>3, <3>1 DEF TurnOffers
      <3>2. CASE turn'[t].row = [row[turn[t].conv] EXCEPT !.state = "unresolved"]
        BY <2>4, <2>5, <3>2 DEF Rows
      <3> QED BY <2>6, <3>1, <3>2
    <2> QED BY <1>2, <2>6, <2>7 DEF TurnOffers
  <1>9. CASE AlreadyLinked(t)
    <2>1. \E state : Conclude(t, state, FALSE) BY <1>9 DEF AlreadyLinked
    <2> QED BY <1>5, <2>1
  <1>10. CASE Reply(t)
    <2>1. turn[t].msg \notin Emails /\ turn[t].pc = "decide" BY <1>3, <1>10 DEF Reply, Words
    <2>2. turn[t].row.pending => KeptEmail(t) = offer[turn[t].conv]
      BY <1>1, <2>1 DEF KeptEmail, TurnOffers
    <2>3. \E state : Conclude(t, state, FALSE) \/ (turn[t].row.pending /\ Conclude(t, state, TRUE))
      BY <1>10 DEF Reply
    <2> QED BY <1>4, <1>5, <2>1, <2>2, <2>3
  <1>11. CASE LookUp(t)
    <2>1. turn[t].msg \in Emails /\ KeptEmail(t) = turn[t].msg BY <1>11 DEF LookUp, KeptEmail
    <2>2. WorkOn(t, "check", turn[t].msg) \/ Conclude(t, "creation_offered", TRUE)
      BY <1>11 DEF LookUp
    <2>3. CASE WorkOn(t, "check", turn[t].msg) BY <1>7, <2>3
    <2>4. CASE Conclude(t, "creation_offered", TRUE) BY <1>4, <2>1, <2>4
    <2> QED BY <2>2, <2>3, <2>4
  <1>12. CASE Confirmed(t)
    <2>1. turn[t].row.email = offer[turn[t].conv] BY <1>1, <1>12 DEF Confirmed, TurnOffers
    <2>2. WorkOn(t, "create", turn[t].row.email) BY <1>12 DEF Confirmed
    <2> QED BY <1>7, <2>1, <2>2
  <1>13. CASE CreateCustomer(t)
    <2>1. turn[t].pc = "create" /\ (Goto(t, "check") \/ \E state : Conclude(t, state, FALSE))
      BY <1>13 DEF CreateCustomer
    <2> QED BY <1>5, <1>6, <2>1
  <1>14. CASE CheckLink(t) \/ UpsertLink(t) \/ ConfirmLink(t)
    <2>1. /\ turn[t].pc # "persist"
          /\ \/ \E state : Conclude(t, state, FALSE)
             \/ \E pc \in {"upsert", "blind", "confirm"} : Goto(t, pc)
      BY <1>14 DEF CheckLink, UpsertLink, ConfirmLink
    <2> QED BY <1>5, <1>6, <2>1
  <1> QED BY <1>8, <1>9, <1>10, <1>11, <1>12, <1>13, <1>14 DEF TurnStep

LEMMA FaultsStay ==
  ASSUME OnboardingInv, [Next]_vars
  PROVE  (faults' = 0 => faults = 0) /\ overlapped \subseteq overlapped'
  <1>1. CASE UNCHANGED vars BY <1>1 DEF vars
  <1>2. ASSUME NEW t \in Turns, NEW c \in Conversations, NEW m \in Messages, Begin(t, c, m)
        PROVE  UNCHANGED faults /\ overlapped \subseteq overlapped'
    BY <1>2 DEF Begin
  <1>3. ASSUME NEW t \in Turns, TurnStep(t) \/ Crash(t)
        PROVE  (UNCHANGED faults \/ Fault) /\ UNCHANGED overlapped
    <2>1. UNCHANGED overlapped BY <1>3, StepsHaveShape DEF StepShape
    <2>2. ASSUME \E table \in Tables : Load(t, table) PROVE UNCHANGED faults \/ Fault
      BY <2>2 DEF Load
    <2>3. ASSUME AlreadyLinked(t) \/ LookUp(t) \/ Confirmed(t) PROVE UNCHANGED faults \/ Fault
      BY <2>3 DEF AlreadyLinked, LookUp, Confirmed
    <2>4. ASSUME Reply(t) PROVE UNCHANGED faults
      BY <2>4 DEF Reply
    <2>5. ASSUME CreateCustomer(t) \/ CheckLink(t) PROVE UNCHANGED faults \/ Fault
      BY <2>5 DEF CreateCustomer, CheckLink
    <2>6. ASSUME UpsertLink(t) \/ ConfirmLink(t) \/ Persist(t) \/ Crash(t)
          PROVE  UNCHANGED faults \/ Fault
      BY <2>6 DEF UpsertLink, ConfirmLink, Persist, Crash
    <2> QED BY <1>3, <2>1, <2>2, <2>3, <2>4, <2>5, <2>6 DEF TurnStep
  <1>4. faults \in Nat BY MaxFaultsAssumption DEF OnboardingInv, OnboardingTypeOK
  <1>5. Fault => faults' # 0 BY <1>4 DEF Fault
  <1> QED BY <1>1, <1>2, <1>3, <1>5 DEF Next

LEMMA NextKeepsOffer == OfferInv /\ [Next]_vars => OfferInv'
  <1> SUFFICES ASSUME OfferInv, [Next]_vars PROVE OfferInv' OBVIOUS
  <1>1. BindingInv' BY NextKeepsBinding DEF OfferInv
  <1>2. /\ turn \in [Turns -> TurnRecords] /\ row \in [Conversations -> Rows]
        /\ offer \in [Conversations -> Emails \cup {None}]
    BY DEF OfferInv, BindingInv, OnboardingInv, OnboardingTypeOK
  <1>3. \A c : Orderly(c)' => Orderly(c)
    BY FaultsStay DEF OfferInv, BindingInv, Orderly
  <1>4. CASE UNCHANGED vars
    BY <1>1, <1>4 DEF vars, OfferInv, Orderly, TurnOffers
  <1>5. ASSUME NEW t \in Turns, \A u \in Turns \ {t} : turn'[u] = turn[u],
               UNCHANGED <<row, offer>>, Orderly(turn[t].conv)' => TurnOffers(t)'
        PROVE  OfferInv'
    <2>1. ASSUME NEW u \in Turns, Orderly(turn[u].conv)' PROVE TurnOffers(u)'
      BY <1>3, <1>5, <2>1 DEF OfferInv, TurnOffers, Orderly
    <2>2. ASSUME NEW c \in Conversations, Orderly(c)', row'[c].pending
          PROVE  row'[c].email = offer'[c]
      BY <1>3, <1>5, <2>2 DEF OfferInv
    <2> QED BY <1>1, <2>1, <2>2 DEF OfferInv
  <1>6. ASSUME NEW t \in Turns, NEW c \in Conversations, NEW m \in Messages, Begin(t, c, m)
        PROVE  OfferInv'
    <2>1. /\ \A u \in Turns \ {t} : turn'[u] = turn[u]
          /\ turn'[t].row = NoRow /\ turn'[t].pc = "load"
      BY <1>2, <1>6 DEF Begin, IdleTurn
    <2>2. TurnOffers(t)' BY <2>1 DEF TurnOffers, NoRow
    <2> QED BY <1>5, <1>6, <2>1, <2>2 DEF Begin
  <1>7. ASSUME NEW t \in Turns, TurnStep(t) \/ Crash(t), ~Persist(t) PROVE OfferInv'
    <2>1. StepShape(t) BY <1>7, StepsHaveShape DEF OfferInv, BindingInv
    <2>2. UNCHANGED <<row, offer>>
      BY <1>7, OnlyPersistWrites
    <2>3. ASSUME Orderly(turn[t].conv)' PROVE TurnOffers(t)'
      <3>1. Orderly(turn[t].conv) /\ faults' = 0 BY <1>3, <2>1, <2>3 DEF StepShape, Orderly
      <3>2. ~Crash(t)
        <4>1. faults \in Nat
          BY MaxFaultsAssumption DEF OfferInv, BindingInv, OnboardingInv, OnboardingTypeOK
        <4> QED BY <3>1, <4>1 DEF Crash, Fault
      <3> QED BY <1>7, <3>1, <3>2, TurnsKeepTheOffer
    <2> QED BY <1>5, <2>1, <2>2, <2>3 DEF StepShape
  <1>8. ASSUME NEW t \in Turns, Persist(t) PROVE OfferInv'
    <2> DEFINE x == turn[t]
               d == turn[t].conv
    <2>1. /\ d \in Conversations /\ x.pc = "persist" /\ x.row \in Rows
      BY <1>8, TurnFacts DEF Persist, OfferInv, BindingInv, TurnKnows
    <2>2. /\ turn'[t] = IdleTurn /\ \A u \in Turns \ {t} : turn'[u] = turn[u]
      BY <1>2, <1>8 DEF Persist
    <2>3. \A c \in Conversations \ {d} : row'[c] = row[c] /\ offer'[c] = offer[c]
      BY <1>2, <1>8 DEF Persist
    <2>4. ASSUME NEW u \in Turns, Orderly(turn[u].conv)' PROVE TurnOffers(u)'
      <3>1. u # t BY <2>2, <2>4 DEF Orderly, IdleTurn
      <3>2. turn'[u] = turn[u] /\ Orderly(turn[u].conv) BY <1>3, <2>2, <2>4, <3>1 DEF Orderly
      <3>3. turn[u].conv \in Conversations \ {d}
        <4>1. turn[u].conv # d
          BY <3>1, <3>2 DEF OfferInv, BindingInv, Alone, Orderly
        <4>2. turn[u].conv \in Conversations
          BY <1>2, <3>2, TurnFields DEF Orderly
        <4> QED BY <4>1, <4>2
      <3> QED BY <2>3, <3>2, <3>3 DEF OfferInv, TurnOffers
    <2>5. ASSUME NEW c \in Conversations, Orderly(c)', row'[c].pending
          PROVE  row'[c].email = offer'[c]
      <3>1. CASE c # d BY <1>3, <2>3, <2>5, <3>1 DEF OfferInv
      <3>2. CASE c = d
        <4>1. TurnOffers(t) /\ Orderly(d) /\ faults' = 0 BY <1>3, <2>5, <3>2 DEF OfferInv, Orderly
        <4>2. ~Fault
          <5>1. faults \in Nat
            BY MaxFaultsAssumption DEF OfferInv, BindingInv, OnboardingInv, OnboardingTypeOK
          <5> QED BY <4>1, <5>1 DEF Fault
        <4>3. row'[d] = x.row BY <1>2, <1>8, <2>1, <4>2 DEF Persist
        <4>4. offer'[d] = IF x.msg \in Emails /\ x.row.state = "creation_offered"
                            THEN x.msg ELSE offer[d]
          BY <1>2, <1>8, <2>1 DEF Persist
        <4> QED BY <2>1, <2>5, <3>2, <4>1, <4>3, <4>4 DEF TurnOffers
      <3> QED BY <3>1, <3>2
    <2> QED BY <1>1, <2>4, <2>5 DEF OfferInv
  <1>9. CASE Next
    BY <1>6, <1>7, <1>8, <1>9 DEF Next
  <1> QED BY <1>4, <1>9

LEMMA OfferInvHolds == Spec => []OfferInv
  <1>1. Init => OfferInv
    <2> SUFFICES ASSUME Init PROVE OfferInv OBVIOUS
    <2>1. BindingInv BY InitIsInv DEF Init, BindingInv, Alone, Fresh, IdleTurn
    <2>2. \A c \in Conversations : ~row[c].pending BY DEF Init, NoRow
    <2>3. \A t \in Turns : turn[t].conv = None BY DEF Init, IdleTurn
    <2> QED BY <2>1, <2>2, <2>3 DEF OfferInv, Orderly
  <1> QED BY <1>1, NextKeepsOffer, PTL DEF Spec

\* What OfferIsWhatIsMade says of one step.
MadeAsOffered ==
  \A t \in Turns : turn[t].pc = "create" /\ accounts' # accounts /\ turn'[t] # turn[t] =>
    \/ accounts' \ accounts = {offer[turn[t].conv]}
    \/ turn[t].conv \in overlapped \/ faults' > 0

LEMMA StepsMakeTheOffer == OfferInv /\ [Next]_vars => MadeAsOffered
  <1> SUFFICES ASSUME OfferInv, [Next]_vars, NEW t \in Turns, turn[t].pc = "create",
                      accounts' # accounts, turn'[t] # turn[t], turn[t].conv \notin overlapped,
                      ~(faults' > 0)
               PROVE  accounts' \ accounts = {offer[turn[t].conv]}
    BY DEF MadeAsOffered
  <1>1. OnboardingInv BY DEF OfferInv, BindingInv
  <1>2. faults' = 0 /\ faults = 0
    <2>1. OnboardingInv' BY <1>1, NextKeepsInv
    <2>2. faults' \in Nat BY <2>1, MaxFaultsAssumption DEF OnboardingInv, OnboardingTypeOK
    <2> QED BY <1>1, <2>2, FaultsStay
  <1>3. PICK u \in Turns : CreateCustomer(u)
    <2>1. Next BY DEF vars
    <2>2. PICK u \in Turns :
            \/ \E c \in Conversations, m \in Messages : Begin(u, c, m)
            \/ TurnStep(u) \/ Crash(u)
      BY <2>1 DEF Next
    <2>3. ASSUME NEW table \in Tables, Load(u, table) PROVE UNCHANGED accounts BY <2>3 DEF Load
    <2>4. ASSUME AlreadyLinked(u) \/ Reply(u) \/ LookUp(u) \/ Confirmed(u) PROVE UNCHANGED accounts
      BY <2>4 DEF AlreadyLinked, Reply, LookUp, Confirmed
    <2>5. ASSUME CheckLink(u) \/ UpsertLink(u) \/ ConfirmLink(u) \/ Persist(u) \/ Crash(u)
          PROVE  UNCHANGED accounts
      BY <2>5 DEF CheckLink, UpsertLink, ConfirmLink, Persist, Crash
    <2>6. ASSUME NEW c \in Conversations, NEW m \in Messages, Begin(u, c, m)
          PROVE  UNCHANGED accounts
      BY <2>6 DEF Begin
    <2> QED BY <2>2, <2>3, <2>4, <2>5, <2>6 DEF TurnStep
  <1>4. u = t
    <2>1. StepShape(u) BY <1>1, <1>3, StepsHaveShape DEF TurnStep
    <2> QED BY <2>1 DEF StepShape
  <1>5. turn[t].conv \in Conversations BY <1>1, TurnFacts DEF TurnKnows
  <1>6. turn[t].email = offer[turn[t].conv]
    BY <1>2, <1>5, EmailsAssumption DEF OfferInv, Orderly, TurnOffers
  <1>7. turn[t].email \notin accounts /\ accounts' = accounts \cup {turn[t].email}
    BY <1>3, <1>4 DEF CreateCustomer
  <1> QED BY <1>6, <1>7

\* In a conversation whose turns come one after the other, an account is created for
\* the address of the last offer, for any number of conversations and addresses.
THEOREM OffersAreWhatIsMade == Spec => OfferIsWhatIsMade
  <1>1. OfferInv /\ [Next]_vars => [MadeAsOffered]_vars BY StepsMakeTheOffer
  <1>2. OfferIsWhatIsMade <=> [][MadeAsOffered]_vars BY DEF OfferIsWhatIsMade, MadeAsOffered
  <1> QED BY <1>1, <1>2, OfferInvHolds, PTL DEF Spec

-----------------------------------------------------------------------------
(* The onboarding implements OnboardingContract: what a turn has in hand is   *)
(* what was written in its conversation, and what an orderly turn saw of the  *)
(* link is still so when it acts on it.                                       *)

TurnKeeps(t) ==
  LET x == turn[t] IN
  /\ x.pc = "idle" => x = IdleTurn
  /\ x.pc = "decide" => x.unread = {}
  /\ x.pc = "persist" /\ x.msg \in Emails => x.row.email = x.msg

TurnSees(t) ==
  LET x == turn[t] IN
  /\ x.pc \in {"load", "decide"} /\ "link" \notin x.unread => x.link = link[x.conv]
  /\ x.pc = "create" => link[x.conv] = None
  /\ x.pc = "persist" /\ x.msg \in Emails /\ x.row.state = "creation_offered" =>
       link[x.conv] = None

SeenInv ==
  /\ OfferInv
  /\ \A t \in Turns : TurnKeeps(t)
  /\ \A t \in Turns : Orderly(turn[t].conv) => TurnSees(t)

\* What is shown of every step of a turn.
Implements == [Contract!Next]_(Contract!contract)
Steps(t) == /\ Implements
            /\ TurnKeeps(t)' /\ (Orderly(turn[t].conv)' => TurnSees(t)')

LEMMA ContractReads ==
  /\ Contract!None = None /\ Contract!States = States /\ Contract!SaysLinked = LinkedStates
  BY DEF Contract!None, None, Contract!States, States, Contract!SaysLinked, LinkedStates

LEMMA SeenFacts ==
  ASSUME SeenInv, NEW t \in Turns
  PROVE  /\ OnboardingInv /\ OfferInv /\ BindingInv
         /\ TurnKeeps(t) /\ (Orderly(turn[t].conv) => TurnSees(t))
         /\ faults \in Nat
         /\ row \in [Conversations -> Rows] /\ link \in [Conversations -> accounts \cup {None}]
         /\ accounts \subseteq Emails
  BY MaxFaultsAssumption DEF SeenInv, OfferInv, BindingInv, OnboardingInv, OnboardingTypeOK

\* What the contract sees of a turn that moves to a record.
LEMMA HandsMove ==
  ASSUME SeenInv, NEW t \in Turns, NEW y \in TurnRecords, turn' = [turn EXCEPT ![t] = y]
  PROVE  /\ Conv' = [Conv EXCEPT ![t] = y.conv]
         /\ Named' = [Named EXCEPT ![t] = Addresses(y)] /\ Named'[t] = Addresses(y)
         /\ Blind' = IF y.pc = "blind" THEN Blind \cup {t} ELSE Blind \ {t}
         /\ turn'[t] = y
  <1>1. turn \in [Turns -> TurnRecords] BY TurnFacts, SeenFacts
  <1>2. \A u \in Turns : turn'[u] = IF u = t THEN y ELSE turn[u] BY <1>1
  <1>3. Conv' = [Conv EXCEPT ![t] = y.conv]
    <2>1. \A u \in Turns : turn'[u].conv = IF u = t THEN y.conv ELSE turn[u].conv BY <1>2
    <2>2. Conv' = [u \in Turns |-> turn'[u].conv] BY DEF Conv
    <2> QED BY <2>1, <2>2 DEF Conv
  <1>4. Named' = [Named EXCEPT ![t] = Addresses(y)]
    <2>1. \A u \in Turns : Addresses(turn[u])' = IF u = t THEN Addresses(y) ELSE Addresses(turn[u])
      BY <1>2 DEF Addresses
    <2> QED BY <2>1 DEF Named
  <1>5. Named'[t] = Addresses(y) BY <1>4 DEF Named
  <1>6. Blind' = IF y.pc = "blind" THEN Blind \cup {t} ELSE Blind \ {t}
    BY <1>2 DEF Blind
  <1> QED BY <1>2, <1>3, <1>4, <1>5, <1>6

\* Something failed, or nothing did.
LEMMA FaultsCount ==
  ASSUME SeenInv, NEW t \in Turns, Fault \/ UNCHANGED faults
  PROVE  /\ (faults' > 0) \in {faults > 0, TRUE}
         /\ Fault => faults' > 0 /\ faults' # 0
         /\ faults' = 0 => faults = 0
  <1>1. faults \in Nat BY SeenFacts
  <1>2. CASE Fault
    <2>1. faults' = faults + 1 BY <1>2 DEF Fault
    <2>2. faults' > 0 /\ faults' # 0 BY <1>1, <2>1
    <2> QED BY <2>2
  <1>3. CASE UNCHANGED faults
    <2>1. ~Fault BY <1>1, <1>3 DEF Fault
    <2> QED BY <1>3, <2>1
  <1> QED BY <1>2, <1>3

\* A conversation is orderly, or excused.
LEMMA OrderlyOrExcused ==
  ASSUME SeenInv, NEW t \in Turns, turn[t].pc # "idle"
  PROVE  /\ turn[t].conv \in Conversations /\ turn[t].conv # None
         /\ Conv[t] = turn[t].conv /\ Named[t] = Addresses(turn[t])
         /\ Orderly(turn[t].conv) \/ turn[t].conv \in overlapped \/ faults > 0
  <1>1. turn[t].conv \in Conversations BY TurnFacts, SeenFacts DEF TurnKnows
  <1>2. turn[t].conv # None BY <1>1, EmailsAssumption
  <1>3. faults = 0 \/ faults > 0 BY SeenFacts
  <1> QED BY <1>1, <1>2, <1>3 DEF Orderly, Conv, Named

\* A step that leaves the tables alone.
LEMMA LooksOn ==
  ASSUME SeenInv, NEW t \in Turns, NEW y \in TurnRecords, turn' = [turn EXCEPT ![t] = y],
         turn[t].pc # "idle", y.conv = turn[t].conv,
         Addresses(y) \subseteq Addresses(turn[t]) \cup ({row[y.conv].email} \ {None}),
         y.pc = "blind" => Fault,
         Fault \/ UNCHANGED faults, UNCHANGED <<row, link, accounts, offer, overlapped>>
  PROVE  Implements
  <1>1. /\ Conv' = [Conv EXCEPT ![t] = y.conv]
        /\ Named' = [Named EXCEPT ![t] = Addresses(y)] /\ Named'[t] = Addresses(y)
        /\ Blind' = IF y.pc = "blind" THEN Blind \cup {t} ELSE Blind \ {t}
    BY HandsMove
  <1>2. /\ y.conv \in Conversations /\ y.conv # None
        /\ Conv[t] = y.conv /\ Named[t] = Addresses(turn[t])
    BY OrderlyOrExcused
  <1>3. UNCHANGED Conv BY <1>1, <1>2 DEF Conv
  <1>4. RowEmail[Conv[t]] = row[y.conv].email BY <1>2 DEF RowEmail
  <1>5. UNCHANGED <<RowState, RowEmail>> BY DEF RowState, RowEmail
  <1>6. /\ (faults' > 0) \in {faults > 0, TRUE}
        /\ y.pc = "blind" => faults' > 0
    BY FaultsCount
  <1>7. Contract!GoesOn(t, Named[t] \cup ({RowEmail[Conv[t]]} \ {Contract!None}))
    BY <1>1, <1>2, <1>3, <1>4, <1>6, ContractReads DEF Contract!GoesOn, Contract!MayFail
  <1>8. \/ Blind' = Blind \ {t}
        \/ Blind' = Blind \cup {t} /\ faults' > 0
    BY <1>1, <1>6
  <1>9. Contract!Look(t) BY <1>5, <1>7, <1>8 DEF Contract!Look, Contract!rows
  <1> QED BY <1>9 DEF Implements, Contract!Next

\* Conclude, Goto and WorkOn, with what they keep in hand.
LEMMA ConcludesWith ==
  ASSUME SeenInv, NEW t \in Turns, NEW state \in States, NEW pending \in BOOLEAN,
         Conclude(t, state, pending)
  PROVE  \E y \in TurnRecords :
           /\ turn' = [turn EXCEPT ![t] = y]
           /\ y.pc = "persist" /\ y.conv = turn[t].conv /\ y.msg = turn[t].msg
           /\ y.row.state = state /\ (y.msg \in Emails => y.row.email = y.msg)
           /\ Addresses(y) \subseteq Addresses(turn[t])
  <1>1. turn \in [Turns -> TurnRecords] /\ turn[t] \in TurnRecords /\ turn[t].row \in Rows
    BY TurnFacts, SeenFacts
  <1> DEFINE new == [state |-> state, pending |-> pending, email |-> KeptEmail(t)]
             y == [turn[t] EXCEPT !.pc = "persist", !.link = None, !.email = None, !.row = new]
  <1>2. KeptEmail(t) \in Emails \cup {None} BY <1>1 DEF KeptEmail, Rows
  <1>3. new \in Rows /\ new.state = state /\ new.email = KeptEmail(t) BY <1>2 DEF Rows
  <1>4. y \in TurnRecords
    <2> HIDE DEF new
    <2> QED BY <1>1, <1>3 DEF TurnRecords, Pcs
  <1>5. turn' = [turn EXCEPT ![t] = y] BY <1>1 DEF Conclude
  <1>6. /\ y.pc = "persist" /\ y.conv = turn[t].conv /\ y.msg = turn[t].msg
        /\ y.email = None /\ y.row = new
    <2> HIDE DEF new
    <2> QED BY <1>1 DEF TurnRecords
  <1> HIDE DEF y, new
  <1>7. KeptEmail(t) \in Addresses(turn[t]) \cup {None} BY <1>1 DEF KeptEmail, Addresses
  <1>8. Addresses(y) \subseteq Addresses(turn[t]) BY <1>3, <1>6, <1>7 DEF Addresses
  <1>9. y.msg \in Emails => y.row.email = y.msg BY <1>3, <1>6 DEF KeptEmail
  <1> QED BY <1>3, <1>4, <1>5, <1>6, <1>8, <1>9

LEMMA GoesWith ==
  ASSUME SeenInv, NEW t \in Turns, NEW pc \in Pcs, Goto(t, pc)
  PROVE  \E y \in TurnRecords :
           /\ turn' = [turn EXCEPT ![t] = y]
           /\ y.pc = pc /\ y.conv = turn[t].conv
           /\ Addresses(y) = Addresses(turn[t])
  <1>1. turn \in [Turns -> TurnRecords] /\ turn[t] \in TurnRecords BY TurnFacts, SeenFacts
  <1> DEFINE y == [turn[t] EXCEPT !.pc = pc]
  <1>2. y \in TurnRecords /\ turn' = [turn EXCEPT ![t] = y] BY <1>1 DEF TurnRecords, Goto
  <1>3. /\ y.pc = pc /\ y.conv = turn[t].conv /\ y.msg = turn[t].msg
        /\ y.email = turn[t].email /\ y.row = turn[t].row
    BY <1>1 DEF TurnRecords
  <1>4. Addresses(y) = Addresses(turn[t]) BY <1>3 DEF Addresses
  <1> QED BY <1>2, <1>3, <1>4

LEMMA WorksWith ==
  ASSUME SeenInv, NEW t \in Turns, NEW pc \in Pcs, NEW e \in Emails \cap Addresses(turn[t]),
         WorkOn(t, pc, e)
  PROVE  \E y \in TurnRecords :
           /\ turn' = [turn EXCEPT ![t] = y]
           /\ y.pc = pc /\ y.conv = turn[t].conv
           /\ Addresses(y) \subseteq Addresses(turn[t])
  <1>1. turn \in [Turns -> TurnRecords] /\ turn[t] \in TurnRecords /\ turn[t].row \in Rows
    BY TurnFacts, SeenFacts
  <1> DEFINE z == [turn[t].row EXCEPT !.pending = FALSE]
             y == [turn[t] EXCEPT !.pc = pc, !.link = None, !.email = e, !.row = z]
  <1>2. z \in Rows /\ z.email = turn[t].row.email BY <1>1 DEF Rows
  <1>3. turn' = [turn EXCEPT ![t] = y] BY <1>1 DEF WorkOn
  <1> HIDE DEF z
  <1>4. y \in TurnRecords BY <1>1, <1>2 DEF TurnRecords
  <1>5. y.pc = pc /\ y.conv = turn[t].conv /\ y.msg = turn[t].msg /\ y.email = e /\ y.row = z
    BY <1>1 DEF TurnRecords
  <1> HIDE DEF y
  <1>6. Addresses(y) \subseteq Addresses(turn[t]) BY <1>2, <1>5 DEF Addresses
  <1> QED BY <1>3, <1>4, <1>5, <1>6

\* A turn that goes on to a record, tables unchanged, and what it then has seen.
LEMMA LooksStep ==
  ASSUME SeenInv, NEW t \in Turns, NEW y \in TurnRecords, turn' = [turn EXCEPT ![t] = y],
         turn[t].pc # "idle", y.conv = turn[t].conv,
         Addresses(y) \subseteq Addresses(turn[t]) \cup ({row[y.conv].email} \ {None}),
         y.pc \in {"create", "check", "upsert", "blind", "confirm", "persist"},
         y.pc = "blind" => Fault,
         y.pc = "create" => turn[t].pc = "decide" /\ turn[t].link = None,
         y.pc = "persist" =>
           /\ y.msg \in Emails => y.row.email = y.msg
           /\ y.msg \in Emails /\ y.row.state = "creation_offered" =>
                turn[t].pc = "decide" /\ turn[t].link = None,
         Fault \/ UNCHANGED faults, UNCHANGED <<row, link, accounts, offer, overlapped>>
  PROVE  Steps(t)
  <1>1. Implements BY LooksOn
  <1>2. turn'[t] = y BY HandsMove
  <1>3. TurnKeeps(t)' BY <1>2 DEF TurnKeeps
  <1>4. ASSUME Orderly(turn[t].conv)' PROVE TurnSees(t)'
    <2>1. Orderly(turn[t].conv)
      <3>1. /\ turn[t].conv # None /\ turn[t].conv \notin overlapped /\ faults' = 0
        BY <1>2, <1>4 DEF Orderly
      <3>2. faults' = 0 => faults = 0 BY FaultsCount
      <3> QED BY <3>1, <3>2 DEF Orderly
    <2>2. turn[t].pc = "decide" /\ turn[t].link = None => link[turn[t].conv] = None
      BY <2>1, SeenFacts DEF TurnKeeps, TurnSees
    <2> QED BY <1>2, <2>2 DEF TurnSees
  <1> QED BY <1>1, <1>3, <1>4 DEF Steps

LEMMA ConcludeStep ==
  ASSUME SeenInv, NEW t \in Turns, NEW state \in States, NEW pending \in BOOLEAN,
         Conclude(t, state, pending), turn[t].pc # "idle",
         turn[t].msg \in Emails /\ state = "creation_offered" =>
           turn[t].pc = "decide" /\ turn[t].link = None,
         Fault \/ UNCHANGED faults, UNCHANGED <<row, link, accounts, offer, overlapped>>
  PROVE  Steps(t)
  <1>1. PICK y \in TurnRecords :
           /\ turn' = [turn EXCEPT ![t] = y]
           /\ y.pc = "persist" /\ y.conv = turn[t].conv /\ y.msg = turn[t].msg
           /\ y.row.state = state /\ (y.msg \in Emails => y.row.email = y.msg)
           /\ Addresses(y) \subseteq Addresses(turn[t])
    BY ConcludesWith
  <1> QED BY <1>1, LooksStep

LEMMA DecideSteps ==
  ASSUME SeenInv, NEW t \in Turns, AlreadyLinked(t) \/ Reply(t) \/ LookUp(t) \/ Confirmed(t)
  PROVE  Steps(t)
  <1>1. turn[t].pc = "decide" /\ turn[t].pc # "idle" BY DEF AlreadyLinked, Reply, LookUp, Confirmed
  <1>2. CASE AlreadyLinked(t)
    <2>1. \E state \in {"handoff", "completed"} : Conclude(t, state, FALSE)
      BY <1>2 DEF AlreadyLinked
    <2>2. Fault \/ UNCHANGED faults BY <1>2 DEF AlreadyLinked
    <2> QED BY <1>1, <1>2, <2>1, <2>2, ConcludeStep DEF AlreadyLinked, States
  <1>3. CASE Reply(t)
    <2>1. turn[t].link = None BY <1>3 DEF Reply
    <2>2. \E state \in States, pending \in BOOLEAN : Conclude(t, state, pending)
      BY <1>3 DEF Reply, States
    <2> QED BY <1>1, <1>3, <2>1, <2>2, ConcludeStep DEF Reply
  <1>4. CASE LookUp(t)
    <2>1. turn[t].link = None /\ turn[t].msg \in Emails BY <1>4 DEF LookUp
    <2>2. Fault \/ UNCHANGED faults BY <1>4 DEF LookUp
    <2>3. CASE Conclude(t, "creation_offered", TRUE)
      BY <1>1, <1>4, <2>1, <2>2, <2>3, ConcludeStep DEF LookUp, States
    <2>4. CASE WorkOn(t, "check", turn[t].msg)
      <3>1. turn[t].msg \in Emails \cap Addresses(turn[t]) BY <2>1 DEF Addresses
      <3>2. PICK y \in TurnRecords :
              /\ turn' = [turn EXCEPT ![t] = y]
              /\ y.pc = "check" /\ y.conv = turn[t].conv
              /\ Addresses(y) \subseteq Addresses(turn[t])
        BY <2>4, <3>1, WorksWith DEF Pcs
      <3> QED BY <1>1, <1>4, <2>2, <3>2, LooksStep DEF LookUp
    <2> QED BY <1>4, <2>3, <2>4 DEF LookUp
  <1>5. CASE Confirmed(t)
    <2>1. turn[t].link = None /\ turn[t].row.email # None BY <1>5 DEF Confirmed
    <2>2. turn[t].row.email \in Emails \cap Addresses(turn[t])
      BY <2>1, TurnFacts, SeenFacts DEF Addresses
    <2>3. WorkOn(t, "create", turn[t].row.email) BY <1>5 DEF Confirmed
    <2>4. PICK y \in TurnRecords :
            /\ turn' = [turn EXCEPT ![t] = y]
            /\ y.pc = "create" /\ y.conv = turn[t].conv
            /\ Addresses(y) \subseteq Addresses(turn[t])
      BY <2>2, <2>3, WorksWith DEF Pcs
    <2> QED BY <1>1, <1>5, <2>1, <2>4, LooksStep DEF Confirmed
  <1> QED BY <1>2, <1>3, <1>4, <1>5

LEMMA LoadSteps ==
  ASSUME SeenInv, NEW t \in Turns, NEW table \in Tables, Load(t, table)
  PROVE  Steps(t)
  <1> DEFINE c == turn[t].conv
  <1>1. PICK found \in BOOLEAN :
          /\ IF found THEN UNCHANGED faults ELSE Fault
          /\ turn' = [turn EXCEPT
            ![t].unread = @ \ {table},
            ![t].pc = IF turn[t].unread = {table} THEN "decide" ELSE "load",
            ![t].row = IF found /\ table = "row" THEN [row[c] EXCEPT !.state = "unresolved"]
                         ELSE @,
            ![t].link = IF found /\ table = "link" THEN link[c] ELSE @]
    BY DEF Load
  <1> DEFINE pc == IF turn[t].unread = {table} THEN "decide" ELSE "load"
             left == turn[t].unread \ {table}
             r == IF found /\ table = "row" THEN [row[c] EXCEPT !.state = "unresolved"]
                    ELSE turn[t].row
             l == IF found /\ table = "link" THEN link[c] ELSE turn[t].link
             y == [turn[t] EXCEPT !.unread = left, !.pc = pc, !.row = r, !.link = l]
  <1>2. /\ turn[t].pc = "load" /\ c \in Conversations
        /\ UNCHANGED <<row, link, accounts, offer, overlapped>>
    BY OrderlyOrExcused DEF Load
  <1>3. /\ turn \in [Turns -> TurnRecords] /\ turn[t] \in TurnRecords /\ turn[t].row \in Rows
        /\ turn[t].link \in Emails \cup {None} /\ turn[t].unread \in SUBSET Tables
        /\ row[c] \in Rows /\ link[c] \in Emails \cup {None}
    BY <1>2, TurnFacts, SeenFacts
  <1>4. /\ r \in Rows
        /\ r.email = turn[t].row.email \/ r.email = row[c].email
    <2>1. CASE found /\ table = "row"
      <3>1. \A z \in Rows : /\ [z EXCEPT !.state = "unresolved"] \in Rows
                            /\ [z EXCEPT !.state = "unresolved"].email = z.email
        BY DEF Rows, States
      <3>2. r = [row[c] EXCEPT !.state = "unresolved"] BY <2>1
      <3> HIDE DEF r
      <3> QED BY <1>3, <3>1, <3>2
    <2>2. CASE ~(found /\ table = "row")
      <3>1. r = turn[t].row BY <2>2
      <3> HIDE DEF r
      <3> QED BY <1>3, <3>1
    <2> QED BY <2>1, <2>2
  <1>5. /\ pc \in {"load", "decide"} /\ left \subseteq Tables /\ l \in Emails \cup {None}
        /\ pc = "decide" => left = {}
    BY <1>3
  <1>6. turn' = [turn EXCEPT ![t] = y] BY <1>1, <1>3
  <1>7. /\ table = "link" => l = link[c] \/ Fault
        /\ table # "link" => l = turn[t].link /\ ("link" \in left <=> "link" \in turn[t].unread)
    BY <1>1
  <1>8. Fault \/ UNCHANGED faults BY <1>1
  <1> HIDE DEF pc, left, r, l
  <1>9. y \in TurnRecords BY <1>3, <1>4, <1>5 DEF TurnRecords, Pcs
  <1>10. /\ y.pc = pc /\ y.unread = left /\ y.row = r /\ y.link = l
         /\ y.conv = c /\ y.msg = turn[t].msg /\ y.email = turn[t].email
    BY <1>3 DEF TurnRecords
  <1> HIDE DEF y
  <1>11. Addresses(y) \subseteq Addresses(turn[t]) \cup ({row[y.conv].email} \ {None})
    BY <1>4, <1>10 DEF Addresses
  <1>12. Implements BY <1>2, <1>5, <1>6, <1>8, <1>9, <1>10, <1>11, LooksOn
  <1>13. turn'[t] = y BY <1>6, <1>9, HandsMove
  <1>14. TurnKeeps(t)' BY <1>5, <1>10, <1>13 DEF TurnKeeps
  <1>15. ASSUME Orderly(turn[t].conv)' PROVE TurnSees(t)'
    <2>1. c # None /\ c \notin overlapped /\ faults' = 0
      BY <1>2, <1>10, <1>13, <1>15 DEF Orderly
    <2>2. ~Fault /\ faults = 0
      <3>1. (Fault => faults' # 0) /\ (faults' = 0 => faults = 0) BY <1>8, FaultsCount
      <3> QED BY <2>1, <3>1
    <2>3. "link" \notin turn[t].unread => turn[t].link = link[c]
      BY <1>2, <2>1, <2>2, SeenFacts DEF Orderly, TurnSees
    <2>4. "link" \notin left => l = link[c]
      BY <1>7, <2>2, <2>3
    <2>5. UNCHANGED link BY <1>2
    <2> QED BY <1>5, <1>10, <1>13, <2>4, <2>5 DEF TurnSees
  <1> QED BY <1>12, <1>14, <1>15 DEF Steps

\* A turn that is out of the statements whose knowledge is recorded.
LEMMA MovesOn ==
  ASSUME SeenInv, NEW t \in Turns, NEW y \in TurnRecords, turn' = [turn EXCEPT ![t] = y],
         \/ y = IdleTurn
         \/ y.pc \in {"check", "confirm"}
         \/ /\ y.pc = "persist" /\ (y.msg \in Emails => y.row.email = y.msg)
            /\ y.row.state # "creation_offered"
  PROVE  TurnKeeps(t)' /\ (Orderly(turn[t].conv)' => TurnSees(t)')
  <1>1. turn'[t] = y BY HandsMove
  <1>2. y.pc \notin {"load", "decide", "create"} BY DEF IdleTurn
  <1>3. y = IdleTurn => y.pc = "idle" BY DEF IdleTurn
  <1> QED BY <1>1, <1>2, <1>3 DEF TurnKeeps, TurnSees

LEMMA CreateSteps ==
  ASSUME SeenInv, NEW t \in Turns, CreateCustomer(t)
  PROVE  Steps(t)
  <1> DEFINE c == turn[t].conv
             e == turn[t].email
  <1>1. /\ turn[t].pc = "create" /\ e \in Emails
        /\ UNCHANGED <<row, link, offer, overlapped>>
    BY TurnFacts, SeenFacts DEF CreateCustomer, TurnKnows
  <1>2. /\ Conv[t] = c /\ Named[t] = Addresses(turn[t]) /\ c # None
        /\ Orderly(c) \/ c \in overlapped \/ faults > 0
    BY <1>1, OrderlyOrExcused
  <1>3. Fault \/ UNCHANGED faults BY DEF CreateCustomer
  <1>4. CASE accounts' = accounts
    <2>1. Conclude(t, "handoff", FALSE)
      BY <1>1, <1>4, SeenFacts DEF CreateCustomer
    <2> QED BY <1>1, <1>3, <1>4, <2>1, ConcludeStep DEF States
  <1>5. CASE e \notin accounts /\ accounts' = accounts \cup {e}
    <2>1. PICK y \in TurnRecords :
            /\ turn' = [turn EXCEPT ![t] = y]
            /\ y.pc \in {"check", "persist"} /\ y.conv = c
            /\ Addresses(y) \subseteq Addresses(turn[t])
            /\ y.pc = "persist" => y.row.state = "handoff" /\ (y.msg \in Emails => y.row.email = y.msg)
      <3>1. CASE Goto(t, "check") BY <3>1, GoesWith DEF Pcs
      <3>2. CASE Conclude(t, "handoff", FALSE)
        <4>1. "handoff" \in States BY DEF States
        <4>2. PICK y \in TurnRecords :
                /\ turn' = [turn EXCEPT ![t] = y]
                /\ y.pc = "persist" /\ y.conv = turn[t].conv /\ y.msg = turn[t].msg
                /\ y.row.state = "handoff" /\ (y.msg \in Emails => y.row.email = y.msg)
                /\ Addresses(y) \subseteq Addresses(turn[t])
          BY <3>2, <4>1, ConcludesWith
        <4> QED BY <4>2
      <3> QED BY <1>5, <3>1, <3>2 DEF CreateCustomer
    <2>2. TurnKeeps(t)' /\ (Orderly(turn[t].conv)' => TurnSees(t)') BY <2>1, MovesOn
    <2>3. /\ Conv' = [Conv EXCEPT ![t] = c]
          /\ Named' = [Named EXCEPT ![t] = Addresses(y)] /\ Named'[t] = Addresses(y)
          /\ Blind' = Blind \ {t}
      <3>1. y.pc # "blind" BY <2>1
      <3>2. /\ Conv' = [Conv EXCEPT ![t] = y.conv] /\ Blind' = Blind \ {t}
            /\ Named' = [Named EXCEPT ![t] = Addresses(y)] /\ Named'[t] = Addresses(y)
        BY <2>1, <3>1, HandsMove
      <3> QED BY <2>1, <3>2
    <2>4. UNCHANGED <<Conv, Blind, RowState, RowEmail>>
      BY <1>1, <1>2, <2>3 DEF Conv, Blind, RowState, RowEmail
    <2>5. (faults' > 0) \in {faults > 0, TRUE} BY <1>3, FaultsCount
    <2>6. Contract!GoesOn(t, Named[t])
      BY <1>1, <1>2, <2>1, <2>3, <2>4, <2>5, ContractReads DEF Contract!GoesOn, Contract!MayFail
    <2>7. e \in Named[t] \ accounts
      <3>1. e # None BY <1>1, EmailsAssumption
      <3> QED BY <1>2, <1>5, <3>1 DEF Addresses
    <2>8. \/ link[c] = None /\ offer[c] = e
          \/ c \in overlapped \/ faults > 0
      <3>1. CASE Orderly(c)
        <4>1. TurnOffers(t) /\ TurnSees(t) BY <3>1, SeenFacts DEF OfferInv
        <4> QED BY <1>1, <4>1 DEF TurnOffers, TurnSees
      <3> QED BY <1>2, <3>1
    <2>9. Contract!Create(t)
      BY <1>1, <1>2, <1>5, <2>4, <2>6, <2>7, <2>8, ContractReads
         DEF Contract!Create, Contract!rows
    <2> QED BY <2>2, <2>9 DEF Steps, Implements, Contract!Next
  <1> QED BY <1>4, <1>5 DEF CreateCustomer

LEMMA CheckSteps ==
  ASSUME SeenInv, NEW t \in Turns, CheckLink(t)
  PROVE  Steps(t)
  <1>1. /\ turn[t].pc = "check" /\ (Fault \/ UNCHANGED faults)
        /\ UNCHANGED <<row, link, accounts, offer, overlapped>>
    BY DEF CheckLink
  <1>2. ASSUME NEW pc \in {"upsert", "blind"}, Goto(t, pc), pc = "blind" => Fault PROVE Steps(t)
    <2>1. PICK y \in TurnRecords :
            /\ turn' = [turn EXCEPT ![t] = y]
            /\ y.pc = pc /\ y.conv = turn[t].conv
            /\ Addresses(y) = Addresses(turn[t])
      BY <1>2, GoesWith DEF Pcs
    <2> QED BY <1>1, <1>2, <2>1, LooksStep
  <1>3. ASSUME NEW state \in {"customer_linked", "completed", "handoff"}, Conclude(t, state, FALSE)
        PROVE  Steps(t)
    BY <1>1, <1>3, ConcludeStep DEF States
  <1>4. CASE Conclude(t, IF link[turn[t].conv] = turn[t].email THEN Linked(t) ELSE "handoff", FALSE)
    BY <1>3, <1>4 DEF Linked
  <1> QED BY <1>2, <1>4 DEF CheckLink

LEMMA UpsertSteps ==
  ASSUME SeenInv, NEW t \in Turns, UpsertLink(t)
  PROVE  Steps(t)
  <1> DEFINE c == turn[t].conv
             e == turn[t].email
  <1>1. /\ turn[t].pc \in {"upsert", "blind"} /\ e \in accounts /\ c \in Conversations
        /\ UNCHANGED <<row, accounts, offer, overlapped>> /\ (Fault \/ UNCHANGED faults)
    BY TurnFacts, SeenFacts DEF UpsertLink, TurnKnows
  <1>2. CASE Conclude(t, Unavailable(t), FALSE) /\ UNCHANGED link
    BY <1>1, <1>2, ConcludeStep DEF Unavailable, States
  <1>3. CASE link' = [link EXCEPT ![c] = e] /\ Goto(t, "confirm")
    <2>1. PICK y \in TurnRecords :
            /\ turn' = [turn EXCEPT ![t] = y]
            /\ y.pc = "confirm" /\ y.conv = turn[t].conv
            /\ Addresses(y) = Addresses(turn[t])
      BY <1>3, GoesWith DEF Pcs
    <2>2. TurnKeeps(t)' /\ (Orderly(turn[t].conv)' => TurnSees(t)') BY <2>1, MovesOn
    <2>3. /\ Conv[t] = c /\ Named[t] = Addresses(turn[t]) /\ c # None
      BY <1>1, OrderlyOrExcused
    <2>4. /\ Conv' = [Conv EXCEPT ![t] = c]
          /\ Named' = [Named EXCEPT ![t] = Addresses(y)] /\ Named'[t] = Addresses(y)
          /\ Blind' = Blind \ {t}
      <3>1. y.pc # "blind" BY <2>1
      <3>2. /\ Conv' = [Conv EXCEPT ![t] = y.conv] /\ Blind' = Blind \ {t}
            /\ Named' = [Named EXCEPT ![t] = Addresses(y)] /\ Named'[t] = Addresses(y)
        BY <2>1, <3>1, HandsMove
      <3> QED BY <2>1, <3>2
    <2>5. UNCHANGED <<Conv, RowState, RowEmail>>
      BY <1>1, <2>3, <2>4 DEF Conv, RowState, RowEmail
    <2>6. (faults' > 0) \in {faults > 0, TRUE} BY <1>1, FaultsCount
    <2>7. Contract!GoesOn(t, Named[t])
      BY <1>1, <2>1, <2>3, <2>4, <2>5, <2>6, ContractReads
         DEF Contract!GoesOn, Contract!MayFail
    <2>8. e \in Named[t] \cap accounts
      <3>1. e # None BY <1>1, SeenFacts, EmailsAssumption
      <3> QED BY <1>1, <2>3, <3>1 DEF Addresses
    <2>9. link[c] = None \/ c \in overlapped \/ t \in Blind
      BY <1>1, SeenFacts DEF BindingInv, Fresh, Blind
    <2>10. Contract!Bind(t)
      BY <1>1, <1>3, <2>3, <2>4, <2>5, <2>7, <2>8, <2>9, ContractReads
         DEF Contract!Bind, Contract!rows
    <2> QED BY <2>2, <2>10 DEF Steps, Implements, Contract!Next
  <1> QED BY <1>2, <1>3 DEF UpsertLink

LEMMA ConfirmSteps ==
  ASSUME SeenInv, NEW t \in Turns, ConfirmLink(t)
  PROVE  Steps(t)
  <1>1. /\ turn[t].pc = "confirm" /\ (Fault \/ UNCHANGED faults)
        /\ UNCHANGED <<row, link, accounts, offer, overlapped>>
    BY DEF ConfirmLink
  <1>2. \E state \in {"customer_linked", "completed", "blocked"} : Conclude(t, state, FALSE)
    BY DEF ConfirmLink, Linked
  <1> QED BY <1>1, <1>2, ConcludeStep DEF States

\* A turn that is over.
LEMMA Over ==
  ASSUME SeenInv, NEW t \in Turns, turn[t].pc # "idle", turn' = [turn EXCEPT ![t] = IdleTurn],
         Fault \/ UNCHANGED faults, UNCHANGED <<link, accounts, overlapped>>
  PROVE  /\ Contract!Ends(t) /\ Blind' = Blind \ {t}
         /\ TurnKeeps(t)' /\ (Orderly(turn[t].conv)' => TurnSees(t)')
  <1>1. /\ IdleTurn \in TurnRecords /\ IdleTurn.conv = None /\ IdleTurn.pc = "idle"
        /\ IdleTurn.msg = "other" /\ IdleTurn.email = None /\ IdleTurn.row.email = None
    BY IdleIsATurn DEF IdleTurn, NoRow
  <1>2. Addresses(IdleTurn) = {} BY <1>1, EmailsAssumption DEF Addresses, Words
  <1>3. /\ Conv' = [Conv EXCEPT ![t] = None] /\ Named' = [Named EXCEPT ![t] = {}]
        /\ Blind' = Blind \ {t}
    <2>1. IdleTurn.pc # "blind" BY <1>1
    <2>2. /\ Conv' = [Conv EXCEPT ![t] = IdleTurn.conv] /\ Blind' = Blind \ {t}
          /\ Named' = [Named EXCEPT ![t] = Addresses(IdleTurn)]
      BY <1>1, <2>1, HandsMove
    <2> QED BY <1>1, <1>2, <2>2
  <1>4. Conv[t] # None BY OrderlyOrExcused
  <1>5. (faults' > 0) \in {faults > 0, TRUE} BY FaultsCount
  <1>6. Contract!Ends(t) BY <1>3, <1>4, <1>5, ContractReads DEF Contract!Ends, Contract!MayFail
  <1> QED BY <1>1, <1>3, <1>6, MovesOn

LEMMA PersistSteps ==
  ASSUME SeenInv, NEW t \in Turns, Persist(t)
  PROVE  Steps(t)
  <1> DEFINE x == turn[t]
             c == turn[t].conv
             s == turn[t].row.state
             e == turn[t].row.email
  <1>1. /\ x.pc = "persist" /\ UNCHANGED <<link, accounts, overlapped>>
        /\ turn' = [turn EXCEPT ![t] = IdleTurn] /\ (Fault \/ UNCHANGED faults)
    BY DEF Persist
  <1>2. /\ Contract!Ends(t) /\ Blind' = Blind \ {t}
        /\ TurnKeeps(t)' /\ (Orderly(turn[t].conv)' => TurnSees(t)')
    BY <1>1, Over
  <1>3. UNCHANGED Blind BY <1>1, <1>2 DEF Blind
  <1>4. /\ x.row \in Rows /\ s \in States /\ e \in Emails \cup {None} /\ c \in Conversations
        /\ s \in LinkedStates => link[c] # None
    BY <1>1, TurnFacts, SeenFacts DEF TurnKnows, Rows
  <1>5. /\ Conv[t] = c /\ Named[t] = Addresses(x)
        /\ Orderly(c) \/ c \in overlapped \/ faults > 0
    BY <1>1, OrderlyOrExcused
  <1>6. e \in Named[t] \cup {None} BY <1>4, <1>5 DEF Addresses
  <1>7. \/ /\ RowState' = [RowState EXCEPT ![c] = s]
           /\ RowEmail' = [RowEmail EXCEPT ![c] = e]
        \/ UNCHANGED <<RowState, RowEmail>> /\ faults' > 0
    <2>1. CASE row' = [row EXCEPT ![c] = x.row]
      <3>1. \A d \in Conversations : row'[d] = IF d = c THEN x.row ELSE row[d]
        BY <1>4, <2>1, SeenFacts
      <3>2. \A d \in Conversations : /\ row'[d].state = IF d = c THEN s ELSE row[d].state
                                     /\ row'[d].email = IF d = c THEN e ELSE row[d].email
        BY <3>1
      <3>3. RowState' = [d \in Conversations |-> row'[d].state] BY DEF RowState
      <3>4. RowEmail' = [d \in Conversations |-> row'[d].email] BY DEF RowEmail
      <3>5. RowState' = [RowState EXCEPT ![c] = s] BY <3>2, <3>3 DEF RowState
      <3>6. RowEmail' = [RowEmail EXCEPT ![c] = e] BY <3>2, <3>4 DEF RowEmail
      <3> QED BY <3>5, <3>6
    <2>2. CASE Fault /\ UNCHANGED row
      BY <2>2, FaultsCount DEF RowState, RowEmail
    <2> QED BY <2>1, <2>2 DEF Persist
  <1>8. \/ UNCHANGED offer
        \/ /\ s = "creation_offered" /\ e # None
           /\ link[c] = None \/ c \in overlapped \/ faults > 0
           /\ offer' = [offer EXCEPT ![c] = e]
    <2>1. CASE x.msg \in Emails /\ s = "creation_offered"
      <3>1. e = x.msg BY <1>1, <2>1, SeenFacts DEF TurnKeeps
      <3>2. e # None BY <2>1, <3>1, EmailsAssumption
      <3>3. Orderly(c) => link[c] = None BY <1>1, <2>1, SeenFacts DEF TurnSees
      <3>4. offer' = [offer EXCEPT ![c] = e] BY <2>1, <3>1 DEF Persist
      <3> QED BY <1>5, <2>1, <3>2, <3>3, <3>4
    <2>2. CASE ~(x.msg \in Emails /\ s = "creation_offered") BY <2>2 DEF Persist
    <2> QED BY <2>1, <2>2
  <1> HIDE DEF c, s, e
  <1>9. Contract!Answer(t)
    BY <1>2, <1>3, <1>4, <1>5, <1>6, <1>7, <1>8, ContractReads
       DEF Contract!Answer, Contract!rows, Contract!Unlinked
  <1> QED BY <1>2, <1>9 DEF Steps, Implements, Contract!Next

LEMMA CrashSteps ==
  ASSUME SeenInv, NEW t \in Turns, Crash(t)
  PROVE  Steps(t)
  <1>1. /\ turn[t].pc # "idle" /\ Fault /\ turn' = [turn EXCEPT ![t] = IdleTurn]
        /\ UNCHANGED <<row, link, accounts, offer, overlapped>>
    BY DEF Crash
  <1>2. /\ Contract!Ends(t) /\ Blind' = Blind \ {t}
        /\ TurnKeeps(t)' /\ (Orderly(turn[t].conv)' => TurnSees(t)')
    BY <1>1, Over
  <1>3. faults' > 0 BY <1>1, FaultsCount
  <1>4. UNCHANGED <<RowState, RowEmail>> BY <1>1 DEF RowState, RowEmail
  <1>5. Contract!GiveUp(t) BY <1>1, <1>2, <1>3, <1>4 DEF Contract!GiveUp, Contract!rows
  <1> QED BY <1>2, <1>5 DEF Steps, Implements, Contract!Next

LEMMA BeginSteps ==
  ASSUME SeenInv, NEW t \in Turns, NEW c \in Conversations, NEW m \in Messages, Begin(t, c, m)
  PROVE  Steps(t)
  <1> DEFINE y == [IdleTurn EXCEPT !.pc = "load", !.conv = c, !.msg = m, !.unread = Tables]
  <1>1. y \in TurnRecords BY IdleIsATurn DEF TurnRecords, Pcs
  <1>2. /\ y.pc = "load" /\ y.conv = c /\ y.msg = m /\ y.unread = Tables
        /\ y.email = None /\ y.row.email = None
    BY DEF IdleTurn, NoRow
  <1>3. /\ turn[t].pc = "idle" /\ turn' = [turn EXCEPT ![t] = y]
        /\ UNCHANGED <<row, link, accounts, offer, faults>>
    BY DEF Begin
  <1> HIDE DEF y
  <1>4. Addresses(y) = {m} \cap Emails BY <1>2 DEF Addresses
  <1>5. /\ Conv' = [Conv EXCEPT ![t] = c] /\ Named' = [Named EXCEPT ![t] = {m} \cap Emails]
        /\ Blind' = Blind \ {t} /\ turn'[t] = y
    <2>1. y.pc # "blind" BY <1>2
    <2>2. /\ Conv' = [Conv EXCEPT ![t] = y.conv] /\ Blind' = Blind \ {t}
          /\ Named' = [Named EXCEPT ![t] = Addresses(y)] /\ turn'[t] = y
      BY <1>1, <1>3, <2>1, HandsMove
    <2> QED BY <1>2, <1>4, <2>2
  <1>6. UNCHANGED <<Blind, RowState, RowEmail>> BY <1>3, <1>5 DEF Blind, RowState, RowEmail
  <1>7. Conv[t] = None BY <1>3, SeenFacts DEF TurnKeeps, Conv, IdleTurn
  <1>8. overlapped' = overlapped \cup {d \in {c} : \E p \in Turns : Conv[p] = d}
    BY DEF Begin, Conv
  <1>9. \E given \in {{}} \cup {{e} : e \in Emails} : Named' = [Named EXCEPT ![t] = given]
    <2>1. CASE m \in Emails
      <3>1. {m} \cap Emails = {m} BY <2>1
      <3> QED BY <1>5, <2>1, <3>1
    <2>2. CASE m \notin Emails
      <3>1. {m} \cap Emails = {} BY <2>2
      <3> QED BY <1>5, <3>1
    <2> QED BY <2>1, <2>2
  <1>10. Contract!Begin(t, c)
    BY <1>3, <1>5, <1>6, <1>7, <1>8, <1>9, ContractReads DEF Contract!Begin, Contract!rows
  <1>11. "link" \in Tables BY DEF Tables
  <1>12. TurnKeeps(t)' /\ TurnSees(t)' BY <1>2, <1>5, <1>11 DEF TurnKeeps, TurnSees
  <1> QED BY <1>10, <1>12 DEF Steps, Implements, Contract!Next

LEMMA TurnSteps ==
  ASSUME SeenInv, Next
  PROVE  \E t \in Turns :
           /\ Steps(t) /\ \A u \in Turns \ {t} : turn'[u] = turn[u]
           /\ \A c \in Conversations : link'[c] # link[c] => turn[t].conv = c
           /\ overlapped \subseteq overlapped'
  <1>1. PICK t \in Turns :
          \/ \E c \in Conversations, m \in Messages : Begin(t, c, m)
          \/ TurnStep(t) \/ Crash(t)
    BY DEF Next
  <1>2. CASE \E c \in Conversations, m \in Messages : Begin(t, c, m)
    <2>1. PICK c \in Conversations, m \in Messages : Begin(t, c, m) BY <1>2
    <2>2. \A u \in Turns \ {t} : turn'[u] = turn[u]
      BY <2>1, TurnFacts, SeenFacts DEF Begin
    <2>3. Steps(t) BY <2>1, BeginSteps
    <2> QED BY <2>1, <2>2, <2>3 DEF Begin
  <1>3. CASE TurnStep(t) \/ Crash(t)
    <2>1. Steps(t)
      BY <1>3, LoadSteps, DecideSteps, CreateSteps, CheckSteps, UpsertSteps, ConfirmSteps,
         PersistSteps, CrashSteps DEF TurnStep
    <2>2. StepShape(t) BY <1>3, StepsHaveShape, SeenFacts
    <2>3. \A c \in Conversations : link'[c] # link[c] => turn[t].conv = c
      BY <2>2, SeenFacts DEF StepShape
    <2> QED BY <2>1, <2>2, <2>3 DEF StepShape
  <1> QED BY <1>1, <1>2, <1>3

LEMMA NextKeepsSeen == SeenInv /\ [Next]_vars => SeenInv'
  <1> SUFFICES ASSUME SeenInv, [Next]_vars PROVE SeenInv' OBVIOUS
  <1>1. OfferInv' BY NextKeepsOffer DEF SeenInv
  <1>2. CASE UNCHANGED vars
    BY <1>1, <1>2 DEF vars, SeenInv, TurnKeeps, TurnSees, Orderly
  <1>3. CASE Next
    <2>1. PICK t \in Turns :
            /\ Steps(t) /\ \A u \in Turns \ {t} : turn'[u] = turn[u]
            /\ \A c \in Conversations : link'[c] # link[c] => turn[t].conv = c
            /\ overlapped \subseteq overlapped'
      BY <1>3, TurnSteps
    <2>2. ASSUME NEW u \in Turns
          PROVE  TurnKeeps(u)' /\ (Orderly(turn[u].conv)' => TurnSees(u)')
      <3>1. CASE u = t BY <2>1, <3>1 DEF Steps
      <3>2. CASE u # t
        <4>1. turn'[u] = turn[u] BY <2>1, <3>2
        <4>2. TurnKeeps(u)' BY <4>1, SeenFacts DEF TurnKeeps
        <4>3. ASSUME Orderly(turn[u].conv)' PROVE TurnSees(u)'
          <5>1. OnboardingInv BY SeenFacts
          <5>2. /\ turn[u].conv # None /\ turn[u].conv \notin overlapped /\ faults' = 0
            BY <2>1, <4>1, <4>3 DEF Orderly
          <5>3. faults = 0 BY <5>1, <5>2, FaultsStay
          <5>4. TurnSees(u) BY <5>2, <5>3, SeenFacts DEF Orderly
          <5>5. turn[u].conv \in Conversations
            BY <5>1, <5>2, TurnFacts, TurnFields
          <5>6. turn[t].conv # turn[u].conv
            BY <3>2, <5>2, SeenFacts DEF BindingInv, Alone
          <5>7. link'[turn[u].conv] = link[turn[u].conv] BY <2>1, <5>5, <5>6
          <5> QED BY <4>1, <5>4, <5>7 DEF TurnSees
        <4> QED BY <4>2, <4>3
      <3> QED BY <3>1, <3>2
    <2> QED BY <1>1, <2>2 DEF SeenInv
  <1> QED BY <1>2, <1>3

LEMMA SeenInvHolds == Spec => []SeenInv
  <1>1. Init => SeenInv
    <2> SUFFICES ASSUME Init PROVE SeenInv OBVIOUS
    <2>1. BindingInv BY InitIsInv DEF Init, BindingInv, Alone, Fresh, IdleTurn
    <2>2. \A c \in Conversations : ~row[c].pending BY DEF Init, NoRow
    <2>3. \A t \in Turns : turn[t] = IdleTurn BY DEF Init
    <2>4. IdleTurn.conv = None /\ IdleTurn.pc = "idle" BY DEF IdleTurn
    <2>5. OfferInv BY <2>1, <2>2, <2>3, <2>4 DEF OfferInv, Orderly
    <2> QED BY <2>3, <2>4, <2>5 DEF SeenInv, TurnKeeps, Orderly
  <1> QED BY <1>1, NextKeepsSeen, PTL DEF Spec

\* Whatever turns of a conversation overlap, fail or die, the onboarding implements its
\* contract, for any number of conversations, turns, addresses and faults.
THEOREM OnboardingKeepsItsContract == Spec => KeepsOnboardingContract
  <1>1. Init => Contract!Init
    <2> SUFFICES ASSUME Init PROVE Contract!Init OBVIOUS
    <2>1. \A t \in Turns : turn[t] = IdleTurn BY DEF Init
    <2>2. /\ IdleTurn.conv = None /\ IdleTurn.pc = "idle" /\ IdleTurn.msg = "other"
          /\ IdleTurn.email = None /\ IdleTurn.row.email = None
      BY DEF IdleTurn, NoRow
    <2>3. Addresses(IdleTurn) = {} BY <2>2, EmailsAssumption DEF Addresses, Words
    <2>4. Conv = [t \in Turns |-> None] /\ Named = [t \in Turns |-> {}] /\ Blind = {}
      BY <2>1, <2>2, <2>3 DEF Conv, Named, Blind
    <2>5. /\ RowState = [c \in Conversations |-> "unresolved"]
          /\ RowEmail = [c \in Conversations |-> None]
      BY DEF Init, RowState, RowEmail, NoRow
    <2>6. ~(faults > 0) BY DEF Init
    <2> QED BY <2>4, <2>5, <2>6, ContractReads DEF Init, Contract!Init
  <1>2. SeenInv /\ [Next]_vars => Implements
    <2> SUFFICES ASSUME SeenInv, [Next]_vars PROVE Implements OBVIOUS
    <2>1. CASE Next BY <2>1, TurnSteps DEF Steps
    <2>2. CASE UNCHANGED vars
      BY <2>2 DEF vars, Implements, Contract!contract, Contract!rows, Conv, Named, RowState,
                  RowEmail, Blind, Addresses
    <2> QED BY <2>1, <2>2
  <1>3. SeenInv /\ [Next]_vars => [Contract!Next]_(Contract!contract) BY <1>2 DEF Implements
  <1> QED BY <1>1, <1>3, SeenInvHolds, PTL
          DEF Spec, KeepsOnboardingContract, Contract!Spec
=============================================================================
