----------------------------- MODULE Onboarding -----------------------------
(***************************************************************************)
(* runCustomerOnboardingLoop: each message of a conversation that is not   *)
(* yet linked to a customer asks for an email, looks the account up,       *)
(* offers to create one, and links it.  A turn loads what the turns before *)
(* it left, calls the tools one by one and writes the whole row back;      *)
(* nothing keeps two turns of a conversation apart.                        *)
(***************************************************************************)
EXTENDS Naturals

CONSTANTS
  Emails,         \* addresses customers write; an account is its address
  Registered,     \* those with an account from the start
  Conversations,
  Turns,          \* requests that may be in progress at once
  MaxFaults       \* bound: crashes and failed database calls

Words == {"other", "several", "yes", "yes and name"}
None == "none"

ASSUME EmailsAssumption == /\ Registered \subseteq Emails
                           /\ Emails \cap (Words \cup {None}) = {}
                           /\ None \notin Conversations
ASSUME MaxFaultsAssumption == MaxFaults \in Nat

VARIABLES
  row,         \* row[c] of crm_customer_onboarding
  link,        \* link[c] of customer_conversation_link, or None
  accounts,    \* the addresses in master_customer
  turn,        \* turn[t]: where turn t stands
  offer,       \* offer[c]: the last address a reply offered to create
  overlapped,  \* conversations two turns of which were in progress at once
  faults       \* faults so far

vars == <<row, link, accounts, turn, offer, overlapped, faults>>

States == {"unresolved", "email_requested", "creation_offered", "creation_confirmed",
           "customer_linked", "completed", "blocked", "handoff"}
Pcs == {"idle", "load", "decide", "create", "check", "upsert", "blind", "confirm",
        "persist"}
Tables == {"row", "link"}

\* What a message says: one address, several, a confirmation with or without a
\* name, or none of these.
Messages == Emails \cup Words
Rows == [state : States, pending : BOOLEAN, email : Emails \cup {None}]
NoRow == [state |-> "unresolved", pending |-> FALSE, email |-> None]

\* A turn knows what it has loaded until it decides, then the address it works on
\* and the row it is going to write.
IdleTurn == [pc |-> "idle", conv |-> None, msg |-> "other", unread |-> {},
             link |-> None, email |-> None, row |-> NoRow]
TurnRecords == [pc : Pcs, conv : Conversations \cup {None}, msg : Messages,
                unread : SUBSET Tables, link : Emails \cup {None},
                email : Emails \cup {None}, row : Rows]

OnboardingTypeOK ==
  /\ row \in [Conversations -> Rows]
  /\ link \in [Conversations -> accounts \cup {None}]
  /\ Registered \subseteq accounts /\ accounts \subseteq Emails
  /\ turn \in [Turns -> TurnRecords]
  /\ offer \in [Conversations -> Emails \cup {None}]
  /\ overlapped \subseteq Conversations
  /\ faults \in 0..MaxFaults

Init ==
  /\ row = [c \in Conversations |-> NoRow]
  /\ link = [c \in Conversations |-> None]
  /\ accounts = Registered
  /\ turn = [t \in Turns |-> IdleTurn]
  /\ offer = [c \in Conversations |-> None]
  /\ overlapped = {}
  /\ faults = 0

Fault == faults < MaxFaults /\ faults' = faults + 1
Goto(t, pc) == turn' = [turn EXCEPT ![t].pc = pc]

-----------------------------------------------------------------------------
Begin(t, c, m) ==
  /\ turn[t].pc = "idle"
  /\ turn' = [turn EXCEPT ![t] = [IdleTurn EXCEPT !.pc = "load", !.conv = c, !.msg = m,
                                                  !.unread = Tables]]
  /\ overlapped' = overlapped \cup {d \in {c} : \E u \in Turns : turn[u].conv = d}
  /\ UNCHANGED <<row, link, accounts, offer, faults>>

\* loadCustomerOnboardingSnapshot: two reads in any order; one that fails found
\* nothing.  Of the state column only what pending_customer_confirmation says is used.
Load(t, table) ==
  LET c == turn[t].conv IN
  /\ turn[t].pc = "load" /\ table \in turn[t].unread
  /\ \E found \in BOOLEAN :
       /\ IF found THEN UNCHANGED faults ELSE Fault
       /\ turn' = [turn EXCEPT
            ![t].unread = @ \ {table},
            ![t].pc = IF turn[t].unread = {table} THEN "decide" ELSE "load",
            ![t].row = IF found /\ table = "row" THEN [row[c] EXCEPT !.state = "unresolved"]
                         ELSE @,
            ![t].link = IF found /\ table = "link" THEN link[c] ELSE @]
  /\ UNCHANGED <<row, link, accounts, offer, overlapped>>

\* (A mutation: FirstEmail keeps the address the row already has.)
FirstEmail(t) == IF turn[t].row.email # None THEN turn[t].row.email
                 ELSE IF turn[t].msg \in Emails THEN turn[t].msg ELSE None
KeptEmail(t) == IF turn[t].msg \in Emails THEN turn[t].msg ELSE turn[t].row.email

\* What the turn is going to write: the address comes from the message, or from the
\* row as it was loaded.
Conclude(t, state, pending) ==
  turn' = [turn EXCEPT ![t].pc = "persist", ![t].link = None, ![t].email = None,
             ![t].row = [state |-> state, pending |-> pending, email |-> KeptEmail(t)]]

\* On to the tools, for the account with this address.
WorkOn(t, pc, email) ==
  turn' = [turn EXCEPT ![t].pc = pc, ![t].link = None, ![t].email = email,
                       ![t].row.pending = FALSE]

\* The account of the link is read for its address; when that fails, the row's
\* address stands in.
AlreadyLinked(t) ==
  LET msg == turn[t].msg IN
  /\ turn[t].pc = "decide" /\ turn[t].link # None
  /\ \E known \in {turn[t].link, turn[t].row.email} :
       /\ \/ known = turn[t].link /\ UNCHANGED faults
          \/ known = turn[t].row.email /\ Fault
       /\ Conclude(t, IF msg \in Emails /\ known \notin {None, msg} THEN "handoff" ELSE "completed",
                   FALSE)
  /\ UNCHANGED <<row, link, accounts, offer, overlapped>>

\* The messages no tool is called for.
Reply(t) ==
  LET msg == turn[t].msg
      seen == turn[t].row IN
  /\ turn[t].pc = "decide" /\ turn[t].link = None
  /\ \/ msg = "several" /\ Conclude(t, "blocked", FALSE)
     \/ /\ msg \in Words \ {"several"}
        /\ ~seen.pending \/ (msg # "other" /\ seen.email = None)
        /\ Conclude(t, "email_requested", FALSE)
     \/ msg = "other" /\ seen.pending /\ Conclude(t, "creation_offered", TRUE)
     \/ /\ msg = "yes" /\ seen.pending /\ seen.email # None
        /\ Conclude(t, "creation_confirmed", TRUE)
  /\ UNCHANGED <<row, link, accounts, offer, overlapped, faults>>

\* lookupCustomerByEmail: a read that fails is an account that was not found.
LookUp(t) ==
  /\ turn[t].pc = "decide" /\ turn[t].link = None
  /\ turn[t].msg \in Emails
  /\ \/ /\ turn[t].msg \in accounts
        /\ WorkOn(t, "check", turn[t].msg)
        /\ UNCHANGED faults
     \/ /\ IF turn[t].msg \in accounts THEN Fault ELSE UNCHANGED faults
        /\ Conclude(t, "creation_offered", TRUE)
  /\ UNCHANGED <<row, link, accounts, offer, overlapped>>

\* A confirmation with a name, after an offer.
Confirmed(t) ==
  /\ turn[t].pc = "decide" /\ turn[t].link = None
  /\ turn[t].msg = "yes and name" /\ turn[t].row.pending /\ turn[t].row.email # None
  /\ WorkOn(t, "create", turn[t].row.email)
  /\ UNCHANGED <<row, link, accounts, offer, overlapped, faults>>

\* createMasterCustomer inserts under a unique address and reads the account back.
CreateCustomer(t) ==
  LET email == turn[t].email IN
  /\ turn[t].pc = "create"
  /\ \/ /\ email \notin accounts
        /\ accounts' = accounts \cup {email}
        /\ Goto(t, "check") /\ UNCHANGED faults
     \/ /\ email \notin accounts
        /\ accounts' \in {accounts, accounts \cup {email}}
        /\ Conclude(t, "handoff", FALSE) /\ Fault
     \/ /\ email \in accounts
        /\ Conclude(t, "handoff", FALSE)
        /\ UNCHANGED <<accounts, faults>>
  /\ UNCHANGED <<row, link, offer, overlapped>>

\* linkCustomerToConversation: look, insert or overwrite, look again.  A look that
\* fails has found none ("blind").  (Mutations: NeverBound does not look first,
\* TrustWrite takes a failed statement for done, LinkStatus makes the status of the
\* link that of the row.)
NeverBound(c) == TRUE
Unbound(c) == link[c] = None
Linked(t) == IF turn[t].msg \in Emails THEN "customer_linked" ELSE "completed"
TrustWrite(t) == Linked(t)
LinkStatus(t) == "unavailable"
Unavailable(t) == "blocked"

CheckLink(t) ==
  LET c == turn[t].conv IN
  /\ turn[t].pc = "check"
  /\ \/ Unbound(c) /\ Goto(t, "upsert") /\ UNCHANGED faults
     \/ /\ ~Unbound(c)
        /\ Conclude(t, IF link[c] = turn[t].email THEN Linked(t) ELSE "handoff", FALSE)
        /\ UNCHANGED faults
     \/ Fault /\ Goto(t, "blind")
  /\ UNCHANGED <<row, link, accounts, offer, overlapped>>

UpsertLink(t) ==
  /\ turn[t].pc \in {"upsert", "blind"}
  /\ \/ /\ link' = [link EXCEPT ![turn[t].conv] = turn[t].email]
        /\ Goto(t, "confirm") /\ UNCHANGED faults
     \/ Conclude(t, Unavailable(t), FALSE) /\ Fault /\ UNCHANGED link
  /\ UNCHANGED <<row, accounts, offer, overlapped>>

ConfirmLink(t) ==
  /\ turn[t].pc = "confirm"
  /\ \/ Conclude(t, Linked(t), FALSE) /\ UNCHANGED faults
     \/ Conclude(t, "blocked", FALSE) /\ Fault
  /\ UNCHANGED <<row, link, accounts, offer, overlapped>>

\* persistDecisionState writes the whole row.  The reply goes out whether or not it
\* succeeds.
Persist(t) ==
  LET c == turn[t].conv
      offers == turn[t].msg \in Emails /\ turn[t].row.state = "creation_offered" IN
  /\ turn[t].pc = "persist"
  /\ \/ row' = [row EXCEPT ![c] = turn[t].row] /\ UNCHANGED faults
     \/ Fault /\ UNCHANGED row
  /\ offer' = IF offers THEN [offer EXCEPT ![c] = turn[t].msg] ELSE offer
  /\ turn' = [turn EXCEPT ![t] = IdleTurn]
  /\ UNCHANGED <<link, accounts, overlapped>>

Crash(t) ==
  /\ turn[t].pc # "idle"
  /\ Fault
  /\ turn' = [turn EXCEPT ![t] = IdleTurn]
  /\ UNCHANGED <<row, link, accounts, offer, overlapped>>

TurnStep(t) ==
  \/ \E table \in Tables : Load(t, table)
  \/ AlreadyLinked(t) \/ Reply(t) \/ LookUp(t) \/ Confirmed(t) \/ CreateCustomer(t)
  \/ CheckLink(t) \/ UpsertLink(t) \/ ConfirmLink(t) \/ Persist(t)

Next ==
  \E t \in Turns :
    \/ \E c \in Conversations, m \in Messages : Begin(t, c, m)
    \/ TurnStep(t)
    \/ Crash(t)

Spec == Init /\ [][Next]_vars

-----------------------------------------------------------------------------
(* Properties. *)

\* As long as the turns of a conversation come one after the other and nothing fails,
\* an account is created for the address of the last offer, through any detour of
\* other addresses, unclear answers and messages without a name.
OfferIsWhatIsMade ==
  [][\A t \in Turns : turn[t].pc = "create" /\ accounts' # accounts /\ turn'[t] # turn[t] =>
       \/ accounts' \ accounts = {offer[turn[t].conv]}
       \/ turn[t].conv \in overlapped \/ faults' > 0]_vars

\* The link is written with an upsert: that it moves to no other customer rests on
\* the look before it.  Only overlapping turns, or a look that failed, replace it.
BindingIsKept ==
  [][\A c \in Conversations : link[c] # None /\ link'[c] # link[c] =>
       c \in overlapped \/ \E t \in Turns : turn[t].conv = c /\ turn[t].pc = "blind"]_vars

\* A conversation whose row says customer_linked or completed has its link, whatever
\* turns overlapped, failed or died.
CompletedIsLinked ==
  \A c \in Conversations : row[c].state \in {"customer_linked", "completed"} => link[c] # None

\* What a turn has in hand of the addresses written in its conversation.
Addresses(x) == ({x.msg} \cap Emails) \cup ({x.row.email, x.email} \ {None})

Conv == [t \in Turns |-> turn[t].conv]
Named == [t \in Turns |-> Addresses(turn[t])]
RowState == [c \in Conversations |-> row[c].state]
RowEmail == [c \in Conversations |-> row[c].email]
Blind == {t \in Turns : turn[t].pc = "blind"}

Contract == INSTANCE OnboardingContract WITH
              Requests <- Turns, conv <- Conv, named <- Named, state <- RowState,
              email <- RowEmail, blind <- Blind, failed <- faults > 0

\* Turns that load, decide, call the tools one by one and write the whole row back,
\* overlapping, failing and dying, together implement the contract: a conversation is
\* linked only to an existing account, at an address its own customer wrote, an
\* account is made only as offered and while there is no link, and the row says no
\* more than is so.
KeepsOnboardingContract == Contract!Spec
=============================================================================
