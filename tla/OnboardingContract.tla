------------------------- MODULE OnboardingContract -------------------------
(***************************************************************************)
(* What the onboarding promises of a conversation, however many messages   *)
(* of it are answered at once: it is linked to an account that exists, at  *)
(* an address its own customer wrote, and to no other one later; it is     *)
(* said to be linked only when it is; an account is made only for the      *)
(* address last offered, while there is no link.  Answers that overlap and *)
(* calls that fail are excused where the code gives no more.               *)
(***************************************************************************)
CONSTANTS Emails, Registered, Conversations, Requests

VARIABLES
  conv,        \* conv[q]: the conversation request q works on, or None
  named,       \* named[q]: the addresses q has from its message or from the row
  state,       \* state[c]: the state the row of c says
  email,       \* email[c]: the address it keeps, or None
  link,        \* link[c]: the account c is linked to, or None
  accounts,
  offer,       \* offer[c]: the address last offered, or None
  overlapped,  \* conversations two requests have worked on at once
  blind,       \* requests that could not look whether there is a link
  failed       \* whether anything has failed so far

None == "none"
rows == <<state, email>>
contract == <<conv, named, rows, link, accounts, offer, overlapped, blind, failed>>

States == {"unresolved", "email_requested", "creation_offered", "creation_confirmed",
           "customer_linked", "completed", "blocked", "handoff"}
SaysLinked == {"customer_linked", "completed"}

Init == /\ conv = [q \in Requests |-> None] /\ named = [q \in Requests |-> {}]
        /\ state = [c \in Conversations |-> "unresolved"]
        /\ email = [c \in Conversations |-> None]
        /\ link = [c \in Conversations |-> None]
        /\ accounts = Registered
        /\ offer = [c \in Conversations |-> None]
        /\ overlapped = {} /\ blind = {} /\ failed = FALSE

\* Without an excuse there is no link yet.
Unlinked(c) == link[c] = None \/ c \in overlapped \/ failed

MayFail == failed' \in {failed, TRUE}

Begin(q, c) ==
  /\ conv[q] = None
  /\ conv' = [conv EXCEPT ![q] = c]
  /\ \E given \in {{}} \cup {{e} : e \in Emails} : named' = [named EXCEPT ![q] = given]
  /\ overlapped' = overlapped \cup {d \in {c} : \E p \in Requests : conv[p] = d}
  /\ UNCHANGED <<rows, link, accounts, offer, blind, failed>>

\* A request goes on with the addresses it has, or with fewer.
GoesOn(q, addresses) ==
  /\ conv[q] # None /\ UNCHANGED <<conv, overlapped>> /\ MayFail
  /\ named'[q] \subseteq addresses /\ named' = [named EXCEPT ![q] = named'[q]]

Look(q) == /\ UNCHANGED <<rows, link, accounts, offer>>
           /\ GoesOn(q, named[q] \cup ({email[conv[q]]} \ {None}))
           /\ \/ blind' = blind \ {q}
              \/ blind' = blind \cup {q} /\ failed'

Create(q) == /\ UNCHANGED <<rows, link, offer, blind>>
             /\ GoesOn(q, named[q])
             /\ \E e \in named[q] \ accounts :
                  /\ \/ link[conv[q]] = None /\ offer[conv[q]] = e
                     \/ conv[q] \in overlapped \/ failed
                  /\ accounts' = accounts \cup {e}

Bind(q) == /\ UNCHANGED <<rows, accounts, offer>>
           /\ GoesOn(q, named[q])
           /\ link[conv[q]] = None \/ conv[q] \in overlapped \/ q \in blind
           /\ \E e \in named[q] \cap accounts : link' = [link EXCEPT ![conv[q]] = e]
           /\ blind' = blind \ {q}

\* A request is over.
Ends(q) == /\ conv[q] # None /\ MayFail
           /\ conv' = [conv EXCEPT ![q] = None] /\ named' = [named EXCEPT ![q] = {}]
           /\ UNCHANGED <<link, accounts, overlapped>>

\* The reply goes out even when the row could not be written.
Answer(q) ==
  LET c == conv[q] IN
  /\ Ends(q) /\ UNCHANGED blind
  /\ \E s \in States, e \in named[q] \cup {None} :
       /\ s \in SaysLinked => link[c] # None
       /\ \/ state' = [state EXCEPT ![c] = s] /\ email' = [email EXCEPT ![c] = e]
          \/ UNCHANGED rows /\ failed'
       /\ \/ UNCHANGED offer
          \/ /\ s = "creation_offered" /\ e # None /\ Unlinked(c)
             /\ offer' = [offer EXCEPT ![c] = e]

GiveUp(q) == /\ Ends(q) /\ failed' /\ blind' = blind \ {q}
             /\ UNCHANGED <<rows, offer>>

Next == \E q \in Requests : \/ Look(q) \/ Create(q) \/ Bind(q) \/ Answer(q) \/ GiveUp(q)
                            \/ \E c \in Conversations : Begin(q, c)

Spec == Init /\ [][Next]_contract
=============================================================================
