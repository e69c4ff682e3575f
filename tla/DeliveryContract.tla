-------------------------- MODULE DeliveryContract --------------------------
(***************************************************************************)
(* What the webhook promises of the statuses Meta posts for a message, in  *)
(* whatever order and however often: a status is projected on the message  *)
(* and on its row as they are, and only forward; it is counted once, when  *)
(* the row says as much; it is acknowledged when message and row do.  A    *)
(* message whose requests interfered, or one whose read failed, is         *)
(* excused, and so is the answer for one that was not there yet.           *)
(***************************************************************************)
EXTENDS Naturals

CONSTANTS Sends, Requests

VARIABLES
  held,        \* held[q]: the message and the status request q works on
  message,     \* message[s]: its status, or "none"
  row,         \* row[s]: that of its row, "null", or "none"
  posted,      \* posted[s]: statuses Meta has reached
  answered,    \* answered[s]: those acknowledged
  outcomes,    \* outcomes[s][t]: how often t was counted
  overlapped,  \* messages two requests have worked on at once
  mixed,       \* ... with different statuses
  missed,      \* messages that were looked for before they were there
  misread      \* messages a read of which has failed

columns == <<message, row>>
excuses == <<overlapped, mixed, missed, misread>>
contract == <<held, columns, posted, answered, outcomes, excuses>>

Overwrites == [sent |-> {"null"}, delivered |-> {"null", "sent"},
               read |-> {"null", "sent", "delivered"}, failed |-> {"null", "sent"}]
Statuses == DOMAIN Overwrites
Says(column, t) == column # "none" /\ column \notin Overwrites[t]

Init == /\ held = [q \in Requests |-> {}]
        /\ message = [s \in Sends |-> "none"] /\ row = [s \in Sends |-> "none"]
        /\ posted = [s \in Sends |-> {}] /\ answered = [s \in Sends |-> {}]
        /\ outcomes = [s \in Sends |-> [t \in Statuses |-> 0]]
        /\ overlapped = {} /\ mixed = {} /\ missed = {} /\ misread = {}

\* The sender writes the row before the message, each once.
InsertRow(s) == /\ row[s] = "none" /\ message[s] = "none"
                /\ \E p \in {"null", "sent"} : row' = [row EXCEPT ![s] = p]
                /\ UNCHANGED <<held, message, posted, answered, outcomes, excuses>>
InsertMessage(s) == /\ message[s] = "none"
                    /\ message' = [message EXCEPT ![s] = "sent"]
                    /\ UNCHANGED <<held, row, posted, answered, outcomes, excuses>>

Reach(s, t) == /\ posted' = [posted EXCEPT ![s] = @ \cup {t}]
               /\ UNCHANGED <<held, columns, answered, outcomes, excuses>>

TakeUp(q, s, t) ==
  LET others == {u \in Statuses : \E p \in Requests : <<s, u>> \in held[p]} IN
  /\ held[q] = {} /\ t \in posted[s]
  /\ held' = [held EXCEPT ![q] = {<<s, t>>}]
  /\ overlapped' = IF others # {} THEN overlapped \cup {s} ELSE overlapped
  /\ mixed' = IF others \ {t} # {} THEN mixed \cup {s} ELSE mixed
  /\ UNCHANGED <<columns, posted, answered, outcomes, missed, misread>>

Miss(q, s, t) == /\ <<s, t>> \in held[q] /\ message[s] = "none"
                 /\ missed' = missed \cup {s}
                 /\ UNCHANGED <<held, columns, posted, answered, outcomes,
                                overlapped, mixed, misread>>

Misread(q, s, t) == /\ <<s, t>> \in held[q]
                    /\ misread' = misread \cup {s}
                    /\ UNCHANGED <<held, columns, posted, answered, outcomes,
                                   overlapped, mixed, missed>>

Project(q, s, t) == /\ <<s, t>> \in held[q] /\ message[s] # "none"
                    /\ message[s] \in Overwrites[t] \/ s \in mixed
                    /\ message' = [message EXCEPT ![s] = t]
                    /\ UNCHANGED <<held, row, posted, answered, outcomes, excuses>>

ProjectRow(q, s, t) == /\ <<s, t>> \in held[q] /\ row[s] # "none"
                       /\ row[s] \in Overwrites[t] \/ s \in mixed \cup misread
                       /\ row' = [row EXCEPT ![s] = t]
                       /\ UNCHANGED <<held, message, posted, answered, outcomes, excuses>>

Count(q, s, t) == /\ <<s, t>> \in held[q]
                  /\ \/ Says(row[s], t) /\ outcomes[s][t] = 0
                     \/ s \in overlapped \cup misread
                  /\ outcomes' = [outcomes EXCEPT ![s][t] = @ + 1]
                  /\ UNCHANGED <<held, columns, posted, answered, excuses>>

Acknowledge(q, s, t) ==
  /\ <<s, t>> \in held[q]
  /\ \/ Says(message[s], t) /\ (row[s] # "none" => Says(row[s], t))
     \/ s \in mixed \cup missed \cup misread
  /\ held' = [held EXCEPT ![q] = {}]
  /\ answered' = [answered EXCEPT ![s] = @ \cup {t}]
  /\ UNCHANGED <<columns, posted, outcomes, excuses>>

GiveUp(q) == /\ held' = [held EXCEPT ![q] = {}]
             /\ UNCHANGED <<columns, posted, answered, outcomes, excuses>>

Next == \/ \E s \in Sends : InsertRow(s) \/ InsertMessage(s) \/ \E t \in Statuses : Reach(s, t)
        \/ \E q \in Requests, s \in Sends, t \in Statuses :
             \/ TakeUp(q, s, t) \/ Miss(q, s, t) \/ Misread(q, s, t)
             \/ Project(q, s, t) \/ ProjectRow(q, s, t)
             \/ Count(q, s, t) \/ Acknowledge(q, s, t)
        \/ \E q \in Requests : GiveUp(q)

Spec == Init /\ [][Next]_contract
=============================================================================
