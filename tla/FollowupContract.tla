-------------------------- MODULE FollowupContract --------------------------
(***************************************************************************)
(* What the follow-up worker promises about one follow-up, whoever polls,  *)
(* cancels or dies: it is claimed once, when it is due and has somebody to *)
(* write to; only a claim leads to a cycle, and to one; it is concluded    *)
(* after that cycle and not instead of it; a cancellation is the last word. *)
(***************************************************************************)
EXTENDS Naturals

CONSTANTS FollowUps, NoWaId

VARIABLES
  status,  \* the action's status
  due,     \* its time has come
  held,    \* the follow-ups somebody has claimed and not yet run
  runs     \* how many cycles were run for it

contract == <<status, due, held, runs>>

Init == /\ status = [f \in FollowUps |-> "none"]
        /\ due = [f \in FollowUps |-> FALSE]
        /\ held = {}
        /\ runs = [f \in FollowUps |-> 0]

Becomes(f, to) == status' = [status EXCEPT ![f] = to]

Schedule(f) == /\ status[f] = "none" /\ Becomes(f, "planned")
               /\ UNCHANGED <<due, held, runs>>

FallsDue(f) == /\ status[f] # "none"
               /\ due' = [due EXCEPT ![f] = TRUE]
               /\ UNCHANGED <<status, held, runs>>

Claim(f) == /\ due[f] /\ f \notin NoWaId
            /\ status[f] = "planned" /\ Becomes(f, "executing")
            /\ held' = held \cup {f}
            /\ UNCHANGED <<due, runs>>

\* Whoever claimed it finds no conversation, or dies: nobody will run it.
Abandon(f) == held' = held \ {f} /\ UNCHANGED <<status, due, runs>>

\* A cancellation that comes after the claim does not stop the cycle.
Run(f) == /\ f \in held /\ held' = held \ {f}
          /\ runs[f] = 0 /\ runs' = [runs EXCEPT ![f] = 1]
          /\ UNCHANGED <<status, due>>

Finish(f) == /\ status[f] = "executing" /\ runs[f] = 1
             /\ \E outcome \in {"executed", "failed"} : Becomes(f, outcome)
             /\ UNCHANGED <<due, held, runs>>

Cancel(f) == /\ status[f] # "none" /\ Becomes(f, "cancelled")
             /\ UNCHANGED <<due, held, runs>>

Next == \E f \in FollowUps : \/ Schedule(f) \/ FallsDue(f) \/ Claim(f) \/ Abandon(f)
                             \/ Run(f) \/ Finish(f) \/ Cancel(f)

Spec == Init /\ [][Next]_contract
=============================================================================
