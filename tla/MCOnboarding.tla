---------------------------- MODULE MCOnboarding ----------------------------
(* Addresses without an account are alike, and so are requests. *)
EXTENDS Onboarding, TLC

Alike == Permutations(Emails \ Registered) \cup Permutations(Turns)
=============================================================================
