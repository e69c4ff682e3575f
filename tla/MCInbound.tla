----------------------------- MODULE MCInbound -----------------------------
(* The instance TLC checks: a contact that writes twice, in two payloads, a *)
(* second contact in the payload of its first message, and a message that   *)
(* the allowlist refuses between the two.                                    *)
EXTENDS Inbound, TLC

TwoContacts == {"c1", "c2"}
Writers == 1 :> "c1" @@ 2 :> "c2" @@ 3 :> "c2" @@ 4 :> "c1"
MixedPayloads == {{1, 2, 3}, {4}}
=============================================================================
