-------------------------- MODULE MCDeliveryStatus --------------------------
(* The instances TLC checks: public_id is built from the first twelve          *)
(* characters of the provider's id, which differ or not.                        *)
EXTENDS DeliveryStatus, TLC

Different == 1 :> "msg-1" @@ 2 :> "msg-2"
Alike == 1 :> "msg-1" @@ 2 :> "msg-1"
=============================================================================
