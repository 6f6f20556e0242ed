--------------------------- MODULE ImageTransfer ----------------------------
(***************************************************************************)
(* What sending an image over DFU promises: the device takes the whole     *)
(* image or nothing, success means that it took it, and an error leaves    *)
(* open whether it did.                                                    *)
(***************************************************************************)
VARIABLES
  installed,    \* what the device boots next: "none" or the "image"
  outcome       \* of the last attempt

transferVars == <<installed, outcome>>

Init == installed = "none" /\ outcome = "none"

Begin == outcome # "running" /\ outcome' = "running" /\ UNCHANGED installed

Succeed == outcome = "running" /\ outcome' = "ok" /\ installed' = "image"

Fail == outcome = "running" /\ outcome' = "error" /\ installed' \in {installed, "image"}

Next == Begin \/ Succeed \/ Fail

Spec == Init /\ [][Next]_transferVars
=============================================================================
