--------------------------- MODULE MCVerification ---------------------------
(***************************************************************************)
(* Three jobs for TLC: the second is so valuable that it is due in every   *)
(* pass, the first may have no url, so that each pass comes to it in vain, *)
(* and the third has to get its turn next to them.                         *)
(***************************************************************************)
EXTENDS VerificationBudget

ByValue == <<0, 5, 0>>
Cadence == <<2, 2, 2, 2, 1, 1>>
=============================================================================
