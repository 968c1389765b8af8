-------------------------- MODULE MCOfferEmailCode --------------------------
(***************************************************************************)
(* A small instance of OfferEmailCode.  Calls and addresses are symmetric. *)
(***************************************************************************)
EXTENDS OfferEmailCode, TLC

Symmetry == Permutations(Requests) \cup Permutations(Attempts)
            \cup Permutations(Emails)
=============================================================================
