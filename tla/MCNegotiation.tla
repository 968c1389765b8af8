--------------------------- MODULE MCNegotiation ----------------------------
(***************************************************************************)
(* Small instances of Negotiation for TLC.  Every identifier set is        *)
(* symmetric: the specification never tells two of its members apart.      *)
(***************************************************************************)
EXTENDS Negotiation, TLC

Symmetry == Permutations(Requests) \cup Permutations(Items)
            \cup Permutations(Configs) \cup Permutations(Kinds)
            \cup Permutations(Clients) \cup Permutations(Proposals)
            \cup Permutations(Invitations)

\* The operations exercised by each run.
AllOps == AllOperations
OfferOps == {"add", "archive", "propose"}
=============================================================================
