----------------------------- MODULE Agreement ------------------------------
(***************************************************************************)
(* What the negotiation of a case promises to both parties.  The products  *)
(* on sale may change while nothing is agreed; the customer may ask for    *)
(* one of the offers that were made, which freezes the products; the       *)
(* dealer then refuses, which reopens the case, or closes the deal, which  *)
(* is final.                                                               *)
(***************************************************************************)
CONSTANTS
  Terms,        \* what an offer says: products, customer, conditions
  Goods,        \* the state of the products for sale
  Nothing       \* no offer is asked for; not one of Terms

VARIABLES
  offered,      \* the set of offers made so far
  goods,        \* the products of the case
  asked,        \* the offer the customer asked for, or Nothing
  closed        \* the dealer confirmed it

agreementVars == <<offered, goods, asked, closed>>

AgreementInit ==
  /\ offered = {}
  /\ goods \in Goods
  /\ asked = Nothing
  /\ closed = FALSE

\* The dealer changes the products.
Rework ==
  /\ asked = Nothing
  /\ goods' \in Goods
  /\ UNCHANGED <<offered, asked, closed>>

\* The dealer makes an offer.
Offer ==
  /\ asked = Nothing
  /\ \E t \in offered' : offered' = offered \cup {t}
  /\ offered' \subseteq Terms
  /\ UNCHANGED <<goods, asked, closed>>

\* The customer asks for an offer that was made.
Ask ==
  /\ asked = Nothing
  /\ asked' \in offered
  /\ UNCHANGED <<offered, goods, closed>>

\* The dealer refuses the request: the negotiation is open again.
Refuse ==
  /\ asked # Nothing
  /\ ~closed
  /\ asked' = Nothing
  /\ UNCHANGED <<offered, goods, closed>>

\* The dealer confirms: from here on nothing changes.
Close ==
  /\ asked # Nothing
  /\ ~closed
  /\ closed' = TRUE
  /\ UNCHANGED <<offered, goods, asked>>

AgreementNext == Rework \/ Offer \/ Ask \/ Refuse \/ Close

AgreementSpec == AgreementInit /\ [][AgreementNext]_agreementVars

=============================================================================
