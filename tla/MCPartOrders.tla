---------------------------- MODULE MCPartOrders ----------------------------
(***************************************************************************)
(* One work: with its quotes (MCWorks.cfg), or with its orders and their   *)
(* mails, sent by two processes (MCPartOrders.cfg).                        *)
(***************************************************************************)
EXTENDS PartOrders, TLC
CONSTANTS w1, p1, p2

MCCrewKey == ("crew" :> "crew")
MCQuoted == {Unassessed, [coverage |-> "CHARGEABLE", required |-> 1],
             [coverage |-> "CHARGEABLE", required |-> 2]}
MCWarranty == {Unassessed, [coverage |-> "WARRANTY", required |-> 1],
               [coverage |-> "WARRANTY", required |-> 2]}
Symmetric == Permutations({p1, p2})
=============================================================================
