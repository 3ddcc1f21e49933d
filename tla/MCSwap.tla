------------------------------- MODULE MCSwap -------------------------------
(* Instances of SwapClients for TLC. *)
EXTENDS SwapClients, TLC

CONSTANTS t1, t2, p1, p2, p3

\* Thread t1 owns two pages, so it can swap one out to make room for the other.
TwoOwners == p1 :> t1 @@ p2 :> t1 @@ p3 :> t2
=============================================================================
