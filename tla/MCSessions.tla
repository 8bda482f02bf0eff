----------------------------- MODULE MCSessions -----------------------------
(***************************************************************************)
(* Values for the constants of Sessions: which connections share an        *)
(* address.  The users are interchangeable.                                *)
(***************************************************************************)
EXTENDS Sessions, TLC

CONSTANTS c1, c2, c3

\* Every connection comes from an address of its own.
OwnAddresses == (c1 :> "a") @@ (c2 :> "b")

\* The third connection comes from the address of the first.
ReusedAddress == (c1 :> "a") @@ (c2 :> "b") @@ (c3 :> "a")

UserSymmetry == Permutations(Users)
=============================================================================
