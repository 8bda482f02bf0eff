------------------------ MODULE MCTankTroubleServer ------------------------
(***************************************************************************)
(* Values for the constants of TankTroubleServer.                          *)
(***************************************************************************)
EXTENDS TankTroubleServer, TLC

CONSTANTS c1, c2

\* Every connection comes from an address of its own.
OwnAddresses == (c1 :> "a") @@ (c2 :> "b")
=============================================================================
