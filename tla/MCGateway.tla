------------------------------ MODULE MCGateway ------------------------------
(* Finite instances of Gateway for TLC.                                     *)
EXTENDS Gateway, TLC

CONSTANTS alice, bob, carol

MCPolicy ==
    (alice :> "ALLOW" @@ bob :> "DENY" @@ carol :> "RESTRICT")
==============================================================================
