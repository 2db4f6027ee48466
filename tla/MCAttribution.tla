--------------------------- MODULE MCAttribution ----------------------------
(* A finite instance of Attribution for TLC.                                *)
EXTENDS Attribution, TLC
CONSTANTS r1, r2, r3, alice, bob

(* Two requests of one principal and one of another.                        *)
MCSender == (r1 :> alice) @@ (r2 :> alice) @@ (r3 :> bob)
==============================================================================
