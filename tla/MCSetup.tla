------------------------------- MODULE MCSetup -------------------------------
(* Values for the constants of Setup that a .cfg cannot express. *)
EXTENDS Setup, TLC

CONSTANTS A, B

MCIncoming == A :> 3 @@ B :> 2
MCOutgoing == A :> 3 @@ B :> 1
MCOneSide == {<<A, B>>}
MCBothSides == {<<A, B>>, <<B, A>>}
=============================================================================
