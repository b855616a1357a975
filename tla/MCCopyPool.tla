------------------------------ MODULE MCCopyPool ------------------------------
(* Instances of CopyPool for TLC.                                          *)
EXTENDS CopyPool, TLC

CONSTANTS w1, w2, w3
=============================================================================
