---------------------------- MODULE MCBrainLoop ----------------------------
(***************************************************************************)
(* Instances of BrainLoop for TLC: what the compute node may be like.      *)
(***************************************************************************)
EXTENDS BrainLoop

AnyCondition == {"up", "garbled", "down"}

UpOrGarbled == {"up", "garbled"}

UpOrDown == {"up", "down"}
=============================================================================
