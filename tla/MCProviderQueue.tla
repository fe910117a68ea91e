-------------------------- MODULE MCProviderQueue --------------------------
(* ProviderQueue for TLC: the ungated provider and gates of size 1 and 2,  *)
(* every assignment of kinds to callers.                                   *)
EXTENDS ProviderQueue

LimitsAll == {-1, 1, 2}
=============================================================================
