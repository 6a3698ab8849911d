--------------------------- MODULE MCOrderLifecycle ---------------------------
(* Constants for model checking OrderLifecycle.                              *)
EXTENDS OrderLifecycle

\* A buy and a larger sell.
MCQuantities == {1, -2}

\* A buy alone, where the size does not matter.
MCBuy == {1}
=============================================================================
