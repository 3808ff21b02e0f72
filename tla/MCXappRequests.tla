--------------------------- MODULE MCXappRequests ---------------------------
(* Instances of XappRequests for TLC.                                      *)
EXTENDS XappRequests, TLC

\* RAN functions (and so the callbacks) are interchangeable.
FuncSymmetry == Permutations(Funcs)
=============================================================================
