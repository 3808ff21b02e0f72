--------------------------- MODULE MCNodeLifecycle ---------------------------
(* An instance of NodeLifecycle for TLC.                                    *)
EXTENDS NodeLifecycle
==============================================================================
