---------------------------- MODULE MCTaskManager ----------------------------
(* An instance of TaskManager for TLC: rings that fill up and are enlarged, *)
(* and whose counters are about to wrap.                                    *)
EXTENDS TaskManager, TLC
===============================================================================
