------------------------------ MODULE MCE2Agent ------------------------------
(* An instance of E2Agent for TLC.                                          *)
EXTENDS E2Agent
==============================================================================
