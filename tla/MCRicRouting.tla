----------------------------- MODULE MCRicRouting -----------------------------
(* Instances of RicRouting for TLC.                                        *)
EXTENDS RicRouting, TLC

\* Two xApps (ids are handed out from 7) that work with different RAN
\* functions, or with the same one.
TwoXapps == {7, 8}
DisjointUses == (7 :> {"MAC"}) @@ (8 :> {"RC"})
SharedUses == (7 :> {"MAC"}) @@ (8 :> {"MAC"})
OneXapp == {7}
OneUse == (7 :> {"MAC"})

\* The workers are interchangeable.
WorkerSymmetry == Permutations(Workers)
===============================================================================
