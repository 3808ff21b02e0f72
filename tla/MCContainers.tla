---------------------------- MODULE MCContainers ----------------------------
(* The associative containers and the queue of the database, one at a time. *)
EXTENDS RbTree, Registry, IndicationStore

CONSTANTS Keys, Twice   \* the keys of the nodes; those that two nodes have
VARIABLE kind           \* which of them the program works on

MCNodes == (Keys \X {1}) \union (Twice \X {2})

vars == <<kind, treeVars, regVars, storeVars>>

Init == kind \in {"tree", "registry", "store"} /\ TreeInit /\ RegInit /\ StoreInit

Next == \/ kind = "tree" /\ TreeNext /\ UNCHANGED <<kind, regVars, storeVars>>
        \/ kind = "registry" /\ RegNext /\ UNCHANGED <<kind, treeVars, storeVars>>
        \/ kind = "store" /\ StoreNext /\ UNCHANGED <<kind, treeVars, regVars>>

InStore(A) == kind = "store" /\ A /\ UNCHANGED <<kind, treeVars, regVars>>

\* The threads of the store run; the writer's disk answers.
Spec == /\ Init /\ [][Next]_vars
        /\ WF_storeVars(InStore(WriterStep)) /\ WF_storeVars(InStore(CloserStep))

\* Whatever was inserted and extracted before, a lookup in the tree, in the
\* registry, or by the iterators of the tree finds what is there and nothing else.
LookupsFind == TreeFinds /\ RegistryFinds
=============================================================================
