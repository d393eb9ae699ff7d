-------------------------- MODULE MC_DataWorkspace --------------------------
(* An instance of DataWorkspace small enough for TLC.                        *)
EXTENDS DataWorkspace

MCIds == 1 .. 3
\* Every record is of one object; the other one is what a page may be retyped to.
MCObjectOf == [r \in MCIds |-> "Account"]
MCObjects == {"Account", "Contact"}

SlotSymmetry == Permutations(Slots) \union Permutations(Fields) \union Permutations(Orgs)
=============================================================================
