------------------------- MODULE MC_EditorWorkspace -------------------------
\* Apex classes of one name in two orgs, Lightning web components of two names in
\* one, an Aura bundle. Requests in flight are interchangeable.
EXTENDS EditorWorkspace, TLC

CONSTANTS a, b, o1, o2, s1, s2

MCOpened == {<<o1, a>>, <<o2, a>>}
MCScope ==
  ({"apex"} \X {<<o1, a>>, <<o2, a>>}) \cup ({"lwc"} \X {<<o1, a>>, <<o1, b>>})
    \cup ({"aura"} \X {<<o1, a>>})
SlotSymmetry == Permutations(Slots)
=============================================================================
