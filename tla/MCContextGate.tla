---------------------------- MODULE MCContextGate ----------------------------
(***************************************************************************)
(* Tasks of two actions.  The registry holds a chain of three actors below *)
(* the root, one more than may be granted anything, and a peer of another  *)
(* task.                                                                   *)
(***************************************************************************)
EXTENDS ContextGate, TLC

CONSTANTS root, child, grandchild, great, peer

Family == child :> [parent |-> root, ours |-> TRUE]
       @@ grandchild :> [parent |-> child, ours |-> TRUE]
       @@ great :> [parent |-> grandchild, ours |-> TRUE]
       @@ peer :> [parent |-> root, ours |-> FALSE]
FamilyRegistry == [x \in Children |-> Family[x]]

Symmetry == Permutations(Handles)
=============================================================================
