---------------------------- MODULE SetExpansion ----------------------------
(***************************************************************************)
(* Flattening of sets that extend other sets: ExpandSets of                *)
(* core/reach/expand.go.  Merchant roles and customer groups are both      *)
(* stored flattened, so both are recomputed through this.                  *)
(***************************************************************************)
EXTENDS Integers

CONSTANT MaxSetDepth    \* MaxAppRoleDepth, 5 in the code

ASSUME DepthAssumption == MaxSetDepth \in Nat

(* Above(edges, x)[k] are the ids k extends-edges above x. *)
Above(edges, x) ==
    LET level[k \in 0 .. MaxSetDepth + 1] ==
            IF k = 0 THEN {x} ELSE {e[2] : e \in {d \in edges : d[1] \in level[k - 1]}}
    IN  level

(* The edges of the sets that were supplied: resolve never asks for others. *)
EdgesOf(ids, edges) == {e \in edges : e[1] \in ids}

UnknownParent(ids, edges) == \E e \in EdgesOf(ids, edges) : e[2] \notin ids

(* A cycle is a path without end, so one bound catches both: an id is rejected
   when something lies more than MaxSetDepth edges above it. *)
CycleOrTooDeep(ids, edges) ==
    \E x \in ids : Above(EdgesOf(ids, edges), x)[MaxSetDepth + 1] # {}

Refused(ids, edges) == UnknownParent(ids, edges) \/ CycleOrTooDeep(ids, edges)

(* x and everything it extends. *)
Ancestry(ids, edges, x) ==
    {y \in ids : \E k \in 0 .. MaxSetDepth : y \in Above(EdgesOf(ids, edges), x)[k]}

(* The members of x: its own and those of everything it extends. *)
Expansion(ids, own, edges, x) == UNION {own[y] : y \in Ancestry(ids, edges, x)}
=============================================================================
