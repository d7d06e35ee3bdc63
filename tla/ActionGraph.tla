---------------------------- MODULE ActionGraph ----------------------------
(***************************************************************************)
(* The action workflow of an automation: a set of action ids with one      *)
(* on_success and one on_error edge each, as NormalizeActions leaves it    *)
(* (core/automations/workflow.go).  What an action does is abstracted to   *)
(* the one distinction the walk makes: a delay pauses, anything else is an *)
(* effect on the outside world.                                            *)
(***************************************************************************)
EXTENDS Integers, FiniteSets

CONSTANTS
    Action,     \* action ids
    NoAction    \* the empty edge, "" in the code

ASSUME NoActionAssumption == NoAction \notin Action

Edge == Action \cup {NoAction}

(* Actions as stored: entry is actions[0], nodes the ids of the list. *)
ActionGraphs ==
    [entry : Action, nodes : SUBSET Action, delay : SUBSET Action,
     succ : [Action -> Edge], err : [Action -> Edge]]

(* The id and target checks of ValidateActionGraph: every edge names a known
   action other than its own. *)
EdgesKnown(g) ==
    /\ g.entry \in g.nodes
    /\ \A x \in g.nodes :
        /\ g.succ[x] \in (g.nodes \ {x}) \cup {NoAction}
        /\ g.err[x] \in (g.nodes \ {x}) \cup {NoAction}

(* Following on_success n times from x, NoAction once the path has ended. *)
SuccessPath(g, x) ==
    LET path[n \in 0 .. Cardinality(g.nodes)] ==
            IF n = 0 THEN x
            ELSE IF path[n - 1] = NoAction THEN NoAction
                 ELSE g.succ[path[n - 1]]
    IN  path

OnSuccessPath(g, x) ==
    {SuccessPath(g, x)[n] : n \in 0 .. Cardinality(g.nodes)} \ {NoAction}

(* visit() of detectCycle meets an id that is still on its stack: a success
   path that has not ended after as many steps as there are nodes. *)
SuccessCycleFrom(g, x) == SuccessPath(g, x)[Cardinality(g.nodes)] # NoAction

(* detectCycle visits the success path from the entry, then, ranging over the
   map of seen ids, the success path from each one's on_error target.  Ids the
   second loop adds to that map may or may not be produced by the range, so a
   graph is certain to be rejected only for a cycle at most one error hop away
   from the entry's path: MayPass is what some run of the validation accepts. *)
DetectCycleMayPass(g) ==
    /\ ~ SuccessCycleFrom(g, g.entry)
    /\ \A x \in OnSuccessPath(g, g.entry) :
        g.err[x] # NoAction => ~ SuccessCycleFrom(g, g.err[x])

ValidateActionGraph(g) == EdgesKnown(g) /\ DetectCycleMayPass(g)
=============================================================================
