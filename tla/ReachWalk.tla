----------------------------- MODULE ReachWalk -----------------------------
(***************************************************************************)
(* May this subject perform this action on this resource?  The evaluator   *)
(* of core/reach/walk.go, which answers every permission check of the      *)
(* staff and every access question about a merchant's own graph.           *)
(*                                                                         *)
(* The walk goes inward from the resource, depth first, through a store    *)
(* that is read one (object, relation) at a time while others write to it, *)
(* and that lists edges in no particular order.  A term met again while it *)
(* is being walked, or after it was refuted, is answered no from a memo.   *)
(* The call stack of the Go functions is the variable `stack'.             *)
(***************************************************************************)
EXTENDS Integers, Sequences, FiniteSets

CONSTANTS
    Node, Type, TypeOf,     \* objects and their types
    Star,                   \* the nodes that stand for every object of their type
    Name,                   \* relations and actions
    Expr,                   \* terms: the bodies of rules and what they mention
    Rule, NoRule,           \* Rule[type][action], if the type has one
    Declared, Transitive,   \* relations the schema declares; those that nest
    ObjectStar, SubjectStar,\* relations that admit a wildcard as object, as subject
    Edge, NoName,           \* edges that can be written
    Start,                  \* edge tables to start from
    Request,                \* questions, of declared types and actions
    MaxDepth,               \* DefaultMaxDepth, 64 in the code
    MaxWrites,              \* how many edges are written or deleted
    Interpretation(_, _)    \* sets of goals to compare answers with, by subject and edges

RelationTerm(r) == [kind |-> "relation", name |-> r, target |-> NoName, parts |-> <<>>]
RuleTerm(a) == [kind |-> "rule", name |-> a, target |-> NoName, parts |-> <<>>]
ArrowTerm(r, t) == [kind |-> "arrow", name |-> r, target |-> t, parts |-> <<>>]
Union(parts) == [kind |-> "union", name |-> NoName, target |-> NoName, parts |-> parts]
Intersect(parts) == [kind |-> "intersect", name |-> NoName, target |-> NoName, parts |-> parts]
Exclude(base, subtract) ==
    [kind |-> "exclude", name |-> NoName, target |-> NoName, parts |-> <<base, subtract>>]

Terms ==
    [kind : {"relation", "rule", "arrow", "union", "intersect", "exclude"},
     name : Name \cup {NoName}, target : Name \cup {NoName}, parts : Seq(Expr)]

(* A goal is a term asked at a node. *)
Goal == Node \X Expr

ASSUME NodeAssumption == TypeOf \in [Node -> Type] /\ Star \subseteq Node
ASSUME NameAssumption == NoName \notin Name /\ Transitive \subseteq Name
ASSUME ExprAssumption ==
    /\ Expr \subseteq Terms
    /\ \A r \in Name : RelationTerm(r) \in Expr /\ RuleTerm(r) \in Expr
    /\ \A x \in Expr :
        /\ x.kind \in {"relation", "rule", "arrow"} => x.name \in Name
        /\ x.kind = "arrow" => x.target \in Name
        /\ x.kind = "exclude" => Len(x.parts) = 2
ASSUME RuleAssumption ==
    /\ NoRule \notin Expr
    /\ Rule \in [Type -> [Name -> Expr \cup {NoRule}]]
ASSUME EdgeAssumption ==
    Edge \subseteq [object : Node, relation : Name, subject : Node,
                    via : Name \cup {NoName}, active : BOOLEAN]
ASSUME StartAssumption == Start \subseteq SUBSET Edge
ASSUME RequestAssumption == Request \subseteq [subject : Node, action : Name, resource : Node]
ASSUME BoundAssumption == MaxDepth \in Nat /\ MaxWrites \in Nat

VARIABLES
    edges,      \* rows of reach_edges in the namespace
    writes,     \* how many of MaxWrites are used
    request,    \* the question being answered, or last answered
    phase,      \* "idle"; "check": the asked action's rule; "others": reachesAtAll
    left,       \* actions whose rules are still to be tried in this phase
    stack,      \* the calls of the run, the innermost last
    ret,        \* what the innermost call has just returned, "none" while it runs
    open, dead, \* run.state: goals in progress, goals refuted
    excluded,   \* run.excluded
    decision,   \* the last answer
    kept, seen, \* history: edges there all through the request, and at some time in it
    denied,     \* history: goals this request has refuted
    wentOn,     \* history: a walk asked more after something in it had matched
    answers     \* history: answers given since the edges last changed

vars == <<edges, writes, request, phase, left, stack, ret, open, dead, excluded,
          decision, kept, seen, denied, wentOn, answers>>

---------------------------------------------------------------------------
(* The schema and the edges, read as rules of inference *)

EdgeTerm(x) == x.kind \in {"relation", "arrow"}
Memoised(x) == x.kind \in {"relation", "arrow", "rule"}

(* rule looks its body up; a type without the rule has nothing to try. *)
Parts(n, x) ==
    IF x.kind # "rule" THEN x.parts
    ELSE IF Rule[TypeOf[n]][x.name] = NoRule THEN <<>>
    ELSE <<Rule[TypeOf[n]][x.name]>>

IsUserset(e) == e.via # NoName

(* The node's own rows, and those of its type's star node where the relation
   admits that. *)
OwnEdges(E, n, r) == {e \in E : e.object = n /\ e.relation = r}
StarRead(n, r) == n \notin Star /\ r \in ObjectStar
StarEdges(E, n, r) ==
    {e \in E : e.object \in Star /\ TypeOf[e.object] = TypeOf[n] /\ e.relation = r}
EdgesFor(E, n, r) ==
    OwnEdges(E, n, r) \cup IF StarRead(n, r) THEN StarEdges(E, n, r) ELSE {}

MatchesSubject(u, n, r) ==
    \/ n = u
    \/ n \in Star /\ r \in SubjectStar /\ TypeOf[n] = TypeOf[u]

(* The far end of an arrow answers its rule if its type has one. *)
Far(n, target) ==
    IF Rule[TypeOf[n]][target] # NoRule THEN RuleTerm(target) ELSE RelationTerm(target)

(* Following e from x matches the caller u there and then ... *)
Hits(u, x, e) == x.kind = "relation" /\ ~IsUserset(e) /\ MatchesSubject(u, e.subject, x.name)

(* ... or leads to a further goal. *)
Beyond(x, e) ==
    IF x.kind = "arrow" THEN {<<e.subject, Far(e.subject, x.target)>>}
    ELSE IF IsUserset(e) THEN {<<e.subject, RelationTerm(e.via)>>}
    ELSE IF x.name \in Transitive THEN {<<e.subject, x>>}
    ELSE {}

(* For caller u, g follows in one step from the goals in I and the edges E.  Of
   a subtraction only the base counts, so this is what might be reached. *)
Follows(u, I, E, g) ==
    LET n == g[1]
        x == g[2]
        parts == Parts(n, x)
        part(i) == <<n, parts[i]>> \in I
    IN  \/ /\ EdgeTerm(x) /\ x.name \in Declared
           /\ \E e \in EdgesFor(E, n, x.name) :
                e.active /\ (Hits(u, x, e) \/ Beyond(x, e) \cap I # {})
        \/ x.kind \in {"rule", "union"} /\ \E i \in DOMAIN parts : part(i)
        \/ x.kind = "intersect" /\ \A i \in DOMAIN parts : part(i)
        \/ x.kind = "exclude" /\ part(1)

(* I holds all that follows from it: what is reached is in every such I. *)
Closed(u, I, E) == \A g \in Goal : Follows(u, I, E, g) => g \in I

Reached(u, E, g) == \A I \in Interpretation(u, E) : Closed(u, I, E) => g \in I

Body(r, a) == <<r.resource, Rule[TypeOf[r.resource]][a]>>
Ruled(r) == {a \in Name : Rule[TypeOf[r.resource]][a] # NoRule}

---------------------------------------------------------------------------
(* The walk *)

Frame ==
    [node : Node, term : Expr, depth : 0 .. MaxDepth + 1,
     at : {"enter", "own", "star", "ready", "wait"},    \* wait: for what it asked
     edges : SUBSET Edge,   \* listed and not yet followed
     part : Nat,            \* which of its parts it asked last
     asked : Goal]          \* what it asked last

Call(g, d) ==
    [node |-> g[1], term |-> g[2], depth |-> d, at |-> "enter",
     edges |-> {}, part |-> 0, asked |-> g]

GoalOf(f) == <<f.node, f.term>>

Top == stack[Len(stack)]
Below == SubSeq(stack, 1, Len(stack) - 1)

(* The innermost call is running, at the given point. *)
Running(at) == stack # <<>> /\ ret = "none" /\ Top.at = at

Becomes(f) ==
    /\ stack' = [stack EXCEPT ![Len(stack)] = f]
    /\ UNCHANGED <<request, phase, left, ret, excluded, decision, answers>>

Asks(f, g, d) ==
    /\ stack' = Append([stack EXCEPT ![Len(stack)] = [f EXCEPT !.at = "wait", !.asked = g]],
                       Call(g, d))
    /\ UNCHANGED <<request, phase, left, ret, excluded, decision, answers>>

(* memo, around the call that now returns. *)
Returns(f, answer) ==
    /\ stack' = Below
    /\ ret' = answer
    /\ open' = open \ {GoalOf(f)}
    /\ dead' = IF answer = "no" /\ Memoised(f.term) THEN dead \cup {GoalOf(f)} ELSE dead
    /\ denied' = IF answer = "no" THEN denied \cup {GoalOf(f)} ELSE denied
    /\ UNCHANGED <<request, phase, left, decision, answers>>

NoWrite == UNCHANGED <<edges, writes, kept, seen>>
SameMemo == UNCHANGED <<open, dead, denied>>

(* satisfies and memo, up to what the kind of term does. *)
TooDeep(f) == f.depth > MaxDepth
KnownDead(g) == g \in dead    \* mutant: terms in progress are walked again
Known(g) == g \in open \cup dead

Enter ==
    /\ Running("enter")
    /\ ~TooDeep(Top)
    /\ ~(Memoised(Top.term) /\ Known(GoalOf(Top)))
    /\ open' = IF Memoised(Top.term) THEN open \cup {GoalOf(Top)} ELSE open
    /\ Becomes([Top EXCEPT !.at =
            IF EdgeTerm(Top.term) /\ Top.term.name \in Declared THEN "own" ELSE "ready"])
    /\ UNCHANGED <<dead, denied, wentOn>>
    /\ NoWrite

(* Met again while it is walked, or refuted before. *)
MeetsAgain ==
    /\ Running("enter")
    /\ ~TooDeep(Top)
    /\ Memoised(Top.term) /\ Known(GoalOf(Top))
    /\ stack' = Below
    /\ ret' = "no"
    /\ UNCHANGED <<request, phase, left, excluded, decision, answers, wentOn>>
    /\ SameMemo
    /\ NoWrite

(* edgesFor: the node's own rows, then, in a second query, the star node's. *)
ReadOwn ==
    /\ Running("own")
    /\ LET f == Top IN
        Becomes([f EXCEPT !.edges = OwnEdges(edges, f.node, f.term.name),
                          !.at = IF StarRead(f.node, f.term.name) THEN "star" ELSE "ready"])
    /\ SameMemo /\ UNCHANGED wentOn
    /\ NoWrite

ReadStar ==
    /\ Running("star")
    /\ LET f == Top IN
        Becomes([f EXCEPT !.edges = @ \cup StarEdges(edges, f.node, f.term.name),
                          !.at = "ready"])
    /\ SameMemo /\ UNCHANGED wentOn
    /\ NoWrite

(* The loops of relation and arrow: own edges first, otherwise in any order. *)
NextEdges(f) ==
    LET own == {e \in f.edges : e.object = f.node}
    IN  IF own # {} THEN own ELSE f.edges

NeverExpired(e) == FALSE    \* mutant: the expiry is not looked at
Expired(e) == ~e.active

FollowEdge ==
    /\ Running("ready")
    /\ EdgeTerm(Top.term)
    /\ \E e \in NextEdges(Top) :
        LET f == [Top EXCEPT !.edges = @ \ {e}]
            skipped == Expired(e) \/ (~Hits(request.subject, f.term, e) /\ Beyond(f.term, e) = {})
        IN  \/ /\ skipped
               /\ Becomes(f)
               /\ SameMemo
            \/ /\ ~skipped /\ Hits(request.subject, f.term, e)
               /\ Returns(f, "yes")
               /\ UNCHANGED excluded
            \/ /\ ~skipped /\ ~Hits(request.subject, f.term, e)
               /\ \E g \in Beyond(f.term, e) : Asks(f, g, f.depth + 1)
               /\ SameMemo
    /\ UNCHANGED wentOn
    /\ NoWrite

(* rule, and the cases of satisfies for composed terms: the next part. *)
AskPart ==
    /\ Running("ready")
    /\ ~EdgeTerm(Top.term)
    /\ LET f == Top
           parts == Parts(f.node, f.term)
       IN  /\ f.part < Len(parts)
           /\ Asks([f EXCEPT !.part = @ + 1], <<f.node, parts[f.part + 1]>>, f.depth)
    /\ SameMemo /\ UNCHANGED wentOn
    /\ NoWrite

(* The loop is over. *)
Exhausted ==
    /\ Running("ready")
    /\ LET f == Top IN
        /\ IF EdgeTerm(f.term) THEN f.edges = {} ELSE f.part = Len(Parts(f.node, f.term))
        /\ Returns(f, IF f.term.kind = "intersect" THEN "yes" ELSE "no")
    /\ UNCHANGED <<excluded, wentOn>>
    /\ NoWrite

(* mutant: the first thing asked decides *)
FirstVerdict(f, answer) == answer

(* What a call makes of the answer to what it asked: its own, or none yet. *)
Verdict(f, answer) ==
    CASE f.term.kind = "intersect" ->
            IF answer = "no" THEN "no"
            ELSE IF f.part = Len(f.term.parts) THEN "yes" ELSE "none"
      [] f.term.kind = "exclude" ->
            IF f.part = 1 THEN IF answer = "no" THEN "no" ELSE "none"
            ELSE IF answer = "yes" THEN "no" ELSE "yes"
      [] OTHER -> IF answer = "yes" THEN "yes" ELSE "none"

Removed(f) == f.term.kind = "exclude" /\ f.part = 2 /\ ret = "yes"

Resume ==
    /\ stack # <<>> /\ ret # "none"
    /\ Verdict(Top, ret) # "none"
    /\ Returns(Top, Verdict(Top, ret))
    /\ excluded' = (excluded \/ Removed(Top))
    /\ UNCHANGED wentOn
    /\ NoWrite

GoOn ==
    /\ stack # <<>> /\ ret # "none"
    /\ Verdict(Top, ret) = "none"
    /\ stack' = [stack EXCEPT ![Len(stack)].at = "ready"]
    /\ ret' = "none"
    /\ wentOn' = (wentOn \/ ret = "yes")
    /\ UNCHANGED <<request, phase, left, excluded, decision, answers>>
    /\ SameMemo
    /\ NoWrite

---------------------------------------------------------------------------
(* Check and reachesAtAll *)

Ask ==
    /\ phase = "idle"
    /\ \E r \in Request :
        /\ request' = r
        /\ left' = {r.action} \cap Ruled(r)
    /\ phase' = "check"
    /\ ret' = "no"
    /\ excluded' = FALSE
    /\ decision' = "none"
    /\ kept' = edges /\ seen' = edges
    /\ denied' = {} /\ wentOn' = FALSE
    /\ UNCHANGED <<edges, writes, stack, open, dead, answers>>

(* newRun: an empty memo for each rule that is tried. *)
StartRun ==
    /\ phase # "idle" /\ stack = <<>> /\ ret = "no"
    /\ \E a \in left :
        /\ left' = left \ {a}
        /\ stack' = <<Call(Body(request, a), 0)>>
    /\ ret' = "none"
    /\ open' = {} /\ dead' = {}
    /\ excluded' = FALSE
    /\ UNCHANGED <<request, phase, decision, answers, denied, wentOn>>
    /\ NoWrite

(* The asked action is not granted: is any other?  The code tries them sorted;
   only whether one matches is used. *)
TryOthers ==
    /\ phase = "check" /\ stack = <<>> /\ ret = "no" /\ left = {} /\ ~excluded
    /\ phase' = "others"
    /\ left' = Ruled(request) \ {request.action}
    /\ UNCHANGED <<request, stack, ret, excluded, decision, answers, wentOn>>
    /\ SameMemo
    /\ NoWrite

Decides(d) ==
    /\ decision' = d
    /\ phase' = "idle"
    /\ answers' =
        IF kept = seen
        THEN answers \cup {[request |-> request, decision |-> d, wentOn |-> wentOn]}
        ELSE answers
    /\ stack' = <<>> /\ ret' = "none" /\ left' = {}
    /\ open' = {} /\ dead' = {} /\ excluded' = FALSE
    /\ UNCHANGED <<request, denied, wentOn>>
    /\ NoWrite

Decide ==
    /\ phase # "idle" /\ stack = <<>>
    /\ \/ ret = "yes" /\ Decides(IF phase = "check" THEN "allowed" ELSE "no_rule")
       \/ ret = "no" /\ left = {} /\ phase = "check" /\ excluded /\ Decides("excluded")
       \/ ret = "no" /\ left = {} /\ phase = "others" /\ Decides("unreachable")

(* ErrDepthExceeded ends the whole check. *)
Fail ==
    /\ Running("enter")
    /\ TooDeep(Top)
    /\ Decides("error")

---------------------------------------------------------------------------
(* The store, written by other requests *)

SameFact(e, d) ==
    /\ e.object = d.object /\ e.relation = d.relation
    /\ e.subject = d.subject /\ e.via = d.via

Stores(E) ==
    /\ writes < MaxWrites
    /\ E # edges
    /\ edges' = E
    /\ writes' = writes + 1
    /\ kept' = IF phase = "idle" THEN kept ELSE kept \cap E
    /\ seen' = IF phase = "idle" THEN seen ELSE seen \cup E
    /\ answers' = {}
    /\ UNCHANGED <<request, phase, left, stack, ret, open, dead, excluded, decision,
                   denied, wentOn>>

(* Write replaces the row of the same fact, whose expiry may differ. *)
WriteEdge == \E e \in Edge : Stores({d \in edges : ~SameFact(d, e)} \cup {e})

DeleteEdge == \E e \in edges : Stores(edges \ {e})

---------------------------------------------------------------------------
Init ==
    /\ edges \in Start
    /\ writes = 0
    /\ request \in Request
    /\ phase = "idle"
    /\ left = {} /\ stack = <<>> /\ ret = "none"
    /\ open = {} /\ dead = {} /\ excluded = FALSE
    /\ decision = "none"
    /\ kept = edges /\ seen = edges
    /\ denied = {} /\ wentOn = FALSE
    /\ answers = {}

Walk ==
    \/ Enter \/ MeetsAgain \/ ReadOwn \/ ReadStar \/ FollowEdge \/ AskPart
    \/ Exhausted \/ Resume \/ GoOn

Next == Ask \/ StartRun \/ TryOthers \/ Decide \/ Fail \/ Walk \/ WriteEdge \/ DeleteEdge

Spec == Init /\ [][Next]_vars

---------------------------------------------------------------------------
(* Properties *)

TypeOK ==
    /\ edges \subseteq Edge
    /\ writes \in 0 .. MaxWrites
    /\ request \in Request
    /\ phase \in {"idle", "check", "others"}
    /\ left \subseteq Name
    /\ stack \in Seq(Frame)
    /\ ret \in {"none", "yes", "no"}
    /\ open \subseteq Goal /\ dead \subseteq Goal
    /\ excluded \in BOOLEAN
    /\ decision \in {"none", "allowed", "no_rule", "excluded", "unreachable", "error"}
    /\ kept \subseteq Edge /\ seen \subseteq Edge
    /\ denied \subseteq Goal
    /\ wentOn \in BOOLEAN
    /\ answers \subseteq [request : Request, wentOn : BOOLEAN,
                       decision : {"allowed", "no_rule", "excluded", "unreachable", "error"}]

(* Nobody is let in without a path of edges that were there at some time during
   the request, whatever is written meanwhile; and nobody is told that a
   resource exists (403, no_rule) who reaches it under no rule at all. *)
AllowedHasAPath ==
    LET reached(a) == Reached(request.subject, seen, Body(request, a)) IN
    /\ decision = "allowed" => request.action \in Ruled(request) /\ reached(request.action)
    /\ decision = "no_rule" => \E a \in Ruled(request) \ {request.action} : reached(a)

(* Whenever the walks made so far have all come back with no, and none of them
   went on after something in it had matched, the goals they refuted really
   are out of reach of the edges that were there throughout: the memo that
   answers no for a term in progress has hidden nothing. *)
DenialsAreExact ==
    /\ ~wentOn /\ stack = <<>>
    /\ \/ phase = "others" /\ ret = "no"
       \/ decision = "unreachable"
    =>  /\ Closed(request.subject, Goal \ denied, kept)
        /\ {Body(request, a) : a \in ({request.action} \cap Ruled(request))} \subseteq denied
        /\ {Body(request, a) : a \in Ruled(request) \ left} \subseteq denied

(* Depth is only ever exhausted by a path over that many different goals: a
   loop in the data ends a branch of the walk, it does not fail the check. *)
LoopsNeverExhaustDepth ==
    Running("enter") /\ TooDeep(Top) =>
        Cardinality({GoalOf(stack[i]) : i \in {j \in 1 .. Len(stack) - 1 :
                                                EdgeTerm(stack[j].term)}}) > MaxDepth

(* The same question about the same edges gets the same answer whatever order
   they are listed in, when no walk went on after a match (which only an
   intersection or a subtraction makes it do: then a term that failed only
   because another was still in progress stays marked, and the order counts). *)
SameAnswerInAnyOrder ==
    \A a, b \in answers :
        /\ a.request = b.request /\ ~a.wentOn /\ ~b.wentOn
        /\ "error" \notin {a.decision, b.decision}
        => a.decision = b.decision
=============================================================================
