-------------------------- MODULE ReachWalkProofs --------------------------
(***************************************************************************)
(* Theorems about ReachWalk: the types, AllowedHasAPath, DenialsAreExact,  *)
(* SameAnswerInAnyOrder and LoopsNeverExhaustDepth, for every schema,      *)
(* graph, depth and interleaving of walks with writes.                     *)
(***************************************************************************)
EXTENDS ReachWalk, SequenceTheorems, FiniteSetTheorems, TLAPS

Mixed(x) == x.kind \in {"intersect", "exclude"}
PartOf(f, i) == <<f.node, Parts(f.node, f.term)[i]>>

---------------------------------------------------------------------------
(* The call stack *)

(* A call and where it has got to; w: has the request gone on after a match? *)
WellFormed(w, f) ==
    /\ f.at # "enter" => f.depth <= MaxDepth
    /\ f.at = "enter" => f.part = 0
    /\ f.at \in {"own", "star"} => EdgeTerm(f.term)
    /\ EdgeTerm(f.term) /\ f.at \in {"own", "star", "wait"} => f.term.name \in Declared
    /\ EdgeTerm(f.term) /\ f.edges # {} => f.term.name \in Declared
    /\ f.at = "star" => StarRead(f.node, f.term.name)
    /\ ~EdgeTerm(f.term) => f.part <= Len(Parts(f.node, f.term))
    /\ ~EdgeTerm(f.term) /\ f.at = "wait" => f.part >= 1 /\ f.asked = PartOf(f, f.part)
    /\ Mixed(f.term) /\ (f.part >= 2 \/ (f.at = "ready" /\ f.part >= 1)) => w

(* Each call waits for the next, the innermost for the answer in ret. *)
Chain ==
    /\ \A i \in 1 .. Len(stack) : WellFormed(wentOn, stack[i])
    /\ \A i \in 1 .. Len(stack) - 1 :
        stack[i].at = "wait" /\ stack[i].asked = GoalOf(stack[i + 1])
    /\ stack # <<>> => (stack[Len(stack)].at = "wait" <=> ret # "none")

Phases ==
    /\ phase = "idle" => stack = <<>>
    /\ left \subseteq Ruled(request)
    /\ phase = "check" => left \subseteq {request.action}
    /\ phase = "others" => request.action \notin left
    /\ phase # "idle" => decision = "none" /\ kept \subseteq edges /\ edges \subseteq seen

---------------------------------------------------------------------------
(* What was answered yes *)

(* For caller u, g is in every set of goals closed under the edges E. *)
Derivable(u, E, g) == \A I : Closed(u, I, E) => g \in I

(* If what f asked is derivable then so is f's goal, or f asks the rest. *)
Grounded(u, E, f) ==
    /\ EdgeTerm(f.term) => f.edges \subseteq EdgesFor(E, f.node, f.term.name)
    /\ EdgeTerm(f.term) /\ f.at = "wait" =>
        \E e \in EdgesFor(E, f.node, f.term.name) : e.active /\ f.asked \in Beyond(f.term, e)
    /\ Mixed(f.term) => \A i \in 1 .. f.part :
        (i < f.part \/ f.at = "ready") => Derivable(u, E, PartOf(f, i))

(* The actions that the walk under way, or just over, may be about. *)
Tried == {a \in Ruled(request) : phase = "check" <=> a = request.action}

Justified ==
    LET derivable(g) == Derivable(request.subject, seen, g) IN
    /\ decision = "allowed" =>
        request.action \in Ruled(request) /\ derivable(Body(request, request.action))
    /\ decision = "no_rule" =>
        \E a \in Ruled(request) \ {request.action} : derivable(Body(request, a))

Sound ==
    LET derivable(g) == Derivable(request.subject, seen, g) IN
    /\ \A i \in 1 .. Len(stack) : Grounded(request.subject, seen, stack[i])
    /\ stack # <<>> => \E a \in Tried : GoalOf(stack[1]) = Body(request, a)
    /\ ret = "yes" /\ stack # <<>> => derivable(stack[Len(stack)].asked)
    /\ ret = "yes" /\ stack = <<>> /\ phase # "idle" =>
        \E a \in Tried : derivable(Body(request, a))
    /\ Justified

---------------------------------------------------------------------------
(* What was answered no *)

(* Goals refuted, or refuted unless the call that is at them says otherwise. *)
Doubted == denied \cup {GoalOf(stack[i]) : i \in {j \in 1 .. Len(stack) : stack[j].at # "enter"}}

(* Given K and that the goals D are out of reach, what f has left behind could
   not have given it a yes. *)
Refuting(u, K, D, f) ==
    /\ EdgeTerm(f.term) /\ f.at = "star" =>
        OwnEdges(K, f.node, f.term.name) \subseteq f.edges
    /\ EdgeTerm(f.term) /\ f.term.name \in Declared /\ f.at \in {"ready", "wait"} =>
        \A e \in EdgesFor(K, f.node, f.term.name) : e.active /\ e \notin f.edges =>
            /\ ~Hits(u, f.term, e)
            /\ Beyond(f.term, e) \subseteq D \cup (IF f.at = "wait" THEN {f.asked} ELSE {})
    /\ f.term.kind \in {"rule", "union"} => \A i \in 1 .. f.part :
        (i < f.part \/ f.at = "ready") => PartOf(f, i) \in D

Exact ==
    /\ \A g \in denied : ~Follows(request.subject, Goal \ Doubted, kept, g)
    /\ \A i \in 1 .. Len(stack) : Refuting(request.subject, kept, Doubted, stack[i])
    /\ open \cup dead \subseteq Doubted
    /\ ret = "no" /\ stack # <<>> => stack[Len(stack)].asked \in Doubted
    /\ \A a \in Ruled(request) \ left :
        \/ phase = "check" /\ a # request.action
        \/ Body(request, a) \in denied
        \/ stack # <<>> /\ Body(request, a) = GoalOf(stack[1])

Complete ==
    /\ phase = "idle" => open = {} /\ dead = {}
    /\ phase # "idle" /\ ~wentOn /\ ret # "yes" => Exact
    /\ decision = "unreachable" /\ ~wentOn => DenialsAreExact

---------------------------------------------------------------------------
(* Facts about the schema and about stacks *)

USE NameAssumption, BoundAssumption

LEMMA PartsTyped ==
  ASSUME NEW n \in Node, NEW x \in Expr
  PROVE Parts(n, x) \in Seq(Expr)
<1>1. x.parts \in Seq(Expr) /\ (x.kind = "rule" => x.name \in Name)
  BY ExprAssumption DEF Terms
<1>2. TypeOf[n] \in Type
  BY NodeAssumption
<1>3. x.kind = "rule" => Rule[TypeOf[n]][x.name] \in Expr \cup {NoRule}
  BY <1>1, <1>2, RuleAssumption
<1> QED BY <1>1, <1>3 DEF Parts

LEMMA FarTyped ==
  ASSUME NEW n \in Node, NEW t \in Name
  PROVE Far(n, t) \in Expr
BY ExprAssumption DEF Far

LEMMA BeyondTyped ==
  ASSUME NEW x \in Expr, EdgeTerm(x), NEW e \in Edge
  PROVE Beyond(x, e) \subseteq Goal
<1>1. e.subject \in Node /\ e.via \in Name \cup {NoName}
  BY EdgeAssumption
<1>2. x.kind = "arrow" => x.target \in Name
  BY ExprAssumption
<1>3. IsUserset(e) => RelationTerm(e.via) \in Expr
  BY <1>1, ExprAssumption DEF IsUserset
<1>4. x.kind = "arrow" => Far(e.subject, x.target) \in Expr
  BY <1>1, <1>2, FarTyped
<1> QED BY <1>1, <1>3, <1>4 DEF Beyond, Goal

LEMMA BodyTyped ==
  ASSUME NEW r \in Request, NEW a \in Ruled(r)
  PROVE Body(r, a) \in Goal
<1>1. r.resource \in Node
  BY RequestAssumption
<1>2. TypeOf[r.resource] \in Type
  BY <1>1, NodeAssumption
<1>3. a \in Name /\ Rule[TypeOf[r.resource]][a] # NoRule
  BY DEF Ruled
<1> QED BY <1>1, <1>2, <1>3, RuleAssumption DEF Body, Goal

LEMMA FrameFields ==
  ASSUME NEW f \in Frame
  PROVE /\ f.node \in Node /\ f.term \in Expr /\ GoalOf(f) \in Goal
        /\ f.depth \in 0 .. MaxDepth + 1 /\ f.edges \in SUBSET Edge
        /\ f.part \in Nat /\ f.asked \in Goal
        /\ f.at \in {"enter", "own", "star", "ready", "wait"}
BY DEF Frame, GoalOf, Goal

LEMMA CallTyped ==
  ASSUME NEW g \in Goal, NEW d \in 0 .. MaxDepth + 1
  PROVE /\ Call(g, d) \in Frame
        /\ Call(g, d).node = g[1] /\ Call(g, d).term = g[2] /\ GoalOf(Call(g, d)) = g
        /\ Call(g, d).at = "enter" /\ Call(g, d).part = 0 /\ Call(g, d).edges = {}
<1>1. g[1] \in Node /\ g[2] \in Expr /\ g = <<g[1], g[2]>>
  BY DEF Goal
<1> QED BY <1>1 DEF Call, Frame, GoalOf

(* What the three ways to change a stack do to it. *)
LEMMA Replacing ==
  ASSUME NEW s \in Seq(Frame), s # <<>>, NEW f \in Frame, NEW t,
         t = [s EXCEPT ![Len(s)] = f]
  PROVE /\ t \in Seq(Frame) /\ Len(t) = Len(s) /\ t # <<>>
        /\ \A i \in 1 .. Len(s) - 1 : t[i] = s[i]
        /\ t[Len(s)] = f
OBVIOUS

LEMMA Pushing ==
  ASSUME NEW s \in Seq(Frame), s # <<>>, NEW f \in Frame, NEW c \in Frame, NEW t,
         t = Append([s EXCEPT ![Len(s)] = f], c)
  PROVE /\ t \in Seq(Frame) /\ Len(t) = Len(s) + 1 /\ t # <<>>
        /\ \A i \in 1 .. Len(s) - 1 : t[i] = s[i]
        /\ t[Len(s)] = f /\ t[Len(s) + 1] = c
<1> DEFINE u == [s EXCEPT ![Len(s)] = f]
<1>1. /\ u \in Seq(Frame) /\ Len(u) = Len(s)
      /\ \A i \in 1 .. Len(s) - 1 : u[i] = s[i]
      /\ u[Len(s)] = f
  BY Replacing
<1> HIDE DEF u
<1>2. t = Append(u, c)
  BY DEF u
<1> QED BY <1>1, <1>2

LEMMA Popping ==
  ASSUME NEW s \in Seq(Frame), s # <<>>, NEW t, t = SubSeq(s, 1, Len(s) - 1)
  PROVE /\ t \in Seq(Frame) /\ Len(t) = Len(s) - 1
        /\ \A i \in 1 .. Len(s) - 1 : t[i] = s[i]
<1> DEFINE n == Len(s) - 1
<1>1. n \in Nat /\ \A i \in 1 .. n : s[i] \in Frame
  OBVIOUS
<1>2. /\ SubSeq(s, 1, n) \in Seq(Frame)
      /\ Len(SubSeq(s, 1, n)) = IF 1 <= n THEN n - 1 + 1 ELSE 0
      /\ \A i \in 1 .. n - 1 + 1 : SubSeq(s, 1, n)[i] = s[1 + i - 1]
  <2> HIDE DEF n
  <2> QED BY <1>1, SubSeqProperties
<1>3. Len(SubSeq(s, 1, n)) = n
  <2> HIDE DEF n
  <2> QED BY <1>1, <1>2
<1>4. \A i \in 1 .. n : i \in 1 .. n - 1 + 1 /\ 1 + i - 1 = i
  <2> HIDE DEF n
  <2> QED BY <1>1
<1>5. \A i \in 1 .. n : SubSeq(s, 1, n)[i] = s[i]
  <2> HIDE DEF n
  <2> QED BY <1>2, <1>4
<1> QED BY <1>2, <1>3, <1>5

LEMMA TopTyped ==
  ASSUME TypeOK, stack # <<>>
  PROVE /\ Len(stack) \in Nat \ {0} /\ Top \in Frame /\ Top = stack[Len(stack)]
        /\ \A i \in 1 .. Len(stack) : stack[i] \in Frame
BY DEF TypeOK, Top

---------------------------------------------------------------------------
(* The steps, by what they do to the stack *)

Replaced(f) ==
    /\ stack # <<>> /\ stack' # <<>>
    /\ stack' \in Seq(Frame) /\ Len(stack') = Len(stack)
    /\ \A i \in 1 .. Len(stack) - 1 : stack'[i] = stack[i]
    /\ stack'[Len(stack)] = f

Pushed(f, c) ==
    /\ stack # <<>> /\ stack' # <<>>
    /\ stack' \in Seq(Frame) /\ Len(stack') = Len(stack) + 1
    /\ \A i \in 1 .. Len(stack) - 1 : stack'[i] = stack[i]
    /\ stack'[Len(stack)] = f /\ stack'[Len(stack) + 1] = c

Popped ==
    /\ stack # <<>>
    /\ stack' \in Seq(Frame) /\ Len(stack') = Len(stack) - 1
    /\ \A i \in 1 .. Len(stack) - 1 : stack'[i] = stack[i]

LEMMA Shapes ==
  ASSUME TypeOK, stack # <<>>
  PROVE /\ \A f \in Frame : Becomes(f) => Replaced(f)
        /\ \A f \in Frame, g \in Goal, d \in 0 .. MaxDepth + 1 :
              Asks(f, g, d) => Pushed([f EXCEPT !.at = "wait", !.asked = g], Call(g, d))
        /\ stack' = Below => Popped
<1>0. stack \in Seq(Frame)
  BY DEF TypeOK
<1>1. ASSUME NEW f \in Frame, Becomes(f)
      PROVE Replaced(f)
  BY <1>0, <1>1, Replacing DEF Becomes, Replaced
<1>2. ASSUME NEW f \in Frame, NEW g \in Goal, NEW d \in 0 .. MaxDepth + 1, Asks(f, g, d)
      PROVE Pushed([f EXCEPT !.at = "wait", !.asked = g], Call(g, d))
  <2> DEFINE h == [f EXCEPT !.at = "wait", !.asked = g]
  <2>1. h \in Frame
    BY DEF Frame
  <2>2. Call(g, d) \in Frame
    BY CallTyped
  <2>3. stack' = Append([stack EXCEPT ![Len(stack)] = h], Call(g, d))
    BY <1>2 DEF Asks
  <2> HIDE DEF h
  <2>4. Pushed(h, Call(g, d))
    BY <1>0, <2>1, <2>2, <2>3, Pushing DEF Pushed
  <2> QED BY <2>4 DEF h
<1>3. stack' = Below => Popped
  BY <1>0, Popping DEF Below, Popped
<1> QED BY <1>1, <1>2, <1>3

LEMMA LenFact == ASSUME stack \in Seq(Frame), stack # <<>> PROVE Len(stack) \in Nat \ {0}
OBVIOUS

LEMMA OneOrMore == \A n \in Nat \ {0} : n = 1 \/ 1 \in 1 .. n - 1
OBVIOUS

LEMMA Waiting ==
  ASSUME NEW v, NEW w, v => w, NEW f, WellFormed(v, f)
  PROVE WellFormed(w, f)
BY DEF WellFormed

LEMMA ChainReplaced ==
  ASSUME TypeOK, Chain, NEW f \in Frame, Replaced(f), wentOn => wentOn',
         WellFormed(wentOn', f), GoalOf(f) = GoalOf(stack[Len(stack)]),
         f.at = "wait" <=> ret' # "none"
  PROVE Chain'
<1>0. stack \in Seq(Frame) /\ Len(stack) \in Nat \ {0} /\ Len(stack') = Len(stack)
  BY LenFact DEF TypeOK, Replaced
<1>1. \A i \in 1 .. Len(stack') : WellFormed(wentOn', stack'[i])
  <2> TAKE i \in 1 .. Len(stack')
  <2>1. CASE i = Len(stack)
    BY <2>1 DEF Replaced
  <2>2. CASE i # Len(stack)
    <3>1. i \in 1 .. Len(stack) - 1 /\ i \in 1 .. Len(stack)
      BY <1>0, <2>2
    <3>2. stack'[i] = stack[i]
      BY <3>1 DEF Replaced
    <3> QED BY <3>1, <3>2, Waiting DEF Chain
  <2> QED BY <2>1, <2>2
<1>2. \A i \in 1 .. Len(stack') - 1 :
        stack'[i].at = "wait" /\ stack'[i].asked = GoalOf(stack'[i + 1])
  <2> TAKE i \in 1 .. Len(stack') - 1
  <2>1. /\ i \in 1 .. Len(stack) - 1 /\ stack'[i] = stack[i]
        /\ i + 1 \in 1 .. Len(stack) - 1 \/ i + 1 = Len(stack)
    BY <1>0 DEF Replaced
  <2>2. GoalOf(stack'[i + 1]) = GoalOf(stack[i + 1])
    BY <2>1 DEF Replaced
  <2> QED BY <2>1, <2>2 DEF Chain
<1> QED BY <1>0, <1>1, <1>2 DEF Chain, Replaced

LEMMA ChainPushed ==
  ASSUME TypeOK, Chain, NEW f \in Frame, NEW c \in Frame, Pushed(f, c), wentOn => wentOn',
         WellFormed(wentOn', f), GoalOf(f) = GoalOf(stack[Len(stack)]),
         f.at = "wait", f.asked = GoalOf(c), WellFormed(wentOn', c), c.at = "enter",
         ret' = "none"
  PROVE Chain'
<1>0. stack \in Seq(Frame) /\ Len(stack) \in Nat \ {0} /\ Len(stack') = Len(stack) + 1
  BY LenFact DEF TypeOK, Pushed
<1>1. \A i \in 1 .. Len(stack') : WellFormed(wentOn', stack'[i])
  <2> TAKE i \in 1 .. Len(stack')
  <2>1. CASE i \in {Len(stack), Len(stack) + 1}
    BY <2>1 DEF Pushed
  <2>2. CASE i \notin {Len(stack), Len(stack) + 1}
    <3>1. i \in 1 .. Len(stack) - 1 /\ i \in 1 .. Len(stack)
      BY <1>0, <2>2
    <3>2. stack'[i] = stack[i]
      BY <3>1 DEF Pushed
    <3> QED BY <3>1, <3>2, Waiting DEF Chain
  <2> QED BY <2>1, <2>2
<1>2. \A i \in 1 .. Len(stack') - 1 :
        stack'[i].at = "wait" /\ stack'[i].asked = GoalOf(stack'[i + 1])
  <2> TAKE i \in 1 .. Len(stack') - 1
  <2>1. CASE i = Len(stack)
    BY <2>1 DEF Pushed
  <2>2. CASE i # Len(stack)
    <3>1. /\ i \in 1 .. Len(stack) - 1 /\ stack'[i] = stack[i]
          /\ i + 1 \in 1 .. Len(stack) - 1 \/ i + 1 = Len(stack)
      BY <1>0, <2>2 DEF Pushed
    <3>2. GoalOf(stack'[i + 1]) = GoalOf(stack[i + 1])
      BY <3>1 DEF Pushed
    <3> QED BY <3>1, <3>2 DEF Chain
  <2> QED BY <2>1, <2>2
<1> QED BY <1>0, <1>1, <1>2 DEF Chain, Pushed

LEMMA ChainPopped ==
  ASSUME TypeOK, Chain, Popped, wentOn => wentOn', ret' # "none"
  PROVE Chain'
<1>0. stack \in Seq(Frame) /\ Len(stack) \in Nat \ {0} /\ Len(stack') = Len(stack) - 1
  BY LenFact DEF TypeOK, Popped
<1>1. \A i \in 1 .. Len(stack') : WellFormed(wentOn', stack'[i]) /\ stack'[i].at = "wait"
  <2> TAKE i \in 1 .. Len(stack')
  <2>1. i \in 1 .. Len(stack) - 1 /\ i \in 1 .. Len(stack) /\ stack'[i] = stack[i]
    BY <1>0 DEF Popped
  <2> QED BY <2>1, Waiting DEF Chain
<1>2. \A i \in 1 .. Len(stack') - 1 : stack'[i].asked = GoalOf(stack'[i + 1])
  <2> TAKE i \in 1 .. Len(stack') - 1
  <2>1. /\ i \in 1 .. Len(stack) - 1 /\ stack'[i] = stack[i]
        /\ i + 1 \in 1 .. Len(stack) - 1 /\ stack'[i + 1] = stack[i + 1]
    BY <1>0 DEF Popped
  <2> QED BY <2>1 DEF Chain
<1>3. stack' # <<>> => Len(stack') \in 1 .. Len(stack')
  BY <1>0
<1>4. stack' # <<>> => stack'[Len(stack')].at = "wait"
  BY <1>1, <1>3
<1>5. \A i \in 1 .. Len(stack') - 1 : i \in 1 .. Len(stack')
  BY <1>0
<1> QED BY <1>1, <1>2, <1>4, <1>5 DEF Chain

---------------------------------------------------------------------------
(* Types, and the shape of the stack *)

Core == TypeOK /\ Chain /\ Phases

(* Where the stack is what changes. *)
LEMMA CoreWalk ==
  ASSUME Core, Chain', stack' \in Seq(Frame), phase # "idle", ret' \in {"none", "yes", "no"},
         open' \subseteq Goal, dead' \subseteq Goal, denied' \subseteq Goal,
         excluded' \in BOOLEAN, wentOn' \in BOOLEAN,
         UNCHANGED <<edges, writes, request, phase, left, decision, answers, kept, seen>>
  PROVE Core'
<1>1. TypeOK'
  BY DEF Core, TypeOK
<1>2. Phases'
  BY DEF Core, Phases, Ruled
<1> QED BY <1>1, <1>2 DEF Core

LEMMA InitCore == Init => Core
<1> SUFFICES ASSUME Init PROVE Core
  OBVIOUS
<1>1. TypeOK
  <2>1. edges \subseteq Edge /\ <<>> \in Seq(Frame) /\ 0 \in 0 .. MaxWrites
    BY StartAssumption DEF Init
  <2> QED BY <2>1 DEF Init, TypeOK
<1>2. Chain
  BY DEF Init, Chain
<1>3. Phases
  BY DEF Init, Phases
<1> QED BY <1>1, <1>2, <1>3 DEF Core

LEMMA RunningFacts ==
  ASSUME Core, stack # <<>>
  PROVE /\ stack \in Seq(Frame) /\ Len(stack) \in Nat \ {0} /\ Top = stack[Len(stack)]
        /\ Top \in Frame /\ WellFormed(wentOn, Top) /\ GoalOf(Top) \in Goal
        /\ Top.at = "wait" <=> ret # "none"
        /\ phase # "idle" /\ Len(stack) \in 1 .. Len(stack)
<1>1. /\ stack \in Seq(Frame) /\ Len(stack) \in Nat \ {0} /\ Top = stack[Len(stack)]
      /\ Top \in Frame /\ Len(stack) \in 1 .. Len(stack)
  BY TopTyped, LenFact DEF Core, TypeOK
<1> QED BY <1>1, FrameFields DEF Core, Chain, Phases

LEMMA EnterCore ==
  ASSUME Core, Enter
  PROVE Core'
<1> DEFINE at == IF EdgeTerm(Top.term) /\ Top.term.name \in Declared THEN "own" ELSE "ready"
           f == [Top EXCEPT !.at = at]
<1>0. stack # <<>>
  BY DEF Enter, Running
<1>1. Top \in Frame /\ Top = stack[Len(stack)] /\ GoalOf(Top) \in Goal
      /\ phase # "idle" /\ WellFormed(wentOn, Top)
  BY <1>0, RunningFacts
<1>2. f \in Frame /\ f.node = Top.node /\ f.term = Top.term /\ f.depth = Top.depth
      /\ f.part = Top.part /\ f.edges = Top.edges /\ f.at = at
  BY <1>1 DEF Frame
<1>3. Becomes(f)
  BY DEF Enter
<1>4. WellFormed(wentOn', f)
  <2>1. f.depth <= MaxDepth /\ f.part = 0
    BY <1>1, <1>2, FrameFields DEF Enter, TooDeep, WellFormed, Running
  <2>2. Parts(f.node, f.term) \in Seq(Expr)
    BY <1>2, FrameFields, PartsTyped
  <2> QED BY <1>1, <1>2, <2>1, <2>2 DEF WellFormed, Enter
<1> HIDE DEF f, at
<1>5. Replaced(f)
  BY <1>0, <1>2, <1>3, Shapes DEF Core
<1>6. f.at # "wait" /\ ret' = "none"
  BY <1>2, <1>3 DEF at, Enter, Running, Becomes
<1>7. Chain'
  BY <1>1, <1>2, <1>4, <1>5, <1>6, ChainReplaced DEF Core, Enter, GoalOf
<1>8. open' \subseteq Goal
  BY <1>1 DEF Core, TypeOK, Enter
<1> QED BY <1>1, <1>3, <1>5, <1>6, <1>7, <1>8, CoreWalk
     DEF Replaced, Becomes, Enter, NoWrite, Core, TypeOK

LEMMA MeetsAgainCore ==
  ASSUME Core, MeetsAgain
  PROVE Core'
<1>1. stack # <<>> /\ phase # "idle"
  BY RunningFacts DEF MeetsAgain, Running
<1>2. Popped
  BY <1>1, Shapes DEF Core, MeetsAgain
<1>3. Chain'
  BY <1>2, ChainPopped DEF Core, MeetsAgain
<1> QED BY <1>1, <1>2, <1>3, CoreWalk DEF Popped, MeetsAgain, NoWrite, SameMemo, Core, TypeOK

LEMMA ReadOwnCore ==
  ASSUME Core, ReadOwn
  PROVE Core'
<1> DEFINE E == OwnEdges(edges, Top.node, Top.term.name)
           at == IF StarRead(Top.node, Top.term.name) THEN "star" ELSE "ready"
           f == [Top EXCEPT !.edges = E, !.at = at]
<1>0. stack # <<>> /\ Top.at = "own" /\ ret = "none"
  BY DEF ReadOwn, Running
<1>1. Top \in Frame /\ Top = stack[Len(stack)] /\ phase # "idle" /\ WellFormed(wentOn, Top)
  BY <1>0, RunningFacts
<1>2. f \in Frame /\ f.node = Top.node /\ f.term = Top.term /\ f.depth = Top.depth
      /\ f.part = Top.part /\ f.edges = E /\ f.at = at
  BY <1>1 DEF Frame, Core, TypeOK, OwnEdges
<1>3. Becomes(f)
  BY DEF ReadOwn
<1>4. WellFormed(wentOn', f)
  BY <1>0, <1>1, <1>2 DEF WellFormed, ReadOwn, EdgeTerm, Mixed
<1> HIDE DEF f, E
<1>5. Replaced(f)
  BY <1>0, <1>2, <1>3, Shapes DEF Core
<1>6. f.at # "wait" /\ ret' = "none"
  BY <1>0, <1>2, <1>3 DEF Becomes
<1>7. Chain'
  BY <1>1, <1>2, <1>4, <1>5, <1>6, ChainReplaced DEF Core, ReadOwn, GoalOf
<1> QED BY <1>1, <1>3, <1>5, <1>6, <1>7, CoreWalk
     DEF Replaced, Becomes, ReadOwn, NoWrite, SameMemo, Core, TypeOK

LEMMA ReadStarCore ==
  ASSUME Core, ReadStar
  PROVE Core'
<1> DEFINE E == Top.edges \cup StarEdges(edges, Top.node, Top.term.name)
           f == [Top EXCEPT !.edges = E, !.at = "ready"]
<1>0. stack # <<>> /\ Top.at = "star" /\ ret = "none"
  BY DEF ReadStar, Running
<1>1. Top \in Frame /\ Top = stack[Len(stack)] /\ phase # "idle" /\ WellFormed(wentOn, Top)
  BY <1>0, RunningFacts
<1>2. f \in Frame /\ f.node = Top.node /\ f.term = Top.term /\ f.depth = Top.depth
      /\ f.part = Top.part /\ f.edges = E /\ f.at = "ready"
  BY <1>1 DEF Frame, Core, TypeOK, StarEdges
<1>3. Becomes(f)
  BY DEF ReadStar
<1>4. WellFormed(wentOn', f)
  BY <1>0, <1>1, <1>2 DEF WellFormed, ReadStar, EdgeTerm, Mixed
<1> HIDE DEF f, E
<1>5. Replaced(f)
  BY <1>0, <1>2, <1>3, Shapes DEF Core
<1>6. f.at # "wait" /\ ret' = "none"
  BY <1>0, <1>2, <1>3 DEF Becomes
<1>7. Chain'
  BY <1>1, <1>2, <1>4, <1>5, <1>6, ChainReplaced DEF Core, ReadStar, GoalOf
<1> QED BY <1>1, <1>3, <1>5, <1>6, <1>7, CoreWalk
     DEF Replaced, Becomes, ReadStar, NoWrite, SameMemo, Core, TypeOK

LEMMA ReturnsCore ==
  ASSUME Core, stack # <<>>, NEW f \in Frame, NEW answer \in {"yes", "no"}, Returns(f, answer),
         excluded' \in BOOLEAN, UNCHANGED wentOn, NoWrite
  PROVE Core' /\ Popped
<1>1. Popped
  BY Shapes DEF Core, Returns
<1>2. Chain'
  BY <1>1, ChainPopped DEF Core, Returns
<1>3. GoalOf(f) \in Goal /\ phase # "idle"
  BY FrameFields, RunningFacts
<1> QED BY <1>1, <1>2, <1>3, CoreWalk DEF Popped, Returns, NoWrite, Core, TypeOK

LEMMA AsksCore ==
  ASSUME Core, stack # <<>>, NEW f \in Frame, NEW g \in Goal, NEW d \in 0 .. MaxDepth + 1,
         Asks(f, g, d), SameMemo, UNCHANGED wentOn, NoWrite, ret = "none",
         GoalOf(f) = GoalOf(Top),
         WellFormed(wentOn, [f EXCEPT !.at = "wait", !.asked = g])
  PROVE /\ Core'
        /\ Pushed([f EXCEPT !.at = "wait", !.asked = g], Call(g, d))
<1> DEFINE h == [f EXCEPT !.at = "wait", !.asked = g]
<1>1. h \in Frame /\ h.at = "wait" /\ h.asked = g /\ h.node = f.node /\ h.term = f.term
  BY DEF Frame
<1>2. /\ Call(g, d) \in Frame /\ GoalOf(Call(g, d)) = g /\ Call(g, d).at = "enter"
      /\ Call(g, d).part = 0 /\ Call(g, d).edges = {} /\ Call(g, d).term \in Expr
      /\ Call(g, d).node \in Node
  BY CallTyped, FrameFields
<1>3. WellFormed(wentOn', Call(g, d))
  <2>1. Parts(Call(g, d).node, Call(g, d).term) \in Seq(Expr)
    BY <1>2, PartsTyped
  <2> QED BY <1>2, <2>1 DEF WellFormed
<1>4. Pushed(h, Call(g, d))
  BY Shapes DEF Core
<1>5. Top = stack[Len(stack)] /\ phase # "idle"
  BY RunningFacts
<1>6. GoalOf(h) = GoalOf(stack[Len(stack)])
  BY <1>1, <1>5 DEF GoalOf
<1> HIDE DEF h
<1>7. Chain'
  BY <1>1, <1>2, <1>3, <1>4, <1>6, ChainPushed DEF Core, Asks, h
<1>8. Core'
  BY <1>4, <1>5, <1>7, CoreWalk DEF Pushed, Asks, NoWrite, SameMemo, Core, TypeOK
<1> QED BY <1>4, <1>8 DEF h

LEMMA FollowEdgeCore ==
  ASSUME Core, FollowEdge
  PROVE Core'
<1>0. stack # <<>> /\ Top.at = "ready" /\ ret = "none" /\ EdgeTerm(Top.term)
  BY DEF FollowEdge, Running
<1>1. Top \in Frame /\ Top = stack[Len(stack)] /\ phase # "idle" /\ WellFormed(wentOn, Top)
      /\ Top.edges \in SUBSET Edge /\ Top.term \in Expr /\ Top.depth \in 0 .. MaxDepth
  BY <1>0, RunningFacts, FrameFields DEF WellFormed
<1>2. PICK e \in NextEdges(Top) :
        LET f == [Top EXCEPT !.edges = @ \ {e}] IN
        \/ Becomes(f) /\ SameMemo
        \/ Returns(f, "yes") /\ UNCHANGED excluded
        \/ (\E g \in Beyond(f.term, e) : Asks(f, g, f.depth + 1)) /\ SameMemo
  BY DEF FollowEdge
<1>3. e \in Top.edges /\ e \in Edge
  BY <1>1, <1>2 DEF NextEdges
<1> DEFINE f == [Top EXCEPT !.edges = @ \ {e}]
<1>4. f \in Frame /\ f.node = Top.node /\ f.term = Top.term /\ f.depth = Top.depth
      /\ f.part = Top.part /\ f.edges = Top.edges \ {e} /\ f.at = Top.at
  BY <1>1 DEF Frame
<1>5. WellFormed(wentOn, f) /\ WellFormed(wentOn', f)
  BY <1>0, <1>1, <1>4, Waiting DEF WellFormed, FollowEdge, EdgeTerm, Mixed
<1>6. GoalOf(f) = GoalOf(Top)
  BY <1>4 DEF GoalOf
<1>7. \/ Becomes(f) /\ SameMemo
      \/ Returns(f, "yes") /\ UNCHANGED excluded
      \/ (\E g \in Beyond(f.term, e) : Asks(f, g, f.depth + 1)) /\ SameMemo
  BY <1>2
<1> HIDE DEF f
<1>8. CASE Becomes(f) /\ SameMemo
  <2>1. Replaced(f)
    BY <1>0, <1>4, <1>8, Shapes DEF Core
  <2>2. f.at # "wait" /\ ret' = "none"
    BY <1>0, <1>4, <1>8 DEF Becomes
  <2>3. Chain'
    BY <1>1, <1>4, <1>5, <1>6, <2>1, <2>2, ChainReplaced DEF Core, FollowEdge
  <2> QED BY <1>1, <1>8, <2>1, <2>2, <2>3, CoreWalk
         DEF Replaced, Becomes, SameMemo, FollowEdge, NoWrite, Core, TypeOK
<1>9. CASE Returns(f, "yes") /\ UNCHANGED excluded
  <2>1. excluded' \in BOOLEAN /\ UNCHANGED wentOn /\ NoWrite
    BY <1>9 DEF FollowEdge, Core, TypeOK
  <2> QED BY <1>0, <1>4, <1>9, <2>1, ReturnsCore
<1>10. CASE (\E g \in Beyond(f.term, e) : Asks(f, g, f.depth + 1)) /\ SameMemo
  <2>1. PICK g \in Beyond(f.term, e) : Asks(f, g, f.depth + 1)
    BY <1>10
  <2>2. g \in Goal
    BY <1>0, <1>1, <1>3, <1>4, <2>1, BeyondTyped
  <2>3. f.depth + 1 \in 0 .. MaxDepth + 1
    BY <1>1, <1>4
  <2>4. WellFormed(wentOn, [f EXCEPT !.at = "wait", !.asked = g])
    <3> DEFINE h == [f EXCEPT !.at = "wait", !.asked = g]
    <3>1. h.node = f.node /\ h.term = f.term /\ h.depth = f.depth /\ h.part = f.part
          /\ h.edges = f.edges /\ h.at = "wait"
      BY <1>4 DEF Frame
    <3>2. h.term.name \in Declared
      BY <1>0, <1>1, <1>3, <1>4, <3>1 DEF WellFormed
    <3> HIDE DEF h
    <3>3. WellFormed(wentOn, h)
      BY <1>0, <1>1, <1>4, <3>1, <3>2 DEF WellFormed, EdgeTerm, Mixed
    <3> QED BY <3>3 DEF h
  <2> QED BY <1>0, <1>4, <1>6, <1>10, <2>1, <2>2, <2>3, <2>4, AsksCore DEF FollowEdge
<1> QED BY <1>7, <1>8, <1>9, <1>10

LEMMA AskPartCore ==
  ASSUME Core, AskPart
  PROVE Core'
<1> DEFINE parts == Parts(Top.node, Top.term)
           f == [Top EXCEPT !.part = @ + 1]
           g == <<Top.node, parts[Top.part + 1]>>
           h == [f EXCEPT !.at = "wait", !.asked = g]
<1>0. stack # <<>> /\ Top.at = "ready" /\ ret = "none" /\ ~EdgeTerm(Top.term)
  BY DEF AskPart, Running
<1>1. Top \in Frame /\ Top = stack[Len(stack)] /\ WellFormed(wentOn, Top)
      /\ Top.term \in Expr /\ Top.node \in Node /\ Top.depth \in 0 .. MaxDepth
      /\ Top.part \in Nat
  BY <1>0, RunningFacts, FrameFields DEF WellFormed
<1>2. parts \in Seq(Expr) /\ Top.part < Len(parts)
  BY <1>1, PartsTyped DEF AskPart
<1>3. parts[Top.part + 1] \in Expr
  <2> HIDE DEF parts
  <2> QED BY <1>1, <1>2
<1>4. g \in Goal
  BY <1>1, <1>3 DEF Goal
<1>5. f \in Frame /\ f.node = Top.node /\ f.term = Top.term /\ f.depth = Top.depth
      /\ f.part = Top.part + 1 /\ f.edges = Top.edges
  BY <1>1 DEF Frame
<1>6. Asks(f, g, f.depth)
  BY <1>5 DEF AskPart
<1>7. /\ h.node = Top.node /\ h.term = Top.term /\ h.depth = Top.depth
      /\ h.part = Top.part + 1 /\ h.edges = Top.edges /\ h.at = "wait" /\ h.asked = g
  BY <1>1 DEF Frame
<1>8. WellFormed(wentOn, h)
  <2>1. Parts(h.node, h.term) = parts /\ g = PartOf(h, h.part)
    BY <1>7 DEF PartOf
  <2> HIDE DEF h, g, parts
  <2> QED BY <1>0, <1>1, <1>2, <1>7, <2>1 DEF WellFormed, EdgeTerm, Mixed
<1>9. GoalOf(f) = GoalOf(Top)
  BY <1>5 DEF GoalOf
<1>10. f.depth \in 0 .. MaxDepth + 1
  BY <1>1, <1>5
<1>11. SameMemo /\ UNCHANGED wentOn /\ NoWrite
  BY DEF AskPart
<1> HIDE DEF f, g
<1> QED BY <1>0, <1>4, <1>5, <1>6, <1>8, <1>9, <1>10, <1>11, AsksCore

LEMMA ExhaustedCore ==
  ASSUME Core, Exhausted
  PROVE Core'
<1>0. stack # <<>>
  BY DEF Exhausted, Running
<1>1. Top \in Frame
  BY <1>0, RunningFacts
<1>2. PICK answer \in {"yes", "no"} : Returns(Top, answer)
  BY DEF Exhausted
<1> QED BY <1>0, <1>1, <1>2, ReturnsCore DEF Exhausted, Core, TypeOK

LEMMA ResumeCore ==
  ASSUME Core, Resume
  PROVE Core'
<1>0. stack # <<>>
  BY DEF Resume
<1>1. Top \in Frame
  BY <1>0, RunningFacts
<1>2. Verdict(Top, ret) \in {"yes", "no"}
  BY DEF Resume, Verdict
<1>4. excluded' \in BOOLEAN
  BY DEF Resume, Core, TypeOK
<1> QED BY <1>0, <1>1, <1>2, <1>4, ReturnsCore DEF Resume

LEMMA GoOnCore ==
  ASSUME Core, GoOn
  PROVE Core'
<1> DEFINE f == [Top EXCEPT !.at = "ready"]
<1>0. stack # <<>> /\ ret \in {"yes", "no"}
  BY DEF GoOn, Core, TypeOK
<1>1. Top \in Frame /\ Top = stack[Len(stack)] /\ phase # "idle" /\ WellFormed(wentOn, Top)
      /\ Top.at = "wait" /\ stack \in Seq(Frame) /\ Top.part \in Nat
  BY <1>0, RunningFacts, FrameFields
<1>2. f \in Frame /\ f.node = Top.node /\ f.term = Top.term /\ f.depth = Top.depth
      /\ f.part = Top.part /\ f.edges = Top.edges /\ f.at = "ready"
  BY <1>1 DEF Frame
<1>3. stack' = [stack EXCEPT ![Len(stack)] = f]
  BY <1>1 DEF GoOn
<1>4. WellFormed(wentOn', f)
  <2>1. Mixed(Top.term) => ret = "yes"
    BY <1>0 DEF GoOn, Verdict, Mixed
  <2>2. Mixed(Top.term) => wentOn'
    BY <2>1 DEF GoOn
  <2> HIDE DEF f
  <2> QED BY <1>1, <1>2, <2>2 DEF WellFormed, EdgeTerm, Mixed
<1>5. GoalOf(f) = GoalOf(stack[Len(stack)])
  BY <1>1, <1>2 DEF GoalOf
<1> HIDE DEF f
<1>6. Replaced(f)
  BY <1>0, <1>1, <1>2, <1>3, Replacing DEF Replaced
<1>7. Chain'
  BY <1>2, <1>4, <1>5, <1>6, ChainReplaced DEF Core, GoOn
<1>8. wentOn' \in BOOLEAN
  BY DEF GoOn, Core, TypeOK
<1> QED BY <1>1, <1>6, <1>7, <1>8, CoreWalk DEF Replaced, GoOn, SameMemo, NoWrite, Core, TypeOK

LEMMA EmptyChain == ASSUME stack' = <<>> PROVE Chain'
<1>1. Len(stack') = 0 /\ 1 .. Len(stack') = {} /\ 1 .. Len(stack') - 1 = {}
  OBVIOUS
<1> QED BY <1>1 DEF Chain

LEMMA AskCore ==
  ASSUME Core, Ask
  PROVE Core'
<1>1. stack = <<>> /\ stack' = <<>>
  BY DEF Core, Phases, Ask
<1>2. request' \in Request /\ left' = {request'.action} \cap Ruled(request')
  BY DEF Ask
<1>3. TypeOK'
  BY <1>2 DEF Core, TypeOK, Ask, Ruled
<1>4. Ruled(request)' = Ruled(request')
  BY DEF Ruled
<1>5. Phases'
  BY <1>1, <1>2, <1>4 DEF Phases, Ask
<1> QED BY <1>1, <1>3, <1>5, EmptyChain DEF Core

LEMMA StartRunCore ==
  ASSUME Core, StartRun
  PROVE Core' /\ \E a \in left : left' = left \ {a} /\ stack' = <<Call(Body(request, a), 0)>>
<1>1. PICK a \in left : left' = left \ {a} /\ stack' = <<Call(Body(request, a), 0)>>
  BY DEF StartRun
<1> DEFINE c == Call(Body(request, a), 0)
<1>2. a \in Ruled(request) /\ request \in Request
  BY <1>1 DEF Core, Phases, TypeOK
<1>3. Body(request, a) \in Goal
  BY <1>2, BodyTyped
<1>4. c \in Frame /\ c.at = "enter" /\ c.part = 0 /\ c.edges = {} /\ c.node \in Node
      /\ c.term \in Expr
  BY <1>3, CallTyped, FrameFields
<1>5. WellFormed(wentOn', c)
  <2>1. Parts(c.node, c.term) \in Seq(Expr)
    BY <1>4, PartsTyped
  <2> HIDE DEF c
  <2> QED BY <1>4, <2>1 DEF WellFormed
<1>6. stack' = <<c>>
  BY <1>1
<1> HIDE DEF c
<1>7. stack' \in Seq(Frame) /\ Len(stack') = 1 /\ stack'[1] = c /\ stack' # <<>>
  BY <1>4, <1>6
<1>8. Chain'
  BY <1>4, <1>5, <1>7 DEF Chain, StartRun
<1>9. TypeOK'
  BY <1>1, <1>7 DEF Core, TypeOK, StartRun, NoWrite
<1>10. Phases'
  <2>1. Ruled(request)' = Ruled(request)
    BY DEF Ruled, StartRun
  <2> QED BY <1>1, <2>1 DEF Core, Phases, StartRun, NoWrite
<1> QED BY <1>1, <1>8, <1>9, <1>10 DEF Core

LEMMA TryOthersCore ==
  ASSUME Core, TryOthers
  PROVE Core'
<1>1. stack' = <<>>
  BY DEF TryOthers
<1>2. TypeOK'
  BY DEF Core, TypeOK, TryOthers, NoWrite, SameMemo, Ruled
<1>3. Ruled(request)' = Ruled(request)
  BY DEF Ruled, TryOthers
<1>4. Phases'
  BY <1>1, <1>3 DEF Core, Phases, TryOthers, NoWrite
<1> QED BY <1>1, <1>2, <1>4, EmptyChain DEF Core

LEMMA DecidesCore ==
  ASSUME Core, NEW d \in {"allowed", "no_rule", "excluded", "unreachable", "error"}, Decides(d)
  PROVE Core'
<1>1. answers' \subseteq [request : Request, wentOn : BOOLEAN,
                  decision : {"allowed", "no_rule", "excluded", "unreachable", "error"}]
  BY DEF Core, TypeOK, Decides
<1>2. TypeOK'
  <2>1. <<>> \in Seq(Frame)
    OBVIOUS
  <2> QED BY <1>1, <2>1 DEF Core, TypeOK, Decides, NoWrite
<1>3. Phases'
  BY DEF Core, Phases, Decides
<1> QED BY <1>2, <1>3, EmptyChain DEF Core, Decides

LEMMA StoresCore ==
  ASSUME Core, NEW E \in SUBSET Edge, Stores(E)
  PROVE Core'
<1>1. TypeOK'
  BY DEF Core, TypeOK, Stores
<1>2. Chain'
  BY DEF Core, Chain, Stores, WellFormed
<1>3. Ruled(request)' = Ruled(request)
  BY DEF Ruled, Stores
<1>4. Phases'
  BY <1>3 DEF Core, Phases, Stores
<1> QED BY <1>1, <1>2, <1>4 DEF Core

LEMMA WritesStore ==
  ASSUME Core, WriteEdge \/ DeleteEdge
  PROVE \E E \in SUBSET Edge : Stores(E)
BY DEF Core, TypeOK, WriteEdge, DeleteEdge

LEMMA NextCore ==
  ASSUME Core, [Next]_vars
  PROVE Core'
<1>1. CASE Ask
  BY <1>1, AskCore
<1>2. CASE StartRun
  BY <1>2, StartRunCore
<1>3. CASE TryOthers
  BY <1>3, TryOthersCore
<1>4. CASE Decide
  BY <1>4, DecidesCore DEF Decide
<1>5. CASE Fail
  BY <1>5, DecidesCore DEF Fail
<1>6. CASE Walk
  BY <1>6, EnterCore, MeetsAgainCore, ReadOwnCore, ReadStarCore, FollowEdgeCore, AskPartCore,
     ExhaustedCore, ResumeCore, GoOnCore DEF Walk
<1>7. CASE WriteEdge \/ DeleteEdge
  BY <1>7, WritesStore, StoresCore
<1>8. CASE UNCHANGED vars
  BY <1>8 DEF vars, Core, TypeOK, Chain, Phases, WellFormed, Ruled
<1> QED BY <1>1, <1>2, <1>3, <1>4, <1>5, <1>6, <1>7, <1>8 DEF Next

(* Whatever the schema and the graph, every state is a possible state of the
   evaluator: the call stack is well formed and no call is ever made beyond one
   step past MaxDepth. *)
THEOREM TypeCorrect == Spec => []TypeOK
<1>1. Init => Core
  BY InitCore
<1>2. Core /\ [Next]_vars => Core'
  BY NextCore
<1>3. Core => TypeOK
  BY DEF Core
<1> QED BY <1>1, <1>2, <1>3, PTL DEF Spec

---------------------------------------------------------------------------
(* Inference *)

LEMMA EdgesForMono ==
  ASSUME NEW E, NEW F, E \subseteq F, NEW n, NEW r
  PROVE EdgesFor(E, n, r) \subseteq EdgesFor(F, n, r) /\ OwnEdges(E, n, r) \subseteq OwnEdges(F, n, r)
BY DEF EdgesFor, OwnEdges, StarEdges

LEMMA FollowsMono ==
  ASSUME NEW u, NEW I, NEW J, I \subseteq J, NEW E, NEW F, E \subseteq F, NEW g, Follows(u, I, E, g)
  PROVE Follows(u, J, F, g)
<1>1. EdgesFor(E, g[1], g[2].name) \subseteq EdgesFor(F, g[1], g[2].name)
  BY EdgesForMono
<1> QED BY <1>1 DEF Follows

LEMMA ClosedMono ==
  ASSUME NEW u, NEW I, NEW E, NEW F, E \subseteq F, Closed(u, I, F)
  PROVE Closed(u, I, E)
BY FollowsMono DEF Closed

LEMMA DerivableMono ==
  ASSUME NEW u, NEW E, NEW F, E \subseteq F, NEW g, Derivable(u, E, g)
  PROVE Derivable(u, F, g)
BY ClosedMono DEF Derivable

LEMMA GroundedMono ==
  ASSUME NEW u, NEW E, NEW F, E \subseteq F, NEW f, Grounded(u, E, f)
  PROVE Grounded(u, F, f)
<1>1. EdgesFor(E, f.node, f.term.name) \subseteq EdgesFor(F, f.node, f.term.name)
  BY EdgesForMono
<1> QED BY <1>1, DerivableMono DEF Grounded

LEMMA ViaEdge ==
  ASSUME NEW u, NEW E, NEW n \in Node, NEW x \in Expr, EdgeTerm(x), x.name \in Declared,
         NEW e \in EdgesFor(E, n, x.name), e.active,
         Hits(u, x, e) \/ \E h \in Beyond(x, e) : Derivable(u, E, h)
  PROVE Derivable(u, E, <<n, x>>)
<1> SUFFICES ASSUME NEW I, Closed(u, I, E) PROVE <<n, x>> \in I
  BY DEF Derivable
<1>1. Hits(u, x, e) \/ Beyond(x, e) \cap I # {}
  BY DEF Derivable
<1>2. Follows(u, I, E, <<n, x>>)
  BY <1>1 DEF Follows
<1> QED BY <1>2 DEF Closed, Goal

LEMMA ViaParts ==
  ASSUME NEW u, NEW E, NEW n \in Node, NEW x \in Expr, ~EdgeTerm(x),
         LET part(i) == Derivable(u, E, <<n, Parts(n, x)[i]>>) IN
            \/ x.kind \in {"rule", "union"} /\ \E i \in DOMAIN Parts(n, x) : part(i)
            \/ x.kind = "intersect" /\ \A i \in DOMAIN Parts(n, x) : part(i)
            \/ x.kind = "exclude" /\ part(1)
  PROVE Derivable(u, E, <<n, x>>)
<1> SUFFICES ASSUME NEW I, Closed(u, I, E) PROVE <<n, x>> \in I
  BY DEF Derivable
<1>1. \A g : Derivable(u, E, g) => g \in I
  BY DEF Derivable
<1>2. Follows(u, I, E, <<n, x>>)
  BY <1>1 DEF Follows
<1> QED BY <1>2 DEF Closed, Goal

---------------------------------------------------------------------------
(* Yes is only answered with reason *)

LEMMA StillJustified ==
  ASSUME Justified, UNCHANGED <<request, decision>>, seen \subseteq seen' \/ UNCHANGED seen
  PROVE Justified'
<1>1. seen \subseteq seen' /\ request' = request /\ decision' = decision
  OBVIOUS
<1>2. Ruled(request)' = Ruled(request) /\ \A a : Body(request, a)' = Body(request, a)
  BY DEF Ruled, Body
<1>3. \A g : Derivable(request.subject, seen, g) => Derivable(request.subject, seen', g)
  BY <1>1, DerivableMono
<1> QED BY <1>1, <1>2, <1>3 DEF Justified

LEMMA SoundReplaced ==
  ASSUME Core, Sound, NEW f \in Frame, Replaced(f), GoalOf(f) = GoalOf(Top),
         Grounded(request.subject, seen, f), ret' = "none",
         UNCHANGED <<request, phase, decision, seen>>
  PROVE Sound'
<1>0. stack # <<>> /\ Len(stack) \in Nat \ {0} /\ Len(stack') = Len(stack) /\ stack' # <<>>
      /\ Top = stack[Len(stack)]
  BY RunningFacts DEF Replaced
<1>1. \A i \in 1 .. Len(stack') : Grounded(request.subject, seen, stack'[i])
  <2> TAKE i \in 1 .. Len(stack')
  <2>1. i = Len(stack) \/ (i \in 1 .. Len(stack) - 1 /\ i \in 1 .. Len(stack))
    BY <1>0
  <2> QED BY <2>1 DEF Replaced, Sound
<1>2. GoalOf(stack'[1]) = GoalOf(stack[1])
  <2>1. Len(stack) = 1 \/ 1 \in 1 .. Len(stack) - 1
    BY <1>0
  <2> QED BY <1>0, <2>1 DEF Replaced
<1>3. Tried' = Tried
  BY DEF Tried, Ruled
<1>4. \E a \in Tried : GoalOf(stack[1]) = Body(request, a)
  BY <1>0 DEF Sound
<1>5. Justified'
  BY StillJustified DEF Sound
<1>6. \A a : Body(request, a)' = Body(request, a)
  BY DEF Body
<1> QED BY <1>0, <1>1, <1>2, <1>3, <1>4, <1>5, <1>6 DEF Sound

LEMMA SoundPushed ==
  ASSUME Core, Sound, NEW f \in Frame, NEW c \in Frame, Pushed(f, c), GoalOf(f) = GoalOf(Top),
         Grounded(request.subject, seen, f), Grounded(request.subject, seen, c), ret' = "none",
         UNCHANGED <<request, phase, decision, seen>>
  PROVE Sound'
<1>0. stack # <<>> /\ Len(stack) \in Nat \ {0} /\ Len(stack') = Len(stack) + 1 /\ stack' # <<>>
      /\ Top = stack[Len(stack)]
  BY RunningFacts DEF Pushed
<1>1. \A i \in 1 .. Len(stack') : Grounded(request.subject, seen, stack'[i])
  <2> TAKE i \in 1 .. Len(stack')
  <2>1. \/ i \in {Len(stack), Len(stack) + 1}
        \/ i \in 1 .. Len(stack) - 1 /\ i \in 1 .. Len(stack)
    BY <1>0
  <2> QED BY <2>1 DEF Pushed, Sound
<1>2. GoalOf(stack'[1]) = GoalOf(stack[1])
  <2>1. Len(stack) = 1 \/ 1 \in 1 .. Len(stack) - 1
    BY <1>0, OneOrMore
  <2> QED BY <1>0, <2>1 DEF Pushed
<1>3. Tried' = Tried
  BY DEF Tried, Ruled
<1>4. \E a \in Tried : GoalOf(stack[1]) = Body(request, a)
  BY <1>0 DEF Sound
<1>5. Justified'
  BY StillJustified DEF Sound
<1>6. \A a : Body(request, a)' = Body(request, a)
  BY DEF Body
<1> QED BY <1>0, <1>1, <1>2, <1>3, <1>4, <1>5, <1>6 DEF Sound

LEMMA SoundPopped ==
  ASSUME Core, Sound, Popped, ret' \in {"yes", "no"},
         ret' = "yes" => Derivable(request.subject, seen, GoalOf(Top)),
         UNCHANGED <<request, phase, decision, seen>>
  PROVE Sound'
<1>0. stack # <<>> /\ Len(stack) \in Nat \ {0} /\ Len(stack') = Len(stack) - 1
      /\ Top = stack[Len(stack)] /\ phase # "idle" /\ stack' \in Seq(Frame)
  BY RunningFacts DEF Popped
<1>1. \A i \in 1 .. Len(stack') : Grounded(request.subject, seen, stack'[i])
  <2> TAKE i \in 1 .. Len(stack')
  <2>1. i \in 1 .. Len(stack) - 1 /\ i \in 1 .. Len(stack)
    BY <1>0
  <2> QED BY <2>1 DEF Popped, Sound
<1>2. Tried' = Tried /\ Justified' /\ \A a : Body(request, a)' = Body(request, a)
  BY StillJustified DEF Tried, Ruled, Sound, Body
<1>3. \E a \in Tried : GoalOf(stack[1]) = Body(request, a)
  BY <1>0 DEF Sound
<1>4. CASE stack' = <<>>
  <2>1. Len(stack) = 1
    BY <1>0, <1>4
  <2>2. Top = stack[1]
    BY <1>0, <2>1
  <2> QED BY <1>0, <1>1, <1>2, <1>3, <1>4, <2>2 DEF Sound
<1>5. CASE stack' # <<>>
  <2>1. /\ Len(stack) - 1 \in 1 .. Len(stack) - 1 /\ 1 \in 1 .. Len(stack) - 1
        /\ Len(stack) - 1 + 1 = Len(stack)
    BY <1>0, <1>5
  <2>2. stack'[Len(stack')].asked = GoalOf(Top)
    BY <1>0, <2>1 DEF Popped, Core, Chain
  <2>3. stack'[1] = stack[1]
    BY <2>1 DEF Popped
  <2> QED BY <1>0, <1>1, <1>2, <1>3, <1>5, <2>2, <2>3 DEF Sound
<1> QED BY <1>4, <1>5

LEMMA Kinds ==
  ASSUME NEW x \in Expr
  PROVE x.kind \in {"relation", "rule", "arrow", "union", "intersect", "exclude"}
BY ExprAssumption DEF Terms

LEMMA EnterSound ==
  ASSUME Core, Sound, Enter
  PROVE Sound'
<1> DEFINE at == IF EdgeTerm(Top.term) /\ Top.term.name \in Declared THEN "own" ELSE "ready"
           f == [Top EXCEPT !.at = at]
<1>0. stack # <<>> /\ Top.at = "enter"
  BY DEF Enter, Running
<1>1. Top \in Frame /\ Top = stack[Len(stack)] /\ WellFormed(wentOn, Top)
      /\ Len(stack) \in 1 .. Len(stack)
  BY <1>0, RunningFacts
<1>2. f \in Frame /\ f.node = Top.node /\ f.term = Top.term /\ f.part = Top.part
      /\ f.edges = Top.edges /\ f.at = at
  BY <1>1 DEF Frame
<1>3. Replaced(f) /\ ret' = "none" /\ UNCHANGED <<request, phase, decision, seen>>
  <2>1. Becomes(f)
    BY DEF Enter
  <2> HIDE DEF f
  <2> QED BY <1>0, <1>2, <2>1, Shapes DEF Core, Enter, Running, Becomes, NoWrite
<1>4. Grounded(request.subject, seen, f)
  <2>1. Grounded(request.subject, seen, Top)
    BY <1>1 DEF Sound
  <2>2. Top.part = 0 /\ f.at # "wait"
    BY <1>0, <1>1, <1>2 DEF WellFormed
  <2> HIDE DEF f
  <2> QED BY <1>2, <2>1, <2>2 DEF Grounded
<1>5. GoalOf(f) = GoalOf(Top)
  BY <1>2 DEF GoalOf
<1> HIDE DEF f
<1> QED BY <1>2, <1>3, <1>4, <1>5, SoundReplaced

LEMMA MeetsAgainSound ==
  ASSUME Core, Sound, MeetsAgain
  PROVE Sound'
<1>1. stack # <<>>
  BY DEF MeetsAgain, Running
<1>2. Popped
  BY <1>1, Shapes DEF Core, MeetsAgain
<1> QED BY <1>2, SoundPopped DEF MeetsAgain, NoWrite

LEMMA ReadSound ==
  ASSUME Core, Sound, ReadOwn \/ ReadStar
  PROVE Sound'
<1>0. stack # <<>> /\ Top.at \in {"own", "star"} /\ ret = "none"
  BY DEF ReadOwn, ReadStar, Running
<1>1. Top \in Frame /\ Top = stack[Len(stack)] /\ WellFormed(wentOn, Top)
      /\ Len(stack) \in 1 .. Len(stack) /\ phase # "idle"
  BY <1>0, RunningFacts
<1>2. EdgeTerm(Top.term) /\ ~Mixed(Top.term)
  BY <1>0, <1>1 DEF WellFormed, EdgeTerm, Mixed
<1>3. edges \subseteq seen /\ edges \subseteq Edge /\ Top.edges \subseteq Edge
      /\ Top.edges \subseteq EdgesFor(seen, Top.node, Top.term.name)
  BY <1>1, <1>2, FrameFields DEF Core, TypeOK, Phases, Sound, Grounded
<1>4. PICK E \in SUBSET Edge, at \in {"star", "ready"} :
        /\ Becomes([Top EXCEPT !.edges = E, !.at = at])
        /\ E \subseteq EdgesFor(seen, Top.node, Top.term.name)
  <2>1. CASE ReadOwn
    <3>1. OwnEdges(edges, Top.node, Top.term.name) \subseteq EdgesFor(seen, Top.node, Top.term.name)
      BY <1>3 DEF OwnEdges, EdgesFor
    <3> QED BY <1>3, <2>1, <3>1 DEF ReadOwn, OwnEdges
  <2>2. CASE ReadStar
    <3> DEFINE E == Top.edges \cup StarEdges(edges, Top.node, Top.term.name)
    <3>1. StarRead(Top.node, Top.term.name)
      BY <1>1, <2>2 DEF WellFormed, ReadStar, Running
    <3>2. StarEdges(edges, Top.node, Top.term.name) \subseteq
            EdgesFor(seen, Top.node, Top.term.name)
      BY <1>3, <3>1 DEF StarEdges, EdgesFor
    <3>3. E \subseteq EdgesFor(seen, Top.node, Top.term.name) /\ E \in SUBSET Edge
      BY <1>3, <3>2 DEF StarEdges
    <3>4. Becomes([Top EXCEPT !.edges = E, !.at = "ready"])
      BY <2>2 DEF ReadStar
    <3> QED BY <3>3, <3>4
  <2> QED BY <2>1, <2>2
<1> DEFINE f == [Top EXCEPT !.edges = E, !.at = at]
<1>5. f \in Frame /\ f.node = Top.node /\ f.term = Top.term /\ f.edges = E /\ f.at = at
  BY <1>1 DEF Frame
<1>6. Becomes(f)
  BY <1>4
<1>7. Grounded(request.subject, seen, f)
  <2> HIDE DEF f
  <2> QED BY <1>2, <1>4, <1>5 DEF Grounded
<1>8. GoalOf(f) = GoalOf(Top)
  BY <1>5 DEF GoalOf
<1> HIDE DEF f
<1>9. Replaced(f) /\ ret' = "none" /\ UNCHANGED <<request, phase, decision, seen>>
  BY <1>0, <1>5, <1>6, Shapes DEF Core, Becomes, ReadOwn, ReadStar, NoWrite
<1> QED BY <1>5, <1>7, <1>8, <1>9, SoundReplaced

LEMMA CallGrounded ==
  ASSUME NEW u, NEW E, NEW g \in Goal, NEW d \in 0 .. MaxDepth + 1
  PROVE Grounded(u, E, Call(g, d))
BY CallTyped DEF Grounded

(* What following an edge comes to, for every edge that may be next. *)
LEMMA Following ==
  ASSUME Core, FollowEdge
  PROVE \E e \in Top.edges :
          LET f == [Top EXCEPT !.edges = @ \ {e}] IN
          /\ e \in Edge
          /\ f \in Frame /\ f.node = Top.node /\ f.term = Top.term /\ f.part = Top.part
          /\ f.edges = Top.edges \ {e} /\ f.at = "ready" /\ f.depth = Top.depth
          /\ \/ /\ Replaced(f) /\ ret' = "none" /\ SameMemo
                /\ ~e.active \/ (~Hits(request.subject, Top.term, e) /\ Beyond(Top.term, e) = {})
             \/ /\ Returns(f, "yes") /\ Popped
                /\ e.active /\ Hits(request.subject, Top.term, e)
             \/ \E g \in Beyond(Top.term, e) :
                    /\ g \in Goal /\ ret' = "none" /\ SameMemo
                    /\ Pushed([f EXCEPT !.at = "wait", !.asked = g], Call(g, f.depth + 1))
                    /\ e.active /\ ~Hits(request.subject, Top.term, e)
<1>0. stack # <<>> /\ Top.at = "ready" /\ ret = "none" /\ EdgeTerm(Top.term)
  BY DEF FollowEdge, Running
<1>1. Top \in Frame /\ Top.edges \in SUBSET Edge /\ Top.term \in Expr
      /\ Top.depth \in 0 .. MaxDepth
  BY <1>0, RunningFacts, FrameFields DEF WellFormed
<1>2. PICK e \in NextEdges(Top) :
        LET f == [Top EXCEPT !.edges = @ \ {e}]
            skipped == Expired(e) \/ (~Hits(request.subject, f.term, e) /\ Beyond(f.term, e) = {})
        IN  \/ skipped /\ Becomes(f) /\ SameMemo
            \/ ~skipped /\ Hits(request.subject, f.term, e) /\ Returns(f, "yes")
            \/ /\ ~skipped /\ ~Hits(request.subject, f.term, e)
               /\ \E g \in Beyond(f.term, e) : Asks(f, g, f.depth + 1)
               /\ SameMemo
  BY DEF FollowEdge
<1>3. e \in Top.edges /\ e \in Edge
  BY <1>1, <1>2 DEF NextEdges
<1> DEFINE f == [Top EXCEPT !.edges = @ \ {e}]
<1>4. f \in Frame /\ f.node = Top.node /\ f.term = Top.term /\ f.depth = Top.depth
      /\ f.part = Top.part /\ f.edges = Top.edges \ {e} /\ f.at = "ready"
  BY <1>0, <1>1 DEF Frame
<1>5. f.depth + 1 \in 0 .. MaxDepth + 1
  BY <1>1, <1>4
<1>6. Beyond(Top.term, e) \subseteq Goal
  BY <1>0, <1>1, <1>3, BeyondTyped
<1>7. \/ /\ Becomes(f) /\ SameMemo
         /\ ~e.active \/ (~Hits(request.subject, Top.term, e) /\ Beyond(Top.term, e) = {})
      \/ Returns(f, "yes") /\ e.active /\ Hits(request.subject, Top.term, e)
      \/ /\ \E g \in Beyond(Top.term, e) : Asks(f, g, f.depth + 1)
         /\ SameMemo /\ e.active /\ ~Hits(request.subject, Top.term, e)
  BY <1>2, <1>4 DEF Expired
<1> HIDE DEF f
<1>8. Becomes(f) => Replaced(f) /\ ret' = "none"
  BY <1>0, <1>4, Shapes DEF Core, Becomes
<1>9. Returns(f, "yes") => Popped
  BY <1>0, Shapes DEF Core, Returns
<1>10. \A g \in Goal : Asks(f, g, f.depth + 1) =>
        /\ Pushed([f EXCEPT !.at = "wait", !.asked = g], Call(g, f.depth + 1))
        /\ ret' = "none"
  BY <1>0, <1>4, <1>5, Shapes DEF Core, Asks
<1> QED BY <1>3, <1>4, <1>6, <1>7, <1>8, <1>9, <1>10 DEF f

LEMMA FollowEdgeSound ==
  ASSUME Core, Sound, FollowEdge
  PROVE Sound'
<1>0. stack # <<>> /\ Top.at = "ready" /\ EdgeTerm(Top.term)
  BY DEF FollowEdge, Running
<1>1. Top \in Frame /\ Top = stack[Len(stack)] /\ WellFormed(wentOn, Top)
      /\ Len(stack) \in 1 .. Len(stack) /\ Top.node \in Node /\ Top.term \in Expr
      /\ Top.depth \in 0 .. MaxDepth
  BY <1>0, RunningFacts, FrameFields DEF WellFormed
<1>2. Grounded(request.subject, seen, Top) /\ ~Mixed(Top.term)
  BY <1>0, <1>1 DEF Sound, EdgeTerm, Mixed
<1>3. PICK e \in Top.edges :
          LET f == [Top EXCEPT !.edges = @ \ {e}] IN
          /\ f \in Frame /\ f.node = Top.node /\ f.term = Top.term
          /\ f.edges = Top.edges \ {e} /\ f.at = "ready" /\ f.depth = Top.depth
          /\ \/ Replaced(f) /\ ret' = "none"
             \/ /\ Returns(f, "yes") /\ Popped
                /\ e.active /\ Hits(request.subject, Top.term, e)
             \/ \E g \in Beyond(Top.term, e) :
                    /\ g \in Goal /\ ret' = "none" /\ e.active
                    /\ Pushed([f EXCEPT !.at = "wait", !.asked = g], Call(g, f.depth + 1))
  BY Following
<1> DEFINE f == [Top EXCEPT !.edges = @ \ {e}]
<1>4. /\ f \in Frame /\ f.node = Top.node /\ f.term = Top.term
      /\ f.edges = Top.edges \ {e} /\ f.at = "ready" /\ f.depth = Top.depth
  BY <1>3
<1>5. \/ Replaced(f) /\ ret' = "none"
      \/ /\ Returns(f, "yes") /\ Popped
         /\ e.active /\ Hits(request.subject, Top.term, e)
      \/ \E g \in Beyond(Top.term, e) :
            /\ g \in Goal /\ ret' = "none" /\ e.active
            /\ Pushed([f EXCEPT !.at = "wait", !.asked = g], Call(g, f.depth + 1))
  BY <1>3
<1> HIDE DEF f
<1>6. UNCHANGED <<request, phase, decision, seen>>
  BY <1>5 DEF FollowEdge, Becomes, Returns, Asks, NoWrite
<1>7. e \in EdgesFor(seen, Top.node, Top.term.name) /\ Top.term.name \in Declared
  BY <1>0, <1>1, <1>2 DEF Grounded, WellFormed
<1>8. GoalOf(f) = GoalOf(Top)
  BY <1>4 DEF GoalOf
<1>9. CASE Replaced(f) /\ ret' = "none"
  <2>1. Grounded(request.subject, seen, f)
    BY <1>2, <1>4 DEF Grounded
  <2> QED BY <1>4, <1>6, <1>8, <1>9, <2>1, SoundReplaced
<1>10. CASE Returns(f, "yes") /\ Popped /\ e.active /\ Hits(request.subject, Top.term, e)
  <2>1. Derivable(request.subject, seen, GoalOf(Top))
    BY <1>0, <1>1, <1>7, <1>10, ViaEdge DEF GoalOf
  <2> QED BY <1>6, <1>10, <2>1, SoundPopped DEF Returns
<1>11. ASSUME NEW g \in Beyond(Top.term, e), g \in Goal, ret' = "none", e.active,
             Pushed([f EXCEPT !.at = "wait", !.asked = g], Call(g, f.depth + 1))
       PROVE Sound'
  <2> DEFINE h == [f EXCEPT !.at = "wait", !.asked = g]
  <2>1. h \in Frame /\ h.node = Top.node /\ h.term = Top.term /\ h.at = "wait" /\ h.asked = g
        /\ h.edges = Top.edges \ {e}
    BY <1>4, <1>11 DEF Frame
  <2>2. f.depth + 1 \in 0 .. MaxDepth + 1
    BY <1>1, <1>4
  <2>3. GoalOf(h) = GoalOf(Top)
    BY <2>1 DEF GoalOf
  <2>4. Pushed(h, Call(g, f.depth + 1))
    BY <1>11
  <2> HIDE DEF h
  <2>5. Grounded(request.subject, seen, h)
    BY <1>2, <1>7, <1>11, <2>1 DEF Grounded
  <2>6. Call(g, f.depth + 1) \in Frame /\ Grounded(request.subject, seen, Call(g, f.depth + 1))
    BY <1>11, <2>2, CallTyped, CallGrounded
  <2> QED BY <1>6, <1>11, <2>1, <2>3, <2>4, <2>5, <2>6, SoundPushed
<1> QED BY <1>5, <1>9, <1>10, <1>11

LEMMA AskPartSound ==
  ASSUME Core, Sound, AskPart
  PROVE Sound'
<1> DEFINE parts == Parts(Top.node, Top.term)
           f == [Top EXCEPT !.part = @ + 1]
           g == <<Top.node, parts[Top.part + 1]>>
           h == [f EXCEPT !.at = "wait", !.asked = g]
<1>0. stack # <<>> /\ Top.at = "ready" /\ ret = "none" /\ ~EdgeTerm(Top.term)
  BY DEF AskPart, Running
<1>1. Top \in Frame /\ Top = stack[Len(stack)] /\ WellFormed(wentOn, Top)
      /\ Len(stack) \in 1 .. Len(stack)
      /\ Top.term \in Expr /\ Top.node \in Node /\ Top.depth \in 0 .. MaxDepth
      /\ Top.part \in Nat
  BY <1>0, RunningFacts, FrameFields DEF WellFormed
<1>2. parts \in Seq(Expr) /\ Top.part < Len(parts)
  BY <1>1, PartsTyped DEF AskPart
<1>3. parts[Top.part + 1] \in Expr
  <2> HIDE DEF parts
  <2> QED BY <1>1, <1>2
<1>4. g \in Goal
  BY <1>1, <1>3 DEF Goal
<1>5. f \in Frame /\ f.depth = Top.depth /\ f.node = Top.node /\ f.term = Top.term
      /\ f.part = Top.part + 1 /\ f.edges = Top.edges
  BY <1>1 DEF Frame
<1>6. Asks(f, g, Top.depth)
  BY <1>5 DEF AskPart
<1>7. /\ h.node = Top.node /\ h.term = Top.term /\ h.part = Top.part + 1
      /\ h.edges = Top.edges /\ h.at = "wait" /\ h \in Frame
  <2> HIDE DEF f, g
  <2> QED BY <1>4, <1>5 DEF Frame
<1>8. Pushed(h, Call(g, Top.depth)) /\ ret' = "none" /\ UNCHANGED <<request, phase, decision, seen>>
  <2>1. Pushed(h, Call(g, Top.depth))
    <3>1. Top.depth \in 0 .. MaxDepth + 1
      BY <1>1
    <3> HIDE DEF f, g
    <3> QED BY <1>0, <1>4, <1>5, <1>6, <3>1, Shapes DEF Core
  <2> QED BY <1>0, <1>6, <2>1 DEF Asks, AskPart, NoWrite
<1>9. Call(g, Top.depth) \in Frame /\ Grounded(request.subject, seen, Call(g, Top.depth))
  BY <1>1, <1>4, CallTyped, CallGrounded
<1>10. \A i : PartOf(h, i) = PartOf(Top, i)
  BY <1>7 DEF PartOf
<1>11. GoalOf(h) = GoalOf(Top)
  BY <1>7 DEF GoalOf
<1> HIDE DEF h, g
<1>12. Grounded(request.subject, seen, h)
  <2>1. Grounded(request.subject, seen, Top)
    BY <1>1 DEF Sound
  <2>2. \A i \in 1 .. h.part : i < h.part => i \in 1 .. Top.part
    BY <1>1, <1>7
  <2> QED BY <1>0, <1>7, <1>10, <2>1, <2>2 DEF Grounded
<1> QED BY <1>7, <1>8, <1>9, <1>11, <1>12, SoundPushed

LEMMA ExhaustedSound ==
  ASSUME Core, Sound, Exhausted
  PROVE Sound'
<1>0. stack # <<>> /\ Top.at = "ready"
  BY DEF Exhausted, Running
<1>1. Top \in Frame /\ Top = stack[Len(stack)] /\ Len(stack) \in 1 .. Len(stack)
      /\ Top.term \in Expr /\ Top.node \in Node
  BY <1>0, RunningFacts, FrameFields
<1>2. Returns(Top, IF Top.term.kind = "intersect" THEN "yes" ELSE "no")
  BY DEF Exhausted
<1>3. Popped /\ ret' \in {"yes", "no"} /\ UNCHANGED <<request, phase, decision, seen>>
  BY <1>0, <1>2, Shapes DEF Core, Returns, Exhausted, NoWrite
<1>4. ASSUME ret' = "yes"
      PROVE Derivable(request.subject, seen, GoalOf(Top))
  <2>1. Top.term.kind = "intersect"
    BY <1>2, <1>4 DEF Returns
  <2>2. Top.part = Len(Parts(Top.node, Top.term)) /\ Parts(Top.node, Top.term) \in Seq(Expr)
    BY <1>1, <2>1, PartsTyped DEF Exhausted, EdgeTerm
  <2>3. \A i \in 1 .. Top.part : Derivable(request.subject, seen, PartOf(Top, i))
    BY <1>0, <1>1, <2>1 DEF Sound, Grounded, Mixed
  <2>4. \A i \in DOMAIN Parts(Top.node, Top.term) : i \in 1 .. Top.part
    BY <2>2
  <2> QED BY <1>1, <2>1, <2>3, <2>4, ViaParts DEF GoalOf, PartOf, EdgeTerm
<1> QED BY <1>3, <1>4, SoundPopped

LEMMA ResumeSound ==
  ASSUME Core, Sound, Resume
  PROVE Sound'
<1> DEFINE D(g) == Derivable(request.subject, seen, g)
<1>0. stack # <<>> /\ ret \in {"yes", "no"} /\ Verdict(Top, ret) \in {"yes", "no"}
  BY DEF Resume, Verdict, Core, TypeOK
<1>1. Top \in Frame /\ Top = stack[Len(stack)] /\ Len(stack) \in 1 .. Len(stack)
      /\ WellFormed(wentOn, Top) /\ Top.at = "wait"
      /\ Top.term \in Expr /\ Top.node \in Node /\ Top.part \in Nat
  BY <1>0, RunningFacts, FrameFields
<1>2. Returns(Top, Verdict(Top, ret))
  BY DEF Resume
<1>3. Popped /\ ret' = Verdict(Top, ret) /\ UNCHANGED <<request, phase, decision, seen>>
  BY <1>0, <1>2, Shapes DEF Core, Returns, Resume, NoWrite
<1>4. Grounded(request.subject, seen, Top) /\ (ret = "yes" => D(Top.asked))
  BY <1>0, <1>1 DEF Sound
<1>5. ASSUME Verdict(Top, ret) = "yes"
      PROVE D(GoalOf(Top))
  <2> DEFINE parts == Parts(Top.node, Top.term)
  <2>1. parts \in Seq(Expr)
    BY <1>1, PartsTyped
  <2>2. CASE EdgeTerm(Top.term)
    <3>1. ret = "yes" /\ Top.term.name \in Declared
      BY <1>1, <1>5, <2>2 DEF Verdict, EdgeTerm, WellFormed
    <3>2. PICK e \in EdgesFor(seen, Top.node, Top.term.name) :
                e.active /\ Top.asked \in Beyond(Top.term, e)
      BY <1>1, <1>4, <2>2 DEF Grounded
    <3> QED BY <1>1, <1>4, <2>2, <3>1, <3>2, ViaEdge DEF GoalOf
  <2>3. CASE Top.term.kind \in {"rule", "union"}
    <3>1. ret = "yes" /\ ~EdgeTerm(Top.term)
      BY <1>5, <2>3 DEF Verdict, EdgeTerm
    <3>2. Top.part \in DOMAIN parts /\ Top.asked = <<Top.node, parts[Top.part]>>
      <4>1. Top.part >= 1 /\ Top.part <= Len(parts) /\ Top.asked = <<Top.node, parts[Top.part]>>
        BY <1>1, <3>1 DEF WellFormed, PartOf
      <4> HIDE DEF parts
      <4> QED BY <1>1, <2>1, <4>1
    <3> QED BY <1>1, <1>4, <2>3, <3>1, <3>2, ViaParts, ZenonT(240) DEF GoalOf
  <2>4. CASE Top.term.kind = "intersect"
    <3>1. ret = "yes" /\ ~EdgeTerm(Top.term) /\ Top.part = Len(parts)
      BY <1>0, <1>5, <2>4 DEF Verdict, EdgeTerm, Parts
    <3>2. Top.asked = <<Top.node, parts[Top.part]>>
      BY <1>1, <3>1 DEF WellFormed, PartOf
    <3>3. \A i \in 1 .. Top.part : i < Top.part => D(<<Top.node, parts[i]>>)
      BY <1>4, <2>4 DEF Grounded, Mixed, PartOf
    <3>4. \A i \in DOMAIN parts : i \in 1 .. Top.part /\ (i < Top.part \/ i = Top.part)
      <4> HIDE DEF parts
      <4> QED BY <1>1, <2>1, <3>1
    <3>5. \A i \in DOMAIN parts : D(<<Top.node, parts[i]>>)
      BY <1>4, <3>1, <3>2, <3>3, <3>4
    <3> QED BY <1>1, <2>4, <3>1, <3>5, ViaParts DEF GoalOf
  <2>5. CASE Top.term.kind = "exclude"
    <3>1. ~EdgeTerm(Top.term) /\ Top.part # 1
      BY <1>0, <1>5, <2>5 DEF Verdict, EdgeTerm
    <3>2. Top.part >= 1
      BY <1>1, <3>1 DEF WellFormed
    <3>3. 1 \in 1 .. Top.part /\ 1 < Top.part
      BY <1>1, <3>1, <3>2
    <3>4. D(<<Top.node, parts[1]>>)
      BY <1>4, <2>5, <3>3 DEF Grounded, Mixed, PartOf
    <3> QED BY <1>1, <2>5, <3>1, <3>4, ViaParts DEF GoalOf
  <2> QED BY <1>1, <2>2, <2>3, <2>4, <2>5, Kinds DEF EdgeTerm
<1> QED BY <1>0, <1>3, <1>5, SoundPopped

LEMMA GoOnSound ==
  ASSUME Core, Sound, GoOn
  PROVE Sound'
<1> DEFINE f == [Top EXCEPT !.at = "ready"]
<1>0. stack # <<>> /\ ret \in {"yes", "no"}
  BY DEF GoOn, Core, TypeOK
<1>1. Top \in Frame /\ Top = stack[Len(stack)] /\ WellFormed(wentOn, Top)
      /\ Top.at = "wait" /\ stack \in Seq(Frame) /\ Top.part \in Nat
      /\ Len(stack) \in 1 .. Len(stack)
  BY <1>0, RunningFacts, FrameFields
<1>2. f \in Frame /\ f.node = Top.node /\ f.term = Top.term
      /\ f.part = Top.part /\ f.edges = Top.edges /\ f.at = "ready"
  BY <1>1 DEF Frame
<1>3. stack' = [stack EXCEPT ![Len(stack)] = f]
  BY <1>1 DEF GoOn
<1>4. GoalOf(f) = GoalOf(Top) /\ \A i : PartOf(f, i) = PartOf(Top, i)
  BY <1>2 DEF GoalOf, PartOf
<1> HIDE DEF f
<1>5. Replaced(f)
  BY <1>0, <1>1, <1>2, <1>3, Replacing DEF Replaced
<1>6. Grounded(request.subject, seen, f)
  <2>1. Grounded(request.subject, seen, Top)
    BY <1>1 DEF Sound
  <2>2. CASE Mixed(Top.term)
    <3>1. ret = "yes" /\ ~EdgeTerm(Top.term)
      BY <1>0, <2>2 DEF GoOn, Verdict, Mixed, EdgeTerm
    <3>2. Derivable(request.subject, seen, PartOf(Top, Top.part))
      BY <1>0, <1>1, <3>1 DEF Sound, WellFormed
    <3>3. \A i \in 1 .. Top.part : i < Top.part \/ i = Top.part
      BY <1>1
    <3> QED BY <1>2, <1>4, <2>1, <2>2, <3>1, <3>2, <3>3 DEF Grounded
  <2>3. CASE ~Mixed(Top.term)
    BY <1>2, <2>1, <2>3 DEF Grounded
  <2> QED BY <2>2, <2>3
<1> QED BY <1>2, <1>4, <1>5, <1>6, SoundReplaced DEF GoOn, NoWrite

LEMMA AskSound ==
  ASSUME Core, Sound, Ask
  PROVE Sound'
<1>1. stack' = <<>> /\ ret' = "no" /\ decision' = "none"
  BY DEF Core, Phases, Ask
<1>2. 1 .. Len(stack') = {}
  BY <1>1
<1> QED BY <1>1, <1>2 DEF Sound, Justified

LEMMA StartRunSound ==
  ASSUME Core, Sound, StartRun
  PROVE Sound'
<1>1. PICK a \in left : stack' = <<Call(Body(request, a), 0)>>
  BY StartRunCore
<1>2. a \in Ruled(request) /\ request \in Request /\ phase \in {"check", "others"}
      /\ (phase = "check" <=> a = request.action)
  BY <1>1 DEF Core, Phases, TypeOK, StartRun
<1>3. Body(request, a) \in Goal
  BY <1>2, BodyTyped
<1> DEFINE c == Call(Body(request, a), 0)
<1>4. Grounded(request.subject, seen, c) /\ GoalOf(c) = Body(request, a)
  BY <1>3, CallGrounded, CallTyped
<1>5. stack' = <<c>>
  BY <1>1
<1> HIDE DEF c
<1>6. Len(stack') = 1 /\ stack'[1] = c /\ stack' # <<>>
  BY <1>5
<1>7. UNCHANGED <<request, phase, decision, seen>> /\ ret' = "none"
  BY DEF StartRun, NoWrite
<1>8. Tried' = Tried /\ a \in Tried /\ Body(request, a)' = Body(request, a)
  BY <1>2, <1>7 DEF Tried, Ruled, Body
<1>9. Justified'
  BY <1>7, StillJustified DEF Sound
<1> QED BY <1>4, <1>6, <1>7, <1>8, <1>9 DEF Sound

LEMMA TryOthersSound ==
  ASSUME Core, Sound, TryOthers
  PROVE Sound'
<1>1. UNCHANGED <<request, decision, seen, stack>> /\ stack = <<>> /\ ret' = "no"
  BY DEF TryOthers, NoWrite
<1>2. Justified' /\ 1 .. Len(stack') = {}
  BY <1>1, StillJustified DEF Sound
<1> QED BY <1>1, <1>2 DEF Sound

LEMMA DecideSound ==
  ASSUME Core, Sound, Decide \/ Fail
  PROVE Sound'
<1>1. stack' = <<>> /\ ret' = "none" /\ phase' = "idle"
      /\ UNCHANGED <<request, seen>> /\ 1 .. Len(stack') = {}
  BY DEF Decide, Fail, Decides, NoWrite
<1>2. Justified'
  <2>1. Ruled(request)' = Ruled(request) /\ \A a : Body(request, a)' = Body(request, a)
    BY <1>1 DEF Ruled, Body
  <2>2. CASE decision' \notin {"allowed", "no_rule"}
    BY <2>2 DEF Justified
  <2>3. CASE decision' \in {"allowed", "no_rule"}
    <3>1. /\ phase # "idle" /\ stack = <<>> /\ ret = "yes"
          /\ decision' = IF phase = "check" THEN "allowed" ELSE "no_rule"
      BY <2>3 DEF Decide, Fail, Decides
    <3>2. PICK a \in Tried : Derivable(request.subject, seen, Body(request, a))
      BY <3>1 DEF Sound
    <3> QED BY <1>1, <2>1, <3>1, <3>2 DEF Justified, Tried
  <2> QED BY <2>2, <2>3
<1> QED BY <1>1, <1>2 DEF Sound

LEMMA StoresSound ==
  ASSUME Core, Sound, NEW E \in SUBSET Edge, Stores(E)
  PROVE Sound'
<1>1. UNCHANGED <<request, phase, decision, stack, ret>> /\ seen \subseteq seen'
  BY DEF Stores
<1>2. Justified' /\ Tried' = Tried /\ \A a : Body(request, a)' = Body(request, a)
  BY <1>1, StillJustified DEF Sound, Tried, Ruled, Body
<1>3. \A g : Derivable(request.subject, seen, g) => Derivable(request.subject, seen', g)
  BY <1>1, DerivableMono
<1>4. \A f : Grounded(request.subject, seen, f) => Grounded(request.subject, seen', f)
  BY <1>1, GroundedMono
<1> QED BY <1>1, <1>2, <1>3, <1>4 DEF Sound

LEMMA NextSound ==
  ASSUME Core, Sound, [Next]_vars
  PROVE Sound'
<1>1. CASE Ask
  BY <1>1, AskSound
<1>2. CASE StartRun
  BY <1>2, StartRunSound
<1>3. CASE TryOthers
  BY <1>3, TryOthersSound
<1>4. CASE Decide \/ Fail
  BY <1>4, DecideSound
<1>5. CASE Walk
  BY <1>5, EnterSound, MeetsAgainSound, ReadSound, FollowEdgeSound, AskPartSound,
     ExhaustedSound, ResumeSound, GoOnSound DEF Walk
<1>6. CASE WriteEdge \/ DeleteEdge
  BY <1>6, WritesStore, StoresSound
<1>7. CASE UNCHANGED vars
  <2>1. UNCHANGED <<request, phase, decision, stack, ret, seen>>
    BY <1>7 DEF vars
  <2>2. Justified' /\ Tried' = Tried /\ \A a : Body(request, a)' = Body(request, a)
    BY <2>1, StillJustified DEF Sound, Tried, Ruled, Body
  <2> QED BY <2>1, <2>2 DEF Sound
<1> QED BY <1>1, <1>2, <1>3, <1>4, <1>5, <1>6, <1>7 DEF Next

(* Nobody is let in, and nobody learns that a resource exists, without a path
   of edges that were there at some time during the request: for every schema,
   subtractions and intersections included, every graph, every order of edges
   and whatever is written while the walk goes on. *)
THEOREM AllowedMeansReached == Spec => []AllowedHasAPath
<1>1. Init => Core /\ Sound
  <2>1. ASSUME Init PROVE 1 .. Len(stack) = {}
    BY <2>1 DEF Init
  <2> QED BY <2>1, InitCore DEF Init, Sound, Justified
<1>2. Core /\ Sound /\ [Next]_vars => Core' /\ Sound'
  BY NextCore, NextSound
<1>3. Sound => AllowedHasAPath
  BY DEF Sound, Justified, AllowedHasAPath, Reached, Derivable
<1> QED BY <1>1, <1>2, <1>3, PTL DEF Spec

---------------------------------------------------------------------------
(* No is only answered when nothing was missed *)

LEMMA RefutingMono ==
  ASSUME NEW u, NEW K, NEW J, J \subseteq K, NEW D, NEW D2, D \subseteq D2,
         NEW f, Refuting(u, K, D, f)
  PROVE Refuting(u, J, D2, f)
<1>1. /\ EdgesFor(J, f.node, f.term.name) \subseteq EdgesFor(K, f.node, f.term.name)
      /\ OwnEdges(J, f.node, f.term.name) \subseteq OwnEdges(K, f.node, f.term.name)
  BY EdgesForMono
<1> QED BY <1>1 DEF Refuting

(* More goals in doubt and fewer edges kept: what was refuted stays refuted. *)
LEMMA StillRefuted ==
  ASSUME NEW u, NEW K, NEW J, J \subseteq K, NEW D, NEW D2, D \subseteq D2,
         NEW g, ~Follows(u, Goal \ D, K, g)
  PROVE ~Follows(u, Goal \ D2, J, g)
<1>1. Goal \ D2 \subseteq Goal \ D
  OBVIOUS
<1> QED BY <1>1, FollowsMono

LEMMA OnlyOneBeyond ==
  ASSUME NEW x, NEW e, NEW g \in Beyond(x, e)
  PROVE Beyond(x, e) \subseteq {g}
BY DEF Beyond

LEMMA DoubtedReplaced ==
  ASSUME Core, NEW f \in Frame, Replaced(f), GoalOf(f) = GoalOf(Top), f.at # "enter",
         denied' = denied
  PROVE Doubted' = Doubted \cup {GoalOf(Top)}
<1>0. Len(stack) \in Nat \ {0} /\ Len(stack') = Len(stack) /\ Top = stack[Len(stack)]
  BY RunningFacts DEF Replaced
<1>1. \A i \in 1 .. Len(stack) : i = Len(stack) \/ i \in 1 .. Len(stack) - 1
  BY <1>0
<1>2. Len(stack) \in 1 .. Len(stack) /\ 1 .. Len(stack) - 1 \subseteq 1 .. Len(stack)
  BY <1>0
<1>3. \A i \in 1 .. Len(stack) - 1 : stack'[i] = stack[i]
  BY DEF Replaced
<1>4. stack'[Len(stack)] = f
  BY DEF Replaced
<1>5. Doubted' = denied \cup {GoalOf(stack'[i]) : i \in {j \in 1 .. Len(stack) : stack'[j].at # "enter"}}
  BY <1>0 DEF Doubted
<1>6. Doubted' \subseteq Doubted \cup {GoalOf(Top)}
  <2> SUFFICES ASSUME NEW g \in Doubted', g \notin denied
               PROVE g \in Doubted \cup {GoalOf(Top)}
    BY DEF Doubted
  <2>1. PICK i \in 1 .. Len(stack) : stack'[i].at # "enter" /\ g = GoalOf(stack'[i])
    BY <1>5
  <2>2. CASE i = Len(stack)
    BY <1>4, <2>1, <2>2
  <2>3. CASE i \in 1 .. Len(stack) - 1
    BY <1>2, <1>3, <2>1, <2>3 DEF Doubted
  <2> QED BY <1>1, <2>2, <2>3
<1>7. Doubted \cup {GoalOf(Top)} \subseteq Doubted'
  <2>1. GoalOf(Top) \in Doubted'
    BY <1>2, <1>4, <1>5
  <2>2. ASSUME NEW g \in Doubted, g \notin denied PROVE g \in Doubted'
    <3>1. PICK i \in 1 .. Len(stack) : stack[i].at # "enter" /\ g = GoalOf(stack[i])
      BY <2>2 DEF Doubted
    <3>2. CASE i = Len(stack)
      BY <1>0, <2>1, <3>1, <3>2
    <3>3. CASE i \in 1 .. Len(stack) - 1
      BY <1>2, <1>3, <1>5, <3>1, <3>3
    <3> QED BY <1>1, <3>2, <3>3
  <2> QED BY <1>5, <2>1, <2>2
<1> QED BY <1>6, <1>7

LEMMA DoubtedPushed ==
  ASSUME Core, NEW f \in Frame, NEW c \in Frame, Pushed(f, c), GoalOf(f) = GoalOf(Top),
         f.at # "enter", c.at = "enter", Top.at # "enter", denied' = denied
  PROVE Doubted' = Doubted
<1>0. Len(stack) \in Nat \ {0} /\ Len(stack') = Len(stack) + 1 /\ Top = stack[Len(stack)]
  BY RunningFacts DEF Pushed
<1>1. \A i \in 1 .. Len(stack) + 1 :
        i \in {Len(stack), Len(stack) + 1} \/ i \in 1 .. Len(stack) - 1
  BY <1>0
<1>2. /\ Len(stack) \in 1 .. Len(stack) /\ 1 .. Len(stack) - 1 \subseteq 1 .. Len(stack)
      /\ 1 .. Len(stack) \subseteq 1 .. Len(stack) + 1
  BY <1>0
<1>3. /\ \A i \in 1 .. Len(stack) - 1 : stack'[i] = stack[i]
      /\ stack'[Len(stack)] = f /\ stack'[Len(stack) + 1] = c
  BY DEF Pushed
<1>4. Doubted' = denied \cup
        {GoalOf(stack'[i]) : i \in {j \in 1 .. Len(stack) + 1 : stack'[j].at # "enter"}}
  BY <1>0 DEF Doubted
<1>5. \A i \in 1 .. Len(stack) :
        GoalOf(stack'[i]) = GoalOf(stack[i]) /\ (stack'[i].at # "enter" <=> stack[i].at # "enter")
  BY <1>0, <1>1, <1>2, <1>3
<1>6. \A i \in 1 .. Len(stack) + 1 : stack'[i].at # "enter" => i \in 1 .. Len(stack)
  BY <1>0, <1>3
<1> QED BY <1>2, <1>4, <1>5, <1>6 DEF Doubted

LEMMA DoubtedPopped ==
  ASSUME Core, Popped, denied \subseteq denied', denied' \subseteq denied \cup {GoalOf(Top)},
         GoalOf(Top) \in denied' \/ (GoalOf(Top) \in Doubted /\ Top.at = "enter")
  PROVE Doubted' = Doubted \cup {GoalOf(Top)}
<1>0. Len(stack) \in Nat \ {0} /\ Len(stack') = Len(stack) - 1 /\ Top = stack[Len(stack)]
  BY RunningFacts DEF Popped
<1>1. \A i \in 1 .. Len(stack) : i = Len(stack) \/ i \in 1 .. Len(stack) - 1
  BY <1>0
<1>2. 1 .. Len(stack) - 1 \subseteq 1 .. Len(stack)
  BY <1>0
<1>3. \A i \in 1 .. Len(stack) - 1 : stack'[i] = stack[i]
  BY DEF Popped
<1>4. Doubted' = denied' \cup
        {GoalOf(stack[i]) : i \in {j \in 1 .. Len(stack) - 1 : stack[j].at # "enter"}}
  BY <1>0, <1>3 DEF Doubted
<1>5. Doubted' \subseteq Doubted \cup {GoalOf(Top)}
  BY <1>2, <1>4 DEF Doubted
<1>6. ASSUME NEW g \in Doubted, g # GoalOf(Top) PROVE g \in Doubted'
  <2>1. CASE g \in denied
    BY <1>4, <2>1
  <2>2. CASE g \notin denied
    <3>1. PICK i \in 1 .. Len(stack) : stack[i].at # "enter" /\ g = GoalOf(stack[i])
      BY <2>2 DEF Doubted
    <3>2. i \in 1 .. Len(stack) - 1
      BY <1>0, <1>1, <1>6, <3>1
    <3> QED BY <1>4, <3>1, <3>2
  <2> QED BY <2>1, <2>2
<1>7. GoalOf(Top) \in Doubted'
  <2>1. CASE GoalOf(Top) \in denied'
    BY <1>4, <2>1
  <2>2. CASE GoalOf(Top) \in Doubted /\ Top.at = "enter" /\ GoalOf(Top) \notin denied'
    <3>1. PICK i \in 1 .. Len(stack) : stack[i].at # "enter" /\ GoalOf(Top) = GoalOf(stack[i])
      BY <2>2 DEF Doubted
    <3>2. i \in 1 .. Len(stack) - 1
      BY <1>0, <1>1, <2>2, <3>1
    <3> QED BY <1>4, <3>1, <3>2
  <2> QED BY <2>1, <2>2
<1> QED BY <1>5, <1>6, <1>7

LEMMA ExactReplaced ==
  ASSUME Core, Exact, NEW f \in Frame, Replaced(f), GoalOf(f) = GoalOf(Top), f.at # "enter",
         Refuting(request.subject, kept, Doubted, f), ret' = "none",
         open' \cup dead' \subseteq open \cup dead \cup {GoalOf(Top)},
         UNCHANGED <<request, phase, left, kept, denied>>
  PROVE Exact'
<1>0. Len(stack) \in Nat \ {0} /\ Len(stack') = Len(stack) /\ Top = stack[Len(stack)]
      /\ stack # <<>> /\ stack' # <<>>
  BY RunningFacts DEF Replaced
<1>1. Doubted' = Doubted \cup {GoalOf(Top)}
  BY DoubtedReplaced
<1>2. \A g \in denied' : ~Follows(request.subject, Goal \ Doubted', kept, g)
  BY <1>1, StillRefuted DEF Exact
<1>3. \A i \in 1 .. Len(stack') : Refuting(request.subject, kept, Doubted', stack'[i])
  <2> TAKE i \in 1 .. Len(stack')
  <2>1. i = Len(stack) \/ (i \in 1 .. Len(stack) - 1 /\ i \in 1 .. Len(stack))
    BY <1>0
  <2>2. PICK h : h = stack'[i] /\ Refuting(request.subject, kept, Doubted, h)
    BY <2>1 DEF Replaced, Exact
  <2> QED BY <1>1, <2>2, RefutingMono
<1>4. GoalOf(stack'[1]) = GoalOf(stack[1])
  <2>1. Len(stack) = 1 \/ 1 \in 1 .. Len(stack) - 1
    BY <1>0, OneOrMore
  <2> QED BY <1>0, <2>1 DEF Replaced
<1>5. \A a : Body(request, a)' = Body(request, a) /\ Ruled(request)' = Ruled(request)
  BY DEF Body, Ruled
<1>6. open' \cup dead' \subseteq Doubted'
  BY <1>1 DEF Exact
<1> QED BY <1>0, <1>2, <1>3, <1>4, <1>5, <1>6 DEF Exact

LEMMA ExactPushed ==
  ASSUME Core, Exact, NEW f \in Frame, NEW c \in Frame, Pushed(f, c), GoalOf(f) = GoalOf(Top),
         f.at # "enter", c.at = "enter", c.part = 0, Top.at # "enter",
         Refuting(request.subject, kept, Doubted, f), ret' = "none",
         SameMemo, UNCHANGED <<request, phase, left, kept>>
  PROVE Exact'
<1>0. Len(stack) \in Nat \ {0} /\ Len(stack') = Len(stack) + 1 /\ Top = stack[Len(stack)]
      /\ stack # <<>> /\ stack' # <<>>
  BY RunningFacts DEF Pushed
<1>1. Doubted' = Doubted
  BY DoubtedPushed DEF SameMemo
<1>2. Refuting(request.subject, kept, Doubted, c)
  BY DEF Refuting
<1>3. \A i \in 1 .. Len(stack') : Refuting(request.subject, kept, Doubted', stack'[i])
  <2> TAKE i \in 1 .. Len(stack')
  <2>1. \/ i \in {Len(stack), Len(stack) + 1}
        \/ i \in 1 .. Len(stack) - 1 /\ i \in 1 .. Len(stack)
    BY <1>0
  <2> QED BY <1>1, <1>2, <2>1 DEF Pushed, Exact
<1>4. GoalOf(stack'[1]) = GoalOf(stack[1])
  <2>1. Len(stack) = 1 \/ 1 \in 1 .. Len(stack) - 1
    BY <1>0, OneOrMore
  <2> QED BY <1>0, <2>1 DEF Pushed
<1>5. \A a : Body(request, a)' = Body(request, a) /\ Ruled(request)' = Ruled(request)
  BY DEF Body, Ruled
<1> QED BY <1>0, <1>1, <1>3, <1>4, <1>5 DEF Exact, SameMemo

LEMMA ExactPopped ==
  ASSUME Core, Exact, Popped,
         \/ /\ denied' = denied \cup {GoalOf(Top)}
            /\ ~Follows(request.subject, Goal \ (Doubted \cup {GoalOf(Top)}), kept, GoalOf(Top))
         \/ denied' = denied /\ Top.at = "enter" /\ GoalOf(Top) \in Doubted,
         open' \cup dead' \subseteq open \cup dead \cup {GoalOf(Top)},
         UNCHANGED <<request, phase, left, kept>>
  PROVE Exact'
<1>0. Len(stack) \in Nat \ {0} /\ Len(stack') = Len(stack) - 1 /\ Top = stack[Len(stack)]
      /\ stack # <<>>
  BY RunningFacts DEF Popped
<1>1. Doubted' = Doubted \cup {GoalOf(Top)}
  <2>1. /\ denied \subseteq denied' /\ denied' \subseteq denied \cup {GoalOf(Top)}
        /\ GoalOf(Top) \in denied' \/ (GoalOf(Top) \in Doubted /\ Top.at = "enter")
    BY Zenon
  <2> QED BY <2>1, DoubtedPopped
<1>2. \A g \in denied' : ~Follows(request.subject, Goal \ Doubted', kept, g)
  <2>1. \A g \in denied : ~Follows(request.subject, Goal \ Doubted', kept, g)
    BY <1>1, StillRefuted DEF Exact
  <2> QED BY <1>1, <2>1
<1>3. \A i \in 1 .. Len(stack') : Refuting(request.subject, kept, Doubted', stack'[i])
  <2> TAKE i \in 1 .. Len(stack')
  <2>1. i \in 1 .. Len(stack) - 1 /\ i \in 1 .. Len(stack)
    BY <1>0
  <2>2. stack'[i] = stack[i] /\ Refuting(request.subject, kept, Doubted, stack[i])
    BY <2>1 DEF Popped, Exact
  <2> QED BY <1>1, <2>2, RefutingMono
<1>4. open' \cup dead' \subseteq Doubted'
  BY <1>1 DEF Exact
<1>5. stack' # <<>> => stack'[Len(stack')].asked \in Doubted'
  <2> SUFFICES ASSUME stack' # <<>> PROVE stack'[Len(stack')].asked \in Doubted'
    OBVIOUS
  <2>1. Len(stack) - 1 \in 1 .. Len(stack) - 1 /\ Len(stack) - 1 + 1 = Len(stack)
    BY <1>0 DEF Popped
  <2>2. stack'[Len(stack')].asked = GoalOf(Top)
    BY <1>0, <2>1 DEF Popped, Core, Chain
  <2> QED BY <1>1, <2>2
<1>6. \A a : Body(request, a)' = Body(request, a) /\ Ruled(request)' = Ruled(request)
  BY DEF Body, Ruled
<1>7. CASE stack' = <<>>
  <2>0. Len(stack) = 1
    <3>1. Len(stack') = 0
      BY <1>7
    <3> QED BY <1>0, <3>1
  <2>1. Len(stack) = 1 /\ Top = stack[1]
    BY <1>0, <2>0
  <2>2. Top.at = "enter" => Doubted = denied
    <3>1. ASSUME Top.at = "enter" PROVE {j \in 1 .. Len(stack) : stack[j].at # "enter"} = {}
      BY <2>1, <3>1
    <3> QED BY <3>1 DEF Doubted
  <2>3. GoalOf(stack[1]) \in denied'
    BY <2>1, <2>2
  <2>4. denied \subseteq denied'
    OBVIOUS
  <2> QED BY <1>2, <1>3, <1>4, <1>5, <1>6, <1>7, <2>3, <2>4 DEF Exact
<1>8. CASE stack' # <<>>
  <2>1. 1 \in 1 .. Len(stack) - 1
    BY <1>0, <1>8 DEF Popped
  <2>2. stack'[1] = stack[1] /\ denied \subseteq denied'
    BY <2>1 DEF Popped
  <2> QED BY <1>0, <1>2, <1>3, <1>4, <1>5, <1>6, <1>8, <2>2 DEF Exact
<1> QED BY <1>7, <1>8

LEMMA EnterExact ==
  ASSUME Core, Exact, Enter
  PROVE Exact'
<1> DEFINE at == IF EdgeTerm(Top.term) /\ Top.term.name \in Declared THEN "own" ELSE "ready"
           f == [Top EXCEPT !.at = at]
<1>0. stack # <<>> /\ Top.at = "enter"
  BY DEF Enter, Running
<1>1. Top \in Frame /\ WellFormed(wentOn, Top)
  BY <1>0, RunningFacts
<1>2. f \in Frame /\ f.node = Top.node /\ f.term = Top.term /\ f.part = Top.part
      /\ f.edges = Top.edges /\ f.at = at
  BY <1>1 DEF Frame
<1>3. Becomes(f)
  BY DEF Enter
<1>4. f.part = 0
  BY <1>0, <1>1, <1>2 DEF WellFormed
<1>5. GoalOf(f) = GoalOf(Top)
  BY <1>2 DEF GoalOf
<1>6. f.at # "enter" /\ (EdgeTerm(f.term) /\ f.term.name \in Declared => f.at = "own")
      /\ f.at \in {"own", "ready"}
  BY <1>2
<1> HIDE DEF f, at
<1>7. Replaced(f) /\ ret' = "none"
  BY <1>0, <1>2, <1>3, Shapes DEF Core, Enter, Running, Becomes
<1>8. Refuting(request.subject, kept, Doubted, f)
  BY <1>4, <1>6 DEF Refuting
<1>9. open' \cup dead' \subseteq open \cup dead \cup {GoalOf(Top)}
  BY DEF Enter
<1> QED BY <1>2, <1>3, <1>5, <1>6, <1>7, <1>8, <1>9, ExactReplaced DEF Enter, Becomes, NoWrite

LEMMA MeetsAgainExact ==
  ASSUME Core, Exact, MeetsAgain
  PROVE Exact'
<1>1. stack # <<>> /\ Top.at = "enter" /\ GoalOf(Top) \in open \cup dead
  BY DEF MeetsAgain, Running, Known
<1>2. Popped
  BY <1>1, Shapes DEF Core, MeetsAgain
<1>3. GoalOf(Top) \in Doubted
  BY <1>1 DEF Exact
<1> QED BY <1>1, <1>2, <1>3, ExactPopped DEF MeetsAgain, NoWrite, SameMemo

LEMMA ReadOwnExact ==
  ASSUME Core, Exact, ReadOwn
  PROVE Exact'
<1> DEFINE E == OwnEdges(edges, Top.node, Top.term.name)
           at == IF StarRead(Top.node, Top.term.name) THEN "star" ELSE "ready"
           f == [Top EXCEPT !.edges = E, !.at = at]
<1>0. stack # <<>> /\ Top.at = "own" /\ ret = "none"
  BY DEF ReadOwn, Running
<1>1. Top \in Frame /\ WellFormed(wentOn, Top) /\ kept \subseteq edges
  BY <1>0, RunningFacts DEF Core, Phases
<1>2. f \in Frame /\ f.node = Top.node /\ f.term = Top.term
      /\ f.part = Top.part /\ f.edges = E /\ f.at = at
  BY <1>1 DEF Frame, Core, TypeOK, OwnEdges
<1>3. Becomes(f) /\ SameMemo
  BY DEF ReadOwn
<1>4. EdgeTerm(f.term) /\ GoalOf(f) = GoalOf(Top)
  BY <1>0, <1>1, <1>2 DEF WellFormed, GoalOf
<1>5. OwnEdges(kept, f.node, f.term.name) \subseteq f.edges
  BY <1>1, <1>2, EdgesForMono
<1>6. f.at = "ready" => EdgesFor(kept, f.node, f.term.name) \subseteq f.edges
  BY <1>2, <1>5 DEF EdgesFor
<1>7. f.at \in {"star", "ready"}
  BY <1>2
<1> HIDE DEF f, E, at
<1>8. Refuting(request.subject, kept, Doubted, f)
  BY <1>4, <1>5, <1>6, <1>7 DEF Refuting, EdgeTerm
<1>9. Replaced(f) /\ ret' = "none"
  BY <1>0, <1>2, <1>3, Shapes DEF Core, Becomes
<1> QED BY <1>2, <1>3, <1>4, <1>7, <1>8, <1>9, ExactReplaced
     DEF ReadOwn, Becomes, NoWrite, SameMemo

LEMMA ReadStarExact ==
  ASSUME Core, Exact, ReadStar
  PROVE Exact'
<1> DEFINE E == Top.edges \cup StarEdges(edges, Top.node, Top.term.name)
           f == [Top EXCEPT !.edges = E, !.at = "ready"]
<1>0. stack # <<>> /\ Top.at = "star" /\ ret = "none"
  BY DEF ReadStar, Running
<1>1. Top \in Frame /\ Top = stack[Len(stack)] /\ WellFormed(wentOn, Top)
      /\ kept \subseteq edges /\ Len(stack) \in 1 .. Len(stack)
  BY <1>0, RunningFacts DEF Core, Phases
<1>2. f \in Frame /\ f.node = Top.node /\ f.term = Top.term
      /\ f.part = Top.part /\ f.edges = E /\ f.at = "ready"
  BY <1>1 DEF Frame, Core, TypeOK, StarEdges
<1>3. Becomes(f) /\ SameMemo
  BY DEF ReadStar
<1>4. EdgeTerm(f.term) /\ GoalOf(f) = GoalOf(Top) /\ StarRead(Top.node, Top.term.name)
  BY <1>0, <1>1, <1>2 DEF WellFormed, GoalOf
<1>5. OwnEdges(kept, Top.node, Top.term.name) \subseteq Top.edges
  BY <1>0, <1>1, <1>2, <1>4 DEF Exact, Refuting
<1>6. EdgesFor(kept, f.node, f.term.name) \subseteq f.edges
  BY <1>1, <1>2, <1>4, <1>5 DEF EdgesFor, StarEdges
<1> HIDE DEF f, E
<1>7. Refuting(request.subject, kept, Doubted, f)
  BY <1>2, <1>4, <1>6 DEF Refuting, EdgeTerm
<1>8. Replaced(f) /\ ret' = "none"
  BY <1>0, <1>2, <1>3, Shapes DEF Core, Becomes
<1> QED BY <1>2, <1>3, <1>4, <1>7, <1>8, ExactReplaced
     DEF ReadStar, Becomes, NoWrite, SameMemo

LEMMA FollowEdgeExact ==
  ASSUME Core, Exact, FollowEdge, ret' # "yes"
  PROVE Exact'
<1>0. stack # <<>> /\ Top.at = "ready" /\ EdgeTerm(Top.term)
  BY DEF FollowEdge, Running
<1>1. Top \in Frame /\ Top = stack[Len(stack)] /\ WellFormed(wentOn, Top)
      /\ Len(stack) \in 1 .. Len(stack) /\ Top.depth \in 0 .. MaxDepth
  BY <1>0, RunningFacts, FrameFields DEF WellFormed
<1>2. PICK e \in Top.edges :
          LET f == [Top EXCEPT !.edges = @ \ {e}] IN
          /\ f \in Frame /\ f.node = Top.node /\ f.term = Top.term
          /\ f.edges = Top.edges \ {e} /\ f.at = "ready" /\ f.depth = Top.depth
          /\ \/ /\ Replaced(f) /\ ret' = "none" /\ SameMemo
                /\ ~e.active \/ (~Hits(request.subject, Top.term, e) /\ Beyond(Top.term, e) = {})
             \/ \E g \in Beyond(Top.term, e) :
                    /\ g \in Goal /\ ret' = "none" /\ SameMemo
                    /\ Pushed([f EXCEPT !.at = "wait", !.asked = g], Call(g, f.depth + 1))
                    /\ e.active /\ ~Hits(request.subject, Top.term, e)
  BY Following DEF Returns
<1> DEFINE f == [Top EXCEPT !.edges = @ \ {e}]
<1>3. /\ f \in Frame /\ f.node = Top.node /\ f.term = Top.term
      /\ f.edges = Top.edges \ {e} /\ f.at = "ready" /\ f.depth = Top.depth
  BY <1>2
<1>4. \/ /\ Replaced(f) /\ ret' = "none" /\ SameMemo
         /\ ~e.active \/ (~Hits(request.subject, Top.term, e) /\ Beyond(Top.term, e) = {})
      \/ \E g \in Beyond(Top.term, e) :
            /\ g \in Goal /\ ret' = "none" /\ SameMemo
            /\ Pushed([f EXCEPT !.at = "wait", !.asked = g], Call(g, f.depth + 1))
            /\ e.active /\ ~Hits(request.subject, Top.term, e)
  BY <1>2
<1> HIDE DEF f
<1>5. UNCHANGED <<request, phase, left, kept>>
  BY <1>2 DEF FollowEdge, Becomes, Returns, Asks, NoWrite
<1>6. Refuting(request.subject, kept, Doubted, Top)
  BY <1>1 DEF Exact
<1>7. GoalOf(f) = GoalOf(Top)
  BY <1>3 DEF GoalOf
<1>8. CASE /\ Replaced(f) /\ ret' = "none" /\ SameMemo
           /\ ~e.active \/ (~Hits(request.subject, Top.term, e) /\ Beyond(Top.term, e) = {})
  <2>1. Refuting(request.subject, kept, Doubted, f)
    BY <1>0, <1>3, <1>6, <1>8 DEF Refuting, EdgeTerm
  <2> QED BY <1>3, <1>5, <1>7, <1>8, <2>1, ExactReplaced DEF SameMemo
<1>9. ASSUME NEW g \in Beyond(Top.term, e), g \in Goal, ret' = "none", SameMemo,
             Pushed([f EXCEPT !.at = "wait", !.asked = g], Call(g, f.depth + 1)),
             e.active, ~Hits(request.subject, Top.term, e)
      PROVE Exact'
  <2> DEFINE h == [f EXCEPT !.at = "wait", !.asked = g]
  <2>1. h \in Frame /\ h.node = Top.node /\ h.term = Top.term /\ h.at = "wait" /\ h.asked = g
        /\ h.edges = Top.edges \ {e}
    BY <1>3, <1>9 DEF Frame
  <2>2. f.depth + 1 \in 0 .. MaxDepth + 1
    BY <1>1, <1>3
  <2>3. GoalOf(h) = GoalOf(Top)
    BY <2>1 DEF GoalOf
  <2>4. Pushed(h, Call(g, f.depth + 1))
    BY <1>9
  <2> HIDE DEF h
  <2>5. Beyond(Top.term, e) \subseteq {g}
    BY OnlyOneBeyond
  <2>6. Refuting(request.subject, kept, Doubted, h)
    BY <1>0, <1>6, <1>9, <2>1, <2>5 DEF Refuting, EdgeTerm
  <2>7. /\ Call(g, f.depth + 1) \in Frame /\ Call(g, f.depth + 1).at = "enter"
        /\ Call(g, f.depth + 1).part = 0
    BY <1>9, <2>2, CallTyped
  <2> QED BY <1>0, <1>5, <1>9, <2>1, <2>3, <2>4, <2>6, <2>7, ExactPushed
<1> QED BY <1>4, <1>8, <1>9

LEMMA AskPartExact ==
  ASSUME Core, Exact, AskPart
  PROVE Exact'
<1> DEFINE parts == Parts(Top.node, Top.term)
           f == [Top EXCEPT !.part = @ + 1]
           g == <<Top.node, parts[Top.part + 1]>>
           h == [f EXCEPT !.at = "wait", !.asked = g]
<1>0. stack # <<>> /\ Top.at = "ready" /\ ret = "none" /\ ~EdgeTerm(Top.term)
  BY DEF AskPart, Running
<1>1. Top \in Frame /\ Top = stack[Len(stack)] /\ WellFormed(wentOn, Top)
      /\ Len(stack) \in 1 .. Len(stack)
      /\ Top.term \in Expr /\ Top.node \in Node /\ Top.depth \in 0 .. MaxDepth
      /\ Top.part \in Nat
  BY <1>0, RunningFacts, FrameFields DEF WellFormed
<1>2. parts \in Seq(Expr) /\ Top.part < Len(parts)
  BY <1>1, PartsTyped DEF AskPart
<1>3. parts[Top.part + 1] \in Expr
  <2> HIDE DEF parts
  <2> QED BY <1>1, <1>2
<1>4. g \in Goal
  BY <1>1, <1>3 DEF Goal
<1>5. f \in Frame /\ f.depth = Top.depth /\ f.node = Top.node /\ f.term = Top.term
      /\ f.part = Top.part + 1
  BY <1>1 DEF Frame
<1>6. Asks(f, g, Top.depth) /\ SameMemo
  BY <1>5 DEF AskPart
<1>7. /\ h.node = Top.node /\ h.term = Top.term /\ h.part = Top.part + 1
      /\ h.at = "wait" /\ h \in Frame
  <2> HIDE DEF f, g
  <2> QED BY <1>4, <1>5 DEF Frame
<1>8. Pushed(h, Call(g, Top.depth)) /\ ret' = "none" /\ UNCHANGED <<request, phase, left, kept>>
  <2>1. Pushed(h, Call(g, Top.depth))
    <3>1. Top.depth \in 0 .. MaxDepth + 1
      BY <1>1
    <3> HIDE DEF f, g
    <3> QED BY <1>0, <1>4, <1>5, <1>6, <3>1, Shapes DEF Core
  <2> QED BY <1>0, <1>6, <2>1 DEF Asks, AskPart, NoWrite
<1>9. /\ Call(g, Top.depth) \in Frame /\ Call(g, Top.depth).at = "enter"
      /\ Call(g, Top.depth).part = 0
  BY <1>1, <1>4, CallTyped
<1>10. \A i : PartOf(h, i) = PartOf(Top, i)
  BY <1>7 DEF PartOf
<1>11. GoalOf(h) = GoalOf(Top)
  BY <1>7 DEF GoalOf
<1> HIDE DEF h, g
<1>12. Refuting(request.subject, kept, Doubted, h)
  <2>1. Refuting(request.subject, kept, Doubted, Top)
    BY <1>1 DEF Exact
  <2>2. \A i \in 1 .. h.part : i < h.part => i \in 1 .. Top.part
    BY <1>1, <1>7
  <2> QED BY <1>0, <1>7, <1>10, <2>1, <2>2 DEF Refuting, EdgeTerm
<1> QED BY <1>0, <1>6, <1>7, <1>8, <1>9, <1>11, <1>12, ExactPushed

(* A call that answers no cannot follow from what is not in doubt. *)
LEMMA ExhaustedExact ==
  ASSUME Core, Exact, Exhausted, ~wentOn, ret' # "yes"
  PROVE Exact'
<1> DEFINE D == Doubted \cup {GoalOf(Top)}
           parts == Parts(Top.node, Top.term)
<1>0. stack # <<>> /\ Top.at = "ready"
  BY DEF Exhausted, Running
<1>1. Top \in Frame /\ Top = stack[Len(stack)] /\ Len(stack) \in 1 .. Len(stack)
      /\ Top.term \in Expr /\ Top.node \in Node /\ WellFormed(wentOn, Top) /\ Top.part \in Nat
  BY <1>0, RunningFacts, FrameFields
<1>2. Returns(Top, "no") /\ Top.term.kind # "intersect"
  BY DEF Exhausted, Returns
<1>3. Popped /\ UNCHANGED <<request, phase, left, kept>>
  BY <1>0, <1>2, Shapes DEF Core, Returns, Exhausted, NoWrite
<1>4. Refuting(request.subject, kept, Doubted, Top)
  BY <1>1 DEF Exact
<1>5. ~Follows(request.subject, Goal \ Doubted, kept, GoalOf(Top))
  <2>0. GoalOf(Top)[1] = Top.node /\ GoalOf(Top)[2] = Top.term
    BY DEF GoalOf
  <2>1. CASE EdgeTerm(Top.term)
    <3>1. Top.edges = {}
      BY <2>1 DEF Exhausted
    <3> QED BY <1>0, <1>4, <2>0, <2>1, <3>1 DEF Refuting, Follows, EdgeTerm
  <2>2. CASE Top.term.kind \in {"rule", "union"}
    <3>1. Top.part = Len(parts) /\ parts \in Seq(Expr)
      BY <1>1, <2>2, PartsTyped DEF Exhausted, EdgeTerm
    <3>2. \A i \in DOMAIN parts : i \in 1 .. Top.part
      BY <3>1
    <3>3. \A i \in DOMAIN parts : <<Top.node, parts[i]>> \in Doubted
      BY <1>0, <1>4, <2>2, <3>2 DEF Refuting, PartOf
    <3> QED BY <2>0, <2>2, <3>3 DEF Follows, EdgeTerm
  <2>3. CASE Top.term.kind = "exclude"
    <3>1. Top.part = 2
      BY <1>1, <2>3, ExprAssumption DEF Exhausted, EdgeTerm, Parts
    <3> QED BY <1>0, <1>1, <2>3, <3>1 DEF WellFormed, Mixed
  <2> QED BY <1>1, <1>2, <2>1, <2>2, <2>3, Kinds DEF EdgeTerm
<1>6. ~Follows(request.subject, Goal \ D, kept, GoalOf(Top))
  BY <1>5, StillRefuted
<1>7. denied' = denied \cup {GoalOf(Top)} /\ open' \cup dead' \subseteq open \cup dead \cup {GoalOf(Top)}
  BY <1>2 DEF Returns
<1> QED BY <1>3, <1>6, <1>7, ExactPopped

LEMMA ResumeExact ==
  ASSUME Core, Exact, Resume, ~wentOn, ret = "no", ret' # "yes"
  PROVE Exact'
<1> DEFINE D == Doubted \cup {GoalOf(Top)}
           parts == Parts(Top.node, Top.term)
<1>0. stack # <<>> /\ Verdict(Top, "no") = "no"
  BY DEF Resume, Verdict, Returns
<1>1. Top \in Frame /\ Top = stack[Len(stack)] /\ Len(stack) \in 1 .. Len(stack)
      /\ Top.term \in Expr /\ Top.node \in Node /\ WellFormed(wentOn, Top) /\ Top.part \in Nat
      /\ Top.at = "wait"
  BY <1>0, RunningFacts, FrameFields
<1>2. Returns(Top, "no")
  BY <1>0 DEF Resume
<1>3. Popped /\ UNCHANGED <<request, phase, left, kept>>
  BY <1>0, <1>2, Shapes DEF Core, Returns, Resume, NoWrite
<1>4. Top.term.kind = "intersect" \/ (Top.term.kind = "exclude" /\ Top.part = 1)
  BY <1>0 DEF Verdict
<1>5. Top.asked \in Doubted /\ Top.asked = PartOf(Top, Top.part) /\ Top.part >= 1
      /\ Top.part <= Len(parts)
  BY <1>0, <1>1, <1>4 DEF Exact, WellFormed, EdgeTerm
<1>6. ~Follows(request.subject, Goal \ Doubted, kept, GoalOf(Top))
  <2>0. GoalOf(Top)[1] = Top.node /\ GoalOf(Top)[2] = Top.term
    BY DEF GoalOf
  <2>1. parts \in Seq(Expr)
    BY <1>1, PartsTyped
  <2>2. Top.part \in DOMAIN parts
    <3> HIDE DEF parts
    <3> QED BY <1>1, <1>5, <2>1
  <2>3. <<Top.node, parts[Top.part]>> \in Doubted
    BY <1>5 DEF PartOf
  <2> QED BY <1>4, <2>0, <2>2, <2>3 DEF Follows, EdgeTerm
<1>7. ~Follows(request.subject, Goal \ D, kept, GoalOf(Top))
  BY <1>6, StillRefuted
<1>8. denied' = denied \cup {GoalOf(Top)} /\ open' \cup dead' \subseteq open \cup dead \cup {GoalOf(Top)}
  BY <1>2 DEF Returns
<1> QED BY <1>3, <1>7, <1>8, ExactPopped

LEMMA GoOnExact ==
  ASSUME Core, Exact, GoOn, ret = "no"
  PROVE Exact'
<1> DEFINE f == [Top EXCEPT !.at = "ready"]
<1>0. stack # <<>>
  BY DEF GoOn
<1>1. Top \in Frame /\ Top = stack[Len(stack)] /\ WellFormed(wentOn, Top)
      /\ Top.at = "wait" /\ stack \in Seq(Frame) /\ Top.part \in Nat
      /\ Len(stack) \in 1 .. Len(stack)
  BY <1>0, RunningFacts, FrameFields
<1>2. f \in Frame /\ f.node = Top.node /\ f.term = Top.term
      /\ f.part = Top.part /\ f.edges = Top.edges /\ f.at = "ready"
  BY <1>1 DEF Frame
<1>3. stack' = [stack EXCEPT ![Len(stack)] = f]
  BY <1>1 DEF GoOn
<1>4. GoalOf(f) = GoalOf(Top) /\ \A i : PartOf(f, i) = PartOf(Top, i)
  BY <1>2 DEF GoalOf, PartOf
<1> HIDE DEF f
<1>5. Replaced(f)
  BY <1>0, <1>1, <1>2, <1>3, Replacing DEF Replaced
<1>6. Refuting(request.subject, kept, Doubted, f)
  <2>1. Refuting(request.subject, kept, Doubted, Top) /\ Top.asked \in Doubted
    BY <1>0, <1>1 DEF Exact
  <2>2. \A i \in 1 .. Top.part : i < Top.part \/ i = Top.part
    BY <1>1
  <2>3. Top.term.kind \in {"rule", "union"} => Top.asked = PartOf(Top, Top.part)
    BY <1>1 DEF WellFormed, EdgeTerm
  <2> QED BY <1>1, <1>2, <1>4, <2>1, <2>2, <2>3 DEF Refuting, EdgeTerm
<1> QED BY <1>2, <1>4, <1>5, <1>6, ExactReplaced DEF GoOn, NoWrite, SameMemo

(* Until something matches, a walk that has not answered yes was never told yes. *)
LEMMA NeverTold ==
  ASSUME Core, Walk, ~wentOn', ret' # "yes"
  PROVE ~wentOn /\ ret # "yes"
<1>1. CASE Resume
  <2>1. stack # <<>> /\ wentOn' = wentOn /\ ret' = Verdict(Top, ret) /\ ret # "none"
    BY <1>1 DEF Resume, Returns
  <2>2. Top \in Frame /\ WellFormed(wentOn, Top) /\ Top.at = "wait" /\ Top.part \in Nat
    BY <2>1, RunningFacts, FrameFields
  <2>3. ASSUME ret = "yes" PROVE FALSE
    <3>1. Top.term.kind = "exclude" /\ Top.part # 1
      BY <1>1, <2>1, <2>3 DEF Verdict, Resume
    <3> QED BY <2>1, <2>2, <3>1 DEF WellFormed, Mixed, EdgeTerm
  <2> QED BY <2>1, <2>3
<1>2. CASE GoOn
  BY <1>2 DEF GoOn
<1>3. CASE Enter \/ MeetsAgain \/ ReadOwn \/ ReadStar \/ FollowEdge \/ AskPart \/ Exhausted
  BY <1>3 DEF Enter, MeetsAgain, ReadOwn, ReadStar, FollowEdge, AskPart, Exhausted, Running
<1> QED BY <1>1, <1>2, <1>3 DEF Walk

LEMMA WalkComplete ==
  ASSUME Core, Complete, Walk
  PROVE Complete'
<1>1. phase' = phase /\ decision' = decision
  BY DEF Walk, Enter, MeetsAgain, ReadOwn, ReadStar, FollowEdge, AskPart, Exhausted, Resume,
         GoOn, Becomes, Asks, Returns
<1>2. phase # "idle" /\ decision = "none"
  <2>1. stack # <<>>
    BY DEF Walk, Enter, MeetsAgain, ReadOwn, ReadStar, FollowEdge, AskPart, Exhausted, Resume,
           GoOn, Running
  <2> QED BY <2>1 DEF Core, Phases
<1>3. ASSUME ~wentOn', ret' # "yes"
      PROVE Exact'
  <2>1. Exact /\ ~wentOn /\ ret # "yes"
    BY <1>2, <1>3, NeverTold DEF Complete
  <2>2. (Resume \/ GoOn) => ret = "no"
    BY <2>1 DEF Resume, GoOn, Core, TypeOK
  <2> QED BY <1>3, <2>1, <2>2, EnterExact, MeetsAgainExact, ReadOwnExact, ReadStarExact,
         FollowEdgeExact, AskPartExact, ExhaustedExact, ResumeExact, GoOnExact DEF Walk
<1> QED BY <1>1, <1>2, <1>3 DEF Complete

(* Between walks, what is in doubt is what was refuted. *)
LEMMA ExactMeans ==
  ASSUME Core, Exact, stack = <<>>, ret = "no", phase = "others" \/ (phase = "check" /\ left = {})
  PROVE /\ Closed(request.subject, Goal \ denied, kept)
        /\ {Body(request, a) : a \in ({request.action} \cap Ruled(request))} \subseteq denied
        /\ phase = "others" => {Body(request, a) : a \in Ruled(request) \ left} \subseteq denied
<1>1. 1 .. Len(stack) = {} /\ Doubted = denied
  BY DEF Doubted
<1>2. Closed(request.subject, Goal \ denied, kept)
  BY <1>1 DEF Exact, Closed
<1> QED BY <1>2 DEF Exact, Core, Phases

LEMMA AskComplete ==
  ASSUME Core, Complete, Ask
  PROVE Complete'
<1>1. stack' = <<>> /\ open' = {} /\ dead' = {} /\ denied' = {} /\ phase' = "check"
      /\ decision' = "none" /\ ret' = "no"
  BY DEF Core, Phases, Complete, Ask
<1>2. 1 .. Len(stack') = {}
  BY <1>1
<1>3. \A a \in Ruled(request)' \ left' : a # request'.action
  BY DEF Ask, Ruled
<1> QED BY <1>1, <1>2, <1>3 DEF Complete, Exact

LEMMA StartRunComplete ==
  ASSUME Core, Complete, StartRun
  PROVE Complete'
<1>1. PICK a \in left : left' = left \ {a} /\ stack' = <<Call(Body(request, a), 0)>>
  BY StartRunCore
<1>2. a \in Ruled(request) /\ request \in Request
  BY <1>1 DEF Core, Phases, TypeOK
<1>3. Body(request, a) \in Goal
  BY <1>2, BodyTyped
<1> DEFINE c == Call(Body(request, a), 0)
<1>4. c.at = "enter" /\ c.part = 0 /\ GoalOf(c) = Body(request, a)
  BY <1>3, CallTyped
<1>5. stack' = <<c>>
  BY <1>1
<1> HIDE DEF c
<1>6. Len(stack') = 1 /\ stack'[1] = c /\ stack' # <<>>
  BY <1>5
<1>7. UNCHANGED <<request, phase, decision, denied, wentOn, kept>> /\ ret' = "none"
      /\ open' = {} /\ dead' = {} /\ phase # "idle" /\ stack = <<>> /\ ret = "no"
  BY DEF StartRun, NoWrite
<1>8. decision' = "none"
  BY <1>7 DEF Core, Phases
<1>9. ASSUME ~wentOn' PROVE Exact'
  <2>1. Exact
    BY <1>7, <1>9 DEF Complete
  <2>2. Doubted = denied /\ Doubted' = denied
    <3>1. 1 .. Len(stack) = {}
      BY <1>7
    <3>2. {j \in 1 .. Len(stack') : stack'[j].at # "enter"} = {}
      BY <1>4, <1>6
    <3> QED BY <1>7, <3>1, <3>2 DEF Doubted
  <2>3. \A i \in 1 .. Len(stack') : Refuting(request.subject, kept, Doubted', stack'[i])
    BY <1>4, <1>6 DEF Refuting
  <2>4. \A b : Body(request, b)' = Body(request, b) /\ Ruled(request)' = Ruled(request)
    BY <1>7 DEF Body, Ruled
  <2>5. \A b \in Ruled(request) \ left' : b = a \/ b \in Ruled(request) \ left
    BY <1>1
  <2> QED BY <1>4, <1>6, <1>7, <2>1, <2>2, <2>3, <2>4, <2>5 DEF Exact
<1> QED BY <1>7, <1>8, <1>9 DEF Complete

LEMMA TryOthersComplete ==
  ASSUME Core, Complete, TryOthers
  PROVE Complete'
<1>1. UNCHANGED <<request, decision, kept, stack, denied, open, dead, ret, wentOn>>
      /\ stack = <<>> /\ ret = "no" /\ phase = "check" /\ left = {} /\ decision = "none"
      /\ phase' = "others"
  BY DEF TryOthers, NoWrite, SameMemo, Core, Phases
<1>2. \A a : Body(request, a)' = Body(request, a) /\ Ruled(request)' = Ruled(request)
  BY <1>1 DEF Body, Ruled
<1>3. Doubted' = Doubted /\ 1 .. Len(stack) = {}
  BY <1>1 DEF Doubted
<1>4. ASSUME ~wentOn' PROVE Exact'
  <2>1. Exact
    BY <1>1, <1>4 DEF Complete
  <2>2. \A a \in Ruled(request) \ left' : Body(request, a) \in denied
    BY <1>1, <2>1 DEF TryOthers, Exact
  <2> QED BY <1>1, <1>2, <1>3, <2>1, <2>2 DEF Exact
<1> QED BY <1>1, <1>4 DEF Complete

LEMMA DecideComplete ==
  ASSUME Core, Complete, Decide \/ Fail
  PROVE Complete'
<1>1. /\ phase' = "idle" /\ open' = {} /\ dead' = {} /\ stack' = <<>> /\ left' = {}
      /\ UNCHANGED <<request, kept, denied, wentOn>>
  BY DEF Decide, Fail, Decides, NoWrite
<1>2. ASSUME decision' = "unreachable", ~wentOn'
      PROVE DenialsAreExact'
  <2>1. ret = "no" /\ left = {} /\ phase = "others" /\ stack = <<>>
    BY <1>2 DEF Decide, Fail, Decides
  <2>2. Exact
    BY <1>1, <1>2, <2>1 DEF Complete
  <2>3. /\ Closed(request.subject, Goal \ denied, kept)
        /\ {Body(request, a) : a \in ({request.action} \cap Ruled(request))} \subseteq denied
        /\ {Body(request, a) : a \in Ruled(request) \ left} \subseteq denied
    BY <2>1, <2>2, ExactMeans
  <2>4. \A a : Body(request, a)' = Body(request, a) /\ Ruled(request)' = Ruled(request)
    BY <1>1 DEF Body, Ruled
  <2>5. Closed(request.subject, Goal \ denied, kept)'
    BY <1>1, <2>3
  <2> QED BY <1>1, <2>1, <2>3, <2>4, <2>5 DEF DenialsAreExact
<1> QED BY <1>1, <1>2 DEF Complete

LEMMA StoresComplete ==
  ASSUME Core, Complete, NEW E \in SUBSET Edge, Stores(E)
  PROVE Complete'
<1>1. UNCHANGED <<request, phase, left, stack, ret, open, dead, decision, denied, wentOn>>
      /\ kept' \subseteq kept /\ (phase = "idle" => kept' = kept)
  BY DEF Stores
<1>2. \A a : Body(request, a)' = Body(request, a) /\ Ruled(request)' = Ruled(request)
  BY <1>1 DEF Body, Ruled
<1>3. ASSUME Exact PROVE Exact'
  <2>1. Doubted' = Doubted
    BY <1>1 DEF Doubted
  <2>2. \A g \in denied : ~Follows(request.subject, Goal \ Doubted, kept', g)
    BY <1>1, <1>3, StillRefuted DEF Exact
  <2>3. \A i \in 1 .. Len(stack) : Refuting(request.subject, kept', Doubted, stack[i])
    BY <1>1, <1>3, RefutingMono DEF Exact
  <2> QED BY <1>1, <1>2, <1>3, <2>1, <2>2, <2>3 DEF Exact
<1>4. decision = "unreachable" => phase = "idle"
  BY DEF Core, Phases
<1>5. ASSUME phase = "idle", DenialsAreExact PROVE DenialsAreExact'
  <2>1. UNCHANGED <<request, phase, left, stack, ret, decision, denied, wentOn, kept>>
    BY <1>1, <1>5
  <2> QED BY <1>2, <1>5, <2>1 DEF DenialsAreExact
<1> QED BY <1>1, <1>3, <1>4, <1>5 DEF Complete

LEMMA NextComplete ==
  ASSUME Core, Complete, [Next]_vars
  PROVE Complete'
<1>1. CASE Ask
  BY <1>1, AskComplete
<1>2. CASE StartRun
  BY <1>2, StartRunComplete
<1>3. CASE TryOthers
  BY <1>3, TryOthersComplete
<1>4. CASE Decide \/ Fail
  BY <1>4, DecideComplete
<1>5. CASE Walk
  BY <1>5, WalkComplete
<1>6. CASE WriteEdge \/ DeleteEdge
  BY <1>6, WritesStore, StoresComplete
<1>7. CASE UNCHANGED vars
  <2>1. UNCHANGED <<request, phase, left, stack, ret, open, dead, decision, denied, wentOn, kept>>
    BY <1>7 DEF vars
  <2>2. Doubted' = Doubted /\ \A a : Body(request, a)' = Body(request, a)
        /\ Ruled(request)' = Ruled(request)
    BY <2>1 DEF Doubted, Body, Ruled
  <2>3. Exact' = Exact
    BY <2>1, <2>2 DEF Exact
  <2>4. DenialsAreExact' = DenialsAreExact
    BY <2>1, <2>2 DEF DenialsAreExact
  <2> QED BY <2>1, <2>3, <2>4 DEF Complete
<1> QED BY <1>1, <1>2, <1>3, <1>4, <1>5, <1>6, <1>7 DEF Next

(* While no walk of a request has gone on after a match, every goal it has
   refuted is out of reach of the edges that were there throughout: for every
   schema and graph, however its loops run into each other, and whatever is
   written meanwhile, the memo never turns a reachable goal into a denial. *)
THEOREM DenialsMeanOutOfReach == Spec => []DenialsAreExact
<1>1. Init => Core /\ Complete
  BY InitCore DEF Init, Complete
<1>2. Core /\ Complete /\ [Next]_vars => Core' /\ Complete'
  BY NextCore, NextComplete
<1>3. Core /\ Complete => DenialsAreExact
  <2> SUFFICES ASSUME Core, Complete, ~wentOn, stack = <<>>, phase = "others", ret = "no"
               PROVE DenialsAreExact
    BY DEF Complete, DenialsAreExact
  <2>1. Exact
    BY DEF Complete
  <2> QED BY <2>1, ExactMeans DEF DenialsAreExact
<1> QED BY <1>1, <1>2, <1>3, PTL DEF Spec

---------------------------------------------------------------------------
(* One graph, one answer *)

AskedRule(r) == {r.action} \cap Ruled(r)

(* The answer a is what the edges E say, whoever asks and in whatever order. *)
Backed(a, E) ==
    LET r == a.request
        derivable(b) == Derivable(r.subject, E, Body(r, b))
    IN  /\ a.decision # "excluded"
        /\ a.decision = "allowed" => \E b \in AskedRule(r) : derivable(b)
        /\ a.decision \in {"no_rule", "unreachable"} => \A b \in AskedRule(r) : ~derivable(b)
        /\ a.decision = "no_rule" => \E b \in Ruled(r) \ {r.action} : derivable(b)
        /\ a.decision = "unreachable" => \A b \in Ruled(r) : ~derivable(b)

Determined ==
    /\ phase = "others" /\ ~wentOn =>
        \A b \in AskedRule(request) : ~Derivable(request.subject, kept, Body(request, b))
    /\ excluded => wentOn
    /\ \A a \in answers : ~a.wentOn => Backed(a, edges)

(* A goal outside some closed set is not derivable, nor is it from fewer edges. *)
LEMMA OutsideClosed ==
  ASSUME NEW u, NEW E, NEW I, Closed(u, I, E), NEW g, g \notin I
  PROVE ~Derivable(u, E, g)
BY DEF Derivable

LEMMA BodySame ==
  ASSUME request' = request
  PROVE /\ Ruled(request)' = Ruled(request) /\ AskedRule(request)' = AskedRule(request)
        /\ \A a : Body(request, a)' = Body(request, a)
BY DEF Ruled, AskedRule, Body

(* What is left alone by a walk, and what a call that returns may set. *)
LEMMA WalkDetermined ==
  ASSUME Core, Determined, Walk
  PROVE Determined'
<1>1. UNCHANGED <<edges, kept, request, phase, answers>> /\ (wentOn => wentOn')
  <2>1. UNCHANGED <<edges, kept>>
    BY DEF Walk, Enter, MeetsAgain, ReadOwn, ReadStar, FollowEdge, AskPart, Exhausted, Resume,
           GoOn, NoWrite
  <2>2. UNCHANGED <<request, phase, answers>>
    BY DEF Walk, Enter, MeetsAgain, ReadOwn, ReadStar, FollowEdge, AskPart, Exhausted, Resume,
           GoOn, Becomes, Asks, Returns
  <2>3. wentOn => wentOn'
    BY DEF Walk, Enter, MeetsAgain, ReadOwn, ReadStar, FollowEdge, AskPart, Exhausted, Resume,
           GoOn
  <2> QED BY <2>1, <2>2, <2>3
<1>2. excluded' => wentOn'
  <2>1. CASE Resume
    <3>1. Top \in Frame /\ WellFormed(wentOn, Top) /\ Top.part \in Nat
      BY <2>1, RunningFacts, FrameFields DEF Resume
    <3>2. Removed(Top) => wentOn
      BY <3>1 DEF Removed, WellFormed, Mixed
    <3> QED BY <2>1, <3>2 DEF Resume, Determined
  <2>2. CASE Enter \/ MeetsAgain \/ ReadOwn \/ ReadStar \/ FollowEdge \/ AskPart \/ Exhausted \/ GoOn
    <3>1. excluded' = excluded
      BY <2>2 DEF Enter, MeetsAgain, ReadOwn, ReadStar, FollowEdge, AskPart, Exhausted, GoOn,
             Becomes, Asks
    <3> QED BY <1>1, <3>1 DEF Determined
  <2> QED BY <2>1, <2>2 DEF Walk
<1>3. ASSUME phase' = "others", ~wentOn'
      PROVE \A b \in AskedRule(request)' :
              ~Derivable(request'.subject, kept', Body(request, b)')
  BY <1>1, <1>3, BodySame DEF Determined
<1>4. \A a \in answers' : ~a.wentOn => Backed(a, edges')
  BY <1>1 DEF Determined
<1> QED BY <1>2, <1>3, <1>4 DEF Determined

(* The asked action's own rule has been refuted when the others are tried. *)
LEMMA TryOthersDetermined ==
  ASSUME Core, Complete, Determined, TryOthers
  PROVE Determined'
<1>1. UNCHANGED <<edges, kept, request, answers, wentOn, excluded>>
      /\ phase = "check" /\ stack = <<>> /\ ret = "no" /\ left = {}
  BY DEF TryOthers, NoWrite
<1>2. ASSUME ~wentOn, NEW b \in AskedRule(request)
      PROVE ~Derivable(request.subject, kept, Body(request, b))
  <2>1. Exact
    BY <1>1, <1>2 DEF Complete
  <2>2. /\ Closed(request.subject, Goal \ denied, kept)
        /\ Body(request, b) \in denied
    BY <1>1, <1>2, <2>1, ExactMeans DEF AskedRule
  <2> QED BY <2>2, OutsideClosed
<1>3. \A a \in answers' : ~a.wentOn => Backed(a, edges')
  BY <1>1 DEF Determined
<1> QED BY <1>1, <1>2, <1>3, BodySame DEF Determined

(* An answer is kept only when nothing was written since it was asked. *)
LEMMA DecideDetermined ==
  ASSUME Core, Sound, Complete, Determined, Decide \/ Fail
  PROVE Determined'
<1>1. /\ phase' = "idle" /\ excluded' = FALSE /\ UNCHANGED edges
      /\ (phase # "idle" /\ stack = <<>>) \/ Fail
  BY DEF Decide, Fail, Decides, NoWrite
<1>2. ASSUME NEW a \in answers', a \notin answers, ~a.wentOn
      PROVE Backed(a, edges)
  <2>1. /\ a = [request |-> request, decision |-> decision', wentOn |-> wentOn]
        /\ kept = seen
    BY <1>2 DEF Decide, Fail, Decides
  <2>2. a.request = request /\ a.decision = decision' /\ ~wentOn
    BY <1>2, <2>1
  <2>3. CASE Fail
    BY <2>2, <2>3 DEF Fail, Decides, Backed
  <2>4. CASE Decide
    <3>1. phase # "idle" /\ stack = <<>> /\ kept = edges /\ seen = edges
      BY <2>1, <2>4 DEF Decide, Core, Phases
    <3>2. ASSUME phase = "others"
          PROVE \A b \in AskedRule(request) :
                  ~Derivable(request.subject, edges, Body(request, b))
      BY <2>2, <3>1, <3>2 DEF Determined
    <3>3. CASE ret = "yes"
      <4>1. PICK b \in Tried : Derivable(request.subject, edges, Body(request, b))
        BY <3>1, <3>3 DEF Sound
      <4>2. CASE phase = "check"
        <5>1. decision' = "allowed" /\ b \in AskedRule(request)
          BY <2>4, <3>3, <4>2 DEF Decide, Decides, Tried, AskedRule
        <5> QED BY <2>2, <4>1, <5>1 DEF Backed
      <4>3. CASE phase # "check"
        <5>1. decision' = "no_rule" /\ b \in Ruled(request) \ {request.action}
              /\ phase = "others"
          BY <2>4, <3>1, <3>3, <4>3 DEF Decide, Decides, Tried, Core, TypeOK
        <5> QED BY <2>2, <3>2, <4>1, <5>1 DEF Backed
      <4> QED BY <4>2, <4>3
    <3>4. CASE ret # "yes"
      <4>1. ret = "no" /\ left = {}
        BY <2>4, <3>4 DEF Decide
      <4>2. decision' = "unreachable" /\ phase = "others"
        BY <2>2, <2>4, <3>4 DEF Decide, Decides, Determined
      <4>3. Exact
        BY <2>2, <3>1, <3>4 DEF Complete
      <4>4. /\ Closed(request.subject, Goal \ denied, kept)
            /\ {Body(request, b) : b \in Ruled(request)} \subseteq denied
        BY <3>1, <4>1, <4>2, <4>3, ExactMeans
      <4>5. \A b \in Ruled(request) : ~Derivable(request.subject, edges, Body(request, b))
        BY <3>1, <4>4, OutsideClosed
      <4> QED BY <2>2, <3>2, <4>2, <4>5 DEF Backed
    <3> QED BY <3>3, <3>4
  <2> QED BY <2>3, <2>4
<1>3. \A a \in answers' : ~a.wentOn => Backed(a, edges')
  BY <1>1, <1>2 DEF Determined
<1> QED BY <1>1, <1>3 DEF Determined

LEMMA StoresDetermined ==
  ASSUME Core, Determined, NEW E \in SUBSET Edge, Stores(E)
  PROVE Determined'
<1>1. UNCHANGED <<request, phase, wentOn, excluded>> /\ kept' \subseteq kept /\ answers' = {}
  BY DEF Stores
<1>2. \A g : Derivable(request.subject, kept', g) => Derivable(request.subject, kept, g)
  BY <1>1, DerivableMono
<1> QED BY <1>1, <1>2, BodySame DEF Determined

LEMMA NextDetermined ==
  ASSUME Core, Sound, Complete, Determined, [Next]_vars
  PROVE Determined'
<1>1. CASE Ask
  BY <1>1 DEF Ask, Determined
<1>2. CASE StartRun
  <2>1. UNCHANGED <<edges, kept, request, phase, answers, wentOn>> /\ excluded' = FALSE
    BY <1>2 DEF StartRun, NoWrite
  <2> QED BY <2>1, BodySame DEF Determined
<1>3. CASE TryOthers
  BY <1>3, TryOthersDetermined
<1>4. CASE Decide \/ Fail
  BY <1>4, DecideDetermined
<1>5. CASE Walk
  BY <1>5, WalkDetermined
<1>6. CASE WriteEdge \/ DeleteEdge
  BY <1>6, WritesStore, StoresDetermined
<1>7. CASE UNCHANGED vars
  <2>1. UNCHANGED <<edges, kept, request, phase, answers, wentOn, excluded>>
    BY <1>7 DEF vars
  <2> QED BY <2>1, BodySame DEF Determined
<1> QED BY <1>1, <1>2, <1>3, <1>4, <1>5, <1>6, <1>7 DEF Next

(* The answer belongs to the question and the edges, not to the order in which
   the store lists them or the memo meets them: two checks of one question over
   the same edges, neither of which went on after a match nor ran out of depth,
   answer alike, for every schema and graph. *)
THEOREM OrderDoesNotDecide == Spec => []SameAnswerInAnyOrder
<1>1. Init => Core /\ Sound /\ Complete /\ Determined
  <2>1. ASSUME Init PROVE 1 .. Len(stack) = {}
    BY <2>1 DEF Init
  <2> QED BY <2>1, InitCore DEF Init, Sound, Justified, Complete, Determined
<1>2. Core /\ Sound /\ Complete /\ Determined /\ [Next]_vars
      => Core' /\ Sound' /\ Complete' /\ Determined'
  BY NextCore, NextSound, NextComplete, NextDetermined
<1>3. Core /\ Determined => SameAnswerInAnyOrder
  <2> SUFFICES ASSUME Core, Determined, NEW a \in answers, NEW b \in answers,
                      a.request = b.request, ~a.wentOn, ~b.wentOn,
                      "error" \notin {a.decision, b.decision}
               PROVE a.decision = b.decision
    BY DEF SameAnswerInAnyOrder
  <2>1. Backed(a, edges) /\ Backed(b, edges)
    BY DEF Determined
  <2>2. {a.decision, b.decision} \subseteq {"allowed", "no_rule", "unreachable"}
    BY <2>1 DEF Core, TypeOK, Backed
  <2> QED BY <2>1, <2>2 DEF Backed
<1> QED BY <1>1, <1>2, <1>3, PTL DEF Spec

---------------------------------------------------------------------------
(* Depth counts different goals *)

Under(f) == EdgeTerm(f.term) /\ f.at # "enter"

(* The calls that follow edges are at goals in progress, all different. *)
Opened ==
    /\ \A i \in 1 .. Len(stack) : Under(stack[i]) => GoalOf(stack[i]) \in open
    /\ \A i, j \in 1 .. Len(stack) :
        i < j /\ EdgeTerm(stack[i].term) /\ Under(stack[j]) => GoalOf(stack[i]) # GoalOf(stack[j])

(* The goals from which edges are being followed below call k. *)
Beneath(k) == {GoalOf(stack[i]) : i \in {j \in 1 .. k - 1 : EdgeTerm(stack[j].term)}}

Ladder ==
    /\ Opened
    /\ \A k \in 1 .. Len(stack) :
        IsFiniteSet(Beneath(k)) /\ Cardinality(Beneath(k)) = stack[k].depth

LEMMA BeneathSame ==
  ASSUME Len(stack) \in Nat \ {0}, \A i \in 1 .. Len(stack) - 1 : stack'[i] = stack[i]
  PROVE \A k \in 1 .. Len(stack) : Beneath(k)' = Beneath(k)
<1> TAKE k \in 1 .. Len(stack)
<1>1. 1 .. k - 1 \subseteq 1 .. Len(stack) - 1
  OBVIOUS
<1>2. \A i \in 1 .. k - 1 : stack'[i] = stack[i]
  BY <1>1
<1>3. {j \in 1 .. k - 1 : EdgeTerm(stack'[j].term)} = {j \in 1 .. k - 1 : EdgeTerm(stack[j].term)}
  BY <1>2
<1> QED BY <1>2, <1>3 DEF Beneath

LEMMA GoalTerm ==
  ASSUME NEW f, NEW h, GoalOf(f) = GoalOf(h)
  PROVE f.term = h.term /\ f.node = h.node
BY DEF GoalOf

LEMMA LadderReplaced ==
  ASSUME Core, Ladder, NEW f \in Frame, Replaced(f), GoalOf(f) = GoalOf(Top),
         f.depth = Top.depth, open \subseteq open',
         Under(f) => GoalOf(f) \in open',
         Under(f) /\ Top.at = "enter" => GoalOf(f) \notin open
  PROVE Ladder'
<1>0. Len(stack) \in Nat \ {0} /\ Len(stack') = Len(stack) /\ Top = stack[Len(stack)]
  BY RunningFacts DEF Replaced
<1>1. \A i \in 1 .. Len(stack) : i = Len(stack) \/ i \in 1 .. Len(stack) - 1
  BY <1>0
<1>2. 1 .. Len(stack) - 1 \subseteq 1 .. Len(stack)
  BY <1>0
<1>3. /\ \A i \in 1 .. Len(stack) - 1 : stack'[i] = stack[i]
      /\ stack'[Len(stack)] = f /\ f.term = Top.term
  BY GoalTerm DEF Replaced
<1>4. \A i \in 1 .. Len(stack) - 1 : EdgeTerm(stack[i].term) => Under(stack[i])
  BY DEF Core, Chain, Under
<1>5. Opened'
  <2>1. \A i \in 1 .. Len(stack') : Under(stack'[i]) => GoalOf(stack'[i]) \in open'
    BY <1>0, <1>1, <1>2, <1>3 DEF Ladder, Opened
  <2>2. ASSUME NEW i \in 1 .. Len(stack'), NEW j \in 1 .. Len(stack'), i < j,
               EdgeTerm(stack'[i].term), Under(stack'[j])
        PROVE GoalOf(stack'[i]) # GoalOf(stack'[j])
    <3>1. i \in 1 .. Len(stack) - 1 /\ i \in 1 .. Len(stack)
      BY <1>0, <2>2
    <3>2. GoalOf(stack[i]) \in open /\ stack'[i] = stack[i] /\ EdgeTerm(stack[i].term)
      BY <1>3, <1>4, <2>2, <3>1 DEF Ladder, Opened
    <3>3. CASE j = Len(stack)
      <4>1. CASE Top.at = "enter"
        BY <1>3, <2>2, <3>2, <3>3, <4>1
      <4>2. CASE Top.at # "enter"
        <5>1. Under(Top) /\ j \in 1 .. Len(stack)
          BY <1>0, <1>3, <2>2, <3>3, <4>2 DEF Under
        <5> QED BY <1>0, <1>3, <2>2, <3>1, <3>2, <3>3, <5>1 DEF Ladder, Opened
      <4> QED BY <4>1, <4>2
    <3>4. CASE j # Len(stack)
      BY <1>0, <1>1, <1>2, <1>3, <2>2, <3>1, <3>2, <3>4 DEF Ladder, Opened
    <3> QED BY <3>3, <3>4
  <2> QED BY <2>1, <2>2 DEF Opened
<1>6. \A k \in 1 .. Len(stack') : Beneath(k)' = Beneath(k) /\ stack'[k].depth = stack[k].depth
  BY <1>0, <1>1, <1>3, BeneathSame
<1> QED BY <1>0, <1>5, <1>6 DEF Ladder

LEMMA LadderPushed ==
  ASSUME Core, Ladder, NEW f \in Frame, NEW c \in Frame, Pushed(f, c),
         GoalOf(f) = GoalOf(Top), f.depth = Top.depth, f.at # "enter", Top.at # "enter",
         c.at = "enter", c.depth = f.depth + (IF EdgeTerm(f.term) THEN 1 ELSE 0),
         open' = open
  PROVE Ladder'
<1>0. Len(stack) \in Nat \ {0} /\ Len(stack') = Len(stack) + 1 /\ Top = stack[Len(stack)]
  BY RunningFacts DEF Pushed
<1>1. \A i \in 1 .. Len(stack) + 1 :
        i = Len(stack) + 1 \/ i = Len(stack) \/ i \in 1 .. Len(stack) - 1
  BY <1>0
<1>2. /\ 1 .. Len(stack) - 1 \subseteq 1 .. Len(stack) /\ Len(stack) \in 1 .. Len(stack)
      /\ 1 .. (Len(stack) + 1) - 1 = 1 .. Len(stack)
  BY <1>0
<1>3. /\ \A i \in 1 .. Len(stack) - 1 : stack'[i] = stack[i]
      /\ stack'[Len(stack)] = f /\ stack'[Len(stack) + 1] = c /\ f.term = Top.term
  BY GoalTerm DEF Pushed
<1>4. /\ \A i \in 1 .. Len(stack) :
            /\ GoalOf(stack'[i]) = GoalOf(stack[i]) /\ stack'[i].term = stack[i].term
            /\ Under(stack'[i]) => Under(stack[i])
      /\ ~Under(stack'[Len(stack) + 1])
  BY <1>0, <1>1, <1>2, <1>3 DEF Under
<1>5. Opened'
  <2>1. \A i \in 1 .. Len(stack') : Under(stack'[i]) => GoalOf(stack'[i]) \in open'
    BY <1>0, <1>1, <1>2, <1>4 DEF Ladder, Opened
  <2>2. ASSUME NEW i \in 1 .. Len(stack'), NEW j \in 1 .. Len(stack'), i < j,
               EdgeTerm(stack'[i].term), Under(stack'[j])
        PROVE GoalOf(stack'[i]) # GoalOf(stack'[j])
    <3>1. i \in 1 .. Len(stack) /\ j \in 1 .. Len(stack)
      BY <1>0, <1>4, <2>2
    <3> QED BY <1>4, <2>2, <3>1 DEF Ladder, Opened
  <2> QED BY <2>1, <2>2 DEF Opened
<1>6. \A k \in 1 .. Len(stack) : Beneath(k)' = Beneath(k) /\ stack'[k].depth = stack[k].depth
  BY <1>0, <1>1, <1>2, <1>3, BeneathSame
<1>7. ASSUME NEW k, k = Len(stack) + 1
      PROVE Beneath(k)' = Beneath(Len(stack)) \cup
                          (IF EdgeTerm(Top.term) THEN {GoalOf(Top)} ELSE {})
  <2> DEFINE n == Len(stack)
  <2>1. k - 1 = n
    BY <1>0, <1>7
  <2>2. Beneath(k)' = {GoalOf(stack'[i]) : i \in {j \in 1 .. n : EdgeTerm(stack'[j].term)}}
    BY <2>1 DEF Beneath
  <2>3. Beneath(k)' = {GoalOf(stack[i]) : i \in {j \in 1 .. n : EdgeTerm(stack[j].term)}}
    BY <1>4, <2>2
  <2>4. \A i \in 1 .. n : i = n \/ i \in 1 .. n - 1
    BY <1>1, <1>0
  <2> QED BY <1>0, <1>2, <2>3, <2>4 DEF Beneath
<1>8. EdgeTerm(Top.term) => GoalOf(Top) \notin Beneath(Len(stack))
  <2> SUFFICES ASSUME EdgeTerm(Top.term), GoalOf(Top) \in Beneath(Len(stack))
               PROVE FALSE
    OBVIOUS
  <2>1. PICK i \in 1 .. Len(stack) - 1 : EdgeTerm(stack[i].term) /\ GoalOf(Top) = GoalOf(stack[i])
    BY DEF Beneath
  <2>2. Under(Top) /\ i < Len(stack) /\ i \in 1 .. Len(stack)
    BY <1>0, <2>1 DEF Under
  <2> QED BY <1>0, <1>2, <2>1, <2>2 DEF Ladder, Opened
<1>9. IsFiniteSet(Beneath(Len(stack))) /\ Cardinality(Beneath(Len(stack))) = Top.depth
      /\ Top.depth \in Nat
  BY <1>0, <1>2, RunningFacts, FrameFields DEF Ladder
<1>10. ASSUME NEW k, k = Len(stack) + 1
       PROVE IsFiniteSet(Beneath(k)') /\ Cardinality(Beneath(k)') = c.depth
  <2>1. CASE EdgeTerm(Top.term)
    BY <1>3, <1>7, <1>8, <1>9, <1>10, <2>1, FS_AddElement
  <2>2. CASE ~EdgeTerm(Top.term)
    <3>1. c.depth = Top.depth
      BY <1>3, <1>9, <2>2
    <3>2. Beneath(k)' = Beneath(Len(stack))
      BY <1>7, <1>10, <2>2
    <3> QED BY <1>9, <3>1, <3>2
  <2> QED BY <2>1, <2>2
<1>11. \A k \in 1 .. Len(stack') :
        IsFiniteSet(Beneath(k)') /\ Cardinality(Beneath(k)') = stack'[k].depth
  <2> TAKE k \in 1 .. Len(stack')
  <2>1. CASE k = Len(stack) + 1
    BY <1>3, <1>10, <2>1
  <2>2. CASE k # Len(stack) + 1
    <3>1. k \in 1 .. Len(stack)
      BY <1>0, <2>2
    <3> QED BY <1>6, <3>1 DEF Ladder
  <2> QED BY <2>1, <2>2
<1> QED BY <1>5, <1>11 DEF Ladder

LEMMA LadderPopped ==
  ASSUME Core, Ladder, Popped,
         open' = open \/ (Top.at # "enter" /\ open' = open \ {GoalOf(Top)})
  PROVE Ladder'
<1>0. Len(stack) \in Nat \ {0} /\ Len(stack') = Len(stack) - 1 /\ Top = stack[Len(stack)]
  BY RunningFacts DEF Popped
<1>1. 1 .. Len(stack') \subseteq 1 .. Len(stack) /\ 1 .. Len(stack') = 1 .. Len(stack) - 1
      /\ Len(stack) \in 1 .. Len(stack)
  BY <1>0
<1>2. \A i \in 1 .. Len(stack') : stack'[i] = stack[i]
  BY <1>1 DEF Popped
<1>3. \A i \in 1 .. Len(stack') : Under(stack'[i]) => GoalOf(stack'[i]) \in open'
  <2> SUFFICES ASSUME NEW i \in 1 .. Len(stack'), Under(stack[i])
               PROVE GoalOf(stack[i]) \in open'
    BY <1>2
  <2>1. GoalOf(stack[i]) \in open /\ i \in 1 .. Len(stack) /\ i < Len(stack)
    BY <1>0, <1>1 DEF Ladder, Opened
  <2>2. CASE open' = open
    BY <2>1, <2>2
  <2>3. CASE Top.at # "enter" /\ open' = open \ {GoalOf(Top)}
    <3>1. CASE EdgeTerm(Top.term)
      BY <1>0, <1>1, <2>1, <2>3, <3>1 DEF Ladder, Opened, Under
    <3>2. CASE ~EdgeTerm(Top.term)
      BY <2>1, <2>3, <3>2, GoalTerm DEF Under
    <3> QED BY <3>1, <3>2
  <2> QED BY <2>2, <2>3
<1>4. Opened'
  BY <1>1, <1>2, <1>3 DEF Ladder, Opened
<1>5. \A k \in 1 .. Len(stack') : Beneath(k)' = Beneath(k)
  BY <1>0, <1>1, <1>2, BeneathSame
<1> QED BY <1>1, <1>2, <1>4, <1>5 DEF Ladder

LEMMA EnterLadder ==
  ASSUME Core, Ladder, Enter
  PROVE Ladder'
<1> DEFINE f == [Top EXCEPT !.at =
                    IF EdgeTerm(Top.term) /\ Top.term.name \in Declared THEN "own" ELSE "ready"]
<1>0. stack # <<>> /\ Top.at = "enter"
  BY DEF Enter, Running
<1>1. Top \in Frame
  BY <1>0, RunningFacts
<1>2. f \in Frame /\ f.node = Top.node /\ f.term = Top.term /\ f.depth = Top.depth
  BY <1>1 DEF Frame
<1>3. Becomes(f)
  BY DEF Enter
<1> HIDE DEF f
<1>4. Replaced(f) /\ GoalOf(f) = GoalOf(Top)
  BY <1>0, <1>2, <1>3, Shapes DEF Core, GoalOf
<1>5. Under(f) => Memoised(Top.term) /\ GoalOf(Top) \notin open
  BY <1>2 DEF Under, EdgeTerm, Memoised, Enter, Known
<1> QED BY <1>2, <1>4, <1>5, LadderReplaced DEF Enter

LEMMA ReadLadder ==
  ASSUME Core, Ladder, ReadOwn \/ ReadStar
  PROVE Ladder'
<1>0. stack # <<>> /\ Top.at \in {"own", "star"}
  BY DEF ReadOwn, ReadStar, Running
<1>1. Top \in Frame /\ WellFormed(wentOn, Top) /\ Top = stack[Len(stack)]
      /\ Len(stack) \in 1 .. Len(stack)
  BY <1>0, RunningFacts
<1>2. GoalOf(Top) \in open
  BY <1>0, <1>1 DEF Ladder, Opened, Under, WellFormed
<1>3. ASSUME NEW E \in SUBSET Edge, NEW at \in {"star", "ready"},
             Becomes([Top EXCEPT !.edges = E, !.at = at]), SameMemo
      PROVE Ladder'
  <2> DEFINE f == [Top EXCEPT !.edges = E, !.at = at]
  <2>1. f \in Frame /\ f.node = Top.node /\ f.term = Top.term /\ f.depth = Top.depth
    BY <1>1 DEF Frame
  <2>2. Becomes(f)
    BY <1>3
  <2> HIDE DEF f
  <2>3. Replaced(f) /\ GoalOf(f) = GoalOf(Top)
    BY <1>0, <2>1, <2>2, Shapes DEF Core, GoalOf
  <2> QED BY <1>0, <1>2, <1>3, <2>1, <2>3, LadderReplaced DEF SameMemo
<1>4. CASE ReadOwn
  <2>1. OwnEdges(edges, Top.node, Top.term.name) \in SUBSET Edge
    BY DEF Core, TypeOK, OwnEdges
  <2> QED BY <1>3, <1>4, <2>1 DEF ReadOwn
<1>5. CASE ReadStar
  <2>1. Top.edges \cup StarEdges(edges, Top.node, Top.term.name) \in SUBSET Edge
    BY <1>1, FrameFields DEF Core, TypeOK, StarEdges
  <2> QED BY <1>3, <1>5, <2>1 DEF ReadStar
<1> QED BY <1>4, <1>5

LEMMA ReturnsLadder ==
  ASSUME Core, Ladder, stack # <<>>, NEW f, GoalOf(f) = GoalOf(Top), Top.at # "enter",
         NEW answer, Returns(f, answer)
  PROVE Ladder'
<1>1. Popped
  BY Shapes DEF Core, Returns
<1> QED BY <1>1, LadderPopped DEF Returns

LEMMA AsksLadder ==
  ASSUME Core, Ladder, stack # <<>>, NEW f \in Frame, NEW g \in Goal,
         NEW d \in 0 .. MaxDepth + 1, Asks(f, g, d), SameMemo,
         GoalOf(f) = GoalOf(Top), f.depth = Top.depth, Top.at # "enter",
         d = f.depth + (IF EdgeTerm(f.term) THEN 1 ELSE 0)
  PROVE Ladder'
<1> DEFINE h == [f EXCEPT !.at = "wait", !.asked = g]
<1>1. h \in Frame /\ h.at = "wait" /\ h.node = f.node /\ h.term = f.term /\ h.depth = f.depth
  BY DEF Frame
<1>2. Call(g, d) \in Frame /\ Call(g, d).at = "enter"
  BY CallTyped
<1>3. Call(g, d).depth = d
  BY DEF Call
<1>4. Pushed(h, Call(g, d))
  BY Shapes DEF Core
<1> HIDE DEF h
<1>5. GoalOf(h) = GoalOf(Top)
  BY <1>1 DEF GoalOf
<1> QED BY <1>1, <1>2, <1>3, <1>4, <1>5, LadderPushed DEF SameMemo

LEMMA FollowEdgeLadder ==
  ASSUME Core, Ladder, FollowEdge
  PROVE Ladder'
<1>0. stack # <<>> /\ Top.at = "ready" /\ EdgeTerm(Top.term)
  BY DEF FollowEdge, Running
<1>1. Top \in Frame /\ Top = stack[Len(stack)] /\ Top.edges \in SUBSET Edge
      /\ Top.depth \in 0 .. MaxDepth /\ Len(stack) \in 1 .. Len(stack)
  BY <1>0, RunningFacts, FrameFields DEF WellFormed
<1>2. PICK e \in NextEdges(Top) :
        LET f == [Top EXCEPT !.edges = @ \ {e}] IN
        \/ Becomes(f) /\ SameMemo
        \/ Returns(f, "yes")
        \/ (\E g \in Beyond(f.term, e) : Asks(f, g, f.depth + 1)) /\ SameMemo
  BY DEF FollowEdge
<1>3. e \in Edge
  BY <1>1, <1>2 DEF NextEdges
<1> DEFINE f == [Top EXCEPT !.edges = @ \ {e}]
<1>4. f \in Frame /\ f.node = Top.node /\ f.term = Top.term /\ f.depth = Top.depth
  BY <1>1 DEF Frame
<1>5. GoalOf(f) = GoalOf(Top)
  BY <1>4 DEF GoalOf
<1>6. \/ Becomes(f) /\ SameMemo
      \/ Returns(f, "yes")
      \/ (\E g \in Beyond(f.term, e) : Asks(f, g, f.depth + 1)) /\ SameMemo
  BY <1>2
<1> HIDE DEF f
<1>7. CASE Becomes(f) /\ SameMemo
  <2>1. Replaced(f) /\ GoalOf(Top) \in open
    BY <1>0, <1>1, <1>4, <1>7, Shapes DEF Core, Ladder, Opened, Under
  <2> QED BY <1>0, <1>4, <1>5, <1>7, <2>1, LadderReplaced DEF SameMemo
<1>8. CASE Returns(f, "yes")
  BY <1>0, <1>5, <1>8, ReturnsLadder
<1>9. CASE (\E g \in Beyond(f.term, e) : Asks(f, g, f.depth + 1)) /\ SameMemo
  <2>1. PICK g \in Beyond(f.term, e) : Asks(f, g, f.depth + 1)
    BY <1>9
  <2>2. g \in Goal
    BY <1>0, <1>1, <1>3, <1>4, <2>1, BeyondTyped, FrameFields
  <2>3. f.depth + 1 \in 0 .. MaxDepth + 1
    BY <1>1, <1>4
  <2>4. f.depth + 1 = f.depth + (IF EdgeTerm(f.term) THEN 1 ELSE 0)
    BY <1>0, <1>4
  <2> QED BY <1>0, <1>4, <1>5, <1>9, <2>1, <2>2, <2>3, <2>4, AsksLadder
<1> QED BY <1>6, <1>7, <1>8, <1>9

LEMMA AskPartLadder ==
  ASSUME Core, Ladder, AskPart
  PROVE Ladder'
<1> DEFINE parts == Parts(Top.node, Top.term)
           f == [Top EXCEPT !.part = @ + 1]
           g == <<Top.node, parts[Top.part + 1]>>
<1>0. stack # <<>> /\ Top.at = "ready" /\ ~EdgeTerm(Top.term)
  BY DEF AskPart, Running
<1>1. Top \in Frame /\ Top.term \in Expr /\ Top.node \in Node /\ Top.depth \in 0 .. MaxDepth
      /\ Top.part \in Nat
  BY <1>0, RunningFacts, FrameFields DEF WellFormed
<1>2. parts \in Seq(Expr) /\ Top.part < Len(parts)
  BY <1>1, PartsTyped DEF AskPart
<1>3. parts[Top.part + 1] \in Expr
  <2> HIDE DEF parts
  <2> QED BY <1>1, <1>2
<1>4. g \in Goal
  BY <1>1, <1>3 DEF Goal
<1>5. f \in Frame /\ f.node = Top.node /\ f.term = Top.term /\ f.depth = Top.depth
  BY <1>1 DEF Frame
<1>6. Asks(f, g, f.depth) /\ SameMemo
  BY <1>5 DEF AskPart
<1>7. GoalOf(f) = GoalOf(Top)
  BY <1>5 DEF GoalOf
<1>8. f.depth \in 0 .. MaxDepth + 1 /\ f.depth = f.depth + (IF EdgeTerm(f.term) THEN 1 ELSE 0)
  BY <1>0, <1>1, <1>5
<1> HIDE DEF f, g
<1> QED BY <1>0, <1>4, <1>5, <1>6, <1>7, <1>8, AsksLadder

LEMMA WalkLadder ==
  ASSUME Core, Ladder, Walk
  PROVE Ladder'
<1>1. CASE MeetsAgain
  <2>1. stack # <<>>
    BY <1>1 DEF MeetsAgain, Running
  <2>2. Popped
    BY <1>1, <2>1, Shapes DEF Core, MeetsAgain
  <2> QED BY <1>1, <2>2, LadderPopped DEF MeetsAgain, SameMemo
<1>2. CASE Exhausted
  <2>1. stack # <<>> /\ Top.at # "enter" /\ \E answer : Returns(Top, answer)
    BY <1>2 DEF Exhausted, Running
  <2> QED BY <2>1, ReturnsLadder
<1>3. CASE Resume
  <2>1. stack # <<>> /\ Returns(Top, Verdict(Top, ret)) /\ ret # "none"
    BY <1>3 DEF Resume
  <2>2. Top.at # "enter"
    BY <2>1, RunningFacts
  <2> QED BY <2>1, <2>2, ReturnsLadder
<1>4. CASE GoOn
  <2> DEFINE f == [Top EXCEPT !.at = "ready"]
  <2>0. stack # <<>> /\ ret # "none"
    BY <1>4 DEF GoOn
  <2>1. Top \in Frame /\ Top = stack[Len(stack)] /\ Top.at = "wait" /\ stack \in Seq(Frame)
        /\ Len(stack) \in 1 .. Len(stack)
    BY <2>0, RunningFacts
  <2>2. f \in Frame /\ f.node = Top.node /\ f.term = Top.term /\ f.depth = Top.depth
    BY <2>1 DEF Frame
  <2>3. stack' = [stack EXCEPT ![Len(stack)] = f]
    BY <1>4, <2>1 DEF GoOn
  <2> HIDE DEF f
  <2>4. Replaced(f) /\ GoalOf(f) = GoalOf(Top)
    BY <2>0, <2>1, <2>2, <2>3, Replacing DEF Replaced, GoalOf
  <2>5. Under(f) => GoalOf(f) \in open
    BY <2>1, <2>2, <2>4 DEF Ladder, Opened, Under
  <2> QED BY <1>4, <2>1, <2>2, <2>4, <2>5, LadderReplaced DEF GoOn, SameMemo
<1> QED BY <1>1, <1>2, <1>3, <1>4, EnterLadder, ReadLadder, FollowEdgeLadder, AskPartLadder
     DEF Walk

LEMMA EmptyLadder ==
  ASSUME stack' = <<>>
  PROVE Ladder'
<1>1. 1 .. Len(stack') = {}
  OBVIOUS
<1> QED BY <1>1 DEF Ladder, Opened

LEMMA StartRunLadder ==
  ASSUME Core, Ladder, StartRun
  PROVE Ladder'
<1>1. PICK a \in left : stack' = <<Call(Body(request, a), 0)>>
  BY StartRunCore
<1> DEFINE c == Call(Body(request, a), 0)
<1>2. c.at = "enter" /\ c.depth = 0
  BY DEF Call
<1>3. stack' = <<c>>
  BY <1>1
<1> HIDE DEF c
<1>4. Len(stack') = 1 /\ stack'[1] = c
  BY <1>3
<1>5. Opened'
  BY <1>2, <1>4 DEF Opened, Under
<1>6. ASSUME NEW k \in 1 .. Len(stack')
      PROVE IsFiniteSet(Beneath(k)') /\ Cardinality(Beneath(k)') = stack'[k].depth
  <2>1. k = 1
    BY <1>4
  <2>2. 1 .. k - 1 = {}
    BY <2>1
  <2>3. Beneath(k)' = {}
    BY <2>2 DEF Beneath
  <2> QED BY <1>2, <1>4, <2>1, <2>3, FS_EmptySet
<1> QED BY <1>5, <1>6 DEF Ladder

LEMMA SameLadder ==
  ASSUME Ladder, UNCHANGED <<stack, open>>
  PROVE Ladder'
<1>1. \A k : Beneath(k)' = Beneath(k)
  BY DEF Beneath
<1>2. Opened'
  BY DEF Ladder, Opened
<1> QED BY <1>1, <1>2 DEF Ladder

LEMMA NextLadder ==
  ASSUME Core, Ladder, [Next]_vars
  PROVE Ladder'
<1>1. CASE Ask
  BY <1>1, EmptyLadder DEF Ask, Core, Phases
<1>2. CASE StartRun
  BY <1>2, StartRunLadder
<1>3. CASE TryOthers
  BY <1>3, SameLadder DEF TryOthers, SameMemo
<1>4. CASE Decide \/ Fail
  BY <1>4, EmptyLadder DEF Decide, Fail, Decides
<1>5. CASE Walk
  BY <1>5, WalkLadder
<1>6. CASE WriteEdge \/ DeleteEdge
  BY <1>6, SameLadder DEF WriteEdge, DeleteEdge, Stores
<1>7. CASE UNCHANGED vars
  BY <1>7, SameLadder DEF vars
<1> QED BY <1>1, <1>2, <1>3, <1>4, <1>5, <1>6, <1>7 DEF Next

(* A loop in the data never fails a check: when a call is refused for being too
   deep, edges are being followed from more than MaxDepth goals, no two of them
   the same, for every schema and graph and whatever is written meanwhile. *)
THEOREM LoopsEndTheirBranch == Spec => []LoopsNeverExhaustDepth
<1>1. Init => Core /\ Ladder
  <2>1. ASSUME Init PROVE 1 .. Len(stack) = {}
    BY <2>1 DEF Init
  <2> QED BY <2>1, InitCore DEF Init, Ladder, Opened
<1>2. Core /\ Ladder /\ [Next]_vars => Core' /\ Ladder'
  BY NextCore, NextLadder
<1>3. Core /\ Ladder => LoopsNeverExhaustDepth
  <2> SUFFICES ASSUME Core, Ladder, stack # <<>>, TooDeep(Top)
               PROVE Cardinality(Beneath(Len(stack))) > MaxDepth
    BY DEF LoopsNeverExhaustDepth, Running, Beneath
  <2>1. Top = stack[Len(stack)] /\ Len(stack) \in 1 .. Len(stack)
    BY RunningFacts
  <2> QED BY <2>1 DEF Ladder, TooDeep
<1> QED BY <1>1, <1>2, <1>3, PTL DEF Spec
=============================================================================
