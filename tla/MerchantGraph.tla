---------------------------- MODULE MerchantGraph ----------------------------
(***************************************************************************)
(* A merchant's own graph: the vocabulary that its staff declare, the      *)
(* schema that is derived from it on every request, the edges that its     *)
(* backend writes, and the questions it asks of them: may this customer    *)
(* do this, what can this customer see, who can see this                   *)
(* (internal/service/merchant_graph.go, internal/accessmodel/merchant.go,  *)
(* core/reach/schema.go, parse.go and reverse.go).                         *)
(*                                                                         *)
(* A check is one step with the answer that ReachWalk shows the walk to    *)
(* give: a merchant's rules are unions, so it is exact.  The lists are     *)
(* walks of many reads, with edits in between.  Expiry is left out.        *)
(***************************************************************************)
EXTENDS Naturals, Sequences, FiniteSets

CONSTANTS
    Kind,           \* scope kinds that staff may declare
    Capability,     \* capabilities that they may declare: [resource, action]
    Ident,          \* names that the schema language takes: no digit first
    Batch,          \* sets of edges that a backend writes in one request
    Question,       \* what it asks: [about, subject, action, resource]
    Starts,         \* vocabulary, edges and edits spent, to start from
    MaxDepth,       \* DefaultMaxDepth, 64 in the code
    MaxCandidates,  \* DefaultMaxCandidates, 1000 in the code
    MaxEdits,       \* how many edits there are
    None

Node(type, id) == [type |-> type, id |-> id]
StarOf(type) == Node(type, "*")
IsWildcard(n) == n.id = "*"

\* An edge: [object, relation, subject, via], via a relation of the subject or None.
IsUserset(e) == e.via # None

VARIABLES
    kinds, caps,    \* app_scope_types, app_capabilities
    edges,          \* reach_edges of the organisation's namespace
    version,        \* reach_namespace_versions
    owed,           \* changes of the vocabulary whose bump is still to come
    task,           \* the question being answered
    answer,         \* the last answer, as a backend keeps it with the version it had read
    kept, seen,     \* history: edges there all through the request, and at some time in it
    spent           \* counts edits

vars == <<kinds, caps, edges, version, owed, task, answer, kept, seen, spent>>

Idle == [at |-> "idle"]
NoAnswer == [at |-> "none"]

Init ==
    /\ \E s \in Starts : kinds = s.kinds /\ caps = s.caps /\ edges = s.edges /\ spent = s.spent
    /\ version = 0 /\ owed = 0
    /\ task = Idle /\ answer = NoAnswer
    /\ kept = {} /\ seen = {}
-----------------------------------------------------------------------------
\* The schema of a vocabulary m: [kinds, caps].
Reserved == {"app_user", "group", "role"}

Actions(m) == {c.action : c \in m.caps}
ActionsOf(m, type) == {c.action : c \in {d \in m.caps : d.resource = type}}
ResourceTypes(m) == {c.resource : c \in m.caps} \ m.kinds

\* Mutant: as soon as there is a container.
Nests_AnyKind(m) == m.kinds # {}

\* Whether anything carries the relation parent.
Nests(m) == Cardinality(m.kinds) > 1 \/ (m.kinds # {} /\ ResourceTypes(m) # {})

Can(action) == "can_" \o action
CanAll == "can_all"

\* What the schema declares before its types.
Relations(m) ==
    {"member_of", "holder"}
        \cup (IF ResourceTypes(m) # {} THEN {"owner"} ELSE {})
        \cup (IF Nests(m) THEN {"parent"} ELSE {})
        \cup {Can(a) : a \in Actions(m)} \cup (IF m.caps # {} THEN {CanAll} ELSE {})

Transitive == {"member_of"}
Starred(m) == {Can(a) : a \in Actions(m)} \cup {CanAll}

Target(type, via) == [type |-> type, via |-> via]
Principal == {Target("app_user", None), Target("group", "member_of")}
Grantee == Principal \cup {Target("role", "holder")}

\* Mutant: a resource sits in a container only while there is one kind of them.
Containers_One(m, type) ==
    IF (type \in m.kinds) = (Cardinality(m.kinds) = 1) THEN {} ELSE m.kinds

\* The kinds that an object of this type may sit in.
Containers(m, type) == IF type \in m.kinds /\ Cardinality(m.kinds) = 1 THEN {} ELSE m.kinds

\* The actions that a type answers: a container any, a resource its own.
Answers(m, type) ==
    IF type \in m.kinds THEN Actions(m)
    ELSE IF type \in ResourceTypes(m) THEN ActionsOf(m, type) ELSE {}

Types(m) == Reserved \cup m.kinds \cup ResourceTypes(m)

\* The relations of a type, each with what it may lead to.
Carried(m, type) ==
    LET open == type \in m.kinds \cup ResourceTypes(m)
        rel(name, targets) == {[name |-> name, target |-> t] : t \in targets}
    IN  CASE type = "group" -> rel("member_of", Principal)
          [] type = "role" -> rel("holder", Principal)
          [] open ->
               rel("parent", {Target(k, None) : k \in Containers(m, type)})
               \cup UNION {rel(Can(a), Grantee) : a \in Answers(m, type)}
               \cup (IF m.caps # {} THEN rel(CanAll, Grantee) ELSE {})
               \cup (IF type \in ResourceTypes(m) THEN rel("owner", {Target("app_user", None)}) ELSE {})
          [] OTHER -> {}

Names(m, type) == {r.name : r \in Carried(m, type)}

Term(kind, name, target) == [kind |-> kind, name |-> name, target |-> target]
RelationTerm(r) == Term("relation", r, None)
RuleTerm(a) == Term("rule", a, None)
ArrowTerm(r, a) == Term("arrow", r, a)

\* resolveIdents: a bare word is a relation of the type, or else a rule of it.
Word(m, type, w) == IF w \in Names(m, type) THEN RelationTerm(w) ELSE RuleTerm(w)

\* The rule of a type for an action: a union.
Rule(m, type, action) ==
    {Word(m, type, w) : w \in {Can(action), CanAll}
        \cup (IF type \in ResourceTypes(m) THEN {"owner"} ELSE {})}
    \cup (IF Containers(m, type) # {} THEN {ArrowTerm("parent", action)} ELSE {})

\* A line of the schema repeats another: an action called all has the wildcard's relation.
DeclaredTwice(m) == \E a \in Actions(m) : Can(a) = CanAll

\* validateExpr, of one term of a rule.
TermFits(m, type, t) ==
    CASE t.kind = "relation" -> t.name \in Names(m, type)
      [] t.kind = "rule" -> t.name \in Answers(m, type)
      [] t.kind = "arrow" ->
           /\ t.name \in Names(m, type)
           /\ \A r \in Carried(m, type) : r.name = t.name =>
                t.target \in Answers(m, r.target.type) \cup Names(m, r.target.type)

\* validIdent, of every name that staff chose: the language takes no leading digit.
WellNamed(m) == Actions(m) \cup Types(m) \subseteq Ident

\* Schema.Validate
Validates(m) ==
    /\ WellNamed(m)
    /\ \A type \in Types(m) :
        /\ \A r \in Carried(m, type) :
            /\ r.name \in Relations(m)
            /\ r.target.type \in Types(m)
            /\ r.target.via # None => r.target.via \in Names(m, r.target.type)
        /\ \A a \in Answers(m, type) : \A t \in Rule(m, type, a) : TermFits(m, type, t)

\* Schema.Warnings finds none: all that is declared is used.
NothingInert(m) ==
    LET used == UNION {Names(m, type) : type \in Types(m)}
        usersets == UNION {{r.target.via : r \in Carried(m, type)} : type \in Types(m)}
    IN  /\ Relations(m) \subseteq used
        /\ Relations(m) \cap Transitive \subseteq usersets
        /\ \A a \in Actions(m) : \E type \in Types(m) : a \in Answers(m, type)

\* MerchantSchema succeeds.
Resolves(m) ==
    /\ (m.kinds \cup {c.resource : c \in m.caps}) \cap Reserved = {}
    /\ ~DeclaredTwice(m)
    /\ Validates(m)
    /\ NothingInert(m)
-----------------------------------------------------------------------------
\* The evaluator, for a union of terms (core/reach/walk.go).
EdgesFor(m, E, n, r) ==
    {e \in E : e.relation = r
        /\ (e.object = n \/ (~IsWildcard(n) /\ r \in Starred(m) /\ e.object = StarOf(n.type)))}

MatchesSubject(m, u, n, r) == n = u \/ (n = StarOf(u.type) /\ r \in Starred(m))

\* What the far end of an arrow is asked.
Far(m, type, action) == IF action \in Answers(m, type) THEN RuleTerm(action) ELSE RelationTerm(action)

RECURSIVE Satisfies(_, _, _, _, _, _)
Satisfies(m, E, u, n, t, open) ==
    LET on == open \cup {<<n, t>>}
        Ask(o, s) == Satisfies(m, E, u, o, s, on)
    IN  /\ <<n, t>> \notin open
        /\ CASE t.kind = "rule" -> t.name \in Answers(m, n.type) /\ \E p \in Rule(m, n.type, t.name) : Ask(n, p)
             [] t.kind = "arrow" ->
                  t.name \in Relations(m) /\ \E e \in EdgesFor(m, E, n, t.name) :
                                                Ask(e.subject, Far(m, e.subject.type, t.target))
             [] t.kind = "relation" ->
                  /\ t.name \in Relations(m)
                  /\ \E e \in EdgesFor(m, E, n, t.name) :
                       IF IsUserset(e) THEN Ask(e.subject, RelationTerm(e.via))
                       ELSE MatchesSubject(m, u, e.subject, t.name)
                              \/ (t.name \in Transitive /\ Ask(e.subject, t))

Check(m, E, u, action, n) == Satisfies(m, E, u, n, RuleTerm(action), {})
-----------------------------------------------------------------------------
\* Requests.  A backend reads the version first and keeps the answer with it.
Same == UNCHANGED <<kinds, caps, edges, version, owed, kept, seen, spent>>

Goes(t) == task' = t /\ UNCHANGED answer /\ Same

Answered(t, outcome) ==
    /\ answer' = [at |-> outcome, ask |-> t.ask, vocabulary |-> t.vocabulary, version |-> t.version,
                  listed |-> t.listed, all |-> t.all, truncated |-> t.truncated]
    /\ task' = Idle
    /\ Same

Ask ==
    /\ task = Idle
    /\ \E q \in Question :
        task' = [at |-> "kinds", ask |-> q, version |-> version, vocabulary |-> [kinds |-> {}, caps |-> {}],
                 queue |-> {}, visited |-> {}, found |-> {}, listed |-> {}, all |-> FALSE, truncated |-> FALSE]
    /\ answer' = NoAnswer
    /\ kept' = edges /\ seen' = edges
    /\ UNCHANGED <<kinds, caps, edges, version, owed, spent>>

\* merchantModel, in two statements.
ReadKinds == task.at = "kinds" /\ Goes([task EXCEPT !.at = "caps", !.vocabulary.kinds = kinds])

Item(n, relation, depth) == [node |-> n, relation |-> relation, depth |-> depth]

\* merchantEvaluator, and what a question starts from.
ReadCaps ==
    /\ task.at = "caps"
    /\ LET m == [task.vocabulary EXCEPT !.caps = caps]
           t == [task EXCEPT !.vocabulary = m]
           q == task.ask
       IN  IF ~Resolves(m) \/ q.action \notin Actions(m) \/ q.resource.type \notin Types(m)
           THEN Answered(t, "error")
           ELSE CASE q.about = "check" -> Goes([t EXCEPT !.at = "verify", !.found = {q.resource}])
                  [] q.about = "objects" -> Goes([t EXCEPT !.at = "star", !.queue = {Item(q.subject, None, 0)}])
                  [] q.about = "subjects" ->
                       IF q.action \in Answers(m, q.resource.type)
                       THEN Goes([t EXCEPT !.at = "walk", !.queue = {Item(q.resource, None, 0)}])
                       ELSE Answered(t, "done")

\* ListObjects asks of the star node first.
CheckStar ==
    /\ task.at = "star"
    /\ Goes([task EXCEPT !.at = "walk",
               !.all = Check(task.vocabulary, edges, task.ask.subject, task.ask.action,
                             StarOf(task.ask.resource.type))])

\* The head of the queue: the walk is breadth first.
Head1(queue) == CHOOSE i \in queue : \A j \in queue : i.depth <= j.depth

\* Mutant: what a node was found by is not followed as a userset.
Arrivals_Plain(e, depth) == {Item(e.object, None, depth)}

\* A node that an edge leads back to, as such and as a userset.
Arrivals(e, depth) == {Item(e.object, None, depth), Item(e.object, e.relation, depth)}

EdgesForSubject(n) == {e \in edges : e.subject = n}

\* What one item of the queue adds: nodes, and items.
Backwards(t, i) ==
    LET named == {e \in EdgesForSubject(i.node) : e.via = i.relation /\ ~IsWildcard(e.object)}
    IN  [nodes |-> {e.object : e \in {d \in named : d.object.type = t.ask.resource.type}},
         items |-> UNION {Arrivals(e, i.depth + 1) : e \in named}]

Forwards(t, i) ==
    LET read == {e \in edges : e.relation \in Relations(t.vocabulary) /\ e.object \in {i.node, StarOf(i.node.type)}}
    IN  [nodes |-> {e.subject : e \in read}, items |-> {Item(e.subject, None, i.depth + 1) : e \in read}]

Visit(t) ==
    LET i == Head1(t.queue)
        rest == t.queue \ {i}
        place == <<i.node, i.relation>>
        new == IF t.ask.about = "objects" THEN Backwards(t, i) ELSE Forwards(t, i)
        found == t.found \cup new.nodes
    IN  IF i.depth >= MaxDepth THEN [t EXCEPT !.queue = rest, !.truncated = TRUE]
        ELSE IF place \in t.visited THEN [t EXCEPT !.queue = rest]
        ELSE IF Cardinality(found) >= MaxCandidates
        THEN [t EXCEPT !.queue = {}, !.truncated = TRUE, !.found =
                 CHOOSE s \in SUBSET found : t.found \subseteq s /\ Cardinality(s) = MaxCandidates]
        ELSE [t EXCEPT !.visited = @ \cup {place}, !.found = found, !.queue = rest \cup new.items]

\* candidateObjects, candidateSubjects: one round of their loops.
Walk ==
    /\ task.at = "walk"
    /\ IF task.queue = {} THEN Goes([task EXCEPT !.at = "verify"]) ELSE Goes(Visit(task))

\* One candidate is confirmed, or not; of a star among the subjects nothing is asked.
Verify ==
    /\ task.at = "verify"
    /\ IF task.found = {} THEN Answered(task, "done")
       ELSE LET n == CHOOSE n \in task.found : TRUE
                q == task.ask
                t == [task EXCEPT !.found = @ \ {n}]
                allowed == IF q.about = "subjects" THEN Check(t.vocabulary, edges, n, q.action, q.resource)
                           ELSE Check(t.vocabulary, edges, q.subject, q.action, n)
            IN  IF q.about = "subjects" /\ IsWildcard(n) THEN Goes([t EXCEPT !.all = TRUE])
                ELSE IF allowed THEN Goes([t EXCEPT !.listed = @ \cup {n}]) ELSE Goes(t)
-----------------------------------------------------------------------------
Vocabulary == [kinds |-> kinds, caps |-> caps]

Edit == spent < MaxEdits /\ spent' = spent + 1

\* A row of the vocabulary is written or deleted; the version is moved by another statement.
Redeclare(ks, cs) ==
    /\ Edit
    /\ kinds' = ks /\ caps' = cs
    /\ owed' = owed + 1
    /\ UNCHANGED <<edges, version, task, answer, kept, seen>>

CreateAppScopeType(k) == k \notin kinds /\ Redeclare(kinds \cup {k}, caps)
DeleteAppScopeType(k) == k \in kinds /\ Redeclare(kinds \ {k}, caps)
CreateAppCapability(c) == c \notin caps /\ Redeclare(kinds, caps \cup {c})
DeleteAppCapability(c) == c \in caps /\ Redeclare(kinds, caps \ {c})

TouchAppAccess ==
    /\ owed > 0
    /\ owed' = owed - 1 /\ version' = version + 1
    /\ UNCHANGED <<kinds, caps, edges, task, answer, kept, seen, spent>>

\* An edge that names a userset says whose: not everybody's (Edge.Validate).
WellFormed(e) == ~(IsUserset(e) /\ IsWildcard(e.subject))

\* Mutant: stars are taken for mistakes.
ValidEdge_Concrete(m, e) ==
    /\ {e.object.type, e.subject.type} \subseteq Types(m)
    /\ e.relation \in Relations(m)
    /\ ~IsWildcard(e.object) /\ ~IsWildcard(e.subject)

\* validMerchantEdge: the types and the relation are known, whichever type carries it.
ValidEdge(m, e) ==
    /\ {e.object.type, e.subject.type} \subseteq Types(m)
    /\ e.relation \in Relations(m)
    /\ WellFormed(e)

\* Edges and version are one transaction.
Commit(E) ==
    /\ Edit
    /\ edges' = E /\ version' = version + 1
    /\ kept' = kept \cap E /\ seen' = seen \cup E
    /\ UNCHANGED <<kinds, caps, owed, task, answer>>

\* The whole batch or nothing.  The vocabulary is read before the transaction: an edge that
\* is valid by what was read and no longer by what holds might also have come just before.
WriteMerchantEdges(batch) ==
    /\ Resolves(Vocabulary) /\ \A e \in batch : ValidEdge(Vocabulary, e)
    /\ Commit(edges \cup batch)

\* Mutant: the version is not moved.
DeleteMerchantEdge_Silent(e) ==
    /\ Resolves(Vocabulary) /\ ValidEdge(Vocabulary, e)
    /\ Edit
    /\ edges' = edges \ {e}
    /\ kept' = kept \ {e}
    /\ UNCHANGED <<kinds, caps, version, owed, task, answer, seen>>

DeleteMerchantEdge(e) ==
    /\ Resolves(Vocabulary) /\ ValidEdge(Vocabulary, e)
    /\ Commit(edges \ {e})
-----------------------------------------------------------------------------
Next ==
    \/ Ask \/ ReadKinds \/ ReadCaps \/ CheckStar \/ Walk \/ Verify
    \/ \E k \in Kind : CreateAppScopeType(k) \/ DeleteAppScopeType(k)
    \/ \E c \in Capability : CreateAppCapability(c) \/ DeleteAppCapability(c)
    \/ TouchAppAccess
    \/ \E batch \in Batch : WriteMerchantEdges(batch)
    \/ \E e \in edges : DeleteMerchantEdge(e)

Spec == Init /\ [][Next]_vars
-----------------------------------------------------------------------------
Nodes == UNION {{e.object, e.subject} : e \in UNION (Batch \cup {s.edges : s \in Starts})}
Concrete == {n \in Nodes : ~IsWildcard(n)}
Customers == {n \in Concrete : n.type = "app_user"}

\* The names that no vocabulary may use, although staff can declare them: those of the
\* principals, an action called all, and what begins with a digit.
Unfit(m) ==
    LET types == m.kinds \cup {c.resource : c \in m.caps}
    IN  \/ types \cap Reserved # {}
        \/ "all" \in Actions(m)
        \/ ~WellNamed(m)

\* Whatever staff declare and withdraw, in whatever order, the schema that is generated
\* from it parses, validates and has nothing inert in it; otherwise every question of this
\* merchant would be refused (MerchantSchema).  Excepted: the unfit names.
SchemaStands == task = Idle /\ ~Unfit(Vocabulary) => Resolves(Vocabulary)

\* A kind of container is declared, or withdrawn, that is also named as a resource: an
\* object of it then loses its owners, or gets them back.
Retyped == \E k \in (kinds \cup kinds') \ (kinds \cap kinds') : \E c \in caps : c.resource = k

\* Access by the vocabulary m and the edges there are.
Access(m) ==
    {x \in Customers \X Actions(m) \X Concrete : Check(m, edges, x[1], x[2], x[3])}

\* To declare a kind or a capability takes no access from anybody, and to withdraw one
\* gives none, although either rebuilds the rules of every type (MerchantSchema).
VocabularyOnlyWidens ==
    [][ Resolves(Vocabulary) /\ Resolves(Vocabulary)' /\ ~Retyped =>
        /\ kinds \subseteq kinds' /\ caps \subseteq caps' /\ Vocabulary # Vocabulary'
             => Access(Vocabulary) \subseteq Access(Vocabulary)'
        /\ kinds' \subseteq kinds /\ caps' \subseteq caps /\ Vocabulary # Vocabulary'
             => Access(Vocabulary)' \subseteq Access(Vocabulary) ]_<<kinds, caps>>

\* An edge of the form that its relation is meant for.
AsMeant(e) ==
    CASE e.relation = "parent" -> ~IsUserset(e) /\ e.subject.type \notin Reserved
      [] e.relation \in {"member_of", "owner", "holder"} -> e.subject.type \in {"app_user", "group"}
      [] OTHER -> e.subject.type \in Reserved

\* Whatever an edge grants can be taken back: an edge that DeleteMerchantEdge refuses,
\* because its vocabulary has been withdrawn, grants nothing to anybody.  Excepted: edges
\* that the check on writing lets through although no type carries them.
AccessIsRevocable ==
    task = Idle /\ Resolves(Vocabulary) =>
        LET E == {e \in edges : AsMeant(e)}
            F == {e \in E : ValidEdge(Vocabulary, e)}
        IN  E = F \/ \A u \in Customers, a \in Actions(Vocabulary), n \in Concrete :
                        Check(Vocabulary, E, u, a, n) => Check(Vocabulary, F, u, a, n)

\* Edges that can be followed backwards from a customer.
Plain(e) ==
    ~IsWildcard(e.object) /\ ~IsWildcard(e.subject) /\ ~(e.relation = "parent" /\ IsUserset(e))

\* An answer is right by the vocabulary m, if the edges were at least K and at most S.
Right(x, m, K, S) ==
    LET q == x.ask
        star == StarOf(q.resource.type)
        ByPlain == {e \in K : Plain(e)}
    IN  CASE q.about = "check" ->
                /\ Check(m, K, q.subject, q.action, q.resource) => q.resource \in x.listed
                /\ q.resource \in x.listed => Check(m, S, q.subject, q.action, q.resource)
          [] q.about = "objects" ->
                /\ \A n \in x.listed : Check(m, S, q.subject, q.action, n)
                /\ x.all => Check(m, S, q.subject, q.action, star)
                /\ Check(m, K, q.subject, q.action, star) => x.all
                /\ \A n \in {c \in Concrete : c.type = q.resource.type} :
                     Check(m, ByPlain, q.subject, q.action, n) => n \in x.listed \/ x.truncated
          [] q.about = "subjects" ->
                /\ \A u \in x.listed : Check(m, S, u, q.action, q.resource)
                /\ \A u \in Customers :
                     Check(m, K, u, q.action, q.resource) => u \in x.listed \/ x.all \/ x.truncated

\* The lists have what a check would allow, and nothing else, although they are gathered
\* by a walk of their own while edges come and go: what was allowed all through the request
\* is listed, or the list says that it is not whole, and what is listed was allowed
\* (ListObjects, ListSubjects).  Excepted: objects reached by a star or by a userset of
\* their container, which ListObjects does not find, and `all' of ListSubjects, which is
\* set for any star that is met.
ListsAreExact == answer.at = "done" => Right(answer, answer.vocabulary, kept, seen)

\* An answer that is kept under the version read before it is right for as long as the
\* version stands, but for changes of the vocabulary whose bump is owed
\* (MerchantGraphVersion, WithTx in WriteMerchantEdges and DeleteMerchantEdge).
SameVersionSameAnswer ==
    answer.at = "done" /\ answer.version = version /\ owed = 0 =>
        answer.vocabulary = Vocabulary /\ Right(answer, Vocabulary, edges, edges)
=============================================================================
