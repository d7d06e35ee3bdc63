----------------------------- MODULE MCReachWalk -----------------------------
(* A schema like those of core/reach/examples_test.go, and graphs over it. *)
EXTENDS ReachWalk

CONSTANTS none, norule, ann, everyUser, team, crew, doc, everyDoc, folder

MCNode == {ann, everyUser, team, crew, doc, everyDoc, folder}
MCType == {"user", "group", "doc", "folder"}
MCTypeOf ==
    [n \in MCNode |-> CASE n \in {ann, everyUser} -> "user"
                        [] n \in {team, crew} -> "group"
                        [] n \in {doc, everyDoc} -> "doc"
                        [] OTHER -> "folder"]
MCStar == {everyUser, everyDoc}
MCRelation == {"member", "viewer", "editor", "parent", "withheld"}
MCName == MCRelation \cup {"read", "write", "stray"}
MCDeclared == MCRelation
MCTransitive == {"member"}
MCObjectStar == {"viewer"}
MCSubjectStar == {"viewer"}

(* Of a doc: read = viewer - withheld + parent->read, write = viewer & editor;
   of a folder: read = viewer. *)
viewer == RelationTerm("viewer")
subtraction == Exclude(viewer, RelationTerm("withheld"))
reading == Union(<<subtraction, ArrowTerm("parent", "read")>>)
writing == Intersect(<<viewer, RelationTerm("editor")>>)
MCExpr ==
    {subtraction, reading, writing, ArrowTerm("parent", "read")}
    \cup {RelationTerm(r) : r \in MCName} \cup {RuleTerm(r) : r \in MCName}

MCRule ==
    [t \in MCType |-> [n \in MCName |->
        CASE t = "doc" /\ n = "read" -> reading
          [] t = "doc" /\ n = "write" -> writing
          [] t = "folder" /\ n = "read" -> viewer
          [] OTHER -> norule]]

edge(o, r, s) == [object |-> o, relation |-> r, subject |-> s, via |-> none, active |-> TRUE]
userset(o, r, s, v) == [edge(o, r, s) EXCEPT !.via = v]
expired(e) == [e EXCEPT !.active = FALSE]

(* What follows from the edges, and nothing else. *)
RECURSIVE least(_, _, _)
least(u, E, I) ==
    LET J == I \cup {g \in Goal : Follows(u, I, E, g)}
    IN  IF J = I THEN I ELSE least(u, E, J)
MCInterpretation(u, E) == {least(u, E, {})}

(* Two groups that may contain each other, and what may hang on them. *)
groupEdges == {edge(team, "member", crew), edge(crew, "member", team), edge(team, "member", ann)}
docEdges ==
    {userset(doc, "viewer", team, "member"), userset(doc, "withheld", crew, "member"),
     edge(doc, "parent", folder), userset(folder, "viewer", crew, "member")}
wideEdges ==
    {edge(everyDoc, "viewer", ann), edge(doc, "viewer", everyUser),
     edge(doc, "editor", everyUser), userset(doc, "editor", crew, "member"),
     edge(doc, "viewer", ann), userset(doc, "viewer", crew, "stray"),
     expired(edge(team, "member", ann))}

walkEdges == groupEdges \cup docEdges \cup wideEdges
walkStart ==
    SUBSET (groupEdges \cup docEdges)
    \cup {E \cup {e \in wideEdges : e.active} : E \in SUBSET groupEdges}
walkRequest == [subject : {ann}, action : {"read", "write"}, resource : {doc}]
=============================================================================
