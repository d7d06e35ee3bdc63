--------------------------- MODULE MCMerchantGraph ---------------------------
(***************************************************************************)
(* MerchantGraph for TLC: one customer and a stranger, documents in        *)
(* projects, a role, groups, and graphs in which each of them matters.     *)
(***************************************************************************)
EXTENDS MerchantGraph

Ana == Node("app_user", "ana")
Stranger == Node("app_user", "bob")
D == Node("document", "d")
P == Node("project", "p")
R == Node("role", "r")
G == Node("group", "g")
H == Node("group", "h")

E(o, r, s, v) == [object |-> o, relation |-> r, subject |-> s, via |-> v]

Parent == E(D, "parent", P, None)
Granted == E(P, "can_read", R, "holder")
Held == E(R, "holder", G, "member_of")
Nested == E(G, "member_of", H, "member_of")
Inside == E(G, "member_of", H, None)
Member == E(H, "member_of", Ana, None)
Own == E(D, "owner", Ana, None)
Every == E(StarOf("document"), "can_read", Ana, None)
Anyone == E(D, "can_read", StarOf("app_user"), None)
Contained == E(StarOf("project"), "can_all", Ana, None)
Stray == E(D, "can_read", P, "can_read")
Direct == E(P, "can_read", Ana, None)
Written == E(D, "can_write", Stranger, None)

MCBatch == {{e} : e \in {Inside, Member, Every, Anyone, Stray, Direct}} \cup {{Own, Parent}}

Cap(r, a) == [resource |-> r, action |-> a]

MCCapability == {Cap("document", "read"), Cap("document", "write"), Cap("project", "write"),
                 Cap("document", "all"), Cap("2fa", "read")}

Usual == {Cap("document", "read")}

\* The more edges to begin with, the fewer edits.
MCStarts ==
    LET Graph(es, n) == [kinds |-> {"project"}, caps |-> Usual, edges |-> es, spent |-> n]
    IN  {Graph({Parent, Granted, Held, Nested, Member}, 1), Graph({Parent, Granted, Held, Inside, Member, Own}, 1),
         Graph({Every, Anyone, Parent}, 1), Graph({Contained, Parent, Stray}, 1), Graph({Direct, Written}, 1),
         [kinds |-> {}, caps |-> {}, edges |-> {Own}, spent |-> 0]}

MCQuestion ==
    {[about |-> "objects", subject |-> Ana, action |-> "read", resource |-> D],
     [about |-> "subjects", subject |-> Ana, action |-> "read", resource |-> D],
     [about |-> "check", subject |-> Ana, action |-> "read", resource |-> D]}

MCIdent == {"app_user", "group", "role", "document", "project", "region", "read", "write", "all"}
=============================================================================
