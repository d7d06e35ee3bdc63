-------------------------- MODULE StaffAccessProofs --------------------------
(* Proofs about StaffAccess. *)
EXTENDS StaffAccess, FiniteSetTheorems, TLAPS

USE DEF MembershipStatus, Node, Operations

(* What a request knows while it is handled. *)
RequestOK(q) ==
    /\ request[q].step # "new" => request[q].by \in User
    /\ request[q].step \in {"load", "list", "check"} =>
        /\ request[q].step = "load" => request[q].role \in Role
        /\ request[q].op \in {"createRole", "updateRole"} =>
                request[q].org \in Org /\ request[q].step = "check"
        /\ request[q].op = "updateRole" =>
                request[q].role \in Role /\ request[q].org = RoleOrg[request[q].role]
        /\ request[q].op = "deleteRole" =>
                /\ request[q].role \in Role /\ request[q].role \notin System
                /\ request[q].holders = {}
        /\ request[q].op = "createMembership" =>
                /\ request[q].target \in User /\ request[q].role \in Role
                /\ request[q].org \in Org /\ request[q].status \in {"invited", "active"}
        /\ request[q].op = "updateMembership" =>
                /\ request[q].target \in Membership /\ request[q].org \in Org
                /\ membership[request[q].target].status # "new"
                /\ request[q].org = membership[request[q].target].org
        /\ request[q].op \in {"revokeMembership", "acceptMembership"} =>
                request[q].target \in Membership
        /\ request[q].op = "createKey" => request[q].org \in Node
        /\ request[q].op = "revokeKey" => request[q].target \in Key

Assigns(q) ==
    /\ request[q].op \in {"createMembership", "updateMembership"}
    /\ request[q].step = "check" /\ request[q].role # None

(* The role that is about to be given was there when it was read. *)
AssignOK(q) ==
    Assigns(q) => role[request[q].role] # "new" /\ RoleOrg[request[q].role] = request[q].org

MemberOK(m) ==
    Stored(m) =>
        /\ membership[m].user \in User /\ membership[m].role \in Role
        /\ membership[m].org = RoleOrg[membership[m].role]
        /\ role[membership[m].role] = "live"

SystemLive == \A r \in System : role[r] = "live"

(* The first seat is given with the marker. *)
SeatsOK ==
    /\ ~bootstrapped => seats = {}
    /\ bootstrapped => \E m \in Membership : seats = {m}

Shape ==
    /\ \A q \in Request : RequestOK(q) /\ AssignOK(q)
    /\ \A m \in Membership : MemberOK(m)
    /\ SystemLive

(* Entitled and Confers of given histories and permissions. *)
Warranted(S, C, p, n) ==
    \/ \E m \in Membership :
        /\ Members[m].user \in C
        /\ p \in UNION {Holding[a] : a \in Ancestors[Members[m].role]}
        /\ RoleNode(Members[m].role) \in {n, Star}
    \/ \E i \in S : i[1] \notin C /\ i[2] \in {n, Star} /\ i[3] = p

Carries(P, r) == UNION {P[a] : a \in Ancestors[r]}

(* What a membership confers, in force or not, its circle is entitled to. *)
HeldOK ==
    \A m \in Membership : Stored(m) =>
        \A C \in SUBSET User, p \in Carries(permission, membership[m].role) :
            membership[m].user \in C => Warranted(issued, C, p, RoleNode(membership[m].role))

(* So is the circle of a caller to what the subset rule has let through ... *)
AuthoredOK ==
    \A q \in Request :
        request[q].op \in {"createRole", "updateRole"} /\ request[q].step = "check" =>
            \A C \in SUBSET User, p \in request[q].perms \ request[q].left :
                request[q].by \in C => Warranted(issued, C, p, NodeOf(request[q].org))

(* ... also when the role that is given has changed since it was read. *)
AssignedOK ==
    \A q \in Request : Assigns(q) =>
        \A C \in SUBSET User, p \in Carries(permission, request[q].role) \ request[q].left :
            request[q].by \in C => Warranted(issued, C, p, NodeOf(request[q].org))

Authority == HeldOK /\ AuthoredOK /\ AssignedOK

IInv == TypeOK /\ Shape /\ SeatsOK /\ Authority

---------------------------------------------------------------------------
(* Types. *)

LEMMA InitType == Init => TypeOK
<1> SUFFICES ASSUME Init PROVE TypeOK OBVIOUS
<1> USE DEF Init
<1>1. role \in [Role -> {"new", "live", "deleted"}] OBVIOUS
<1>2. permission \in [Role -> SUBSET Perm]
  BY HoldingAssumption
<1>3. membership \in [Membership -> Memberships]
  BY MembersAssumption
<1>4. key \in [Key -> Keys]
  BY DEF Keys, NoKey
<1>5. request \in [Request -> Requests]
  BY DEF Requests, NewRequest
<1> QED
  BY <1>1, <1>2, <1>3, <1>4, <1>5 DEF TypeOK

LEMMA NewRequestType == NewRequest \in Requests
  BY DEF NewRequest, Requests

LEMMA AskingType ==
    ASSUME TypeOK, NEW q \in Request, Asking(q)
    PROVE  /\ request' \in [Request -> Requests]
           /\ UNCHANGED <<role, permission, membership, key, bootstrapped, seats, issued>>
<1>0. ASSUME NEW p, NEW n, NEW asked \in Requests, Ask(q, p, n, asked)
      PROVE  /\ request' \in [Request -> Requests]
             /\ UNCHANGED <<role, permission, membership, key, bootstrapped, seats, issued>>
  BY <1>0 DEF TypeOK, Ask
<1>1. ASSUME NEW by \in User, NEW via \in Key \cup {None}
      PROVE  From(by, via) \in Requests
  BY DEF From, NewRequest, Requests
<1>2. ASSUME NEW by \in User, NEW via \in Key \cup {None}, NEW o \in Org, NEW ps \in Wish,
             AskCreateRole(q, by, via, o, ps)
      PROVE  /\ request' \in [Request -> Requests]
             /\ UNCHANGED <<role, permission, membership, key, bootstrapped, seats, issued>>
  <2>1. [From(by, via) EXCEPT !.op = "createRole", !.org = o, !.perms = ps, !.left = ps] \in Requests
    BY PermAssumption DEF From, NewRequest, Requests
  <2> QED
    BY <1>0, <1>2, <2>1 DEF AskCreateRole
<1>3. ASSUME NEW by \in User, NEW via \in Key \cup {None}, NEW r \in Role, NEW ps \in Wish,
             AskUpdateRole(q, by, via, r, ps)
      PROVE  /\ request' \in [Request -> Requests]
             /\ UNCHANGED <<role, permission, membership, key, bootstrapped, seats, issued>>
  <2>1. [From(by, via) EXCEPT !.op = "updateRole", !.org = RoleOrg[r], !.role = r,
            !.perms = ps, !.left = ps] \in Requests
    BY PermAssumption, RoleAssumption DEF From, NewRequest, Requests
  <2> QED
    BY <1>0, <1>3, <2>1 DEF AskUpdateRole
<1>4. ASSUME NEW by \in User, NEW via \in Key \cup {None}, NEW r \in Role,
             AskDeleteRole(q, by, via, r)
      PROVE  /\ request' \in [Request -> Requests]
             /\ UNCHANGED <<role, permission, membership, key, bootstrapped, seats, issued>>
  <2>1. [From(by, via) EXCEPT !.op = "deleteRole", !.step = "list", !.org = RoleOrg[r],
            !.role = r] \in Requests
    BY RoleAssumption DEF From, NewRequest, Requests
  <2> QED
    BY <1>0, <1>4, <2>1 DEF AskDeleteRole
<1>5. ASSUME NEW by \in User, NEW via \in Key \cup {None}, NEW o \in Org, NEW u \in User,
             NEW given \in Patch, AskCreateMembership(q, by, via, o, u, given)
      PROVE  /\ request' \in [Request -> Requests]
             /\ UNCHANGED <<role, permission, membership, key, bootstrapped, seats, issued>>
  <2>1. [From(by, via) EXCEPT !.op = "createMembership", !.step = "load", !.org = o,
            !.role = given.role, !.target = u, !.status = given.status] \in Requests
    BY PatchAssumption DEF From, NewRequest, Requests
  <2> QED
    BY <1>0, <1>5, <2>1 DEF AskCreateMembership
<1>6. ASSUME NEW by \in User, NEW via \in Key \cup {None}, NEW m \in Membership,
             NEW given \in Patch, AskUpdateMembership(q, by, via, m, given)
      PROVE  /\ request' \in [Request -> Requests]
             /\ UNCHANGED <<role, permission, membership, key, bootstrapped, seats, issued>>
  <2>0. membership[m].org \in Node \cup {None}
    BY DEF TypeOK, Memberships
  <2>1. [From(by, via) EXCEPT !.op = "updateMembership",
            !.step = IF given.role = None THEN "check" ELSE "load",
            !.org = membership[m].org, !.role = given.role, !.target = m,
            !.status = given.status] \in Requests
    BY <2>0, PatchAssumption DEF From, NewRequest, Requests
  <2> QED
    BY <1>0, <1>6, <2>1 DEF AskUpdateMembership
<1>7. ASSUME NEW by \in User, NEW via \in Key \cup {None}, NEW m \in Membership,
             AskRevokeMembership(q, by, via, m)
      PROVE  /\ request' \in [Request -> Requests]
             /\ UNCHANGED <<role, permission, membership, key, bootstrapped, seats, issued>>
  <2>0. membership[m].org \in Node \cup {None}
    BY DEF TypeOK, Memberships
  <2>1. [From(by, via) EXCEPT !.op = "revokeMembership", !.org = membership[m].org,
            !.target = m] \in Requests
    BY <2>0 DEF From, NewRequest, Requests
  <2> QED
    BY <1>0, <1>7, <2>1 DEF AskRevokeMembership
<1>8. ASSUME NEW m \in Membership, AskAcceptMembership(q, m)
      PROVE  /\ request' \in [Request -> Requests]
             /\ UNCHANGED <<role, permission, membership, key, bootstrapped, seats, issued>>
  <2>0. membership[m].org \in Node \cup {None} /\ membership[m].user \in User \cup {None}
    BY DEF TypeOK, Memberships
  <2>1. [From(membership[m].user, None) EXCEPT !.op = "acceptMembership",
            !.org = membership[m].org, !.target = m] \in Requests
    BY <2>0 DEF From, NewRequest, Requests
  <2> QED
    BY <1>8, <2>1 DEF AskAcceptMembership, TypeOK
<1>9. ASSUME NEW by \in User, NEW via \in Key \cup {None}, NEW n \in Node, NEW ps \in Wish,
             AskCreateAPIKey(q, by, via, n, ps)
      PROVE  /\ request' \in [Request -> Requests]
             /\ UNCHANGED <<role, permission, membership, key, bootstrapped, seats, issued>>
  <2>1. [From(by, via) EXCEPT !.op = "createKey", !.org = n, !.perms = ps] \in Requests
    BY PermAssumption DEF From, NewRequest, Requests
  <2> QED
    BY <1>0, <1>9, <2>1 DEF AskCreateAPIKey
<1>10. ASSUME NEW by \in User, NEW via \in Key \cup {None}, NEW k \in Key,
              AskRevokeAPIKey(q, by, via, k)
      PROVE  /\ request' \in [Request -> Requests]
             /\ UNCHANGED <<role, permission, membership, key, bootstrapped, seats, issued>>
  <2>0. key[k].org \in Node \cup {None}
    BY DEF TypeOK, Keys
  <2>1. [From(by, via) EXCEPT !.op = "revokeKey", !.org = key[k].org, !.target = k] \in Requests
    BY <2>0 DEF From, NewRequest, Requests
  <2> QED
    BY <1>0, <1>10, <2>1 DEF AskRevokeAPIKey
<1> QED
  BY <1>2, <1>3, <1>4, <1>5, <1>6, <1>7, <1>8, <1>9, <1>10 DEF Asking

LEMMA FinishType ==
    ASSUME TypeOK, NEW q \in Request, Finish(q)
    PROVE  request' \in [Request -> Requests]
<1>1. request[q] \in Requests
  BY DEF TypeOK
<1>2. [request[q] EXCEPT !.step = "done"] \in Requests
  BY <1>1 DEF Requests
<1> QED
  BY <1>2 DEF TypeOK, Finish

LEMMA CheckingType ==
    ASSUME TypeOK, Shape, NEW q \in Request, Checking(q)
    PROVE  /\ request' \in [Request -> Requests]
           /\ UNCHANGED <<role, permission, membership, key, bootstrapped, seats, issued>>
<1>0. request[q] \in Requests
  BY DEF TypeOK
<1>1. CASE LoadRole(q)
  <2>0. Confers(request[q].role) \in SUBSET Perm
    <3>1. request[q].role \in Role
      BY <1>1 DEF LoadRole, At, Shape, RequestOK
    <3> QED
      BY <3>1, AncestorAssumption DEF Confers, TypeOK
  <2>1. [request[q] EXCEPT !.step = "check", !.left = Confers(request[q].role)] \in Requests
    BY <1>0, <2>0, ZenonT(240) DEF Requests
  <2>2. request' = [request EXCEPT ![q] =
            [request[q] EXCEPT !.step = "check", !.left = Confers(request[q].role)]]
    BY <1>1 DEF LoadRole, TypeOK
  <2> QED
    BY <1>1, <2>1, <2>2 DEF LoadRole, TypeOK
<1>2. CASE CheckPermission(q)
  <2> DEFINE p == CHOOSE p \in request[q].left : TRUE
  <2>1. [request[q] EXCEPT !.left = @ \ {p}] \in Requests
    BY <1>0 DEF Requests
  <2> QED
    BY <1>2, <2>1 DEF CheckPermission, TypeOK
<1>3. CASE ListHolders(q)
  <2>1. HoldersOf(request[q].role) \in SUBSET Membership
    BY DEF HoldersOf
  <2>2. [request[q] EXCEPT !.step = "check", !.holders = HoldersOf(request[q].role)] \in Requests
    BY <1>0, <2>1, ZenonT(240) DEF Requests
  <2>3. request' = [request EXCEPT ![q] =
            [request[q] EXCEPT !.step = "check", !.holders = HoldersOf(request[q].role)]]
    BY <1>3 DEF ListHolders, TypeOK
  <2> QED
    BY <1>3, <2>2, <2>3 DEF ListHolders, TypeOK
<1>4. CASE Leave(q)
  <2>1. [request[q] EXCEPT !.step = "done"] \in Requests
    BY <1>0 DEF Requests
  <2> QED
    BY <1>4, <2>1 DEF Leave, TypeOK
<1> QED
  BY <1>1, <1>2, <1>3, <1>4 DEF Checking

LEMMA IssueType ==
    ASSUME TypeOK, NEW by \in User \cup {Deployment}, NEW r \in Role, NEW ps \in SUBSET Perm,
           Issue(by, r, ps)
    PROVE  issued' \subseteq (User \cup {Deployment}) \X Node \X Perm
<1>1. RoleNode(r) \in Node
  BY RoleAssumption DEF RoleNode, NodeOf
<1> QED
  BY <1>1 DEF Issue, TypeOK

LEMMA ConfersType ==
    ASSUME TypeOK, NEW r \in Role
    PROVE  Confers(r) \in SUBSET Perm
  BY AncestorAssumption DEF Confers, TypeOK

LEMMA WritingType ==
    ASSUME TypeOK, Shape, NEW q \in Request, Writing(q)
    PROVE  TypeOK'
<1>0. request[q] \in Requests /\ RequestOK(q)
  BY DEF TypeOK, Shape
<1>1. ASSUME NEW r \in Role, CreateRole(q, r)
      PROVE  TypeOK'
  <2>1. request[q].by \in User /\ request[q].perms \in SUBSET Perm
    BY <1>0, <1>1 DEF CreateRole, Ready, At, RequestOK, Requests
  <2>2. permission' \in [Role -> SUBSET Perm] /\ role' \in [Role -> {"new", "live", "deleted"}]
    BY <1>1, <2>1 DEF CreateRole, TypeOK
  <2>3. issued' \subseteq (User \cup {Deployment}) \X Node \X Perm
    BY <1>1, <2>1, IssueType DEF CreateRole
  <2> QED
    BY <1>1, <2>2, <2>3, FinishType DEF CreateRole, TypeOK
<1>2. CASE UpdateRole(q)
  <2>1. /\ request[q].by \in User /\ request[q].perms \in SUBSET Perm
        /\ request[q].role \in Role
    BY <1>0, <1>2 DEF UpdateRole, Ready, At, RequestOK, Requests
  <2>2. permission' \in [Role -> SUBSET Perm]
    BY <1>2, <2>1 DEF UpdateRole, TypeOK
  <2>3. issued' \subseteq (User \cup {Deployment}) \X Node \X Perm
    BY <1>2, <2>1, IssueType DEF UpdateRole
  <2> QED
    BY <1>2, <2>2, <2>3, FinishType DEF UpdateRole, TypeOK
<1>3. CASE DeleteRole(q)
  <2>1. permission' \in [Role -> SUBSET Perm] /\ role' \in [Role -> {"new", "live", "deleted"}]
    BY <1>3 DEF DeleteRole, TypeOK
  <2>2. \A m \in Membership : [membership[m] EXCEPT !.status = "deleted"] \in Memberships
    BY DEF TypeOK, Memberships
  <2>3. membership' \in [Membership -> Memberships]
    BY <1>3, <2>2 DEF DeleteRole, TypeOK
  <2> QED
    BY <1>3, <2>1, <2>3, FinishType DEF DeleteRole, TypeOK
<1>4. ASSUME NEW m \in Membership, CreateMembership(q, m)
      PROVE  TypeOK'
  <2>1. /\ request[q].by \in User /\ request[q].target \in User /\ request[q].role \in Role
        /\ request[q].org \in Org /\ request[q].status \in {"invited", "active"}
    BY <1>0, <1>4 DEF CreateMembership, Ready, At, RequestOK
  <2>2. [org |-> request[q].org, user |-> request[q].target, role |-> request[q].role,
         status |-> request[q].status] \in Memberships
    BY <2>1 DEF Memberships
  <2>3. membership' \in [Membership -> Memberships]
    BY <1>4, <2>2 DEF CreateMembership, TypeOK
  <2>4. Issue(request[q].by, request[q].role, Confers(request[q].role))
    BY <1>4 DEF CreateMembership
  <2>5. issued' \subseteq (User \cup {Deployment}) \X Node \X Perm
    BY <2>1, <2>4, IssueType, ConfersType
  <2> QED
    BY <1>4, <2>3, <2>5, FinishType DEF CreateMembership, TypeOK
<1>5. CASE UpdateMembership(q)
  <2> DEFINE m == request[q].target
             r == IF request[q].role = None THEN membership[m].role ELSE request[q].role
             st == IF request[q].status = "none" THEN membership[m].status ELSE request[q].status
  <2>1. m \in Membership /\ request[q].by \in User /\ membership[m] \in Memberships
    BY <1>0, <1>5 DEF UpdateMembership, Ready, At, RequestOK, TypeOK
  <2>2. r \in Role \cup {None} /\ st \in MembershipStatus \cup {"new", "deleted"}
    BY <1>0, <2>1 DEF Requests, Memberships
  <2>3. [membership[m] EXCEPT !.role = r, !.status = st] \in Memberships
    BY <2>1, <2>2 DEF Memberships
  <2>4. membership' = [membership EXCEPT ![m] = [membership[m] EXCEPT !.role = r, !.status = st]]
    BY <1>5, <2>1 DEF UpdateMembership, TypeOK
  <2>5. membership' \in [Membership -> Memberships]
    BY <2>1, <2>3, <2>4 DEF TypeOK
  <2>6. issued' \subseteq (User \cup {Deployment}) \X Node \X Perm
    <3>1. CASE request[q].role = None
      BY <1>5, <3>1 DEF UpdateMembership, TypeOK
    <3>2. CASE request[q].role # None
      <4>1. request[q].role \in Role
        BY <1>0, <3>2 DEF Requests
      <4>2. Issue(request[q].by, request[q].role, Confers(request[q].role))
        BY <1>5, <3>2 DEF UpdateMembership
      <4> QED
        BY <2>1, <4>1, <4>2, IssueType, ConfersType
    <3> QED
      BY <3>1, <3>2
  <2> QED
    BY <1>5, <2>5, <2>6, FinishType DEF UpdateMembership, TypeOK
<1>6. CASE RevokeMembership(q)
  <2>1. \A m \in Membership : [membership[m] EXCEPT !.status = "revoked"] \in Memberships
    BY DEF TypeOK, Memberships
  <2> QED
    BY <1>6, <2>1, FinishType DEF RevokeMembership, TypeOK
<1>7. CASE AcceptMembership(q)
  <2>1. \A m \in Membership : [membership[m] EXCEPT !.status = "active"] \in Memberships
    BY DEF TypeOK, Memberships
  <2> QED
    BY <1>7, <2>1, FinishType DEF AcceptMembership, TypeOK
<1>8. ASSUME NEW k \in Key, CreateAPIKey(q, k)
      PROVE  TypeOK'
  <2>1. [owner |-> request[q].by, org |-> request[q].org,
         scopes |-> request[q].perms, status |-> "live"] \in Keys
    BY <1>0 DEF Requests, Keys
  <2> QED
    BY <1>8, <2>1, FinishType DEF CreateAPIKey, TypeOK
<1>9. CASE RevokeAPIKey(q)
  <2>1. \A k \in Key : [key[k] EXCEPT !.status = "revoked"] \in Keys
    BY DEF TypeOK, Keys
  <2> QED
    BY <1>9, <2>1, FinishType DEF RevokeAPIKey, TypeOK
<1> QED
  BY <1>1, <1>2, <1>3, <1>4, <1>5, <1>6, <1>7, <1>8, <1>9 DEF Writing

LEMMA NextType == TypeOK /\ Shape /\ [Next]_vars => TypeOK'
<1> SUFFICES ASSUME TypeOK, Shape, [Next]_vars PROVE TypeOK' OBVIOUS
<1>1. CASE UNCHANGED vars
  BY <1>1 DEF vars, TypeOK
<1>2. ASSUME NEW q \in Request, Asking(q) \/ Checking(q)
      PROVE  TypeOK'
  BY <1>2, AskingType, CheckingType DEF TypeOK
<1>3. ASSUME NEW u \in User, NEW m \in Membership, BootstrapFirstStaff(u, m)
      PROVE  TypeOK'
  <2>1. BootstrapRole \in Role
    BY RoleAssumption
  <2>2. [org |-> Platform, user |-> u, role |-> BootstrapRole, status |-> "active"] \in Memberships
    BY <2>1, NoneAssumption DEF Memberships
  <2>3. Issue(Deployment, BootstrapRole, Confers(BootstrapRole))
    BY <1>3 DEF BootstrapFirstStaff
  <2>4. issued' \subseteq (User \cup {Deployment}) \X Node \X Perm
    BY <2>1, <2>3, IssueType, ConfersType
  <2> QED
    BY <1>3, <2>2, <2>4 DEF BootstrapFirstStaff, TypeOK
<1> QED
  BY <1>1, <1>2, <1>3, WritingType DEF Next

---------------------------------------------------------------------------
(* Shape. *)

Frame == UNCHANGED <<role, permission, membership, key, bootstrapped, seats, issued>>

LEMMA InitShape == Init => Shape
<1> SUFFICES ASSUME Init PROVE Shape OBVIOUS
<1>1. \A q \in Request : RequestOK(q) /\ AssignOK(q)
  BY DEF Init, NewRequest, RequestOK, AssignOK, Assigns
<1>2. \A r \in DOMAIN Holding : r \in Role /\ role[r] = "live"
  BY HoldingAssumption DEF Init
<1>3. \A m \in Membership : MemberOK(m)
  BY <1>2, MembersAssumption DEF Init, MemberOK, Stored, NoMembership
<1> QED
  BY <1>1, <1>2, <1>3, HoldingAssumption DEF Shape, SystemLive

(* A request that nobody touches keeps what it knows. *)
LEMMA RequestKept ==
    ASSUME TypeOK, TypeOK', Shape, NEW q \in Request, request'[q] = request[q],
           \A m \in Membership : Stored(m) => membership'[m].org = membership[m].org,
           \A r \in Role : role[r] # "new" => role'[r] # "new",
           request[q].op = "updateMembership" /\ request[q].step \in {"load", "list", "check"} =>
                /\ membership'[request[q].target].org = membership[request[q].target].org
                /\ membership'[request[q].target].status # "new"
    PROVE  RequestOK(q)' /\ AssignOK(q)'
<1>0. RequestOK(q) /\ AssignOK(q) /\ request[q] \in Requests
  BY DEF Shape, TypeOK
<1>1. RequestOK(q)'
  BY <1>0 DEF RequestOK, Requests
<1>2. AssignOK(q)'
  <2>1. Assigns(q) => request[q].role \in Role
    BY <1>0 DEF Assigns, Requests
  <2> QED
    BY <1>0, <2>1 DEF AssignOK, Assigns
<1> QED
  BY <1>1, <1>2

LEMMA AskingShape ==
    ASSUME TypeOK, Shape, NEW q \in Request, Asking(q)
    PROVE  Shape'
<1>0. TypeOK' /\ Frame
  BY AskingType DEF TypeOK, Frame
<1>1. \A m \in Membership : MemberOK(m)'
  BY <1>0 DEF Frame, Shape, MemberOK, Stored
<1>a. \A s \in Request :
        request[s].op = "updateMembership" /\ request[s].step \in {"load", "list", "check"} =>
            membership[request[s].target].status # "new"
  BY DEF Shape, RequestOK
<1>2. SystemLive'
  BY <1>0 DEF Frame, Shape, SystemLive
<1>3. ASSUME NEW s \in Request, s # q
      PROVE  RequestOK(s)' /\ AssignOK(s)'
  <2>0. \A p, n, asked : Ask(q, p, n, asked) => request'[s] = request[s]
    BY <1>3 DEF Ask, TypeOK
  <2>1. request'[s] = request[s]
    BY <1>3, <2>0, ZenonT(240) DEF Asking, AskCreateRole, AskUpdateRole, AskDeleteRole, AskCreateMembership,
        AskUpdateMembership, AskRevokeMembership, AskAcceptMembership, AskCreateAPIKey,
        AskRevokeAPIKey, TypeOK
  <2> QED
    BY <1>0, <1>a, <2>1, RequestKept DEF Frame
<1>4. RequestOK(q)' /\ AssignOK(q)'
  <2> USE <1>0 DEF Frame, Ask, From, NewRequest, RequestOK, AssignOK, Assigns
  <2>1. ASSUME NEW by \in User, NEW via \in Key \cup {None}, NEW o \in Org, NEW ps \in Wish,
               AskCreateRole(q, by, via, o, ps)
        PROVE  RequestOK(q)' /\ AssignOK(q)'
    BY <2>1 DEF AskCreateRole, TypeOK
  <2>2. ASSUME NEW by \in User, NEW via \in Key \cup {None}, NEW r \in Role, NEW ps \in Wish,
               AskUpdateRole(q, by, via, r, ps)
        PROVE  RequestOK(q)' /\ AssignOK(q)'
    BY <2>2, RoleAssumption DEF AskUpdateRole, TypeOK
  <2>3. ASSUME NEW by \in User, NEW via \in Key \cup {None}, NEW r \in Role,
               AskDeleteRole(q, by, via, r)
        PROVE  RequestOK(q)' /\ AssignOK(q)'
    BY <2>3 DEF AskDeleteRole, TypeOK
  <2>4. ASSUME NEW by \in User, NEW via \in Key \cup {None}, NEW o \in Org, NEW u \in User,
               NEW given \in Patch, AskCreateMembership(q, by, via, o, u, given)
        PROVE  RequestOK(q)' /\ AssignOK(q)'
    BY <2>4, PatchAssumption DEF AskCreateMembership, TypeOK
  <2>5. ASSUME NEW by \in User, NEW via \in Key \cup {None}, NEW m \in Membership,
               NEW given \in Patch, AskUpdateMembership(q, by, via, m, given)
        PROVE  RequestOK(q)' /\ AssignOK(q)'
    <3>1. membership[m].org \in Org
      BY <2>5, RoleAssumption DEF AskUpdateMembership, Shape, MemberOK
    <3>2. request'[q] = [From(by, via) EXCEPT !.op = "updateMembership",
            !.step = IF given.role = None THEN "check" ELSE "load",
            !.org = membership[m].org, !.role = given.role, !.target = m,
            !.status = given.status]
      BY <2>5 DEF AskUpdateMembership, TypeOK
    <3>5. membership[m].status # "new"
      BY <2>5 DEF AskUpdateMembership, Stored
    <3>0. given.role \in Role \cup {None}
      BY PatchAssumption
    <3>3. RequestOK(q)'
      BY <3>0, <3>1, <3>2, <3>5
    <3>4. AssignOK(q)'
      BY <3>2
    <3> QED
      BY <3>3, <3>4
  <2>6. ASSUME NEW by \in User, NEW via \in Key \cup {None}, NEW m \in Membership,
               AskRevokeMembership(q, by, via, m)
        PROVE  RequestOK(q)' /\ AssignOK(q)'
    BY <2>6 DEF AskRevokeMembership, TypeOK
  <2>7. ASSUME NEW m \in Membership, AskAcceptMembership(q, m)
        PROVE  RequestOK(q)' /\ AssignOK(q)'
    <3>1. membership[m].user \in User
      BY <2>7 DEF AskAcceptMembership, Shape, MemberOK, Stored
    <3> QED
      BY <2>7, <3>1 DEF AskAcceptMembership, TypeOK
  <2>8. ASSUME NEW by \in User, NEW via \in Key \cup {None}, NEW n \in Node, NEW ps \in Wish,
               AskCreateAPIKey(q, by, via, n, ps)
        PROVE  RequestOK(q)' /\ AssignOK(q)'
    BY <2>8 DEF AskCreateAPIKey, TypeOK
  <2>9. ASSUME NEW by \in User, NEW via \in Key \cup {None}, NEW k \in Key,
               AskRevokeAPIKey(q, by, via, k)
        PROVE  RequestOK(q)' /\ AssignOK(q)'
    BY <2>9 DEF AskRevokeAPIKey, TypeOK
  <2>10. Asking(q)
    OBVIOUS
  <2> HIDE DEF Ask, From, NewRequest, RequestOK, AssignOK, Assigns
  <2> QED
    BY <2>1, <2>2, <2>3, <2>4, <2>5, <2>6, <2>7, <2>8, <2>9, <2>10 DEF Asking
<1> QED
  BY <1>1, <1>2, <1>3, <1>4 DEF Shape

LEMMA CheckingShape ==
    ASSUME TypeOK, Shape, NEW q \in Request, Checking(q)
    PROVE  Shape'
<1>0. TypeOK' /\ Frame
  BY CheckingType DEF TypeOK, Frame
<1>1. \A m \in Membership : MemberOK(m)'
  BY <1>0 DEF Frame, Shape, MemberOK, Stored
<1>a. \A s \in Request :
        request[s].op = "updateMembership" /\ request[s].step \in {"load", "list", "check"} =>
            membership[request[s].target].status # "new"
  BY DEF Shape, RequestOK
<1>2. SystemLive'
  BY <1>0 DEF Frame, Shape, SystemLive
<1>3. ASSUME NEW s \in Request, s # q
      PROVE  RequestOK(s)' /\ AssignOK(s)'
  <2>1. request'[s] = request[s]
    BY <1>3 DEF Checking, LoadRole, CheckPermission, ListHolders, Leave, TypeOK
  <2> QED
    BY <1>0, <1>a, <2>1, RequestKept DEF Frame
<1>4. RequestOK(q)' /\ AssignOK(q)'
  <2>0. RequestOK(q) /\ AssignOK(q) /\ request[q] \in Requests
    BY DEF Shape, TypeOK
  <2>1. CASE LoadRole(q)
    <3>1. request'[q] = [request[q] EXCEPT !.step = "check", !.left = Confers(request[q].role)]
      BY <2>1 DEF LoadRole, TypeOK
    <3>0. /\ request'[q].step = "check" /\ request[q].step = "load"
          /\ request[q].op \in {"createMembership", "updateMembership"}
          /\ request'[q].op = request[q].op /\ request'[q].by = request[q].by
          /\ request'[q].org = request[q].org /\ request'[q].role = request[q].role
          /\ request'[q].target = request[q].target /\ request'[q].status = request[q].status
      <4>1. request[q].step = "load" /\ request[q].op \in {"createMembership", "updateMembership"}
        BY <2>1 DEF LoadRole, At
      <4> QED
        BY <2>0, <3>1, <4>1 DEF Requests
    <3>2. RequestOK(q)'
      BY <1>0, <2>0, <3>0 DEF Frame, RequestOK
    <3>3. AssignOK(q)'
      BY <1>0, <2>0, <2>1, <3>0 DEF Frame, LoadRole, AssignOK, Assigns
    <3> QED
      BY <3>2, <3>3
  <2>2. CASE CheckPermission(q)
    <3>1. PICK l : request'[q] = [request[q] EXCEPT !.left = l]
      BY <2>2 DEF CheckPermission, TypeOK
    <3>2. RequestOK(q)'
      BY <1>0, <2>0, <2>2, <3>1 DEF Frame, RequestOK, Requests
    <3>3. AssignOK(q)'
      BY <1>0, <2>0, <2>2, <3>1 DEF Frame, AssignOK, Assigns, Requests
    <3> QED
      BY <3>2, <3>3
  <2>3. CASE ListHolders(q)
    <3>1. request'[q] = [request[q] EXCEPT !.step = "check", !.holders = {}]
      BY <2>3 DEF ListHolders, TypeOK
    <3>0. /\ request'[q].step = "check" /\ request[q].step = "list"
          /\ request[q].op = "deleteRole" /\ request'[q].op = "deleteRole"
          /\ request'[q].by = request[q].by /\ request'[q].role = request[q].role
          /\ request'[q].holders = {}
      <4>1. request[q].step = "list" /\ request[q].op = "deleteRole"
        BY <2>3 DEF ListHolders, At
      <4> QED
        BY <2>0, <3>1, <4>1 DEF Requests
    <3>2. RequestOK(q)'
      BY <1>0, <2>0, <3>0 DEF Frame, RequestOK
    <3>3. AssignOK(q)'
      BY <3>0 DEF AssignOK, Assigns
    <3> QED
      BY <3>2, <3>3
  <2>4. CASE Leave(q)
    <3>1. request'[q] = [request[q] EXCEPT !.step = "done"]
      BY <2>4 DEF Leave, TypeOK
    <3> QED
      BY <2>0, <2>4, <3>1 DEF Leave, RequestOK, AssignOK, Assigns, Requests
  <2> QED
    BY <2>1, <2>2, <2>3, <2>4 DEF Checking
<1> QED
  BY <1>1, <1>2, <1>3, <1>4 DEF Shape

(* The request that writes is done; the others keep what they know. *)
LEMMA FinishShape ==
    ASSUME TypeOK, TypeOK', Shape, NEW q \in Request, request[q].step = "check", Finish(q),
           \A r \in Role : role[r] # "new" => role'[r] # "new",
           \A m \in Membership : membership[m].status # "new" =>
                membership'[m].org = membership[m].org,
           \A s \in Request :
                request[s].op = "updateMembership" /\ request[s].step \in {"load", "list", "check"} =>
                    /\ membership'[request[s].target].org = membership[request[s].target].org
                    /\ membership'[request[s].target].status # "new"
    PROVE  \A s \in Request : RequestOK(s)' /\ AssignOK(s)'
<1>1. ASSUME NEW s \in Request, s # q
      PROVE  RequestOK(s)' /\ AssignOK(s)'
  <2>1. request'[s] = request[s]
    BY <1>1 DEF Finish, TypeOK
  <2>2. \A m \in Membership : Stored(m) => membership'[m].org = membership[m].org
    BY DEF Stored
  <2> QED
    BY <2>1, <2>2, RequestKept
<1>2. RequestOK(q)' /\ AssignOK(q)'
  <2>1. request'[q] = [request[q] EXCEPT !.step = "done"] /\ request[q] \in Requests
    BY DEF Finish, TypeOK
  <2>2. RequestOK(q) /\ request'[q].step = "done" /\ request'[q].by = request[q].by
    BY <2>1 DEF Shape, Requests
  <2>3. RequestOK(q)'
    BY <2>2 DEF RequestOK
  <2> QED
    BY <2>2, <2>3 DEF AssignOK, Assigns
<1> QED
  BY <1>1, <1>2

LEMMA WritingShape ==
    ASSUME TypeOK, TypeOK', Shape, NEW q \in Request, Writing(q)
    PROVE  Shape'
<1> USE DEF Ready, At
<1>0. request[q] \in Requests /\ RequestOK(q) /\ AssignOK(q)
  BY DEF TypeOK, Shape
<1>a. /\ \A s \in Request : RequestOK(s)
      /\ \A m \in Membership : MemberOK(m)
  BY DEF Shape
<1>b. \A s \in Request :
        request[s].op = "updateMembership" /\ request[s].step \in {"load", "list", "check"} =>
            /\ request[s].target \in Membership
            /\ membership[request[s].target].status # "new"
  BY <1>a DEF RequestOK
<1>1. ASSUME NEW r \in Role, CreateRole(q, r)
      PROVE  Shape'
  <2>1. \A s \in Request : RequestOK(s)' /\ AssignOK(s)'
    BY <1>1, <1>b, FinishShape DEF CreateRole, TypeOK
  <2>2. \A m \in Membership : MemberOK(m)'
    BY <1>1, <1>a DEF CreateRole, MemberOK, Stored, TypeOK
  <2>3. SystemLive'
    BY <1>1, RoleAssumption DEF CreateRole, SystemLive, Shape, TypeOK
  <2> QED
    BY <2>1, <2>2, <2>3 DEF Shape
<1>2. CASE UpdateRole(q)
  <2>1. \A s \in Request : RequestOK(s)' /\ AssignOK(s)'
    BY <1>2, <1>b, FinishShape DEF UpdateRole
  <2>2. \A m \in Membership : MemberOK(m)'
    BY <1>2, <1>a DEF UpdateRole, MemberOK, Stored
  <2>3. SystemLive'
    BY <1>2 DEF UpdateRole, SystemLive, Shape
  <2> QED
    BY <2>1, <2>2, <2>3 DEF Shape
<1>3. CASE DeleteRole(q)
  <2>0. request[q].role \in Role /\ request[q].role \notin System
    BY <1>0, <1>3 DEF DeleteRole, RequestOK
  <2>a. \A m \in Membership : membership'[m].org = membership[m].org
    BY <1>3 DEF DeleteRole, TypeOK, Memberships
  <2>1. \A s \in Request : RequestOK(s)' /\ AssignOK(s)'
    BY <1>3, <1>b, <2>0, <2>a, FinishShape DEF DeleteRole, TypeOK
  <2>2. ASSUME NEW m \in Membership PROVE MemberOK(m)'
    <3>1. CASE membership[m].role = request[q].role
      <4>1. membership'[m].status = "deleted"
        BY <1>3, <3>1 DEF DeleteRole, TypeOK, Memberships
      <4> QED
        BY <4>1 DEF MemberOK, Stored
    <3>2. CASE membership[m].role # request[q].role
      BY <1>3, <1>a, <2>0, <3>2 DEF DeleteRole, MemberOK, Stored, TypeOK
    <3> QED
      BY <3>1, <3>2
  <2>3. SystemLive'
    BY <1>3, <2>0, RoleAssumption DEF DeleteRole, SystemLive, Shape, TypeOK
  <2> QED
    BY <2>1, <2>2, <2>3 DEF Shape
<1>4. ASSUME NEW m \in Membership, CreateMembership(q, m)
      PROVE  Shape'
  <2>0. /\ request[q].target \in User /\ request[q].role \in Role
        /\ role[request[q].role] = "live" /\ RoleOrg[request[q].role] = request[q].org
    BY <1>0, <1>4, NoneAssumption DEF CreateMembership, RequestOK, AssignOK, Assigns
  <2>1. membership'[m] = [org |-> request[q].org, user |-> request[q].target,
            role |-> request[q].role, status |-> request[q].status]
    BY <1>4 DEF CreateMembership, TypeOK
  <2>2. \A s \in Request :
            request[s].op = "updateMembership" /\ request[s].step \in {"load", "list", "check"} =>
                request[s].target # m
    BY <1>4, <1>a DEF CreateMembership, RequestOK
  <2>3. \A n \in Membership : n # m => membership'[n] = membership[n]
    BY <1>4 DEF CreateMembership, TypeOK
  <2>4. \A s \in Request : RequestOK(s)' /\ AssignOK(s)'
    BY <1>4, <1>b, <2>2, <2>3, FinishShape DEF CreateMembership
  <2>5. \A n \in Membership : MemberOK(n)'
    BY <1>4, <1>a, <2>0, <2>1, <2>3 DEF CreateMembership, MemberOK, Stored
  <2>6. SystemLive'
    BY <1>4 DEF CreateMembership, SystemLive, Shape
  <2> QED
    BY <2>4, <2>5, <2>6 DEF Shape
<1>5. CASE UpdateMembership(q)
  <2> DEFINE m == request[q].target
             r == IF request[q].role = None THEN membership[m].role ELSE request[q].role
             st == IF request[q].status = "none" THEN membership[m].status ELSE request[q].status
  <2>0. /\ m \in Membership /\ membership[m] \in Memberships /\ Stored(m)
        /\ role[r] = "live" /\ membership[m].org = request[q].org
    BY <1>0, <1>5 DEF UpdateMembership, RequestOK, TypeOK
  <2>1. membership' = [membership EXCEPT ![m] = [membership[m] EXCEPT !.role = r, !.status = st]]
    BY <1>5, <2>0 DEF UpdateMembership, TypeOK
  <2>2. /\ membership'[m].org = membership[m].org /\ membership'[m].user = membership[m].user
        /\ membership'[m].role = r
    BY <2>0, <2>1 DEF TypeOK, Memberships
  <2>3. \A n \in Membership : n # m => membership'[n] = membership[n]
    BY <2>0, <2>1 DEF TypeOK
  <2>4. r \in Role /\ RoleOrg[r] = membership[m].org /\ membership[m].user \in User
    <3>1. MemberOK(m)
      BY <1>a, <2>0
    <3>2. request[q].role # None => RoleOrg[request[q].role] = request[q].org
      BY <1>0, <1>5 DEF UpdateMembership, AssignOK, Assigns
    <3> QED
      BY <1>0, <2>0, <3>1, <3>2 DEF MemberOK, Requests
  <2>a. st # "new" /\ membership'[m].status = st
    BY <1>0, <2>0, <2>1 DEF TypeOK, Memberships, Stored, Requests
  <2>b. \A n \in Membership : membership'[n].org = membership[n].org
    BY <2>2, <2>3
  <2>c. \A s \in Request :
            request[s].op = "updateMembership" /\ request[s].step \in {"load", "list", "check"} =>
                membership'[request[s].target].status # "new"
    BY <1>b, <2>a, <2>3
  <2>5. \A s \in Request : RequestOK(s)' /\ AssignOK(s)'
    BY <1>5, <1>b, <2>b, <2>c, FinishShape DEF UpdateMembership
  <2>6. \A n \in Membership : MemberOK(n)'
    BY <1>5, <1>a, <2>0, <2>2, <2>3, <2>4, SMTT(120) DEF UpdateMembership, MemberOK, Stored
  <2>7. SystemLive'
    BY <1>5 DEF UpdateMembership, SystemLive, Shape
  <2> QED
    BY <2>5, <2>6, <2>7 DEF Shape
<1>6. ASSUME NEW st, NEW m \in Membership, Stored(m), st \in MembershipStatus,
             membership' = [membership EXCEPT ![m].status = st],
             request[q].step = "check", Finish(q), role' = role
      PROVE  Shape'
  <2>1. \A n \in Membership :
            /\ membership'[n].org = membership[n].org /\ membership'[n].user = membership[n].user
            /\ membership'[n].role = membership[n].role /\ (Stored(n)' <=> Stored(n))
    BY <1>6 DEF TypeOK, Memberships, Stored
  <2>2. \A s \in Request : RequestOK(s)' /\ AssignOK(s)'
    BY <1>6, <1>b, <2>1, FinishShape
  <2>3. \A n \in Membership : MemberOK(n)'
    BY <1>6, <1>a, <2>1 DEF MemberOK
  <2>4. SystemLive'
    BY <1>6 DEF SystemLive, Shape
  <2> QED
    BY <2>2, <2>3, <2>4 DEF Shape
<1>7. CASE RevokeMembership(q)
  BY <1>0, <1>6, <1>7 DEF RevokeMembership, RequestOK
<1>8. CASE AcceptMembership(q)
  BY <1>0, <1>6, <1>8 DEF AcceptMembership, RequestOK, Stored
<1>9. ASSUME request[q].step = "check", Finish(q), UNCHANGED <<role, membership>>
      PROVE  Shape'
  <2>1. \A s \in Request : RequestOK(s)' /\ AssignOK(s)'
    BY <1>9, <1>b, FinishShape
  <2> QED
    BY <1>9, <2>1 DEF Shape, SystemLive, MemberOK, Stored
<1>10. ASSUME NEW k \in Key, CreateAPIKey(q, k)
       PROVE  Shape'
  BY <1>9, <1>10 DEF CreateAPIKey
<1>11. CASE RevokeAPIKey(q)
  BY <1>9, <1>11 DEF RevokeAPIKey
<1> QED
  BY <1>1, <1>2, <1>3, <1>4, <1>5, <1>7, <1>8, <1>10, <1>11 DEF Writing

LEMMA NextShape == TypeOK /\ Shape /\ [Next]_vars => Shape'
<1> SUFFICES ASSUME TypeOK, Shape, [Next]_vars PROVE Shape' OBVIOUS
<1>0. TypeOK'
  BY NextType
<1>1. CASE UNCHANGED vars
  BY <1>1 DEF vars, Shape, RequestOK, AssignOK, Assigns, MemberOK, Stored, SystemLive
<1>2. ASSUME NEW q \in Request, Asking(q) \/ Checking(q) \/ Writing(q)
      PROVE  Shape'
  BY <1>0, <1>2, AskingShape, CheckingShape, WritingShape
<1>3. ASSUME NEW u \in User, NEW m \in Membership, BootstrapFirstStaff(u, m)
      PROVE  Shape'
  <2>0. BootstrapRole \in Role /\ RoleOrg[BootstrapRole] = Platform /\ role[BootstrapRole] = "live"
    BY RoleAssumption DEF Shape, SystemLive
  <2>1. membership'[m] = [org |-> Platform, user |-> u, role |-> BootstrapRole, status |-> "active"]
    BY <1>3 DEF BootstrapFirstStaff, TypeOK
  <2>2. \A n \in Membership : n # m => membership'[n] = membership[n]
    BY <1>3 DEF BootstrapFirstStaff, TypeOK
  <2>3. ASSUME NEW s \in Request
        PROVE  RequestOK(s)' /\ AssignOK(s)'
    <3>1. request[s].op = "updateMembership" /\ request[s].step \in {"load", "list", "check"} =>
            /\ membership'[request[s].target].org = membership[request[s].target].org
            /\ membership'[request[s].target].status # "new"
      BY <1>3, <2>2 DEF BootstrapFirstStaff, Shape, RequestOK
    <3>2. \A n \in Membership : Stored(n) => membership'[n].org = membership[n].org
      BY <1>3, <2>2 DEF BootstrapFirstStaff, Stored
    <3> QED
      BY <1>0, <1>3, <3>1, <3>2, RequestKept DEF BootstrapFirstStaff
  <2>4. \A n \in Membership : MemberOK(n)'
    BY <1>3, <2>0, <2>1, <2>2 DEF BootstrapFirstStaff, Shape, MemberOK, Stored
  <2>5. SystemLive'
    BY <1>3 DEF BootstrapFirstStaff, SystemLive, Shape
  <2> QED
    BY <2>3, <2>4, <2>5 DEF Shape
<1> QED
  BY <1>1, <1>2, <1>3 DEF Next

---------------------------------------------------------------------------
(* Authority. *)

LEMMA Names ==
    /\ \A C, p, n : Entitled(C, p, n) <=> Warranted(issued, C, p, n)
    /\ \A r : Confers(r) = Carries(permission, r)
  BY DEF Entitled, Warranted, Confers, Carries

(* To be entitled everywhere is to be entitled anywhere. *)
LEMMA WarrantedBelow ==
    ASSUME NEW S, NEW C, NEW p, NEW n, NEW k \in {n, Star}, Warranted(S, C, p, k)
    PROVE  Warranted(S, C, p, n)
  BY DEF Warranted

(* What is issued stays issued. *)
LEMMA WarrantedStays ==
    ASSUME NEW S, NEW T, S \subseteq T, NEW C, NEW p, NEW n, Warranted(S, C, p, n)
    PROVE  Warranted(T, C, p, n)
  BY DEF Warranted

(* What somebody else issues entitles the circle. *)
LEMMA IssueWarrants ==
    ASSUME NEW by, NEW r, NEW ps, Issue(by, r, ps), NEW p \in ps, NEW C, by \notin C
    PROVE  Warranted(issued', C, p, RoleNode(r))
<1>1. <<by, RoleNode(r), p>> \in issued'
  BY DEF Issue
<1>2. PICK i \in issued' : i = <<by, RoleNode(r), p>>
  BY <1>1
<1> QED
  BY <1>2 DEF Warranted

(* A circle reaches only what it is entitled to, in person or through a key. *)
LEMMA ReachIsWarranted ==
    ASSUME Shape, HeldOK, NEW by \in User, NEW via \in Key \cup {None}, NEW p, NEW n,
           Reaches(by, via, p, n), NEW C \in SUBSET User, by \in C
    PROVE  Warranted(issued, C, p, n)
<1>0. ASSUME NEW m \in Active(by)
      PROVE  /\ Stored(m) /\ m \in Membership /\ membership[m].user = by
             /\ membership[m].role \in Role
  BY <1>0 DEF Active, Stored, Shape, MemberOK
<1>1. CASE via = None
  <2>1. PICK m \in Active(by) :
            p \in Confers(membership[m].role) /\ RoleNode(membership[m].role) \in {n, Star}
    BY <1>1 DEF Reaches, PersonReaches
  <2>2. Warranted(issued, C, p, RoleNode(membership[m].role))
    BY <1>0, <2>1, Names DEF HeldOK
  <2> QED
    BY <2>1, <2>2, WarrantedBelow
<1>2. CASE via # None
  <2>1. key[via].owner = by /\ KeyReaches(via, p, n)
    BY <1>2 DEF Reaches
  <2>2. PICK m \in Active(by) :
            /\ p \in permission[membership[m].role]
            /\ IF key[via].org = Star
               THEN RoleNode(membership[m].role) \in {n, Star}
               ELSE n = key[via].org /\ RoleOrg[membership[m].role] \in {Platform, n}
    BY <2>1 DEF KeyReaches
  <2>3. p \in Carries(permission, membership[m].role)
    BY <1>0, <2>2, AncestorAssumption DEF Carries
  <2>4. RoleNode(membership[m].role) \in {n, Star}
    BY <2>2 DEF RoleNode, NodeOf
  <2>5. Warranted(issued, C, p, RoleNode(membership[m].role))
    BY <1>0, <2>3 DEF HeldOK
  <2> QED
    BY <2>4, <2>5, WarrantedBelow
<1> QED
  BY <1>1, <1>2

LEMMA InitAuthority == Init => Authority
<1> SUFFICES ASSUME Init PROVE Authority OBVIOUS
<1>1. HeldOK
  <2> SUFFICES ASSUME NEW m \in Membership, Stored(m), NEW C \in SUBSET User,
                      NEW p \in Carries(permission, membership[m].role), membership[m].user \in C
               PROVE  Warranted(issued, C, p, RoleNode(membership[m].role))
    BY DEF HeldOK
  <2>1. membership[m] = Members[m] /\ Members[m].role \in Role
    BY MembersAssumption, HoldingAssumption DEF Init, Stored, NoMembership
  <2>2. PICK a \in Ancestors[Members[m].role] : p \in permission[a]
    BY <2>1 DEF Carries
  <2>3. a \in Role
    BY <2>1, <2>2, AncestorAssumption
  <2>4. a \in DOMAIN Holding /\ p \in Holding[a]
    BY <2>2, <2>3 DEF Init
  <2>5. p \in UNION {Holding[b] : b \in Ancestors[Members[m].role]}
    BY <2>2, <2>4
  <2> QED
    BY <2>1, <2>5 DEF Warranted
<1>2. AuthoredOK /\ AssignedOK
  BY DEF Init, NewRequest, AuthoredOK, AssignedOK, Assigns
<1> QED
  BY <1>1, <1>2 DEF Authority

(* A step of one request that writes nothing. *)
LEMMA RequestAuthority ==
    ASSUME Authority, NEW q \in Request, Frame,
           \A s \in Request : s # q => request'[s] = request[s],
           request'[q].op \in {"createRole", "updateRole"} /\ request'[q].step = "check" =>
                \A C \in SUBSET User, p \in request'[q].perms \ request'[q].left :
                    request'[q].by \in C => Warranted(issued, C, p, NodeOf(request'[q].org)),
           Assigns(q)' =>
                \A C \in SUBSET User, p \in Carries(permission, request'[q].role) \ request'[q].left :
                    request'[q].by \in C => Warranted(issued, C, p, NodeOf(request'[q].org))
    PROVE  Authority'
<1>1. HeldOK'
  BY DEF Frame, Authority, HeldOK, Stored
<1>2. AuthoredOK'
  BY DEF Frame, Authority, AuthoredOK
<1>3. AssignedOK'
  BY DEF Frame, Authority, AssignedOK, Assigns
<1> QED
  BY <1>1, <1>2, <1>3 DEF Authority

LEMMA AskingAuthority ==
    ASSUME TypeOK, Authority, NEW q \in Request, Asking(q)
    PROVE  Authority'
<1>0. Frame
  BY AskingType DEF Frame
<1>1. ASSUME NEW p, NEW n, NEW asked, Ask(q, p, n, asked),
             asked.op \in {"createRole", "updateRole"} => asked.left = asked.perms,
             asked.op \in {"createMembership", "updateMembership"} /\ asked.step = "check"
                => asked.role = None
      PROVE  Authority'
  <2>1. request'[q] = asked /\ \A s \in Request : s # q => request'[s] = request[s]
    BY <1>1 DEF Ask, TypeOK
  <2>2. request'[q].perms \ request'[q].left = {} \/ request'[q].op \notin {"createRole", "updateRole"}
    BY <1>1, <2>1
  <2>3. ~Assigns(q)'
    BY <1>1, <2>1 DEF Assigns
  <2> QED
    BY <1>0, <2>1, <2>2, <2>3, RequestAuthority
<1>2. ASSUME NEW by, NEW via, NEW o \in Org, NEW ps \in Wish, AskCreateRole(q, by, via, o, ps)
      PROVE  Authority'
  BY <1>1, <1>2 DEF AskCreateRole, From, NewRequest
<1>3. ASSUME NEW by, NEW via, NEW r \in Role, NEW ps \in Wish, AskUpdateRole(q, by, via, r, ps)
      PROVE  Authority'
  BY <1>1, <1>3 DEF AskUpdateRole, From, NewRequest
<1>4. ASSUME NEW by, NEW via, NEW r \in Role, AskDeleteRole(q, by, via, r)
      PROVE  Authority'
  BY <1>1, <1>4 DEF AskDeleteRole, From, NewRequest
<1>5. ASSUME NEW by, NEW via, NEW o \in Org, NEW u \in User, NEW given \in Patch,
             AskCreateMembership(q, by, via, o, u, given)
      PROVE  Authority'
  BY <1>1, <1>5 DEF AskCreateMembership, From, NewRequest
<1>6. ASSUME NEW by, NEW via, NEW m \in Membership, NEW given \in Patch,
             AskUpdateMembership(q, by, via, m, given)
      PROVE  Authority'
  <2> DEFINE asked == [From(by, via) EXCEPT !.op = "updateMembership",
            !.step = IF given.role = None THEN "check" ELSE "load",
            !.org = membership[m].org, !.role = given.role, !.target = m,
            !.status = given.status]
  <2>1. Ask(q, "members:invite", membership[m].org, asked)
    BY <1>6 DEF AskUpdateMembership
  <2>2. asked.op = "updateMembership" /\ (asked.step = "check" => asked.role = None)
    BY DEF From, NewRequest
  <2> HIDE DEF asked
  <2> QED
    BY <1>1, <2>1, <2>2
<1>7. ASSUME NEW by, NEW via, NEW m \in Membership, AskRevokeMembership(q, by, via, m)
      PROVE  Authority'
  BY <1>1, <1>7 DEF AskRevokeMembership, From, NewRequest
<1>8. ASSUME NEW m \in Membership, AskAcceptMembership(q, m)
      PROVE  Authority'
  <2>1. request'[q].op = "acceptMembership" /\ \A s \in Request : s # q => request'[s] = request[s]
    BY <1>8 DEF AskAcceptMembership, From, NewRequest, TypeOK
  <2> QED
    BY <1>0, <2>1, RequestAuthority DEF Assigns
<1>9. ASSUME NEW by, NEW via, NEW n \in Node, NEW ps \in Wish, AskCreateAPIKey(q, by, via, n, ps)
      PROVE  Authority'
  BY <1>1, <1>9 DEF AskCreateAPIKey, From, NewRequest
<1>10. ASSUME NEW by, NEW via, NEW k \in Key, AskRevokeAPIKey(q, by, via, k)
      PROVE  Authority'
  BY <1>1, <1>10 DEF AskRevokeAPIKey, From, NewRequest
<1> QED
  BY <1>2, <1>3, <1>4, <1>5, <1>6, <1>7, <1>8, <1>9, <1>10 DEF Asking

LEMMA CheckingAuthority ==
    ASSUME TypeOK, Shape, Authority, NEW q \in Request, Checking(q)
    PROVE  Authority'
<1>0. Frame /\ request[q] \in Requests /\ RequestOK(q)
  BY CheckingType DEF Frame, TypeOK, Shape
<1>a. \A s \in Request : s # q => request'[s] = request[s]
  BY DEF Checking, LoadRole, CheckPermission, ListHolders, Leave, TypeOK
<1>1. CASE LoadRole(q)
  <2>1. /\ request'[q] = [request[q] EXCEPT !.step = "check", !.left = Confers(request[q].role)]
        /\ request[q].op \in {"createMembership", "updateMembership"}
    BY <1>1 DEF LoadRole, At, TypeOK
  <2>2. /\ request'[q].op = request[q].op /\ request'[q].role = request[q].role
        /\ request'[q].left = Carries(permission, request[q].role)
    BY <1>0, <2>1, Names DEF Requests
  <2>3. Carries(permission, request'[q].role) \ request'[q].left = {}
    BY <2>2
  <2>4. request'[q].op \notin {"createRole", "updateRole"}
    BY <2>1, <2>2
  <2> QED
    BY <1>0, <1>a, <2>3, <2>4, RequestAuthority
<1>2. CASE CheckPermission(q)
  <2>1. PICK p : /\ p \in request[q].left /\ request[q].step = "check"
                 /\ Reaches(request[q].by, request[q].via, p, NodeOf(request[q].org))
                 /\ request' = [request EXCEPT ![q].left = @ \ {p}]
    <3> DEFINE x == CHOOSE p \in request[q].left : TRUE
    <3>1. x \in request[q].left
      BY <1>2 DEF CheckPermission
    <3>2. /\ request[q].step = "check"
          /\ Reaches(request[q].by, request[q].via, x, NodeOf(request[q].org))
          /\ request' = [request EXCEPT ![q].left = @ \ {x}]
      BY <1>2 DEF CheckPermission
    <3> HIDE DEF x
    <3> QED
      BY <3>1, <3>2
  <2>2. request'[q] = [request[q] EXCEPT !.left = @ \ {p}]
    BY <2>1 DEF TypeOK
  <2>3. /\ request'[q].op = request[q].op /\ request'[q].role = request[q].role
        /\ request'[q].perms = request[q].perms /\ request'[q].by = request[q].by
        /\ request'[q].org = request[q].org /\ request'[q].step = request[q].step
        /\ request'[q].left = request[q].left \ {p}
    BY <1>0, <2>2 DEF Requests
  <2>4. request[q].by \in User /\ request[q].via \in Key \cup {None}
    BY <1>0, <2>1 DEF RequestOK, Requests
  <2>5. \A C \in SUBSET User :
            request[q].by \in C => Warranted(issued, C, p, NodeOf(request[q].org))
    BY <2>1, <2>4, ReachIsWarranted DEF Authority
  <2>6. request'[q].op \in {"createRole", "updateRole"} /\ request'[q].step = "check" =>
            \A C \in SUBSET User, x \in request'[q].perms \ request'[q].left :
                request'[q].by \in C => Warranted(issued, C, x, NodeOf(request'[q].org))
    BY <2>3, <2>5 DEF Authority, AuthoredOK
  <2>7. Assigns(q)' =>
            \A C \in SUBSET User, x \in Carries(permission, request'[q].role) \ request'[q].left :
                request'[q].by \in C => Warranted(issued, C, x, NodeOf(request'[q].org))
    BY <2>3, <2>5 DEF Authority, AssignedOK, Assigns
  <2> QED
    BY <1>0, <1>a, <2>6, <2>7, RequestAuthority
<1>3. CASE ListHolders(q)
  <2>1. /\ request'[q] = [request[q] EXCEPT !.step = "check", !.holders = HoldersOf(request[q].role)]
        /\ request[q].op = "deleteRole"
    BY <1>3 DEF ListHolders, At, TypeOK
  <2>2. request'[q].op = "deleteRole"
    BY <1>0, <2>1 DEF Requests
  <2> QED
    BY <1>0, <1>a, <2>2, RequestAuthority DEF Assigns
<1>4. CASE Leave(q)
  <2>1. request'[q] = [request[q] EXCEPT !.step = "done"]
    BY <1>4 DEF Leave, TypeOK
  <2>2. request'[q].step = "done"
    BY <1>0, <2>1 DEF Requests
  <2> QED
    BY <1>0, <1>a, <2>2, RequestAuthority DEF Assigns
<1> QED
  BY <1>1, <1>2, <1>3, <1>4 DEF Checking

(* The request that writes is done: what the others were let through stays
   warranted when no permission is new to a role that one of them gives. *)
LEMMA FinishAuthority ==
    ASSUME TypeOK, Authority, NEW q \in Request, Finish(q), issued \subseteq issued',
           \A s \in Request : Assigns(s) =>
                \A C \in SUBSET User, p \in Carries(permission', request[s].role) :
                    request[s].by \in C =>
                        \/ p \in Carries(permission, request[s].role)
                        \/ Warranted(issued', C, p, NodeOf(request[s].org))
    PROVE  AuthoredOK' /\ AssignedOK'
<1>0. \A s \in Request : request'[s].step # "done" => request'[s] = request[s]
  BY DEF Finish, TypeOK, Requests
<1>1. AuthoredOK'
  BY <1>0, WarrantedStays DEF Authority, AuthoredOK
<1>2. AssignedOK'
  <2> SUFFICES ASSUME NEW s \in Request, Assigns(s)', NEW C \in SUBSET User,
                      NEW p \in Carries(permission', request'[s].role) \ request'[s].left,
                      request'[s].by \in C
               PROVE  Warranted(issued', C, p, NodeOf(request'[s].org))
    BY DEF AssignedOK
  <2>1. request'[s] = request[s] /\ Assigns(s)
    BY <1>0 DEF Assigns
  <2>2. CASE p \in Carries(permission, request[s].role)
    <3>1. Warranted(issued, C, p, NodeOf(request[s].org))
      BY <2>1, <2>2 DEF Authority, AssignedOK
    <3> QED
      BY <2>1, <3>1, WarrantedStays
  <2>3. CASE p \notin Carries(permission, request[s].role)
    BY <2>1, <2>3
  <2> QED
    BY <2>2, <2>3
<1> QED
  BY <1>1, <1>2

(* The writers of roles and memberships. *)
LEMMA WritingAuthority ==
    ASSUME TypeOK, Shape, Authority, NEW q \in Request, Writing(q)
    PROVE  Authority'
<1> USE DEF Ready, At
<1>0. request[q] \in Requests /\ RequestOK(q) /\ AssignOK(q) /\ \A m \in Membership : MemberOK(m)
  BY DEF TypeOK, Shape
<1>a. ASSUME NEW s \in Request, Assigns(s)
      PROVE  /\ request[s].role \in Role /\ role[request[s].role] # "new"
             /\ RoleOrg[request[s].role] = request[s].org /\ request[s].by \in User
  BY <1>a DEF Assigns, Shape, RequestOK, AssignOK, TypeOK, Requests
(* Only the permissions of one role change, and all of them are issued. *)
<1>b. ASSUME NEW r \in Role, NEW ps, NEW d,
             permission' = [permission EXCEPT ![r] = ps], Issue(d, r, ps), Finish(q),
             UNCHANGED membership,
             \A C \in SUBSET User, p \in ps :
                d \in C => Warranted(issued, C, p, RoleNode(r))
      PROVE  Authority'
  <2>0. issued \subseteq issued'
    BY <1>b DEF Issue
  <2>1. ASSUME NEW C \in SUBSET User, NEW p \in ps
        PROVE  Warranted(issued', C, p, RoleNode(r))
    <3>1. CASE d \in C
      BY <1>b, <2>0, <3>1, WarrantedStays
    <3>2. CASE d \notin C
      BY <1>b, <3>2, IssueWarrants
    <3> QED
      BY <3>1, <3>2
  <2>2. ASSUME NEW s \in Role, NEW C \in SUBSET User, NEW p \in Carries(permission', s),
               p \notin Carries(permission, s)
        PROVE  Warranted(issued', C, p, RoleNode(s))
    <3>1. PICK a \in Ancestors[s] : p \in permission'[a]
      BY <2>2 DEF Carries
    <3>2. p \notin permission[a]
      BY <2>2, <3>1 DEF Carries
    <3>3. a \in Role /\ RoleOrg[a] = RoleOrg[s]
      BY <3>1, AncestorAssumption
    <3>4. a = r /\ p \in ps
      BY <1>b, <3>1, <3>2, <3>3 DEF TypeOK
    <3>5. RoleNode(s) = RoleNode(r)
      BY <3>3, <3>4 DEF RoleNode
    <3> QED
      BY <2>1, <3>4, <3>5
  <2>3. HeldOK'
    <3> SUFFICES ASSUME NEW m \in Membership, Stored(m), NEW C \in SUBSET User,
                        NEW p \in Carries(permission', membership[m].role),
                        membership[m].user \in C
                 PROVE  Warranted(issued', C, p, RoleNode(membership[m].role))
      BY <1>b DEF HeldOK, Stored
    <3>1. membership[m].role \in Role
      BY <1>0 DEF MemberOK
    <3>2. CASE p \in Carries(permission, membership[m].role)
      <4>1. Warranted(issued, C, p, RoleNode(membership[m].role))
        BY <3>2 DEF Authority, HeldOK
      <4> QED
        BY <2>0, <4>1, WarrantedStays
    <3>3. CASE p \notin Carries(permission, membership[m].role)
      BY <2>2, <3>1, <3>3
    <3> QED
      BY <3>2, <3>3
  <2>4. AuthoredOK' /\ AssignedOK'
    <3>1. \A s \in Request : Assigns(s) => RoleNode(request[s].role) = NodeOf(request[s].org)
      BY <1>a DEF RoleNode
    <3>2. \A s \in Request : Assigns(s) =>
            \A C \in SUBSET User, p \in Carries(permission', request[s].role) :
                request[s].by \in C =>
                    \/ p \in Carries(permission, request[s].role)
                    \/ Warranted(issued', C, p, NodeOf(request[s].org))
      BY <1>a, <2>2, <3>1
    <3> QED
      BY <1>b, <2>0, <3>2, FinishAuthority
  <2> QED
    BY <2>3, <2>4 DEF Authority
(* Permissions stay or go, and what is new in memberships is warranted. *)
<1>c. ASSUME Finish(q), issued \subseteq issued',
             \A r : Carries(permission', r) \subseteq Carries(permission, r),
             \A m \in Membership : Stored(m)' =>
                \/ /\ Stored(m) /\ membership'[m].user = membership[m].user
                   /\ membership'[m].role = membership[m].role
                \/ \A C \in SUBSET User, p \in Carries(permission, membership'[m].role) :
                        membership'[m].user \in C =>
                            Warranted(issued', C, p, RoleNode(membership'[m].role))
      PROVE  Authority'
  <2>1. HeldOK'
    <3> SUFFICES ASSUME NEW m \in Membership, Stored(m)', NEW C \in SUBSET User,
                        NEW p \in Carries(permission', membership'[m].role),
                        membership'[m].user \in C
                 PROVE  Warranted(issued', C, p, RoleNode(membership'[m].role))
      BY DEF HeldOK
    <3>0. p \in Carries(permission, membership'[m].role)
      BY <1>c
    <3>1. CASE /\ Stored(m) /\ membership'[m].user = membership[m].user
               /\ membership'[m].role = membership[m].role
      <4>1. Warranted(issued, C, p, RoleNode(membership[m].role))
        BY <3>0, <3>1 DEF Authority, HeldOK
      <4> QED
        BY <1>c, <3>1, <4>1, WarrantedStays
    <3> QED
      BY <1>c, <3>0, <3>1
  <2>2. AuthoredOK' /\ AssignedOK'
    BY <1>c, FinishAuthority
  <2> QED
    BY <2>1, <2>2 DEF Authority
(* A role is given to a person: by somebody who is warranted, or issued by
   somebody outside of the circle. *)
<1>d. ASSUME NEW r, r = request[q].role, Assigns(q), request[q].left = {},
             Issue(request[q].by, r, Confers(r)), NEW C \in SUBSET User,
             NEW p \in Carries(permission, r)
      PROVE  Warranted(issued', C, p, RoleNode(r))
  <2>0. issued \subseteq issued' /\ p \in Confers(r)
    BY <1>d, Names DEF Issue
  <2>1. CASE request[q].by \in C
    <3>1. Warranted(issued, C, p, NodeOf(request[q].org))
      BY <1>d, <2>1 DEF Authority, AssignedOK
    <3>2. RoleNode(r) = NodeOf(request[q].org)
      BY <1>a, <1>d DEF RoleNode
    <3> QED
      BY <2>0, <3>1, <3>2, WarrantedStays
  <2>2. CASE request[q].by \notin C
    BY <1>d, <2>0, <2>2, IssueWarrants
  <2> QED
    BY <2>1, <2>2
<1>1. ASSUME NEW r \in Role, CreateRole(q, r)
      PROVE  Authority'
  <2>1. RoleNode(r) = NodeOf(request[q].org)
    BY <1>1 DEF CreateRole, RoleNode
  <2>2. \A C \in SUBSET User, p \in request[q].perms :
            request[q].by \in C => Warranted(issued, C, p, RoleNode(r))
    BY <1>1, <2>1 DEF CreateRole, Authority, AuthoredOK
  <2> QED
    BY <1>1, <1>b, <2>2 DEF CreateRole
<1>2. CASE UpdateRole(q)
  <2>0. request[q].role \in Role /\ RoleNode(request[q].role) = NodeOf(request[q].org)
    BY <1>0, <1>2 DEF UpdateRole, RequestOK, RoleNode
  <2>2. \A C \in SUBSET User, p \in request[q].perms :
            request[q].by \in C => Warranted(issued, C, p, RoleNode(request[q].role))
    BY <1>2, <2>0 DEF UpdateRole, Authority, AuthoredOK
  <2> QED
    BY <1>2, <1>b, <2>0, <2>2 DEF UpdateRole
<1>3. CASE DeleteRole(q)
  <2>1. \A r \in Role : permission'[r] \subseteq permission[r]
    BY <1>3 DEF DeleteRole, TypeOK
  <2>2. ASSUME NEW m \in Membership, Stored(m)'
        PROVE  membership'[m] = membership[m]
    <3>1. CASE membership[m].role = request[q].role
      BY <1>3, <2>2, <3>1 DEF DeleteRole, Stored, TypeOK, Memberships
    <3> QED
      BY <1>3, <3>1 DEF DeleteRole
  <2>3. \A m \in Membership : Stored(m)' => Stored(m)
    BY <2>2 DEF Stored
  <2>4. \A r \in DOMAIN Ancestors : Carries(permission', r) \subseteq Carries(permission, r)
    BY <2>1, AncestorAssumption DEF Carries
  <2>5. HeldOK'
    <3> SUFFICES ASSUME NEW m \in Membership, Stored(m)', NEW C \in SUBSET User,
                        NEW p \in Carries(permission', membership'[m].role),
                        membership'[m].user \in C
                 PROVE  Warranted(issued', C, p, RoleNode(membership'[m].role))
      BY DEF HeldOK
    <3>1. membership[m].role \in Role /\ Stored(m) /\ membership'[m] = membership[m]
      BY <1>0, <2>2, <2>3 DEF MemberOK
    <3>2. p \in Carries(permission, membership[m].role)
      BY <2>4, <3>1, AncestorAssumption
    <3> QED
      BY <1>3, <3>1, <3>2 DEF DeleteRole, Authority, HeldOK
  <2>6. AuthoredOK' /\ AssignedOK'
    <3>1. \A s \in Request : Assigns(s) =>
            Carries(permission', request[s].role) \subseteq Carries(permission, request[s].role)
      BY <1>a, <2>4, AncestorAssumption
    <3> QED
      BY <1>3, <3>1, FinishAuthority DEF DeleteRole
  <2> QED
    BY <2>5, <2>6 DEF Authority
<1>4. ASSUME NEW m \in Membership, CreateMembership(q, m)
      PROVE  Authority'
  <2>0. Assigns(q)
    BY <1>0, <1>4, NoneAssumption DEF CreateMembership, Assigns, RequestOK
  <2>1. /\ membership'[m].user = request[q].target /\ membership'[m].role = request[q].role
        /\ \A n \in Membership : n # m => membership'[n] = membership[n]
    BY <1>4 DEF CreateMembership, TypeOK
  <2>2. \A C \in SUBSET User, p \in Carries(permission, request[q].role) :
            Warranted(issued', C, p, RoleNode(request[q].role))
    BY <1>4, <1>d, <2>0 DEF CreateMembership
  <2>3. issued \subseteq issued'
    BY <1>4 DEF CreateMembership, Issue
  <2> QED
    BY <1>4, <1>c, <2>1, <2>2, <2>3 DEF CreateMembership, Stored
<1>5. CASE UpdateMembership(q)
  <2> DEFINE m == request[q].target
             r == IF request[q].role = None THEN membership[m].role ELSE request[q].role
             st == IF request[q].status = "none" THEN membership[m].status ELSE request[q].status
  <2>0. m \in Membership /\ Stored(m) /\ membership[m] \in Memberships
    BY <1>0, <1>5 DEF UpdateMembership, RequestOK, TypeOK
  <2>1. membership' = [membership EXCEPT ![m] = [membership[m] EXCEPT !.role = r, !.status = st]]
    BY <1>5, <2>0 DEF UpdateMembership, TypeOK
  <2>2. /\ membership'[m].user = membership[m].user /\ membership'[m].role = r
        /\ \A n \in Membership : n # m => membership'[n] = membership[n]
    BY <2>0, <2>1 DEF TypeOK, Memberships
  <2>3. CASE request[q].role = None
    <3>1. r = membership[m].role
      BY <2>3
    <3>2. issued \subseteq issued' /\ Finish(q) /\ permission' = permission
      BY <1>5, <2>3 DEF UpdateMembership
    <3>3. \A n \in Membership : Stored(n)' =>
            /\ Stored(n) /\ membership'[n].user = membership[n].user
            /\ membership'[n].role = membership[n].role
      BY <2>0, <2>2, <3>1 DEF Stored
    <3> QED
      BY <1>c, <3>2, <3>3
  <2>4. CASE request[q].role # None
    <3>1. Assigns(q) /\ r = request[q].role
      BY <1>5, <2>4 DEF UpdateMembership, Assigns
    <3>2. Issue(request[q].by, r, Confers(r))
      BY <1>5, <2>4, <3>1 DEF UpdateMembership
    <3>3. \A C \in SUBSET User, p \in Carries(permission, r) : Warranted(issued', C, p, RoleNode(r))
      BY <1>5, <1>d, <3>1, <3>2 DEF UpdateMembership
    <3>4. issued \subseteq issued' /\ Finish(q) /\ permission' = permission
      BY <1>5, <3>2 DEF UpdateMembership, Issue
    <3> HIDE DEF r, st
    <3> QED
      BY <1>c, <2>2, <3>3, <3>4 DEF Stored
  <2> QED
    BY <2>3, <2>4
<1>6. ASSUME NEW st, NEW m \in Membership, Stored(m),
             membership' = [membership EXCEPT ![m].status = st],
             Finish(q), UNCHANGED <<permission, issued>>
      PROVE  Authority'
  <2>1. \A n \in Membership : Stored(n)' =>
            /\ Stored(n) /\ membership'[n].user = membership[n].user
            /\ membership'[n].role = membership[n].role
    BY <1>6 DEF TypeOK, Memberships, Stored
  <2> QED
    BY <1>6, <1>c, <2>1
<1>7. CASE RevokeMembership(q)
  BY <1>0, <1>6, <1>7 DEF RevokeMembership, RequestOK
<1>8. CASE AcceptMembership(q)
  BY <1>0, <1>6, <1>8 DEF AcceptMembership, RequestOK, Stored
<1>9. ASSUME Finish(q), UNCHANGED <<membership, permission, issued>>
      PROVE  Authority'
  BY <1>9, <1>c DEF Stored
<1>10. ASSUME NEW k \in Key, CreateAPIKey(q, k)
       PROVE  Authority'
  BY <1>9, <1>10 DEF CreateAPIKey
<1>11. CASE RevokeAPIKey(q)
  BY <1>9, <1>11 DEF RevokeAPIKey
<1> QED
  BY <1>1, <1>2, <1>3, <1>4, <1>5, <1>7, <1>8, <1>10, <1>11 DEF Writing

(* The bootstrap is nobody's doing: it is outside of every circle. *)
LEMMA BootstrapAuthority ==
    ASSUME TypeOK, Shape, Authority, NEW u \in User, NEW m \in Membership,
           BootstrapFirstStaff(u, m)
    PROVE  Authority'
<1>0. issued \subseteq issued' /\ Issue(Deployment, BootstrapRole, Confers(BootstrapRole))
  BY DEF BootstrapFirstStaff, Issue
<1>1. \A C \in SUBSET User, p \in Carries(permission, BootstrapRole) :
        Warranted(issued', C, p, RoleNode(BootstrapRole))
  BY <1>0, IssueWarrants, Names, NoneAssumption
<1>2. /\ membership'[m].role = BootstrapRole
      /\ \A n \in Membership : n # m => membership'[n] = membership[n]
  BY DEF BootstrapFirstStaff, TypeOK
<1>3. HeldOK'
  <2> SUFFICES ASSUME NEW n \in Membership, Stored(n)', NEW C \in SUBSET User,
                      NEW p \in Carries(permission', membership'[n].role),
                      membership'[n].user \in C
               PROVE  Warranted(issued', C, p, RoleNode(membership'[n].role))
    BY DEF HeldOK
  <2>0. permission' = permission
    BY DEF BootstrapFirstStaff
  <2>1. CASE n = m
    BY <1>1, <1>2, <2>0, <2>1
  <2>2. CASE n # m
    <3>1. Warranted(issued, C, p, RoleNode(membership'[n].role))
      BY <1>2, <2>0, <2>2 DEF Authority, HeldOK, Stored
    <3> QED
      BY <1>0, <3>1, WarrantedStays
  <2> QED
    BY <2>1, <2>2
<1>4. AuthoredOK'
  BY <1>0, WarrantedStays DEF BootstrapFirstStaff, Authority, AuthoredOK
<1>5. AssignedOK'
  BY <1>0, WarrantedStays DEF BootstrapFirstStaff, Authority, AssignedOK, Assigns
<1> QED
  BY <1>3, <1>4, <1>5 DEF Authority

LEMMA NextAuthority == TypeOK /\ Shape /\ Authority /\ [Next]_vars => Authority'
<1> SUFFICES ASSUME TypeOK, Shape, Authority, [Next]_vars PROVE Authority' OBVIOUS
<1>1. CASE UNCHANGED vars
  BY <1>1 DEF vars, Authority, HeldOK, AuthoredOK, AssignedOK, Assigns, Stored
<1> QED
  BY <1>1, AskingAuthority, CheckingAuthority, WritingAuthority, BootstrapAuthority DEF Next

---------------------------------------------------------------------------
(* The theorems. *)

LEMMA SeatsStep == TypeOK /\ Shape /\ SeatsOK /\ [Next]_vars => SeatsOK'
<1> SUFFICES ASSUME TypeOK, Shape, SeatsOK, [Next]_vars PROVE SeatsOK' OBVIOUS
<1>1. CASE UNCHANGED <<bootstrapped, seats>>
  BY <1>1 DEF SeatsOK
<1>2. ASSUME NEW u \in User, NEW m \in Membership, BootstrapFirstStaff(u, m)
      PROVE  SeatsOK'
  <2>1. seats = {} /\ seats' = {m} /\ bootstrapped'
    BY <1>2 DEF BootstrapFirstStaff, SeatsOK
  <2> QED
    BY <2>1 DEF SeatsOK
<1>3. ASSUME NEW q \in Request, Asking(q) \/ Checking(q)
      PROVE  UNCHANGED <<bootstrapped, seats>>
  BY <1>3, AskingType, CheckingType
<1>4. ASSUME NEW q \in Request, Writing(q)
      PROVE  UNCHANGED <<bootstrapped, seats>>
  BY <1>4 DEF Writing, CreateRole, UpdateRole, DeleteRole, CreateMembership, UpdateMembership,
      RevokeMembership, AcceptMembership, CreateAPIKey, RevokeAPIKey
<1> QED
  BY <1>1, <1>2, <1>3, <1>4 DEF Next, vars

LEMMA Inductive == Spec => []IInv
<1>1. Init => IInv
  BY InitType, InitShape, InitAuthority DEF IInv, SeatsOK, Init
<1>2. IInv /\ [Next]_vars => IInv'
  BY NextType, NextShape, NextAuthority, SeatsStep DEF IInv
<1> QED
  BY <1>1, <1>2, PTL DEF Spec

(* Every state has its type. *)
THEOREM TypeCorrect == Spec => []TypeOK
  BY Inductive, PTL DEF IInv

(* No circle of people, however many, talks itself into authority. *)
THEOREM AuthorityIsHandedDownAlways == Spec => []AuthorityIsHandedDown
<1>1. IInv => AuthorityIsHandedDown
  BY ReachIsWarranted, Names DEF IInv, Authority, AuthorityIsHandedDown
<1> QED
  BY <1>1, Inductive, PTL

(* Memberships keep to the roles of their organisation. *)
THEOREM RolesStayInTheirTenancyAlways == Spec => []RolesStayInTheirTenancy
<1>1. IInv => RolesStayInTheirTenancy
  BY DEF IInv, Shape, MemberOK, RolesStayInTheirTenancy
<1> QED
  BY <1>1, Inductive, PTL

(* The first seat is given once. *)
THEOREM FirstStaffOnceAlways == Spec => []FirstStaffOnce
<1>1. IInv => FirstStaffOnce
  BY FS_EmptySet, FS_Singleton, SMTT(120) DEF IInv, TypeOK, SeatsOK, FirstStaffOnce
<1> QED
  BY <1>1, Inductive, PTL

(* Only somebody who got the role after the look at its holders disappears
   with it. *)
THEOREM OnlyLatecomersAreDroppedAlways == Spec => OnlyLatecomersAreDropped
<1> DEFINE Dropped(m) ==
        membership[m].status \in {"invited", "active"} /\ membership'[m].status = "deleted"
           Late(m) == \E q \in Request : Ready(q, "deleteRole") /\ m \notin request[q].holders
<1>1. ASSUME IInv, [Next]_vars, NEW m \in Membership, Dropped(m)
      PROVE  Late(m)
  <2>1. CASE UNCHANGED membership
    BY <1>1, <2>1
  <2>2. ASSUME NEW q \in Request, Writing(q), ~DeleteRole(q)
        PROVE  FALSE
    <3>0. request[q] \in Requests /\ RequestOK(q) /\ membership[m] \in Memberships
      BY <1>1 DEF IInv, TypeOK, Shape
    <3>1. ASSUME NEW n \in Membership, CreateMembership(q, n)
          PROVE  FALSE
      BY <1>1, <3>0, <3>1 DEF CreateMembership, Ready, At, RequestOK, IInv, TypeOK
    <3>2. CASE UpdateMembership(q)
      <4> DEFINE n == request[q].target
                 r == IF request[q].role = None THEN membership[n].role ELSE request[q].role
                 st == IF request[q].status = "none" THEN membership[n].status
                       ELSE request[q].status
      <4>1. n \in Membership /\ Stored(n) /\ membership[n] \in Memberships
        BY <1>1, <3>0, <3>2 DEF UpdateMembership, Ready, At, RequestOK, IInv, TypeOK
      <4>2. membership' = [membership EXCEPT ![n] = [membership[n] EXCEPT !.role = r, !.status = st]]
        BY <1>1, <3>2, <4>1 DEF UpdateMembership, IInv, TypeOK
      <4>3. st \in MembershipStatus
        BY <3>0, <4>1 DEF Stored, Requests
      <4>4. n = m => membership'[m].status = st
        BY <1>1, <4>1, <4>2 DEF IInv, TypeOK, Memberships
      <4>5. n # m => membership'[m] = membership[m]
        BY <1>1, <4>1, <4>2 DEF IInv, TypeOK
      <4> QED
        BY <1>1, <4>3, <4>4, <4>5
    <3>3. ASSUME NEW st \in {"active", "revoked"}, NEW n \in Membership,
                 membership' = [membership EXCEPT ![n].status = st]
          PROVE  FALSE
      BY <1>1, <3>3 DEF IInv, TypeOK, Memberships
    <3>4. CASE RevokeMembership(q)
      BY <3>0, <3>3, <3>4 DEF RevokeMembership, Ready, At, RequestOK
    <3>5. CASE AcceptMembership(q)
      BY <3>0, <3>3, <3>5 DEF AcceptMembership, Ready, At, RequestOK
    <3>6. CASE UNCHANGED membership
      BY <1>1, <3>6
    <3> QED
      BY <2>2, <3>1, <3>2, <3>4, <3>5, <3>6
      DEF Writing, CreateRole, UpdateRole, CreateAPIKey, RevokeAPIKey
  <2>3. ASSUME NEW u \in User, NEW n \in Membership, BootstrapFirstStaff(u, n)
        PROVE  FALSE
    BY <1>1, <2>3 DEF BootstrapFirstStaff, IInv, TypeOK
  <2>4. ASSUME NEW q \in Request, DeleteRole(q)
        PROVE  Late(m)
    <3>1. Ready(q, "deleteRole") /\ request[q].holders = {}
      BY <1>1, <2>4 DEF DeleteRole, Ready, At, IInv, Shape, RequestOK
    <3> QED
      BY <3>1
  <2>5. ASSUME NEW q \in Request, Asking(q) \/ Checking(q)
        PROVE  UNCHANGED membership
    BY <1>1, <2>5, AskingType, CheckingType DEF IInv
  <2> QED
    BY <1>1, <2>1, <2>2, <2>3, <2>4, <2>5 DEF Next, vars
<1>2. IInv /\ [Next]_vars => [\A m \in Membership : Dropped(m) => Late(m)]_vars
  BY <1>1
<1> QED
  BY <1>2, Inductive, PTL DEF OnlyLatecomersAreDropped, Spec
=============================================================================
