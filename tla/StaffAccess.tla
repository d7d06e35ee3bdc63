----------------------------- MODULE StaffAccess -----------------------------
(***************************************************************************)
(* Who may do what in an organisation, and who may hand it on: staff       *)
(* roles, memberships and invitations, API keys, and the first member of   *)
(* the platform organisation (internal/service/authz.go, delegation.go,    *)
(* membership.go, apikeys.go, bootstrap.go, access.go, the handlers in     *)
(* internal/http and the view reach_edges_live of migration 000052).       *)
(*                                                                         *)
(* A request runs in no transaction: the gate of its route, each read and  *)
(* each permission of the subset rule, and its write are steps of their    *)
(* own.  One walk over the graph (ReachWalk) is one step here.             *)
(***************************************************************************)
EXTENDS Naturals, FiniteSets

CONSTANTS
    Org, Platform,          \* organisations; the one that stands for KYC itself
    Star,                   \* the node of every organisation
    User, Deployment,       \* people; who installs the system
    Role, RoleOrg,          \* roles and the organisation each belongs to
    System,                 \* the roles every organisation is born with
    Owner,                  \* those of them whose key is owner
    Ancestors,              \* a role and all that it extends
    Perm, Membership, Key, Request, None,
    BootstrapRole,          \* bootstrap_role_id of system_state
    Holding, Members,       \* role_permissions, of the roles there are, and memberships at the start
    Wish,                   \* the sets of permissions a request may carry
    Patch                   \* the role and status a request may give a membership

Gates == {"roles:manage", "members:invite", "members:remove", "api_keys:manage"}

Node == Org \cup {Star}

MembershipStatus == {"invited", "active", "revoked"}

NoMembership == [org |-> None, user |-> None, role |-> None, status |-> "new"]

Memberships ==
    [org : Org \cup {None}, user : User \cup {None}, role : Role \cup {None},
     status : MembershipStatus \cup {"new", "deleted"}]

ASSUME NoneAssumption ==
    /\ Platform \in Org /\ Star \notin Org /\ Deployment \notin User
    /\ None \notin User \cup Role \cup Perm \cup Membership \cup Key \cup Node
ASSUME RoleAssumption ==
    /\ RoleOrg \in [Role -> Org]
    /\ Owner \subseteq System /\ System \subseteq Role
    /\ BootstrapRole \in System /\ RoleOrg[BootstrapRole] = Platform
ASSUME AncestorAssumption ==
    /\ Ancestors \in [Role -> SUBSET Role]
    /\ \A r \in Role :
        /\ r \in Ancestors[r]
        /\ \A a \in Ancestors[r] : RoleOrg[a] = RoleOrg[r] /\ (a # r => a \in System)
ASSUME PermAssumption == Gates \subseteq Perm /\ Wish \subseteq SUBSET Perm
ASSUME PatchAssumption ==
    Patch \subseteq [role : Role \cup {None}, status : MembershipStatus \cup {"none"}]
ASSUME HoldingAssumption ==
    /\ System \subseteq DOMAIN Holding /\ DOMAIN Holding \subseteq Role
    /\ Holding \in [DOMAIN Holding -> SUBSET Perm]
ASSUME MembersAssumption ==
    /\ Members \in [Membership -> Memberships]
    /\ \A m \in Membership :
        \/ Members[m] = NoMembership
        \/ /\ Members[m].user \in User /\ Members[m].role \in DOMAIN Holding
           /\ Members[m].org = RoleOrg[Members[m].role]
           /\ Members[m].status \in MembershipStatus
    /\ \A m, n \in Membership :
        m # n /\ Members[m].user \in User /\ Members[m].user = Members[n].user
            => Members[m].org # Members[n].org

VARIABLES
    role,           \* which roles exist
    permission,     \* role_permissions
    membership,     \* memberships, by id
    key,            \* api_keys, by id
    request,        \* requests of staff, each used once
    bootstrapped,   \* bootstrapped_at of system_state is set
    seats,          \* history: memberships the bootstrap made
    issued          \* history: who put a permission into a role, or gave a role that has it

vars == <<role, permission, membership, key, request, bootstrapped, seats, issued>>

NoKey == [owner |-> None, org |-> None, scopes |-> {}, status |-> "new"]

NewRequest ==
    [step |-> "new", op |-> "none", by |-> None, via |-> None, org |-> None, role |-> None,
     target |-> None, perms |-> {}, status |-> "none", left |-> {}, holders |-> {}]

Init ==
    /\ role = [r \in Role |-> IF r \in DOMAIN Holding THEN "live" ELSE "new"]
    /\ permission = [r \in Role |-> IF r \in DOMAIN Holding THEN Holding[r] ELSE {}]
    /\ membership = Members
    /\ key = [k \in Key |-> NoKey]
    /\ request = [q \in Request |-> NewRequest]
    /\ bootstrapped = FALSE /\ seats = {} /\ issued = {}

---------------------------------------------------------------------------
(* What the graph answers.  A role of the platform organisation writes its
   edges on the star node. *)

NodeOf(o) == IF o = Platform THEN Star ELSE o

RoleNode(r) == NodeOf(RoleOrg[r])

(* All that a role confers: its permissions and those of the roles it extends. *)
Confers(r) == UNION {permission[a] : a \in Ancestors[r]}

Active(u) == {m \in Membership : membership[m].user = u /\ membership[m].status = "active"}

PersonReaches(u, p, n) ==
    \E m \in Active(u) :
        p \in Confers(membership[m].role) /\ RoleNode(membership[m].role) \in {n, Star}

(* A key reaches what the roles of its owner hold themselves, narrowed to its
   scopes and to the organisation it is bound to; org is Star when it is not. *)
KeyReaches(k, p, n) ==
    /\ key[k].status = "live"
    /\ key[k].scopes = {} \/ p \in key[k].scopes
    /\ \E m \in Active(key[k].owner) :
        /\ p \in permission[membership[m].role]
        /\ IF key[k].org = Star
           THEN RoleNode(membership[m].role) \in {n, Star}
           ELSE n = key[k].org /\ RoleOrg[membership[m].role] \in {Platform, n}

(* A request is a person's, or a key's on behalf of the person who owns it. *)
Reaches(by, via, p, n) ==
    IF via = None THEN PersonReaches(by, p, n) ELSE key[via].owner = by /\ KeyReaches(via, p, n)

---------------------------------------------------------------------------
(* The gates of the routes.  A request that is refused here does nothing. *)

Ask(q, p, n, asked) ==
    /\ request[q].step = "new"
    /\ Reaches(asked.by, asked.via, p, n)
    /\ request' = [request EXCEPT ![q] = asked]
    /\ UNCHANGED <<role, permission, membership, key, bootstrapped, seats, issued>>

From(by, via) == [NewRequest EXCEPT !.by = by, !.via = via, !.step = "check"]

AskCreateRole(q, by, via, o, ps) ==
    /\ ps # {}
    /\ Ask(q, "roles:manage", o, [From(by, via) EXCEPT
            !.op = "createRole", !.org = o, !.perms = ps, !.left = ps])

AskUpdateRole(q, by, via, r, ps) ==
    /\ role[r] = "live" /\ r \notin Owner /\ ps # {}
    /\ Ask(q, "roles:manage", RoleOrg[r], [From(by, via) EXCEPT
            !.op = "updateRole", !.org = RoleOrg[r], !.role = r, !.perms = ps, !.left = ps])

AskDeleteRole(q, by, via, r) ==
    /\ role[r] = "live" /\ r \notin System
    /\ Ask(q, "roles:manage", RoleOrg[r], [From(by, via) EXCEPT
            !.op = "deleteRole", !.step = "list", !.org = RoleOrg[r], !.role = r])

AskCreateMembership(q, by, via, o, u, given) ==
    /\ given.role # None /\ given.status \in {"invited", "active"}
    /\ Ask(q, "members:invite", o, [From(by, via) EXCEPT
            !.op = "createMembership", !.step = "load", !.org = o, !.role = given.role,
            !.target = u, !.status = given.status])

Stored(m) == membership[m].status \in MembershipStatus

(* Mutant: a change of role skips the subset rule. *)
AskUpdateMembershipUnmeasured(q, by, via, m, given) ==
    /\ Stored(m)
    /\ Ask(q, "members:invite", membership[m].org, [From(by, via) EXCEPT
            !.op = "updateMembership", !.org = membership[m].org, !.role = given.role,
            !.target = m, !.status = given.status])

AskUpdateMembership(q, by, via, m, given) ==
    /\ Stored(m)
    /\ Ask(q, "members:invite", membership[m].org, [From(by, via) EXCEPT
            !.op = "updateMembership", !.step = IF given.role = None THEN "check" ELSE "load",
            !.org = membership[m].org, !.role = given.role, !.target = m,
            !.status = given.status])

AskRevokeMembership(q, by, via, m) ==
    /\ Stored(m)
    /\ Ask(q, "members:remove", membership[m].org, [From(by, via) EXCEPT
            !.op = "revokeMembership", !.org = membership[m].org, !.target = m])

(* Only the person who is invited accepts, and not through a key. *)
AskAcceptMembership(q, m) ==
    /\ request[q].step = "new"
    /\ membership[m].status = "invited"
    /\ request' = [request EXCEPT ![q] = [From(membership[m].user, None) EXCEPT
            !.op = "acceptMembership", !.org = membership[m].org, !.target = m]]
    /\ UNCHANGED <<role, permission, membership, key, bootstrapped, seats, issued>>

(* n is Star on the platform's own route, which takes no scopes. *)
AskCreateAPIKey(q, by, via, n, scopes) ==
    /\ n = Star => scopes = {}
    /\ Ask(q, "api_keys:manage", n, [From(by, via) EXCEPT
            !.op = "createKey", !.org = n, !.perms = scopes])

AskRevokeAPIKey(q, by, via, k) ==
    /\ key[k].status # "new"
    /\ Ask(q, "api_keys:manage", key[k].org, [From(by, via) EXCEPT
            !.op = "revokeKey", !.org = key[k].org, !.target = k])

---------------------------------------------------------------------------
(* The subset rule. *)

At(q, op, step) == request[q].op = op /\ request[q].step = step

(* Mutant: the role may be of any organisation. *)
LoadAnyRole(q) ==
    /\ At(q, "createMembership", "load") \/ At(q, "updateMembership", "load")
    /\ role[request[q].role] = "live"
    /\ request' = [request EXCEPT ![q].step = "check", ![q].left = Confers(request[q].role)]
    /\ UNCHANGED <<role, permission, membership, key, bootstrapped, seats, issued>>

(* The role is read, and what it confers has to be held by the caller. *)
LoadRole(q) ==
    /\ At(q, "createMembership", "load") \/ At(q, "updateMembership", "load")
    /\ role[request[q].role] = "live"
    /\ RoleOrg[request[q].role] = request[q].org
    /\ request' = [request EXCEPT ![q].step = "check", ![q].left = Confers(request[q].role)]
    /\ UNCHANGED <<role, permission, membership, key, bootstrapped, seats, issued>>

(* requireCanGrant asks the graph for one permission after the other, always in
   the same order. *)
CheckPermission(q) ==
    LET p == CHOOSE p \in request[q].left : TRUE IN
    /\ request[q].step = "check" /\ request[q].left # {}
    /\ Reaches(request[q].by, request[q].via, p, NodeOf(request[q].org))
    /\ request' = [request EXCEPT ![q].left = @ \ {p}]
    /\ UNCHANGED <<role, permission, membership, key, bootstrapped, seats, issued>>

(* The memberships that DeleteRole sees. *)
HoldersOf(r) ==
    {m \in Membership : membership[m].role = r /\ membership[m].status \in {"invited", "active"}}

(* Mutant: only memberships in force stop a deletion. *)
ListActiveHolders(q) ==
    /\ At(q, "deleteRole", "list")
    /\ \A m \in HoldersOf(request[q].role) : membership[m].status # "active"
    /\ request' = [request EXCEPT ![q].step = "check", ![q].holders = HoldersOf(request[q].role)]
    /\ UNCHANGED <<role, permission, membership, key, bootstrapped, seats, issued>>

ListHolders(q) ==
    /\ At(q, "deleteRole", "list")
    /\ HoldersOf(request[q].role) = {}
    /\ request' = [request EXCEPT ![q].step = "check", ![q].holders = HoldersOf(request[q].role)]
    /\ UNCHANGED <<role, permission, membership, key, bootstrapped, seats, issued>>

(* A refusal, an error and a lost request end alike: nothing is written. *)
Leave(q) ==
    /\ request[q].step \in {"load", "list", "check"}
    /\ request' = [request EXCEPT ![q].step = "done"]
    /\ UNCHANGED <<role, permission, membership, key, bootstrapped, seats, issued>>

---------------------------------------------------------------------------
(* The writes. *)

Ready(q, op) == At(q, op, "check") /\ request[q].left = {}

Finish(q) == request' = [request EXCEPT ![q].step = "done"]

Issue(by, r, ps) == issued' = issued \cup {<<by, RoleNode(r), p>> : p \in ps}

CreateRole(q, r) ==
    /\ Ready(q, "createRole")
    /\ role[r] = "new" /\ RoleOrg[r] = request[q].org
    /\ role' = [role EXCEPT ![r] = "live"]
    /\ permission' = [permission EXCEPT ![r] = request[q].perms]
    /\ Issue(request[q].by, r, request[q].perms)
    /\ Finish(q)
    /\ UNCHANGED <<membership, key, bootstrapped, seats>>

UpdateRole(q) ==
    /\ Ready(q, "updateRole")
    /\ role[request[q].role] = "live"
    /\ permission' = [permission EXCEPT ![request[q].role] = request[q].perms]
    /\ Issue(request[q].by, request[q].role, request[q].perms)
    /\ Finish(q)
    /\ UNCHANGED <<role, membership, key, bootstrapped, seats>>

(* The rows that refer to the role go with it. *)
DeleteRole(q) ==
    /\ Ready(q, "deleteRole")
    /\ role' = [role EXCEPT ![request[q].role] = "deleted"]
    /\ permission' = [permission EXCEPT ![request[q].role] = {}]
    /\ membership' = [m \in Membership |->
            IF membership[m].role = request[q].role
            THEN [membership[m] EXCEPT !.status = "deleted"] ELSE membership[m]]
    /\ Finish(q)
    /\ UNCHANGED <<key, bootstrapped, seats, issued>>

(* The key (organisation_id, user_id) of memberships is free. *)
Vacant(o, u) ==
    \A m \in Membership : Stored(m) => membership[m].user # u \/ membership[m].org # o

CreateMembership(q, m) ==
    LET r == request[q].role IN
    /\ Ready(q, "createMembership")
    /\ role[r] = "live"
    /\ membership[m].status = "new" /\ Vacant(request[q].org, request[q].target)
    /\ membership' = [membership EXCEPT ![m] =
            [org |-> request[q].org, user |-> request[q].target, role |-> r, status |-> request[q].status]]
    /\ Issue(request[q].by, r, Confers(r))
    /\ Finish(q)
    /\ UNCHANGED <<role, permission, key, bootstrapped, seats>>

(* COALESCE keeps what the request leaves out. *)
UpdateMembership(q) ==
    LET m == request[q].target
        r == IF request[q].role = None THEN membership[m].role ELSE request[q].role
        st == IF request[q].status = "none" THEN membership[m].status ELSE request[q].status
    IN
    /\ Ready(q, "updateMembership")
    /\ Stored(m) /\ role[r] = "live"
    /\ membership' = [membership EXCEPT ![m] = [@ EXCEPT !.role = r, !.status = st]]
    /\ IF request[q].role = None THEN UNCHANGED issued ELSE Issue(request[q].by, r, Confers(r))
    /\ Finish(q)
    /\ UNCHANGED <<role, permission, key, bootstrapped, seats>>
RevokeMembership(q) ==
    /\ Ready(q, "revokeMembership")
    /\ Stored(request[q].target)
    /\ membership' = [membership EXCEPT ![request[q].target].status = "revoked"]
    /\ Finish(q)
    /\ UNCHANGED <<role, permission, key, bootstrapped, seats, issued>>

AcceptMembership(q) ==
    /\ Ready(q, "acceptMembership")
    /\ membership[request[q].target].status = "invited"
    /\ membership' = [membership EXCEPT ![request[q].target].status = "active"]
    /\ Finish(q)
    /\ UNCHANGED <<role, permission, key, bootstrapped, seats, issued>>

CreateAPIKey(q, k) ==
    /\ Ready(q, "createKey")
    /\ key[k].status = "new"
    /\ key' = [key EXCEPT ![k] =
            [owner |-> request[q].by, org |-> request[q].org,
             scopes |-> request[q].perms, status |-> "live"]]
    /\ Finish(q)
    /\ UNCHANGED <<role, permission, membership, bootstrapped, seats, issued>>

RevokeAPIKey(q) ==
    /\ Ready(q, "revokeKey")
    /\ key' = [key EXCEPT ![request[q].target].status = "revoked"]
    /\ Finish(q)
    /\ UNCHANGED <<role, permission, membership, bootstrapped, seats, issued>>

(* Mutant: the claim of the marker survives an insert that fails. *)
ClaimFirst(u, m) ==
    /\ ~bootstrapped
    /\ membership[m].status = "new"
    /\ bootstrapped' = TRUE
    /\ IF Vacant(Platform, u)
       THEN /\ membership' = [membership EXCEPT ![m] =
                    [org |-> Platform, user |-> u, role |-> BootstrapRole, status |-> "active"]]
            /\ Issue(Deployment, BootstrapRole, Confers(BootstrapRole))
            /\ seats' = seats \cup {m}
       ELSE UNCHANGED <<membership, issued, seats>>
    /\ UNCHANGED <<role, permission, key, request>>

(* A login claims the marker and the first seat in one transaction.  It makes
   nothing when the person is a member already: the insert fails, and the claim
   is rolled back with it. *)
BootstrapFirstStaff(u, m) ==
    /\ ~bootstrapped
    /\ membership[m].status = "new" /\ Vacant(Platform, u)
    /\ bootstrapped' = TRUE
    /\ membership' = [membership EXCEPT ![m] =
            [org |-> Platform, user |-> u, role |-> BootstrapRole, status |-> "active"]]
    /\ Issue(Deployment, BootstrapRole, Confers(BootstrapRole))
    /\ seats' = seats \cup {m}
    /\ UNCHANGED <<role, permission, key, request>>

---------------------------------------------------------------------------

Asking(q) ==
    \/ \E by \in User, via \in Key \cup {None} :
        \/ \E o \in Org, ps \in Wish : AskCreateRole(q, by, via, o, ps)
        \/ \E r \in Role, ps \in Wish : AskUpdateRole(q, by, via, r, ps)
        \/ \E r \in Role : AskDeleteRole(q, by, via, r)
        \/ \E o \in Org, u \in User, given \in Patch : AskCreateMembership(q, by, via, o, u, given)
        \/ \E m \in Membership, given \in Patch : AskUpdateMembership(q, by, via, m, given)
        \/ \E m \in Membership : AskRevokeMembership(q, by, via, m)
        \/ \E n \in Node, ps \in Wish : AskCreateAPIKey(q, by, via, n, ps)
        \/ \E k \in Key : AskRevokeAPIKey(q, by, via, k)
    \/ \E m \in Membership : AskAcceptMembership(q, m)

Checking(q) ==
    \/ LoadRole(q)
    \/ CheckPermission(q)
    \/ ListHolders(q)
    \/ Leave(q)

Writing(q) ==
    \/ \E r \in Role : CreateRole(q, r)
    \/ UpdateRole(q)
    \/ DeleteRole(q)
    \/ \E m \in Membership : CreateMembership(q, m)
    \/ UpdateMembership(q)
    \/ RevokeMembership(q)
    \/ AcceptMembership(q)
    \/ \E k \in Key : CreateAPIKey(q, k)
    \/ RevokeAPIKey(q)

Next ==
    \/ \E q \in Request : Asking(q) \/ Checking(q) \/ Writing(q)
    \/ \E u \in User, m \in Membership : BootstrapFirstStaff(u, m)

Spec == Init /\ [][Next]_vars

---------------------------------------------------------------------------
Operations ==
    {"createRole", "updateRole", "deleteRole", "createMembership", "updateMembership",
     "revokeMembership", "acceptMembership", "createKey", "revokeKey"}

Requests ==
    [step : {"new", "load", "list", "check", "done"}, op : Operations \cup {"none"},
     by : User \cup {None}, via : Key \cup {None}, org : Node \cup {None},
     role : Role \cup {None}, target : User \cup Membership \cup Key \cup {None},
     perms : SUBSET Perm, status : MembershipStatus \cup {"none"}, left : SUBSET Perm,
     holders : SUBSET Membership]

Keys ==
    [owner : User \cup {None}, org : Node \cup {None}, scopes : SUBSET Perm,
     status : {"new", "live", "revoked"}]

(* The type of the state. *)
TypeOK ==
    /\ role \in [Role -> {"new", "live", "deleted"}]
    /\ permission \in [Role -> SUBSET Perm]
    /\ membership \in [Membership -> Memberships]
    /\ key \in [Key -> Keys]
    /\ request \in [Request -> Requests]
    /\ bootstrapped \in BOOLEAN
    /\ seats \subseteq Membership
    /\ issued \subseteq (User \cup {Deployment}) \X Node \X Perm

(* What people of C had at the start, invitations and revoked memberships
   included, or somebody outside of C has put into a role or given away since. *)
Entitled(C, p, n) ==
    \/ \E m \in Membership :
        /\ Members[m].user \in C
        /\ p \in UNION {Holding[a] : a \in Ancestors[Members[m].role]}
        /\ RoleNode(Members[m].role) \in {n, Star}
    \/ \E i \in issued : i[1] \notin C /\ i[2] \in {n, Star} /\ i[3] = p

(* No circle of people talks itself into authority: whatever requests its
   members make, themselves or through keys, for each other and at the same
   time, all that it reaches comes from what it had or from outside of it
   (the subset rule of delegation.go:55, checked long before the write). *)
AuthorityIsHandedDown ==
    \A u \in User, via \in Key \cup {None}, p \in Perm, n \in Node :
        Reaches(u, via, p, n) => \A C \in SUBSET User : u \in C => Entitled(C, p, n)

(* A membership has a role of its own organisation, and one that exists, although
   the role is looked up, changed and deleted by other requests meanwhile. *)
RolesStayInTheirTenancy ==
    \A m \in Membership : Stored(m) =>
        /\ RoleOrg[membership[m].role] = membership[m].org
        /\ role[membership[m].role] = "live"

(* The first seat is given once, whoever leaves it later, and the claim is never
   spent on nothing (bootstrap.go:54). *)
FirstStaffOnce ==
    /\ Cardinality(seats) <= 1
    /\ bootstrapped <=> seats # {}

(* Deleting a role takes the memberships with it that have it.  A member who
   can be seen to have it stops the deletion; only somebody who got the role
   after that look disappears with it (authz.go:229). *)
OnlyLatecomersAreDropped ==
    [][\A m \in Membership :
        membership[m].status \in {"invited", "active"} /\ membership'[m].status = "deleted" =>
            \E q \in Request :
                Ready(q, "deleteRole") /\ m \notin request[q].holders]_vars
=============================================================================
