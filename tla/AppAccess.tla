------------------------------ MODULE AppAccess ------------------------------
(***************************************************************************)
(* What the customers of one merchant may do: roles and groups with        *)
(* inheritance that is flattened when it is written, group members,        *)
(* grants, the namespace version, and the merchant's backend that caches   *)
(* a customer's grant set against that version                             *)
(* (internal/service/app_access.go, migrations 000047, 000048, 000053,     *)
(* 000057, queries/app_access.sql and queries/reach.sql).                  *)
(*                                                                         *)
(* No request runs in a transaction: each statement commits on its own,    *)
(* and is a step of its own.  Roles and groups are one mechanism in the    *)
(* code ("a divergence between these two functions is a bug") and one      *)
(* here: a set, whose members are capabilities or group ids.               *)
(***************************************************************************)
EXTENDS SetExpansion, FiniteSets

CONSTANTS
    Role, Group,    \* ids of app_roles and app_user_groups
    Capability,
    User,           \* app_users of the organisation
    Everyone,       \* the subject of a grant that names none
    AllCapabilities,    \* the wildcard in place of a role
    Grant,          \* the app_grants rows a client may write
    Start,          \* tables to start from, left by earlier requests
    Request,        \* the administrator's requests, each used once
    NoSet,          \* a request about no set
    MaxFaults       \* how many requests may be lost

Set == Role \cup Group
Member == Capability \cup Group
Subject == User \cup Group \cup {Everyone}

Tables ==
    [live : SUBSET Set, own : [Set -> SUBSET Member], effective : [Set -> SUBSET Member],
     extends : SUBSET (Set \X Set), grant : SUBSET Grant, member : SUBSET (Group \X User)]

(* What the foreign keys of grants and members guarantee. *)
Referenced(t) ==
    /\ \A g \in t.grant : {g.subject, g.role} \cap Set \subseteq t.live
    /\ \A m \in t.member : m[1] \in t.live

ASSUME SetAssumption == NoSet \notin Set /\ Role \cap Group = {}
ASSUME GrantAssumption == Grant \subseteq [subject : Subject, role : Role \cup {AllCapabilities}]
ASSUME StartAssumption == Start \subseteq {t \in Tables : Referenced(t)}
ASSUME FaultAssumption == MaxFaults \in Nat

VARIABLES
    live,       \* rows of app_roles and app_user_groups
    own,        \* own_capabilities; for a group, its own id
    effective,  \* effective_capabilities, effective_parent_ids
    extends,    \* app_role_extends, app_user_group_extends: <<child, parent>>
    grant,      \* app_grants
    member,     \* app_user_group_members
    version,    \* reach_namespace_versions of the merchant's namespace
    req,        \* requests of the administrator's, as the API process runs them
    load,       \* AppAccessFor under way, per customer
    cache,      \* what the merchant's backend holds, per customer
    faults,     \* how many requests have been lost
    overlap     \* history: two requests about the same kind of set ran at once

tables == <<live, own, effective, extends, grant, member>>
vars == <<live, own, effective, extends, grant, member,
          version, req, load, cache, faults, overlap>>

Kind(x) == IF x \in Role THEN Role ELSE Group

---------------------------------------------------------------------------
(* What a customer is served *)

ReachedGrants(u) ==
    {g \in grant :
        \/ g.subject \in {u, Everyone}
        \/ \E x \in Group : <<x, u>> \in member /\ g.subject \in effective[x]}

Carried(g) == IF g.role = AllCapabilities THEN {} ELSE effective[g.role]

(* The rows of ListAppGrantsForUser, less those that list nothing. *)
Served(u) ==
    {[grant |-> g, capabilities |-> Carried(g)] :
        g \in {h \in ReachedGrants(u) : h.role = AllCapabilities \/ Carried(h) # {}}}

Rows == SUBSET [grant : Grant, capabilities : SUBSET Member]

---------------------------------------------------------------------------
Requests ==
    [pc : {"new", "parents", "edges", "list", "expand", "write", "bump", "done", "failed"},
     set : Set \cup {NoSet},
     todo : SUBSET Set,             \* parents still to be inserted
     listed : SUBSET Set,           \* what ListAppRoles returned
     own : [Set -> SUBSET Member],
     plan : [Set -> SUBSET Member], \* what ExpandSets returned
     unwritten : SUBSET Set,        \* sets whose expansion is still to be stored
     wrote : BOOLEAN]               \* history: what customers hold may have changed

Loads == [pc : {"idle", "read"}, rows : Rows, seen : Nat]

Caches == [held : BOOLEAN, rows : Rows, version : Nat, clean : BOOLEAN]

Nothing == [x \in Set |-> {}]

NewRequest ==
    [pc |-> "new", set |-> NoSet, todo |-> {}, listed |-> {}, own |-> Nothing,
     plan |-> Nothing, unwritten |-> {}, wrote |-> FALSE]

Init ==
    /\ \E t \in Start :
        /\ live = t.live /\ own = t.own /\ effective = t.effective
        /\ extends = t.extends /\ grant = t.grant /\ member = t.member
    /\ version = 0
    /\ req = [r \in Request |-> NewRequest]
    /\ load = [u \in User |-> [pc |-> "idle", rows |-> {}, seen |-> 0]]
    /\ cache = [u \in User |-> [held |-> FALSE, rows |-> {}, version |-> 0, clean |-> TRUE]]
    /\ faults = 0
    /\ overlap = FALSE

InFlight(r) == req[r].pc \notin {"new", "done", "failed"}

(* The first statement of a request about the set x. *)
BeginSet(r, x, pc, parents, wrote) ==
    /\ req[r].pc = "new"
    /\ req' = [req EXCEPT ![r].pc = pc, ![r].set = x, ![r].todo = parents, ![r].wrote = wrote]
    /\ overlap' = (overlap \/ \E q \in Request :
                        InFlight(q) /\ req[q].set # NoSet /\ Kind(req[q].set) = Kind(x))
    /\ UNCHANGED <<version, load, cache, faults>>

(* The parents a client may name, known to the store or not. *)
ParentChoices(x) == SUBSET Kind(x)

OwnChoices(x) == IF x \in Role THEN SUBSET Capability ELSE {{x}}

CreateSet(r, x) ==
    /\ x \notin live
    /\ \E ps \in ParentChoices(x), os \in OwnChoices(x) :
        /\ x \notin ps                      \* its id is new
        /\ BeginSet(r, x, "parents", ps, FALSE)
        /\ live' = live \cup {x}
        /\ own' = [own EXCEPT ![x] = os]
        /\ effective' = [effective EXCEPT ![x] = {}]
    /\ UNCHANGED <<extends, grant, member>>

(* Mutant: an update that names no parents recomputes nothing. *)
UpdateSet_KeepsExpansion(r, x) ==
    /\ x \in live
    /\ \E os \in OwnChoices(x) :
        /\ \/ \E ps \in ParentChoices(x) : BeginSet(r, x, "parents", ps, FALSE)
           \/ x \in Role /\ BeginSet(r, x, "bump", {}, FALSE)
        /\ own' = [own EXCEPT ![x] = os]
    /\ UNCHANGED <<live, effective, extends, grant, member>>

(* UpdateAppRole leaves the parents alone when none are given;
   UpdateAppUserGroup always replaces them. *)
UpdateSet(r, x) ==
    /\ x \in live
    /\ \E os \in OwnChoices(x) :
        /\ \/ \E ps \in ParentChoices(x) : BeginSet(r, x, "parents", ps, FALSE)
           \/ x \in Role /\ BeginSet(r, x, "list", {}, FALSE)
        /\ own' = [own EXCEPT ![x] = os]
    /\ UNCHANGED <<live, effective, extends, grant, member>>

(* The cascades take its edges, its members and the grants that name it. *)
DeleteSet(r, x) ==
    /\ BeginSet(r, x, "list", {}, TRUE)
    /\ live' = live \ {x}
    /\ extends' = {e \in extends : x \notin {e[1], e[2]}}
    /\ grant' = {g \in grant : x \notin {g.subject, g.role}}
    /\ member' = {m \in member : m[1] # x}
    /\ UNCHANGED <<own, effective>>

---------------------------------------------------------------------------
(* setAppRoleParents, setAppUserGroupParents *)

Advance(r, pc) == req' = [req EXCEPT ![r].pc = pc]

(* The request returns; of what it held nothing is left. *)
End(r, pc) == req' = [req EXCEPT ![r] = [NewRequest EXCEPT !.pc = pc, !.wrote = req[r].wrote]]

Fail(r) == End(r, "failed")

ClearParents(r) ==
    /\ req[r].pc = "parents"
    /\ extends' = {e \in extends : e[1] # req[r].set}
    /\ Advance(r, "edges")
    /\ UNCHANGED <<live, own, effective, grant, member, version, load, cache, faults, overlap>>

(* The client's list is in any order.  A parent that is the set itself or is
   not in the store ends the request; what was written stays. *)
AddParent(r) ==
    /\ req[r].pc = "edges"
    /\ \E p \in req[r].todo :
        IF p # req[r].set /\ {p, req[r].set} \subseteq live
        THEN /\ extends' = extends \cup {<<req[r].set, p>>}
             /\ req' = [req EXCEPT ![r].todo = @ \ {p}]
        ELSE Fail(r) /\ UNCHANGED extends
    /\ UNCHANGED <<live, own, effective, grant, member, version, load, cache, faults, overlap>>

ParentsSet(r) ==
    /\ req[r].pc = "edges" /\ req[r].todo = {}
    /\ Advance(r, "list")
    /\ UNCHANGED <<tables, version, load, cache, faults, overlap>>

---------------------------------------------------------------------------
(* recomputeAppRoles, recomputeAppUserGroups *)

ListSets(r) ==
    /\ req[r].pc = "list"
    /\ req' = [req EXCEPT ![r].pc = "expand", ![r].listed = live \cap Kind(req[r].set),
                          ![r].own = own]
    /\ UNCHANGED <<tables, version, load, cache, faults, overlap>>

(* ListAppRoleExtends is a statement of its own: a role created since the list
   was read is an unknown set. *)
ExpandAll(r) ==
    LET ids == req[r].listed
    IN  /\ req[r].pc = "expand"
        /\ IF Refused(ids, extends)
           THEN Fail(r)
           ELSE req' = [req EXCEPT ![r].pc = "write", ![r].unwritten = ids,
                            ![r].plan = [x \in Set |-> IF x \in ids
                                            THEN Expansion(ids, req[r].own, extends, x) ELSE {}]]
        /\ UNCHANGED <<tables, version, load, cache, faults, overlap>>

(* One UPDATE per set, in map order; one for a set deleted meanwhile matches
   no row. *)
StoreExpansion(r) ==
    /\ req[r].pc = "write"
    /\ \E x \in req[r].unwritten :
        /\ effective' = IF x \in live THEN [effective EXCEPT ![x] = req[r].plan[x]] ELSE effective
        /\ req' = [req EXCEPT ![r].unwritten = @ \ {x}, ![r].wrote = TRUE]
    /\ UNCHANGED <<live, own, extends, grant, member, version, load, cache, faults, overlap>>

ExpansionsStored(r) ==
    /\ req[r].pc = "write" /\ req[r].unwritten = {}
    /\ Advance(r, "bump")
    /\ UNCHANGED <<tables, version, load, cache, faults, overlap>>

(* touchAppAccess, the last statement of every request. *)
TouchAppAccess(r) ==
    /\ req[r].pc = "bump"
    /\ version' = version + 1
    /\ End(r, "done")
    /\ UNCHANGED <<tables, load, cache, faults, overlap>>

---------------------------------------------------------------------------
(* Grants, members and the declared vocabulary: one statement and the bump *)

BeginWrite(r) ==
    /\ req[r].pc = "new"
    /\ req' = [req EXCEPT ![r].pc = "bump", ![r].wrote = TRUE]
    /\ UNCHANGED <<live, own, effective, extends, version, load, cache, faults, overlap>>

(* The foreign keys, which the checks before the insert anticipate. *)
CreateAppGrant(r, g) ==
    /\ {g.subject, g.role} \cap Set \subseteq live
    /\ BeginWrite(r)
    /\ grant' = grant \cup {g}
    /\ UNCHANGED member

(* Mutant: the delete without the bump. *)
DeleteAppGrant_NoTouch(r, g) ==
    /\ req[r].pc = "new"
    /\ End(r, "done")
    /\ grant' = grant \ {g}
    /\ UNCHANGED <<live, own, effective, extends, member, version, load, cache, faults, overlap>>

DeleteAppGrant(r, g) ==
    /\ BeginWrite(r)
    /\ grant' = grant \ {g}
    /\ UNCHANGED member
SetAppUserGroupMember(r, x, u) ==
    /\ x \in live
    /\ BeginWrite(r)
    /\ member' \in {member \cup {<<x, u>>}, member \ {<<x, u>>}}
    /\ UNCHANGED grant

(* CreateAppScopeType, DeleteAppScopeType, CreateAppCapability and
   DeleteAppCapability: no customer's rows change. *)
ChangeVocabulary(r) ==
    /\ BeginWrite(r)
    /\ UNCHANGED <<grant, member>>

(* The request's connection or process is lost between two statements, or a
   statement fails. *)
LoseRequest(r) ==
    /\ InFlight(r) /\ faults < MaxFaults
    /\ faults' = faults + 1
    /\ Fail(r)
    /\ UNCHANGED <<tables, version, load, cache, overlap>>

---------------------------------------------------------------------------
(* AppAccessFor: the rows, then the version; and the merchant's cache, which
   may ask again at any time. *)

ReadGrants(u) ==
    /\ load[u].pc = "idle"
    /\ load' = [load EXCEPT ![u] = [pc |-> "read", rows |-> Served(u), seen |-> version]]
    /\ UNCHANGED <<tables, version, req, cache, faults, overlap>>

ReadVersion(u) ==
    /\ load[u].pc = "read"
    /\ load' = [load EXCEPT ![u].pc = "idle"]
    /\ cache' = [cache EXCEPT ![u] = [held |-> TRUE, rows |-> load[u].rows, version |-> version,
                                      clean |-> load[u].seen = version]]
    /\ UNCHANGED <<tables, version, req, faults, overlap>>

---------------------------------------------------------------------------
RequestStep(r) ==
    \/ \E x \in Set : CreateSet(r, x) \/ UpdateSet(r, x) \/ DeleteSet(r, x)
    \/ ClearParents(r) \/ AddParent(r) \/ ParentsSet(r)
    \/ ListSets(r) \/ ExpandAll(r) \/ StoreExpansion(r) \/ ExpansionsStored(r)
    \/ TouchAppAccess(r)
    \/ \E g \in Grant : CreateAppGrant(r, g) \/ DeleteAppGrant(r, g)
    \/ \E x \in Group, u \in User : SetAppUserGroupMember(r, x, u)
    \/ ChangeVocabulary(r) \/ LoseRequest(r)

Next ==
    \/ \E r \in Request : RequestStep(r)
    \/ \E u \in User : ReadGrants(u) \/ ReadVersion(u)

Spec == Init /\ [][Next]_vars

---------------------------------------------------------------------------
(* Properties *)

TypeOK ==
    /\ live \subseteq Set
    /\ own \in [Set -> SUBSET Member] /\ effective \in [Set -> SUBSET Member]
    /\ extends \subseteq Set \X Set
    /\ grant \subseteq Grant /\ member \subseteq Group \X User
    /\ version \in Nat
    /\ req \in [Request -> Requests]
    /\ load \in [User -> Loads] /\ cache \in [User -> Caches]
    /\ faults \in Nat /\ overlap \in BOOLEAN

(* r has written what some customer's grant set may depend on, and has not
   moved the version since: it is about to, or it never will. *)
Owes(r) == req[r].wrote /\ req[r].pc # "done"

(* A cached grant set that no version bump fell into the loading of, and whose
   version is still the current one, is what the store would serve now, unless
   a request that has written still owes its bump.  No interleaving of writers
   and readers makes such a set stale for good unless a request ends owing. *)
CacheIsCurrentOrOwed ==
    \A u \in User :
        cache[u].held /\ cache[u].clean /\ cache[u].version = version
            => cache[u].rows = Served(u) \/ \E r \in Request : Owes(r)

Quiet == \A r \in Request : ~ InFlight(r)

NoneFailed == \A r \in Request : req[r].pc # "failed"

(* The stored expansions are those of the stored sets. *)
Flattened(sets, owns, stored, edges) ==
    \A x \in sets :
        LET ids == sets \cap Kind(x)
        IN  ~ Refused(ids, edges) /\ stored[x] = Expansion(ids, owns, edges, x)

Materialised == Flattened(live, own, effective, extends)

(* Once requests about sets have run one after the other and succeeded, every
   role's capabilities and every group's reach are those of its ancestors as
   they are stored: an edit has reached each descendant, whatever it was.  Of
   two that overlap, the one that listed the sets first may store last, and a
   refused edit leaves its edges behind. *)
SerialEditsMaterialise == Quiet /\ NoneFailed /\ ~ overlap => Materialised
=============================================================================
