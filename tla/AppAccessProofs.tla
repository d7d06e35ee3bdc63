-------------------------- MODULE AppAccessProofs --------------------------
(***************************************************************************)
(* Proofs about AppAccess, for any sets of roles, groups, capabilities,    *)
(* customers, grants, requests and starting tables.                        *)
(***************************************************************************)
EXTENDS AppAccess, TLAPS

USE SetAssumption, GrantAssumption, FaultAssumption, DepthAssumption

LEMMA NewRequestTyped == NewRequest \in Requests
BY DEF NewRequest, Requests, Nothing

LEMMA ServedTyped ==
  ASSUME TypeOK, NEW u \in User
  PROVE Served(u) \in Rows
<1>1. \A g \in grant : g \in Grant /\ Carried(g) \in SUBSET Member
  BY DEF TypeOK, Carried, Set
<1> QED BY <1>1 DEF Served, Rows, ReachedGrants

LEMMA ExpansionTyped ==
  ASSUME NEW ids \in SUBSET Set, NEW edges, NEW f \in [Set -> SUBSET Member], NEW x
  PROVE Expansion(ids, f, edges, x) \in SUBSET Member
BY DEF Expansion, Ancestry

LEMMA OwnChoicesTyped == \A x \in Set : OwnChoices(x) \subseteq SUBSET Member
BY DEF OwnChoices, Set, Member

LEMMA KindTyped == \A x \in Set : Kind(x) \subseteq Set
BY DEF Kind, Set

LEMMA InitType == Init => TypeOK
<1> SUFFICES ASSUME Init PROVE TypeOK
  OBVIOUS
<1>1. PICK t \in Start : /\ live = t.live /\ own = t.own /\ effective = t.effective
                         /\ extends = t.extends /\ grant = t.grant /\ member = t.member
  BY DEF Init
<1>2. t \in Tables
  BY StartAssumption
<1>3. req \in [Request -> Requests]
  BY NewRequestTyped DEF Init
<1> QED BY <1>1, <1>2, <1>3 DEF Init, TypeOK, Tables, Loads, Caches, Rows

(* A request's locals, changed field by field. *)
LEMMA Replaced ==
  ASSUME TypeOK, NEW r \in Request, NEW q \in Requests, req' = [req EXCEPT ![r] = q]
  PROVE req' \in [Request -> Requests]
BY DEF TypeOK

LEMMA Retyped ==
  ASSUME NEW q \in Requests
  PROVE /\ \A pc \in {"edges", "list", "bump"} : [q EXCEPT !.pc = pc] \in Requests
        /\ \A p : [q EXCEPT !.todo = @ \ {p}] \in Requests
        /\ \A x : [q EXCEPT !.unwritten = @ \ {x}, !.wrote = TRUE] \in Requests
        /\ [q EXCEPT !.pc = "bump", !.wrote = TRUE] \in Requests
        /\ \A ids \in SUBSET Set, f \in [Set -> SUBSET Member] :
              /\ [q EXCEPT !.pc = "expand", !.listed = ids, !.own = f] \in Requests
              /\ [q EXCEPT !.pc = "write", !.unwritten = ids, !.plan = f] \in Requests
        /\ \A x \in Set, pc \in {"parents", "list"}, ps \in SUBSET Set, w \in BOOLEAN :
              [q EXCEPT !.pc = pc, !.set = x, !.todo = ps, !.wrote = w] \in Requests
BY DEF Requests

LEMMA AdvanceTyped ==
  ASSUME TypeOK, NEW r \in Request, NEW pc \in {"edges", "list", "bump"}, Advance(r, pc)
  PROVE req' \in [Request -> Requests]
<1>1. req[r] \in Requests
  BY DEF TypeOK
<1>2. req' = [req EXCEPT ![r] = [req[r] EXCEPT !.pc = pc]]
  BY DEF Advance
<1> QED BY <1>1, <1>2, Retyped, Replaced

LEMMA EndTyped ==
  ASSUME TypeOK, NEW r \in Request, NEW pc \in {"done", "failed"}, End(r, pc)
  PROVE req' \in [Request -> Requests]
BY NewRequestTyped DEF TypeOK, End, Requests

LEMMA BeginSetTyped ==
  ASSUME TypeOK, NEW r \in Request, NEW x \in Set, NEW pc \in {"parents", "list"},
         NEW ps \in SUBSET Set, NEW w \in BOOLEAN, BeginSet(r, x, pc, ps, w)
  PROVE /\ req' \in [Request -> Requests] /\ overlap' \in BOOLEAN
        /\ UNCHANGED <<version, load, cache, faults>>
<1>1. req[r] \in Requests
  BY DEF TypeOK
<1>2. req' = [req EXCEPT ![r] = [req[r] EXCEPT !.pc = pc, !.set = x, !.todo = ps, !.wrote = w]]
  BY DEF BeginSet
<1>3. req' \in [Request -> Requests]
  BY <1>1, <1>2, Retyped, Replaced
<1> QED BY <1>3 DEF BeginSet, TypeOK

LEMMA TypeStep == TypeOK /\ [Next]_vars => TypeOK'
<1> SUFFICES ASSUME TypeOK, [Next]_vars PROVE TypeOK'
  OBVIOUS
<1>1. ASSUME NEW r \in Request, NEW x \in Set, CreateSet(r, x) PROVE TypeOK'
  <2>1. PICK ps \in ParentChoices(x), os \in OwnChoices(x) :
            /\ BeginSet(r, x, "parents", ps, FALSE)
            /\ live' = live \cup {x}
            /\ own' = [own EXCEPT ![x] = os]
            /\ effective' = [effective EXCEPT ![x] = {}]
    BY <1>1 DEF CreateSet
  <2>2. ps \in SUBSET Set /\ os \in SUBSET Member
    BY KindTyped, OwnChoicesTyped DEF ParentChoices
  <2>3. req' \in [Request -> Requests] /\ overlap' \in BOOLEAN
        /\ UNCHANGED <<version, load, cache, faults>>
    BY <2>1, <2>2, BeginSetTyped
  <2> QED BY <1>1, <2>1, <2>2, <2>3 DEF TypeOK, CreateSet
<1>2. ASSUME NEW r \in Request, NEW x \in Set, UpdateSet(r, x) PROVE TypeOK'
  <2>1. PICK os \in OwnChoices(x) :
            /\ \/ \E ps \in ParentChoices(x) : BeginSet(r, x, "parents", ps, FALSE)
               \/ BeginSet(r, x, "list", {}, FALSE)
            /\ own' = [own EXCEPT ![x] = os]
    BY <1>2 DEF UpdateSet
  <2>2. \A ps \in ParentChoices(x) : ps \in SUBSET Set
    BY KindTyped DEF ParentChoices
  <2>3. req' \in [Request -> Requests] /\ overlap' \in BOOLEAN
        /\ UNCHANGED <<version, load, cache, faults>>
    BY <2>1, <2>2, BeginSetTyped
  <2>4. os \in SUBSET Member
    BY OwnChoicesTyped
  <2> QED BY <1>2, <2>1, <2>3, <2>4 DEF TypeOK, UpdateSet
<1>3. ASSUME NEW r \in Request, NEW x \in Set, DeleteSet(r, x) PROVE TypeOK'
  <2>1. req' \in [Request -> Requests] /\ overlap' \in BOOLEAN
        /\ UNCHANGED <<version, load, cache, faults>>
    BY <1>3, BeginSetTyped DEF DeleteSet
  <2> QED BY <1>3, <2>1 DEF TypeOK, DeleteSet
<1>4. ASSUME NEW r \in Request, ClearParents(r) PROVE TypeOK'
  BY <1>4, AdvanceTyped DEF TypeOK, ClearParents
<1>5. ASSUME NEW r \in Request, AddParent(r) PROVE TypeOK'
  <2>1. PICK p \in req[r].todo :
            IF p # req[r].set /\ {p, req[r].set} \subseteq live
            THEN /\ extends' = extends \cup {<<req[r].set, p>>}
                 /\ req' = [req EXCEPT ![r].todo = @ \ {p}]
            ELSE Fail(r) /\ UNCHANGED extends
    BY <1>5 DEF AddParent
  <2>2. CASE p # req[r].set /\ {p, req[r].set} \subseteq live
    <3>1. req' = [req EXCEPT ![r] = [req[r] EXCEPT !.todo = @ \ {p}]]
      BY <2>1, <2>2
    <3>2. extends' \subseteq Set \X Set
      BY <2>1, <2>2 DEF TypeOK
    <3>3. req' \in [Request -> Requests]
      BY <3>1, Retyped, Replaced DEF TypeOK
    <3> QED BY <1>5, <3>2, <3>3 DEF TypeOK, AddParent
  <2>3. CASE ~ (p # req[r].set /\ {p, req[r].set} \subseteq live)
    BY <1>5, <2>1, <2>3, EndTyped DEF TypeOK, AddParent, Fail
  <2> QED BY <2>2, <2>3
<1>6. ASSUME NEW r \in Request, ParentsSet(r) PROVE TypeOK'
  BY <1>6, AdvanceTyped DEF TypeOK, ParentsSet, tables
<1>7. ASSUME NEW r \in Request, ListSets(r) PROVE TypeOK'
  <2>1. req' = [req EXCEPT ![r] = [req[r] EXCEPT !.pc = "expand", !.own = own,
                                       !.listed = live \cap Kind(req[r].set)]]
    BY <1>7 DEF ListSets
  <2>2. live \cap Kind(req[r].set) \in SUBSET Set /\ own \in [Set -> SUBSET Member]
    BY DEF TypeOK
  <2>3. req[r] \in Requests
    BY DEF TypeOK
  <2>4. [req[r] EXCEPT !.pc = "expand", !.own = own, !.listed = live \cap Kind(req[r].set)]
            \in Requests
    BY <2>2, <2>3 DEF Requests
  <2>5. req' \in [Request -> Requests]
    BY <2>1, <2>4, Replaced
  <2> QED BY <1>7, <2>5 DEF TypeOK, ListSets, tables
<1>8. ASSUME NEW r \in Request, ExpandAll(r) PROVE TypeOK'
  <2> DEFINE ids == req[r].listed
             plan == [x \in Set |-> IF x \in ids
                          THEN Expansion(ids, req[r].own, extends, x) ELSE {}]
  <2>1. ids \in SUBSET Set /\ req[r].own \in [Set -> SUBSET Member]
    BY DEF TypeOK, Requests
  <2>2. plan \in [Set -> SUBSET Member]
    BY <2>1, ExpansionTyped
  <2>3. req' \in [Request -> Requests]
    <3>1. CASE Refused(ids, extends)
      BY <1>8, <3>1, EndTyped DEF ExpandAll, Fail
    <3>2. CASE ~ Refused(ids, extends)
      <4>1. req' = [req EXCEPT ![r] = [req[r] EXCEPT !.pc = "write", !.unwritten = ids,
                                                     !.plan = plan]]
        BY <1>8, <3>2 DEF ExpandAll
      <4> HIDE DEF plan
      <4>2. req[r] \in Requests
        BY DEF TypeOK
      <4>3. [req[r] EXCEPT !.pc = "write", !.unwritten = ids, !.plan = plan] \in Requests
        BY <2>1, <2>2, <4>2, Retyped
      <4> QED BY <4>1, <4>3, Replaced
    <3> QED BY <3>1, <3>2
  <2> QED BY <1>8, <2>3 DEF TypeOK, ExpandAll, tables
<1>9. ASSUME NEW r \in Request, StoreExpansion(r) PROVE TypeOK'
  <2>1. PICK x \in req[r].unwritten :
            /\ effective' = IF x \in live THEN [effective EXCEPT ![x] = req[r].plan[x]]
                                          ELSE effective
            /\ req' = [req EXCEPT ![r].unwritten = @ \ {x}, ![r].wrote = TRUE]
    BY <1>9 DEF StoreExpansion
  <2>2. x \in Set /\ req[r].plan \in [Set -> SUBSET Member]
    BY DEF TypeOK, Requests
  <2>3. req' = [req EXCEPT ![r] = [req[r] EXCEPT !.unwritten = @ \ {x}, !.wrote = TRUE]]
    BY <2>1
  <2>5. req' \in [Request -> Requests]
    BY <2>3, Retyped, Replaced DEF TypeOK
  <2>4. effective' \in [Set -> SUBSET Member]
    BY <2>1, <2>2 DEF TypeOK
  <2> QED BY <1>9, <2>5, <2>4 DEF TypeOK, StoreExpansion
<1>10. ASSUME NEW r \in Request, ExpansionsStored(r) PROVE TypeOK'
  BY <1>10, AdvanceTyped DEF TypeOK, ExpansionsStored, tables
<1>11. ASSUME NEW r \in Request, TouchAppAccess(r) PROVE TypeOK'
  BY <1>11, EndTyped DEF TypeOK, TouchAppAccess, tables
<1>12. ASSUME NEW r \in Request, BeginWrite(r), grant' \subseteq Grant,
              member' \subseteq Group \X User
       PROVE TypeOK'
  <2>1. req' = [req EXCEPT ![r] = [req[r] EXCEPT !.pc = "bump", !.wrote = TRUE]]
    BY <1>12 DEF BeginWrite
  <2>2. req' \in [Request -> Requests]
    BY <2>1, Retyped, Replaced DEF TypeOK
  <2> QED BY <1>12, <2>2 DEF TypeOK, BeginWrite
<1>13. ASSUME NEW r \in Request, NEW g \in Grant, CreateAppGrant(r, g) PROVE TypeOK'
  BY <1>12, <1>13 DEF TypeOK, CreateAppGrant
<1>14. ASSUME NEW r \in Request, NEW g \in Grant, DeleteAppGrant(r, g) PROVE TypeOK'
  BY <1>12, <1>14 DEF TypeOK, DeleteAppGrant
<1>15. ASSUME NEW r \in Request, NEW x \in Group, NEW u \in User, SetAppUserGroupMember(r, x, u)
       PROVE TypeOK'
  BY <1>12, <1>15 DEF TypeOK, SetAppUserGroupMember
<1>16. ASSUME NEW r \in Request, ChangeVocabulary(r) PROVE TypeOK'
  BY <1>12, <1>16 DEF TypeOK, ChangeVocabulary
<1>17. ASSUME NEW r \in Request, LoseRequest(r) PROVE TypeOK'
  BY <1>17, EndTyped DEF TypeOK, LoseRequest, tables, Fail
<1>18. ASSUME NEW u \in User, ReadGrants(u) PROVE TypeOK'
  <2>1. load' \in [User -> Loads]
    BY <1>18, ServedTyped DEF TypeOK, ReadGrants, Loads
  <2> QED BY <1>18, <2>1 DEF TypeOK, ReadGrants, tables
<1>19. ASSUME NEW u \in User, ReadVersion(u) PROVE TypeOK'
  <2>1. load' \in [User -> Loads] /\ cache' \in [User -> Caches]
    BY <1>19 DEF TypeOK, ReadVersion, Loads, Caches
  <2> QED BY <1>19, <2>1 DEF TypeOK, ReadVersion, tables
<1>20. CASE UNCHANGED vars
  BY <1>20 DEF TypeOK, vars
<1> QED BY <1>1, <1>2, <1>3, <1>4, <1>5, <1>6, <1>7, <1>8, <1>9, <1>10, <1>11, <1>13, <1>14,
           <1>15, <1>16, <1>17, <1>18, <1>19, <1>20 DEF Next, RequestStep

(* Every table row, request, load and cache keeps its type, whatever requests
   run together and wherever they are lost. *)
THEOREM TypeCorrect == Spec => []TypeOK
<1>1. Init => TypeOK
  BY InitType
<1>2. TypeOK /\ [Next]_vars => TypeOK'
  BY TypeStep
<1> QED BY <1>1, <1>2, PTL DEF Spec

---------------------------------------------------------------------------
(* The cache *)

(* What the foreign keys keep, and that an unused request owes nothing. *)
References ==
    /\ \A g \in grant : {g.subject, g.role} \cap Set \subseteq live
    /\ \A m \in member : m[1] \in live

UnusedOwesNothing == \A r \in Request : req[r].pc = "new" => ~ req[r].wrote

(* The same promise for rows that have been read and whose version has not;
   and no version is held that has not been reached. *)
LoadIsCurrentOrOwed ==
    \A u \in User :
        load[u].pc = "read" /\ load[u].seen = version
            => load[u].rows = Served(u) \/ \E r \in Request : Owes(r)

VersionsReached == \A u \in User : cache[u].version <= version /\ load[u].seen <= version

CacheInv ==
    /\ TypeOK /\ References /\ UnusedOwesNothing
    /\ VersionsReached /\ LoadIsCurrentOrOwed /\ CacheIsCurrentOrOwed

LEMMA InitCache == Init => CacheInv
<1> SUFFICES ASSUME Init PROVE CacheInv
  OBVIOUS
<1>1. References
  <2>1. PICK t \in Start : live = t.live /\ grant = t.grant /\ member = t.member
    BY DEF Init
  <2> QED BY <2>1, StartAssumption DEF References, Referenced
<1>2. UnusedOwesNothing
  BY DEF Init, UnusedOwesNothing, NewRequest
<1>3. VersionsReached /\ LoadIsCurrentOrOwed /\ CacheIsCurrentOrOwed
  BY DEF Init, VersionsReached, LoadIsCurrentOrOwed, CacheIsCurrentOrOwed
<1> QED BY <1>1, <1>2, <1>3, InitType DEF CacheInv

LEMMA ReferencesStep == TypeOK /\ References /\ [Next]_vars => References'
<1> SUFFICES ASSUME TypeOK, References, [Next]_vars PROVE References'
  OBVIOUS
<1>1. ASSUME NEW r \in Request, NEW x \in Set, CreateSet(r, x) PROVE References'
  BY <1>1 DEF References, CreateSet
<1>2. ASSUME NEW r \in Request, NEW x \in Set, DeleteSet(r, x) PROVE References'
  BY <1>2 DEF References, DeleteSet
<1>3. ASSUME NEW r \in Request, NEW g \in Grant, CreateAppGrant(r, g) PROVE References'
  BY <1>3 DEF References, CreateAppGrant, BeginWrite
<1>4. ASSUME NEW r \in Request, NEW g \in Grant, DeleteAppGrant(r, g) PROVE References'
  BY <1>4 DEF References, DeleteAppGrant, BeginWrite
<1>5. ASSUME NEW r \in Request, NEW x \in Group, NEW u \in User, SetAppUserGroupMember(r, x, u)
      PROVE References'
  BY <1>5 DEF References, SetAppUserGroupMember, BeginWrite
<1>6. ASSUME UNCHANGED <<live, grant, member>> PROVE References'
  BY <1>6 DEF References
<1> QED BY <1>1, <1>2, <1>3, <1>4, <1>5, <1>6
        DEF Next, RequestStep, UpdateSet, ClearParents, AddParent, ParentsSet, ListSets, ExpandAll,
            StoreExpansion, ExpansionsStored, TouchAppAccess, ChangeVocabulary, BeginWrite,
            LoseRequest, ReadGrants, ReadVersion, tables, vars

(* A step of one request changes no other, and gives up what the request owes
   only with the bump. *)
LEMMA StepIsItsOwn ==
  ASSUME TypeOK, UnusedOwesNothing, NEW r \in Request, RequestStep(r)
  PROVE /\ req'[r].pc # "new"
        /\ \A q \in Request \ {r} : req'[q] = req[q]
        /\ TouchAppAccess(r) \/ (req[r].wrote => req'[r].wrote)
        /\ TouchAppAccess(r) \/ req'[r].pc # "done"
<1>1. ASSUME NEW x \in Set, CreateSet(r, x) \/ UpdateSet(r, x) \/ DeleteSet(r, x)
      PROVE /\ req'[r].pc \notin {"new", "done"} /\ ~ req[r].wrote
            /\ \A q \in Request \ {r} : req'[q] = req[q]
  <2>1. PICK pc \in {"parents", "list"}, ps \in SUBSET Set, w \in BOOLEAN : BeginSet(r, x, pc, ps, w)
    BY <1>1 DEF CreateSet, UpdateSet, DeleteSet, ParentChoices, Kind, Set
  <2> QED BY <2>1 DEF BeginSet, TypeOK, UnusedOwesNothing
<1>2. ASSUME ClearParents(r) \/ AddParent(r) \/ ParentsSet(r) \/ ListSets(r) \/ ExpandAll(r)
              \/ StoreExpansion(r) \/ ExpansionsStored(r) \/ LoseRequest(r)
      PROVE /\ req'[r].pc \notin {"new", "done"} /\ (req[r].wrote => req'[r].wrote)
            /\ \A q \in Request \ {r} : req'[q] = req[q]
  <2>1. ASSUME NEW pc \in {"edges", "list", "bump"}, Advance(r, pc)
        PROVE /\ req'[r].pc = pc /\ req'[r].wrote = req[r].wrote
              /\ \A q \in Request \ {r} : req'[q] = req[q]
    BY <2>1 DEF Advance, TypeOK, Requests
  <2>2. ASSUME Fail(r)
        PROVE /\ req'[r].pc = "failed" /\ req'[r].wrote = req[r].wrote
              /\ \A q \in Request \ {r} : req'[q] = req[q]
    BY <2>2 DEF Fail, End, TypeOK, NewRequest
  <2>3. CASE ClearParents(r) \/ ParentsSet(r) \/ ExpansionsStored(r)
    BY <2>1, <2>3 DEF ClearParents, ParentsSet, ExpansionsStored
  <2>4. CASE AddParent(r)
    <3>1. PICK p : Fail(r) \/ req' = [req EXCEPT ![r] = [req[r] EXCEPT !.todo = @ \ {p}]]
      BY <2>4 DEF AddParent
    <3>2. req[r].pc = "edges"
      BY <2>4 DEF AddParent
    <3>3. ASSUME req' = [req EXCEPT ![r] = [req[r] EXCEPT !.todo = @ \ {p}]]
          PROVE req'[r].pc = "edges" /\ req'[r].wrote = req[r].wrote
      BY <3>2, <3>3 DEF TypeOK, Requests
    <3> QED BY <2>2, <3>1, <3>3 DEF TypeOK
  <2>5. CASE ListSets(r)
    BY <2>5 DEF ListSets, TypeOK, Requests
  <2>6. CASE ExpandAll(r)
    BY <2>2, <2>6 DEF ExpandAll, TypeOK, Requests
  <2>7. CASE StoreExpansion(r)
    BY <2>7 DEF StoreExpansion, TypeOK, Requests
  <2>8. CASE LoseRequest(r)
    BY <2>2, <2>8 DEF LoseRequest
  <2> QED BY <1>2, <2>3, <2>4, <2>5, <2>6, <2>7, <2>8
<1>3. ASSUME TouchAppAccess(r)
      PROVE req'[r].pc # "new" /\ \A q \in Request \ {r} : req'[q] = req[q]
  BY <1>3 DEF TouchAppAccess, End, TypeOK, NewRequest
<1>4. ASSUME BeginWrite(r)
      PROVE /\ req'[r].pc \notin {"new", "done"} /\ ~ req[r].wrote
            /\ \A q \in Request \ {r} : req'[q] = req[q]
  BY <1>4 DEF BeginWrite, TypeOK, UnusedOwesNothing
<1> QED BY <1>1, <1>2, <1>3, <1>4 DEF RequestStep, CreateAppGrant, DeleteAppGrant,
           SetAppUserGroupMember, ChangeVocabulary

LEMMA UnusedStep == TypeOK /\ UnusedOwesNothing /\ [Next]_vars => UnusedOwesNothing'
<1> SUFFICES ASSUME TypeOK, UnusedOwesNothing, [Next]_vars PROVE UnusedOwesNothing'
  OBVIOUS
<1>1. ASSUME NEW r \in Request, RequestStep(r) PROVE UnusedOwesNothing'
  BY <1>1, StepIsItsOwn DEF UnusedOwesNothing
<1>2. ASSUME UNCHANGED req PROVE UnusedOwesNothing'
  BY <1>2 DEF UnusedOwesNothing
<1> QED BY <1>1, <1>2 DEF Next, ReadGrants, ReadVersion, vars

LEMMA OwingIsKept ==
  ASSUME TypeOK, UnusedOwesNothing, NEW r \in Request, RequestStep(r), ~ TouchAppAccess(r),
         \E q \in Request : Owes(q)
  PROVE \E q \in Request : Owes(q)'
<1>1. PICK q \in Request : Owes(q)
  OBVIOUS
<1>2. Owes(q)'
  BY <1>1, StepIsItsOwn DEF Owes
<1> QED BY <1>2

(* What customers are served changes only with a request that then owes. *)
LEMMA ServedChangeOwes ==
  ASSUME TypeOK, References, NEW r \in Request, RequestStep(r)
  PROVE (\A u \in User : Served(u)' = Served(u)) \/ \E q \in Request : Owes(q)'
<1>1. ASSUME UNCHANGED <<effective, grant, member>>
      PROVE \A u \in User : Served(u)' = Served(u)
  BY <1>1 DEF Served, ReachedGrants, Carried
<1>2. ASSUME NEW x \in Set, CreateSet(r, x) PROVE \A u \in User : Served(u)' = Served(u)
  <2>1. x \notin live /\ effective' = [effective EXCEPT ![x] = {}] /\ UNCHANGED <<grant, member>>
    BY <1>2 DEF CreateSet
  <2>2. \A y \in live : effective'[y] = effective[y]
    BY <2>1 DEF TypeOK
  <2>3. \A g \in grant : Carried(g)' = Carried(g)
    <3> SUFFICES ASSUME NEW g \in grant PROVE Carried(g)' = Carried(g)
      OBVIOUS
    <3>1. CASE g.role = AllCapabilities
      BY <3>1 DEF Carried
    <3>2. CASE g.role # AllCapabilities
      <4>1. g.role \in Set
        BY <3>2 DEF TypeOK, Set
      <4>2. g.role \in live
        BY <4>1 DEF References
      <4> QED BY <2>2, <4>2 DEF Carried
    <3> QED BY <3>1, <3>2
  <2>4. \A u \in User : ReachedGrants(u)' = ReachedGrants(u)
    <3> SUFFICES ASSUME NEW u \in User PROVE ReachedGrants(u)' = ReachedGrants(u)
      OBVIOUS
    <3>1. \A y \in Group : <<y, u>> \in member => effective'[y] = effective[y]
      BY <2>2 DEF References
    <3> QED BY <2>1, <3>1 DEF ReachedGrants
  <2>5. \A u \in User : ReachedGrants(u) \subseteq grant
    BY DEF ReachedGrants
  <2> QED BY <2>3, <2>4, <2>5 DEF Served
<1>3. ASSUME NEW x \in Set, DeleteSet(r, x) PROVE Owes(r)'
  BY <1>3 DEF DeleteSet, BeginSet, Owes, TypeOK
<1>4. ASSUME StoreExpansion(r) PROVE Owes(r)'
  BY <1>4 DEF StoreExpansion, Owes, TypeOK, Requests
<1>5. ASSUME BeginWrite(r) PROVE Owes(r)'
  BY <1>5 DEF BeginWrite, Owes, TypeOK
<1> QED BY <1>1, <1>2, <1>3, <1>4, <1>5
        DEF RequestStep, UpdateSet, ClearParents, AddParent, ParentsSet, ListSets, ExpandAll,
            ExpansionsStored, TouchAppAccess, CreateAppGrant, DeleteAppGrant,
            SetAppUserGroupMember, ChangeVocabulary, LoseRequest, tables

LEMMA RequestFrame ==
  ASSUME TypeOK, NEW r \in Request, RequestStep(r)
  PROVE /\ UNCHANGED <<load, cache>>
        /\ IF TouchAppAccess(r) THEN version' = version + 1 ELSE version' = version
BY DEF RequestStep, CreateSet, UpdateSet, DeleteSet, BeginSet, ClearParents, AddParent, ParentsSet,
       ListSets, ExpandAll, StoreExpansion, ExpansionsStored, TouchAppAccess, CreateAppGrant,
       DeleteAppGrant, SetAppUserGroupMember, ChangeVocabulary, BeginWrite, LoseRequest

LEMMA CacheStep == CacheInv /\ [Next]_vars => CacheInv'
<1> SUFFICES ASSUME CacheInv, [Next]_vars PROVE CacheInv'
  OBVIOUS
<1> USE DEF CacheInv
<1>1. TypeOK' /\ References' /\ UnusedOwesNothing'
  BY TypeStep, ReferencesStep, UnusedStep
<1>2. ASSUME NEW r \in Request, RequestStep(r)
      PROVE VersionsReached' /\ LoadIsCurrentOrOwed' /\ CacheIsCurrentOrOwed'
  <2>1. CASE TouchAppAccess(r)
    <3>1. UNCHANGED <<load, cache>> /\ version' = version + 1
      BY <1>2, <2>1, RequestFrame
    <3>2. \A u \in User : cache[u].version \in Nat /\ load[u].seen \in Nat /\ version \in Nat
      BY DEF TypeOK, Loads, Caches
    <3>3. \A u \in User : cache[u].version # version' /\ load[u].seen # version'
      BY <3>1, <3>2 DEF VersionsReached
    <3> QED BY <3>1, <3>2, <3>3 DEF VersionsReached, LoadIsCurrentOrOwed, CacheIsCurrentOrOwed
  <2>2. CASE ~ TouchAppAccess(r)
    <3>1. UNCHANGED <<load, cache, version>>
      BY <1>2, <2>2, RequestFrame
    <3>2. \/ \E q \in Request : Owes(q)'
          \/ /\ \A u \in User : Served(u)' = Served(u)
             /\ ~ \E q \in Request : Owes(q)
      BY <1>2, <2>2, ServedChangeOwes, OwingIsKept
    <3> QED BY <3>1, <3>2 DEF VersionsReached, LoadIsCurrentOrOwed, CacheIsCurrentOrOwed
  <2> QED BY <2>1, <2>2
<1>3. ASSUME UNCHANGED <<effective, grant, member, req>>
      PROVE /\ \A v \in User : Served(v)' = Served(v)
            /\ \A q \in Request : Owes(q)' = Owes(q)
  BY <1>3 DEF Served, ReachedGrants, Carried, Owes
<1>4. ASSUME NEW u \in User, ReadGrants(u)
      PROVE VersionsReached' /\ LoadIsCurrentOrOwed' /\ CacheIsCurrentOrOwed'
  <2>1. /\ UNCHANGED <<effective, grant, member, req, version, cache>>
        /\ load' = [load EXCEPT ![u] = [pc |-> "read", rows |-> Served(u), seen |-> version]]
    BY <1>4 DEF ReadGrants, tables
  <2>2. \A v \in User \ {u} : load'[v] = load[v]
    BY <2>1 DEF TypeOK
  <2>3. load'[u] = [pc |-> "read", rows |-> Served(u), seen |-> version]
    BY <2>1 DEF TypeOK
  <2>4. version \in Nat
    BY DEF TypeOK
  <2> QED BY <1>3, <2>1, <2>2, <2>3, <2>4
          DEF VersionsReached, LoadIsCurrentOrOwed, CacheIsCurrentOrOwed
<1>5. ASSUME NEW u \in User, ReadVersion(u)
      PROVE VersionsReached' /\ LoadIsCurrentOrOwed' /\ CacheIsCurrentOrOwed'
  <2>1. /\ UNCHANGED <<effective, grant, member, req, version>>
        /\ load[u].pc = "read"
        /\ load' = [load EXCEPT ![u].pc = "idle"]
        /\ cache' = [cache EXCEPT ![u] = [held |-> TRUE, rows |-> load[u].rows,
                                version |-> version, clean |-> load[u].seen = version]]
    BY <1>5 DEF ReadVersion, tables
  <2>2. \A v \in User \ {u} : load'[v] = load[v] /\ cache'[v] = cache[v]
    BY <2>1 DEF TypeOK
  <2>3. load'[u].pc = "idle" /\ load'[u].seen = load[u].seen
    BY <2>1 DEF TypeOK, Loads
  <2>4. /\ cache'[u].rows = load[u].rows /\ cache'[u].version = version
        /\ cache'[u].clean => load[u].seen = version
    BY <2>1 DEF TypeOK
  <2>5. version \in Nat
    BY DEF TypeOK
  <2>6. VersionsReached'
    BY <2>1, <2>2, <2>3, <2>4, <2>5 DEF VersionsReached
  <2>7. LoadIsCurrentOrOwed'
    BY <1>3, <2>1, <2>2, <2>3 DEF LoadIsCurrentOrOwed
  <2>8. CacheIsCurrentOrOwed'
    <3>1. \A v \in User : Served(v)' = Served(v) /\ \A q \in Request : Owes(q)' = Owes(q)
      BY <1>3, <2>1
    <3>2. cache'[u].clean => cache'[u].rows = Served(u) \/ \E q \in Request : Owes(q)
      BY <2>1, <2>4 DEF LoadIsCurrentOrOwed
    <3> QED BY <2>1, <2>2, <3>1, <3>2 DEF CacheIsCurrentOrOwed
  <2> QED BY <2>6, <2>7, <2>8
<1>6. ASSUME UNCHANGED vars
      PROVE VersionsReached' /\ LoadIsCurrentOrOwed' /\ CacheIsCurrentOrOwed'
  BY <1>3, <1>6 DEF vars, VersionsReached, LoadIsCurrentOrOwed, CacheIsCurrentOrOwed
<1> QED BY <1>1, <1>2, <1>4, <1>5, <1>6 DEF Next

(* For any number of administrators and customers, wherever requests are lost
   or refused: a set cached without a bump in the middle of its loading is
   what the store serves for as long as its version is the current one, except
   while, or after, some request has written and not moved the version. *)
THEOREM CachesAreCurrentOrOwed == Spec => []CacheIsCurrentOrOwed
<1>1. Init => CacheInv
  BY InitCache
<1>2. CacheInv /\ [Next]_vars => CacheInv'
  BY CacheStep
<1>3. CacheInv => CacheIsCurrentOrOwed
  BY DEF CacheInv
<1> QED BY <1>1, <1>2, <1>3, PTL DEF Spec
---------------------------------------------------------------------------
(* Flattened sets *)

(* What ExpandSets returns depends on the sets it was given: on their own
   members and on their edges. *)
LEMMA ExpansionDependsOn ==
  ASSUME NEW ids, NEW e1, NEW e2, EdgesOf(ids, e1) = EdgesOf(ids, e2)
  PROVE /\ Refused(ids, e1) = Refused(ids, e2)
        /\ \A f1, f2, x : (\A y \in ids : f1[y] = f2[y])
                            => Expansion(ids, f1, e1, x) = Expansion(ids, f2, e2, x)
<1>1. UnknownParent(ids, e1) = UnknownParent(ids, e2)
  BY DEF UnknownParent
<1>2. CycleOrTooDeep(ids, e1) = CycleOrTooDeep(ids, e2)
  BY DEF CycleOrTooDeep
<1>3. \A x : Ancestry(ids, e1, x) = Ancestry(ids, e2, x) /\ Ancestry(ids, e1, x) \subseteq ids
  BY DEF Ancestry
<1>4. ASSUME NEW f1, NEW f2, NEW x, \A y \in ids : f1[y] = f2[y]
      PROVE Expansion(ids, f1, e1, x) = Expansion(ids, f2, e2, x)
  <2>1. \A y \in Ancestry(ids, e1, x) : f1[y] = f2[y]
    BY <1>3, <1>4
  <2> QED BY <1>3, <2>1 DEF Expansion
<1> QED BY <1>1, <1>2, <1>4 DEF Refused

(* Requests under way about sets of kind K. *)
About(r, K) == InFlight(r) /\ req[r].set \in K

(* The stored expansions of one kind. *)
Flat(K) ==
    /\ ~ Refused(live \cap K, extends)
    /\ \A x \in live \cap K : effective[x] = Expansion(live \cap K, own, extends, x)

(* The sets were listed as they still are. *)
ListedNow(r, K) ==
    /\ req[r].listed = live \cap K
    /\ \A x \in live \cap K : req[r].own[x] = own[x]

(* The expansions the request is storing are still right, and those it has
   stored are in place. *)
PlannedNow(r, K) ==
    /\ req[r].unwritten \subseteq live \cap K
    /\ ~ Refused(live \cap K, extends)
    /\ \A x \in live \cap K :
          /\ req[r].plan[x] = Expansion(live \cap K, own, extends, x)
          /\ x \notin req[r].unwritten => effective[x] = req[r].plan[x]

(* At most one request is about sets of kind K, and their expansions are stored
   except while it is on its way to storing them. *)
OneAtATime(K) ==
    /\ \A r, q \in Request : About(r, K) /\ About(q, K) => r = q
    /\ (\A r \in Request : ~ About(r, K)) => Flat(K)
    /\ \A r \in Request : About(r, K) =>
          /\ req[r].pc = "expand" => ListedNow(r, K)
          /\ req[r].pc = "write" => PlannedNow(r, K)
          /\ req[r].pc = "bump" => Flat(K)

(* Only requests about a set go through its recomputation, and a request that
   has not begun is about none. *)
RequestShape ==
    \A r \in Request :
        /\ req[r].pc = "new" => req[r].set = NoSet
        /\ InFlight(r) /\ req[r].pc # "bump" => req[r].set \in Set

SerialInv ==
    /\ RequestShape
    /\ NoneFailed /\ ~ overlap => OneAtATime(Role) /\ OneAtATime(Group)
LEMMA NothingIsRefused == \A edges : ~ Refused({}, edges)
BY DEF Refused, UnknownParent, CycleOrTooDeep, EdgesOf

LEMMA FlattenedByKind ==
  ASSUME TypeOK
  PROVE Materialised <=> Flat(Role) /\ Flat(Group)
<1>1. \A x \in live : x \in Role => Kind(x) = Role
  BY DEF Kind
<1>2. \A x \in live : x \in Group => Kind(x) = Group
  BY DEF Kind
<1>3. \A x \in live : x \in Role \/ x \in Group
  BY DEF TypeOK, Set
<1>4. ASSUME Flat(Role), Flat(Group) PROVE Materialised
  <2>1. ASSUME NEW x \in live
        PROVE /\ ~ Refused(live \cap Kind(x), extends)
              /\ effective[x] = Expansion(live \cap Kind(x), own, extends, x)
    <3>1. CASE x \in Role
      BY <1>1, <1>4, <3>1 DEF Flat
    <3>2. CASE x \in Group
      BY <1>2, <1>4, <3>2 DEF Flat
    <3> QED BY <1>3, <3>1, <3>2
  <2> QED BY <2>1 DEF Materialised, Flattened
<1>5. ASSUME Materialised, NEW K, K \in {Role, Group} PROVE Flat(K)
  <2>1. \A x \in live \cap K : Kind(x) = K
    BY <1>1, <1>2, <1>5
  <2>2. \A x \in live \cap K :
           /\ ~ Refused(live \cap K, extends)
           /\ effective[x] = Expansion(live \cap K, own, extends, x)
    BY <1>5, <2>1 DEF Materialised, Flattened
  <2>3. CASE live \cap K = {}
    BY <2>2, <2>3, NothingIsRefused DEF Flat
  <2>4. CASE live \cap K # {}
    BY <2>2, <2>4 DEF Flat
  <2> QED BY <2>3, <2>4
<1> QED BY <1>4, <1>5

LEMMA ElsewhereKept ==
  ASSUME TypeOK, NEW K, OneAtATime(K), NEW r \in Request, ~ About(r, K), ~ About(r, K)',
         \A q \in Request \ {r} : req'[q] = req[q],
         live' \cap K = live \cap K,
         \A x \in live \cap K : own'[x] = own[x] /\ effective'[x] = effective[x],
         UnknownParent(live \cap K, extends)
            \/ EdgesOf(live \cap K, extends') = EdgesOf(live \cap K, extends)
  PROVE OneAtATime(K)'
<1>1. \A q \in Request : About(q, K)' => About(q, K) /\ req'[q] = req[q]
  BY DEF About, InFlight
<1>2. \A q \in Request : About(q, K) => About(q, K)'
  BY DEF About, InFlight
<1>3. ~ Refused(live \cap K, extends)
        => /\ ~ Refused(live' \cap K, extends')
           /\ \A x : Expansion(live' \cap K, own', extends', x)
                        = Expansion(live \cap K, own, extends, x)
  <2> SUFFICES ASSUME ~ Refused(live \cap K, extends)
               PROVE  /\ ~ Refused(live \cap K, extends')
                      /\ \A x : Expansion(live \cap K, own', extends', x)
                                  = Expansion(live \cap K, own, extends, x)
    OBVIOUS
  <2>1. EdgesOf(live \cap K, extends') = EdgesOf(live \cap K, extends)
    BY DEF Refused
  <2>2. Refused(live \cap K, extends) = Refused(live \cap K, extends')
    BY <2>1, ExpansionDependsOn
  <2>3. \A x : Expansion(live \cap K, own', extends', x) = Expansion(live \cap K, own, extends, x)
    BY <2>1, ExpansionDependsOn
  <2> QED BY <2>2, <2>3
<1>4. Flat(K) => Flat(K)'
  BY <1>3 DEF Flat
<1>5. ASSUME NEW q \in Request, About(q, K)'
      PROVE /\ req'[q].pc = "expand" => ListedNow(q, K)'
            /\ req'[q].pc = "write" => PlannedNow(q, K)'
            /\ req'[q].pc = "bump" => Flat(K)'
  <2>1. About(q, K) /\ req'[q] = req[q]
    BY <1>1, <1>5
  <2>2. ASSUME req[q].pc = "expand" PROVE ListedNow(q, K)'
    <3>1. ListedNow(q, K)
      BY <2>1, <2>2 DEF OneAtATime
    <3> QED BY <2>1, <3>1 DEF ListedNow
  <2>3. ASSUME req[q].pc = "write" PROVE PlannedNow(q, K)'
    <3>1. PlannedNow(q, K)
      BY <2>1, <2>3 DEF OneAtATime
    <3> QED BY <1>3, <2>1, <3>1 DEF PlannedNow
  <2>4. ASSUME req[q].pc = "bump" PROVE Flat(K)'
    BY <1>4, <2>1, <2>4 DEF OneAtATime
  <2> QED BY <2>1, <2>2, <2>3, <2>4
<1>6. (\A q \in Request : ~ About(q, K)') => Flat(K)'
  BY <1>2, <1>4 DEF OneAtATime
<1>7. \A p, q \in Request : About(p, K)' /\ About(q, K)' => p = q
  BY <1>1 DEF OneAtATime
<1> QED BY <1>5, <1>6, <1>7 DEF OneAtATime

LEMMA OwnStep ==
  ASSUME NEW K, NEW r \in Request, About(r, K)',
         \A q \in Request \ {r} : ~ About(q, K) /\ req'[q] = req[q],
         req'[r].pc = "expand" => ListedNow(r, K)',
         req'[r].pc = "write" => PlannedNow(r, K)',
         req'[r].pc = "bump" => Flat(K)'
  PROVE OneAtATime(K)'
<1>1. \A q \in Request : About(q, K)' => q = r
  BY DEF About, InFlight
<1> QED BY <1>1 DEF OneAtATime
LEMMA Ended ==
  ASSUME TypeOK, NEW r \in Request, NEW pc \in {"done", "failed"}, End(r, pc)
  PROVE req'[r].pc = pc /\ ~ InFlight(r)'
BY DEF TypeOK, End, NewRequest, InFlight

LEMMA Recomputing ==
  ASSUME TypeOK, NEW r \in Request, ~ Fail(r)
  PROVE /\ ParentsSet(r) => req'[r].pc = "list" /\ req'[r].set = req[r].set
        /\ ListSets(r) => /\ req'[r].pc = "expand" /\ req'[r].set = req[r].set
                          /\ req'[r].listed = live \cap Kind(req[r].set) /\ req'[r].own = own
        /\ ExpandAll(r) =>
              /\ ~ Refused(req[r].listed, extends)
              /\ req'[r].pc = "write" /\ req'[r].set = req[r].set
              /\ req'[r].unwritten = req[r].listed
              /\ req'[r].plan = [x \in Set |->
                                    IF x \in req[r].listed
                                    THEN Expansion(req[r].listed, req[r].own, extends, x) ELSE {}]
        /\ StoreExpansion(r) => req'[r].pc = "write" /\ req'[r].set = req[r].set
        /\ ExpansionsStored(r) => req'[r].pc = "bump" /\ req'[r].set = req[r].set
<1>1. req[r] \in Requests
  BY DEF TypeOK
<1>3. ASSUME NEW pc, Advance(r, pc) PROVE req'[r].pc = pc /\ req'[r].set = req[r].set
  <2>1. req'[r] = [req[r] EXCEPT !.pc = pc]
    BY <1>3 DEF Advance, TypeOK
  <2> QED BY <1>1, <2>1 DEF Requests
<1>4. ASSUME ListSets(r)
      PROVE /\ req'[r].pc = "expand" /\ req'[r].set = req[r].set
            /\ req'[r].listed = live \cap Kind(req[r].set) /\ req'[r].own = own
  <2>1. req'[r] = [req[r] EXCEPT !.pc = "expand", !.listed = live \cap Kind(req[r].set), !.own = own]
    BY <1>4 DEF ListSets, TypeOK
  <2> QED BY <1>1, <2>1 DEF Requests
<1>5. ASSUME ExpandAll(r)
      PROVE /\ ~ Refused(req[r].listed, extends)
            /\ req'[r].pc = "write" /\ req'[r].set = req[r].set
            /\ req'[r].unwritten = req[r].listed
            /\ req'[r].plan = [x \in Set |->
                                  IF x \in req[r].listed
                                  THEN Expansion(req[r].listed, req[r].own, extends, x) ELSE {}]
  <2> DEFINE plan == [x \in Set |-> IF x \in req[r].listed
                         THEN Expansion(req[r].listed, req[r].own, extends, x) ELSE {}]
  <2>1. ~ Refused(req[r].listed, extends)
    BY <1>5 DEF ExpandAll
  <2>2. req' = [req EXCEPT ![r].pc = "write", ![r].unwritten = req[r].listed, ![r].plan = plan]
    BY <1>5, <2>1 DEF ExpandAll
  <2> HIDE DEF plan
  <2>3. req'[r] = [req[r] EXCEPT !.pc = "write", !.unwritten = req[r].listed, !.plan = plan]
    BY <2>2 DEF TypeOK
  <2>4. /\ req'[r].pc = "write" /\ req'[r].set = req[r].set
        /\ req'[r].unwritten = req[r].listed /\ req'[r].plan = plan
    BY <1>1, <2>3 DEF Requests
  <2> QED BY <2>1, <2>4 DEF plan
<1>6. ASSUME StoreExpansion(r) PROVE req'[r].pc = "write" /\ req'[r].set = req[r].set
  <2>1. req[r].pc = "write"
    BY <1>6 DEF StoreExpansion
  <2>2. PICK x : req' = [req EXCEPT ![r].unwritten = @ \ {x}, ![r].wrote = TRUE]
    BY <1>6 DEF StoreExpansion
  <2>3. req'[r] = [req[r] EXCEPT !.unwritten = @ \ {x}, !.wrote = TRUE]
    BY <2>2 DEF TypeOK
  <2> QED BY <1>1, <2>1, <2>3 DEF Requests
<1> QED BY <1>3, <1>4, <1>5, <1>6 DEF ParentsSet, ExpansionsStored

(* A request about a set begins: alone in its kind, and no matter to the other. *)
LEMMA BeginsSerially ==
  ASSUME TypeOK, TypeOK', RequestShape, UnusedOwesNothing, NEW K, K \in {Role, Group},
         OneAtATime(K), NEW r \in Request, NEW x \in Set,
         CreateSet(r, x) \/ UpdateSet(r, x) \/ DeleteSet(r, x), ~ overlap'
  PROVE OneAtATime(K)'
<1>1. PICK pc \in {"parents", "list"}, ps \in SUBSET Set, w \in BOOLEAN : BeginSet(r, x, pc, ps, w)
  BY DEF CreateSet, UpdateSet, DeleteSet, ParentChoices, Kind, Set
<1>2. \A q \in Request \ {r} : req'[q] = req[q]
  BY <1>1 DEF BeginSet, TypeOK
<1>3. req'[r].pc = pc /\ req'[r].set = x /\ req[r].pc = "new"
  BY <1>1 DEF BeginSet, TypeOK, Requests
<1>4. ~ About(r, K)
  BY <1>3 DEF About, InFlight
<1>5. CASE x \in K
  <2>1. \A q \in Request : ~ About(q, K)
    <3>1. \A y \in K : y # NoSet /\ Kind(y) = Kind(x)
      BY <1>5 DEF Kind, Set
    <3> QED BY <1>1, <3>1 DEF BeginSet, About
  <2>2. About(r, K)'
    BY <1>3, <1>5 DEF About, InFlight
  <2> QED BY <1>2, <1>3, <2>1, <2>2, OwnStep
<1>6. CASE x \notin K
  <2>1. ~ About(r, K)'
    BY <1>3, <1>6 DEF About
  <2>2. live' \cap K = live \cap K
    BY <1>6 DEF CreateSet, UpdateSet, DeleteSet
  <2>3. \A y \in live \cap K : own'[y] = own[y] /\ effective'[y] = effective[y]
    BY <1>6 DEF CreateSet, UpdateSet, DeleteSet, TypeOK
  <2>4. UnknownParent(live \cap K, extends)
            \/ EdgesOf(live \cap K, extends') = EdgesOf(live \cap K, extends)
    <3>1. CASE extends' = extends
      BY <3>1
    <3>2. CASE extends' = {e \in extends : x \notin {e[1], e[2]}}
      <4> SUFFICES ASSUME ~ UnknownParent(live \cap K, extends)
                   PROVE EdgesOf(live \cap K, extends') = EdgesOf(live \cap K, extends)
        OBVIOUS
      <4>1. \A e \in EdgesOf(live \cap K, extends) : e[1] # x /\ e[2] # x
        BY <1>6 DEF UnknownParent, EdgesOf
      <4> QED BY <3>2, <4>1 DEF EdgesOf
    <3> QED BY <3>1, <3>2 DEF CreateSet, UpdateSet, DeleteSet
  <2> QED BY <1>2, <1>4, <2>1, <2>2, <2>3, <2>4, ElsewhereKept
<1> QED BY <1>5, <1>6

(* The parents of a set are replaced edge by edge: no matter to the other kind. *)
LEMMA EdgesChangeSerially ==
  ASSUME TypeOK, TypeOK', RequestShape, UnusedOwesNothing, NEW K, K \in {Role, Group},
         OneAtATime(K), NEW r \in Request, RequestStep(r), ClearParents(r) \/ AddParent(r),
         req'[r].pc # "failed"
  PROVE OneAtATime(K)'
<1>1. \A q \in Request \ {r} : req'[q] = req[q]
  BY StepIsItsOwn
<1>2. /\ req[r].pc \in {"parents", "edges"} /\ req'[r].pc = "edges"
      /\ req'[r].set = req[r].set
      /\ UNCHANGED <<live, own, effective>>
  <2>1. CASE ClearParents(r)
    BY <2>1 DEF ClearParents, Advance, TypeOK, Requests
  <2>2. CASE AddParent(r)
    <3>1. ~ Fail(r)
      BY Ended DEF Fail
    <3>2. PICK p : req' = [req EXCEPT ![r] = [req[r] EXCEPT !.todo = @ \ {p}]]
      BY <2>2, <3>1 DEF AddParent
    <3>3. req[r] \in Requests /\ req'[r] = [req[r] EXCEPT !.todo = @ \ {p}]
      BY <3>2 DEF TypeOK
    <3>4. req'[r].pc = req[r].pc /\ req'[r].set = req[r].set
      BY <3>3 DEF Requests
    <3> QED BY <2>2, <3>4 DEF AddParent
  <2> QED BY <2>1, <2>2
<1>3. req[r].set \in Set
  BY <1>2 DEF RequestShape, InFlight
<1>4. CASE req[r].set \in K
  <2>1. About(r, K) /\ About(r, K)'
    BY <1>2, <1>4 DEF About, InFlight
  <2>2. \A q \in Request \ {r} : ~ About(q, K)
    BY <2>1 DEF OneAtATime
  <2> QED BY <1>1, <1>2, <2>1, <2>2, OwnStep
<1>5. CASE req[r].set \notin K
  <2>1. ~ About(r, K) /\ ~ About(r, K)'
    BY <1>2, <1>5 DEF About
  <2>2. EdgesOf(live \cap K, extends') = EdgesOf(live \cap K, extends)
    <3>1. CASE ClearParents(r)
      BY <1>5, <3>1 DEF ClearParents, EdgesOf
    <3>2. CASE AddParent(r)
      BY <1>5, <3>2 DEF AddParent, EdgesOf
    <3> QED BY <3>1, <3>2
  <2> QED BY <1>1, <1>2, <2>1, <2>2, ElsewhereKept
<1> QED BY <1>4, <1>5

(* The sets are listed, expanded and stored. *)
LEMMA RecomputesSerially ==
  ASSUME TypeOK, TypeOK', RequestShape, UnusedOwesNothing, NEW K, K \in {Role, Group},
         OneAtATime(Role), OneAtATime(Group), NEW r \in Request, RequestStep(r),
         \/ ParentsSet(r) \/ ListSets(r) \/ ExpandAll(r) \/ StoreExpansion(r) \/ ExpansionsStored(r),
         req'[r].pc # "failed"
  PROVE OneAtATime(K)'
<1>1. \A q \in Request \ {r} : req'[q] = req[q]
  BY StepIsItsOwn
<1>2. req[r] \in Requests
  BY DEF TypeOK
<1>3. ~ Fail(r)
  BY Ended DEF Fail
<1>4. /\ req[r].pc \in {"edges", "list", "expand", "write"}
      /\ req'[r].pc \in {"list", "expand", "write", "bump"}
      /\ req'[r].set = req[r].set
      /\ UNCHANGED <<live, own, extends>>
  <2>1. req'[r].pc \in {"list", "expand", "write", "bump"} /\ req'[r].set = req[r].set
    BY <1>3, Recomputing
  <2> QED BY <2>1 DEF ParentsSet, ListSets, ExpandAll, StoreExpansion, ExpansionsStored, tables
<1>5. req[r].set \in Set
  BY <1>4 DEF RequestShape, InFlight
<1>6. CASE req[r].set \in K
  <2>1. Kind(req[r].set) = K
    BY <1>6 DEF Kind
  <2>2. About(r, K) /\ About(r, K)'
    BY <1>4, <1>6 DEF About, InFlight
  <2>3. \A q \in Request \ {r} : ~ About(q, K)
    BY <2>2 DEF OneAtATime
  <2>4. ASSUME req'[r].pc = "expand" PROVE ListedNow(r, K)'
    <3>1. ListSets(r)
      BY <2>4, <1>3, Recomputing
    <3>2. req'[r].listed = live \cap K /\ req'[r].own = own
      BY <2>1, <3>1, <1>3, Recomputing
    <3> QED BY <1>4, <3>2 DEF ListedNow
  <2>5. ASSUME req'[r].pc = "write" PROVE PlannedNow(r, K)'
    <3>1. ExpandAll(r) \/ StoreExpansion(r)
      BY <2>5, <1>3, Recomputing
    <3>2. CASE ExpandAll(r)
      <4>1. ListedNow(r, K)
        BY <2>2, <3>2 DEF OneAtATime, ExpandAll
      <4> DEFINE ids == live \cap K
      <4>2. ~ Refused(ids, extends) /\ UNCHANGED effective
        BY <3>2, <4>1, <1>3, Recomputing DEF ExpandAll, ListedNow, tables
      <4>3. /\ req'[r].unwritten = ids
            /\ req'[r].plan = [x \in Set |-> IF x \in ids
                                   THEN Expansion(ids, req[r].own, extends, x) ELSE {}]
        BY <3>2, <4>1, <1>3, Recomputing DEF ListedNow
      <4>4. \A x \in ids : Expansion(ids, req[r].own, extends, x) = Expansion(ids, own, extends, x)
        BY <4>1, ExpansionDependsOn DEF ListedNow
      <4>5. ids \subseteq Set
        BY DEF TypeOK
      <4> QED BY <1>4, <4>2, <4>3, <4>4, <4>5 DEF PlannedNow
    <3>3. CASE StoreExpansion(r)
      <4>1. PlannedNow(r, K)
        BY <2>2, <3>3 DEF OneAtATime, StoreExpansion
      <4>2. PICK y \in req[r].unwritten :
               /\ effective' = IF y \in live THEN [effective EXCEPT ![y] = req[r].plan[y]] ELSE effective
               /\ req' = [req EXCEPT ![r].unwritten = @ \ {y}, ![r].wrote = TRUE]
        BY <3>3 DEF StoreExpansion
      <4>3. y \in live /\ y \in Set
        BY <4>1 DEF PlannedNow, TypeOK
      <4>4. req'[r].unwritten = req[r].unwritten \ {y} /\ req'[r].plan = req[r].plan
        BY <1>2, <4>2 DEF TypeOK, Requests
      <4>5. effective'[y] = req[r].plan[y] /\ \A x \in live : x # y => effective'[x] = effective[x]
        BY <4>2, <4>3 DEF TypeOK
      <4> QED BY <1>4, <4>1, <4>4, <4>5 DEF PlannedNow
    <3> QED BY <3>1, <3>2, <3>3
  <2>6. ASSUME req'[r].pc = "bump" PROVE Flat(K)'
    <3>1. ExpansionsStored(r)
      BY <2>6, <1>3, Recomputing
    <3>2. PlannedNow(r, K) /\ req[r].unwritten = {} /\ UNCHANGED effective
      BY <2>2, <3>1 DEF OneAtATime, ExpansionsStored, tables
    <3> QED BY <1>4, <3>2 DEF PlannedNow, Flat
  <2> QED BY <1>1, <2>2, <2>3, <2>4, <2>5, <2>6, OwnStep
<1>7. CASE req[r].set \notin K
  <2>1. ~ About(r, K) /\ ~ About(r, K)'
    BY <1>4, <1>7 DEF About
  <2>2. \A y \in live \cap K : effective'[y] = effective[y]
    <3>1. CASE StoreExpansion(r)
      <4> DEFINE J == Kind(req[r].set)
      <4>1. J \in {Role, Group} /\ req[r].set \in J /\ J # K
        BY <1>5, <1>7 DEF Kind, Set
      <4>2. About(r, J) /\ OneAtATime(J)
        BY <3>1, <4>1 DEF About, InFlight, StoreExpansion
      <4>3. PlannedNow(r, J)
        BY <3>1, <4>2 DEF OneAtATime, StoreExpansion
      <4>4. req[r].unwritten \cap K = {}
        BY <4>1, <4>3 DEF PlannedNow
      <4> QED BY <3>1, <4>4 DEF StoreExpansion, TypeOK
    <3>2. CASE ~ StoreExpansion(r)
      BY <3>2 DEF ParentsSet, ListSets, ExpandAll, ExpansionsStored, tables
    <3> QED BY <3>1, <3>2
  <2> QED BY <1>1, <1>4, <2>1, <2>2, ElsewhereKept
<1> QED BY <1>6, <1>7

LEMMA SerialKindStep ==
  ASSUME TypeOK, TypeOK', RequestShape, UnusedOwesNothing, NEW K, K \in {Role, Group},
         OneAtATime(Role), OneAtATime(Group), NEW r \in Request, RequestStep(r),
         req'[r].pc # "failed", ~ overlap'
  PROVE OneAtATime(K)'
<1>1. CASE \E x \in Set : CreateSet(r, x) \/ UpdateSet(r, x) \/ DeleteSet(r, x)
  BY <1>1, BeginsSerially
<1>2. CASE ClearParents(r) \/ AddParent(r)
  BY <1>2, EdgesChangeSerially
<1>3. CASE ParentsSet(r) \/ ListSets(r) \/ ExpandAll(r) \/ StoreExpansion(r) \/ ExpansionsStored(r)
  BY <1>3, RecomputesSerially
<1>4. \A q \in Request \ {r} : req'[q] = req[q]
  BY StepIsItsOwn
<1>5. CASE TouchAppAccess(r)
  <2>1. /\ req[r].pc = "bump" /\ req'[r].pc = "done"
        /\ UNCHANGED <<live, own, effective, extends>>
    BY <1>5 DEF TouchAppAccess, End, tables, TypeOK, NewRequest
  <2>2. ~ About(r, K)'
    BY <2>1 DEF About, InFlight
  <2>3. CASE About(r, K)
    <3>1. Flat(K)
      BY <2>1, <2>3 DEF OneAtATime
    <3>2. Flat(K)'
      BY <2>1, <3>1 DEF Flat
    <3>3. \A q \in Request \ {r} : ~ About(q, K)
      BY <2>3 DEF OneAtATime
    <3>4. \A q \in Request : ~ About(q, K)'
      BY <1>4, <2>2, <3>3 DEF About, InFlight
    <3> QED BY <3>2, <3>4 DEF OneAtATime
  <2>4. CASE ~ About(r, K)
    BY <1>4, <2>1, <2>2, <2>4, ElsewhereKept
  <2> QED BY <2>3, <2>4
<1>6. CASE BeginWrite(r)
  <2>1. /\ req[r].pc = "new" /\ req'[r].set = req[r].set
        /\ UNCHANGED <<live, own, effective, extends>>
    BY <1>6 DEF BeginWrite, TypeOK, Requests
  <2>2. ~ About(r, K) /\ ~ About(r, K)'
    BY <2>1 DEF RequestShape, About, InFlight, Set
  <2> QED BY <1>4, <2>1, <2>2, ElsewhereKept
<1>7. CASE LoseRequest(r)
  BY <1>7 DEF LoseRequest, Fail, End, TypeOK, NewRequest
<1> QED BY <1>1, <1>2, <1>3, <1>5, <1>6, <1>7 DEF RequestStep, CreateAppGrant, DeleteAppGrant,
           SetAppUserGroupMember, ChangeVocabulary

LEMMA ShapeStep ==
  ASSUME TypeOK, TypeOK', UnusedOwesNothing, RequestShape, NEW r \in Request, RequestStep(r)
  PROVE RequestShape'
<1>1. \A q \in Request \ {r} : req'[q] = req[q]
  BY StepIsItsOwn
<1>2. req'[r].pc # "new"
  BY StepIsItsOwn
<1>3. InFlight(r)' /\ req'[r].pc # "bump" => req'[r].set \in Set
  <2>1. CASE \E x \in Set : CreateSet(r, x) \/ UpdateSet(r, x) \/ DeleteSet(r, x)
    <3>1. PICK x, pc, ps, w : x \in Set /\ BeginSet(r, x, pc, ps, w)
      BY <2>1 DEF CreateSet, UpdateSet, DeleteSet
    <3>2. req'[r] = [req[r] EXCEPT !.pc = pc, !.set = x, !.todo = ps, !.wrote = w]
      BY <3>1 DEF BeginSet, TypeOK
    <3>3. req[r] \in Requests
      BY DEF TypeOK
    <3> QED BY <3>1, <3>2, <3>3 DEF Requests
  <2>2. ASSUME Fail(r) \/ End(r, "done") PROVE ~ InFlight(r)'
    BY <2>2, Ended DEF Fail
  <2>3. CASE TouchAppAccess(r) \/ LoseRequest(r)
    BY <2>2, <2>3 DEF TouchAppAccess, LoseRequest
  <2>4. CASE BeginWrite(r)
    BY <2>4 DEF BeginWrite, TypeOK, Requests
  <2>5. CASE \/ ClearParents(r) \/ AddParent(r) \/ ParentsSet(r) \/ ListSets(r) \/ ExpandAll(r)
             \/ StoreExpansion(r) \/ ExpansionsStored(r)
    <3>1. InFlight(r) /\ req[r].pc # "bump"
      BY <2>5 DEF ClearParents, AddParent, ParentsSet, ListSets, ExpandAll, StoreExpansion,
                  ExpansionsStored, InFlight
    <3>2. Fail(r) \/ req'[r].set = req[r].set
      <4>1. CASE ClearParents(r) \/ AddParent(r)
        <5>1. req[r] \in Requests
          BY DEF TypeOK
        <5>2. ASSUME ClearParents(r) PROVE req'[r] = [req[r] EXCEPT !.pc = "edges"]
          BY <5>2 DEF ClearParents, Advance, TypeOK
        <5>3. ASSUME AddParent(r)
              PROVE Fail(r) \/ \E p : req'[r] = [req[r] EXCEPT !.todo = @ \ {p}]
          BY <5>3 DEF AddParent, TypeOK
        <5> QED BY <4>1, <5>1, <5>2, <5>3 DEF Requests
      <4>2. CASE ~ (ClearParents(r) \/ AddParent(r)) /\ ~ Fail(r)
        BY <2>5, <4>2, Recomputing
      <4> QED BY <4>1, <4>2
    <3> QED BY <2>2, <3>1, <3>2 DEF RequestShape
  <2> QED BY <2>1, <2>3, <2>4, <2>5 DEF RequestStep, CreateAppGrant, DeleteAppGrant,
             SetAppUserGroupMember, ChangeVocabulary
<1> QED BY <1>1, <1>2, <1>3 DEF RequestShape, InFlight

LEMMA StickyHistory ==
  ASSUME TypeOK, UnusedOwesNothing, NEW r \in Request, RequestStep(r), NoneFailed', ~ overlap'
  PROVE NoneFailed /\ ~ overlap /\ req'[r].pc # "failed"
<1>1. req[r].pc # "failed"
  BY DEF RequestStep, CreateSet, UpdateSet, DeleteSet, BeginSet, ClearParents, AddParent,
         ParentsSet, ListSets, ExpandAll, StoreExpansion, ExpansionsStored, TouchAppAccess,
         CreateAppGrant, DeleteAppGrant, SetAppUserGroupMember, ChangeVocabulary, BeginWrite,
         LoseRequest, InFlight
<1>2. \A q \in Request \ {r} : req'[q] = req[q]
  BY StepIsItsOwn
<1>3. overlap => overlap'
  BY DEF RequestStep, CreateSet, UpdateSet, DeleteSet, BeginSet, ClearParents, AddParent,
         ParentsSet, ListSets, ExpandAll, StoreExpansion, ExpansionsStored, TouchAppAccess,
         CreateAppGrant, DeleteAppGrant, SetAppUserGroupMember, ChangeVocabulary, BeginWrite,
         LoseRequest
<1> QED BY <1>1, <1>2, <1>3 DEF NoneFailed

LEMMA SerialStep ==
  ASSUME TypeOK, TypeOK', UnusedOwesNothing, SerialInv, [Next]_vars
  PROVE SerialInv'
<1>1. ASSUME NEW r \in Request, RequestStep(r) PROVE SerialInv'
  <2>1. RequestShape'
    BY <1>1, ShapeStep DEF SerialInv
  <2>2. ASSUME NoneFailed', ~ overlap' PROVE OneAtATime(Role)' /\ OneAtATime(Group)'
    <3>1. OneAtATime(Role) /\ OneAtATime(Group) /\ req'[r].pc # "failed"
      BY <1>1, <2>2, StickyHistory DEF SerialInv
    <3> QED BY <1>1, <2>2, <3>1, SerialKindStep DEF SerialInv
  <2> QED BY <2>1, <2>2 DEF SerialInv
<1>2. ASSUME UNCHANGED <<live, own, effective, extends, req, overlap>> PROVE SerialInv'
  <2>1. ASSUME NEW K, OneAtATime(K) PROVE OneAtATime(K)'
    <3>1. Flat(K)' <=> Flat(K)
      BY <1>2 DEF Flat
    <3>2. ASSUME NEW r \in Request
          PROVE /\ About(r, K)' <=> About(r, K)
                /\ ListedNow(r, K)' <=> ListedNow(r, K)
                /\ PlannedNow(r, K)' <=> PlannedNow(r, K)
      BY <1>2 DEF About, InFlight, ListedNow, PlannedNow
    <3> QED BY <1>2, <2>1, <3>1, <3>2 DEF OneAtATime
  <2> QED BY <1>2, <2>1 DEF SerialInv, RequestShape, NoneFailed, InFlight
<1>3. CASE \E u \in User : ReadGrants(u) \/ ReadVersion(u)
  BY <1>2, <1>3 DEF ReadGrants, ReadVersion, tables
<1>4. CASE UNCHANGED vars
  BY <1>2, <1>4 DEF vars
<1> QED BY <1>1, <1>3, <1>4 DEF Next

(* From tables left flattened, for any sets, any forest of extensions and any
   number of administrators: when the requests about each kind of set have run
   one after the other and none has failed, every stored expansion is the one
   of the stored sets, however requests about the other kind, grants, members
   and customers' loads ran in between. *)
THEOREM SerialEditsReachDescendants ==
  ASSUME \A t \in Start : Flattened(t.live, t.own, t.effective, t.extends)
  PROVE Spec => []SerialEditsMaterialise
<1>1. Init => TypeOK /\ UnusedOwesNothing /\ SerialInv
  <2> SUFFICES ASSUME Init PROVE TypeOK /\ UnusedOwesNothing /\ SerialInv
    OBVIOUS
  <2>1. TypeOK /\ UnusedOwesNothing
    BY InitCache DEF CacheInv
  <2>2. PICK t \in Start : /\ live = t.live /\ own = t.own /\ effective = t.effective
                           /\ extends = t.extends
    BY DEF Init
  <2>3. Materialised
    BY <2>2 DEF Materialised
  <2>4. Flat(Role) /\ Flat(Group)
    BY <2>1, <2>3, FlattenedByKind
  <2>5. \A r \in Request : req[r].pc = "new" /\ req[r].set = NoSet
    BY DEF Init, NewRequest
  <2> QED BY <2>1, <2>4, <2>5 DEF SerialInv, RequestShape, OneAtATime, About, InFlight
<1>2. TypeOK /\ UnusedOwesNothing /\ SerialInv /\ [Next]_vars
        => (TypeOK /\ UnusedOwesNothing /\ SerialInv)'
  BY TypeStep, UnusedStep, SerialStep
<1>3. TypeOK /\ SerialInv => SerialEditsMaterialise
  <2> SUFFICES ASSUME TypeOK, SerialInv, Quiet, NoneFailed, ~ overlap PROVE Materialised
    BY DEF SerialEditsMaterialise
  <2>1. OneAtATime(Role) /\ OneAtATime(Group)
    BY DEF SerialInv
  <2>2. Flat(Role) /\ Flat(Group)
    BY <2>1 DEF OneAtATime, Quiet, About
  <2> QED BY <2>2, FlattenedByKind
<1> QED BY <1>1, <1>2, <1>3, PTL DEF Spec
=============================================================================
