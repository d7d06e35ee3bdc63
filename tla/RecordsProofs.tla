---------------------------- MODULE RecordsProofs ----------------------------
(***************************************************************************)
(* Proofs about the records of an organisation, its customers and its      *)
(* connections, for any sets of them, of definitions and of requests.      *)
(***************************************************************************)
EXTENDS Records, TLAPS

USE NoneAssumption, KindAssumption, DefinedAssumption, WishAssumption, PatchAssumption,
    BoundAssumption

---------------------------------------------------------------------------
(* What a request for customers knows while it works: r is the request, rw the
   rows, d the definitions, w the keys that staff archived and t those that
   they retyped. *)

(* A request without a customer is to insert one as it asks. *)
Inserts(r) ==
    /\ r.wish.op \in {"ingest", "create"}
    /\ r.before = NoAttributes
    /\ r.attributes = r.wish.attributes
    /\ r.status = Or(r.wish.status, "active")

(* Of the row that it is to write, an ingest holds what it read merged with
   what it was sent, as long as nobody else wrote that row. *)
MergedInto(r, row) ==
    \/ r.wish.op = "update" /\ r.attributes = r.wish.attributes /\ r.status = r.wish.status
    \/ /\ r.wish.op = "ingest"
       /\ r.status \in Statuses
       /\ r.fresh => /\ r.attributes = Merge(row.attributes, r.wish.attributes)
                     /\ r.status = Or(r.wish.status, row.status)
    \/ r.wish.op = "archive" /\ r.pc = "write"

(* Where a request is and what it has by then. *)
Placed(r, rw) ==
    /\ r.customer # None => rw[r.customer] # NoRow
    /\ r.pc = "lookup" => r.wish.op = "ingest" /\ r.customer = None /\ r.before = NoAttributes
    /\ r.pc \in {"discover", "define"} => r.wish.op = "ingest"
    /\ r.pc \in {"reread", "announce"} => r.customer # None
    /\ r.pc \in {"discover", "define", "reread", "validate", "write"} =>
        IF r.customer = None THEN Inserts(r) ELSE MergedInto(r, rw[r.customer])

Settled(k, d, w) == d[k] # Undefined /\ (k \in w \/ d[k].status = "active")

(* What discovery has done, and what it is about to do. *)
Discovers(r, d, w) ==
    /\ r.todo \subseteq KeysOf(r.wish.attributes)
    /\ r.pc = "define" => /\ r.key \in r.todo
                          /\ r.saw = "archived" => d[r.key] # Undefined
                          /\ r.saw = "none" => Defined[r.key] = Undefined
    /\ r.wish.op = "ingest" /\ r.set.mode = "discover"
       /\ r.pc \in {"discover", "define", "reread", "validate"} =>
        \A k \in KeysOf(r.wish.attributes) \ r.todo : Settled(k, d, w)
    /\ r.pc \in {"reread", "validate"} => r.todo = {}

(* Attributes fit their definitions, but for those that staff retyped. *)
Fitting(attributes, d, t) ==
    \A k \in KeysOf(attributes) :
        d[k] # Undefined /\ (k \in t \/ Fits(d[k], attributes[k]))

(* What is about to be written into the column has been validated. *)
Validated(r, d, t) ==
    r.pc = "write" /\ (r.customer = None \/ Sets(r)) => Fitting(r.attributes, d, t)

Steady(r, rw, d, w, t) == Placed(r, rw) /\ Discovers(r, d, w) /\ Validated(r, d, t)

(* A definition is never lost, and one that was not there at the start is
   active until staff archive it. *)
Stands(d, w) ==
    \A k \in Key :
        /\ Defined[k] # Undefined => d[k] # Undefined
        /\ d[k] # Undefined => Defined[k] # Undefined \/ Settled(k, d, w)

(* What a step may do to the definitions. *)
Develop(d, w, t, d2, w2, t2) ==
    /\ w \subseteq w2 /\ t \subseteq t2
    /\ \A k \in Key :
        /\ d[k] # Undefined =>
            /\ d2[k] # Undefined
            /\ k \in t2 \/ (d2[k].type = d[k].type /\ d2[k].options = d[k].options)
            /\ d[k].status = "active" => Settled(k, d2, w2)
        /\ d[k] = Undefined /\ d2[k] # Undefined => Settled(k, d2, w2)

(* While nobody's writing of a customer is muddled (m has those it is), who is
   to announce the customer knows it as it is, and who is to write it knows
   what he will change. *)
Announces(r, rw, m) ==
    r.customer \in Customer \ m =>
        /\ r.pc \in {"validate", "write"} /\ r.wish.op # "archive" =>
              r.before = rw[r.customer].attributes
        /\ r.pc = "announce" => r.attributes = rw[r.customer].attributes

(* What the triggers have not told of a customer, up to values that print alike, is
   about to be announced: he has the triggers' view, hs the requests. *)
HeardOrPending(u, rw, he, hs) ==
    \A k \in Key :
        \/ Alike(he[u][k], rw[u].attributes[k])
        \/ \E h \in Handler : /\ hs[h].pc = "announce" /\ hs[h].customer = u
                              /\ k \in Changed(hs[h].before, hs[h].attributes)

Told(rw, he, hs, m) ==
    /\ \A h \in Handler : Announces(hs[h], rw, m)
    /\ \A u \in Customer \ m : rw[u] # NoRow => HeardOrPending(u, rw, he, hs)
    /\ \A u \in Customer : rw[u] = NoRow => he[u] = NoAttributes

(* Alike is an equivalence. *)
LEMMA AlikeSelf ==
  ASSUME NEW v
  PROVE Alike(v, v)
BY DEF Alike

LEMMA AlikeChains ==
  ASSUME NEW v, NEW w, NEW x, Alike(v, w), Alike(w, x)
  PROVE Alike(v, x)
BY DEF Alike

CustomersInv ==
    /\ TypeOK
    /\ Stands(defs, withdrawn)
    /\ \A h \in Handler : Steady(handlers[h], rows, defs, withdrawn, retyped)
    /\ \A u \in Stored : Fitting(rows[u].attributes, defs, retyped)
    /\ RowsAreAsAsked
    /\ Told(rows, heard, handlers, muddled)
---------------------------------------------------------------------------
(* Types *)

LEMMA Nones ==
  /\ None \notin Statuses /\ None \notin Value /\ None \notin Customer /\ None \notin Key
  /\ "active" \in Statuses /\ "archived" \in Statuses /\ "none" \notin Statuses
BY DEF Statuses

LEMMA EmptyTyped == NoAttributes \in Attributes /\ KeysOf(NoAttributes) = {}
BY DEF NoAttributes, Attributes, KeysOf

LEMMA WishFields ==
  ASSUME NEW w \in Wishes
  PROVE /\ w.op \in {"ingest", "create", "update", "archive"}
        /\ w.external \in External \cup {None} /\ w.email \in Email \cup {None}
        /\ w.status \in Statuses \cup {None} /\ w.sends \in BOOLEAN
        /\ w.attributes \in Attributes
BY DEF Wishes

LEMMA RequestFields ==
  ASSUME NEW r \in Handlers
  PROVE /\ r.pc \in {"idle", "lookup", "discover", "define", "reread", "validate", "write",
                     "announce"}
        /\ r.wish \in Wishes /\ r.set \in Settings /\ r.customer \in Customer \cup {None}
        /\ r.attributes \in Attributes /\ r.status \in Statuses \cup {None}
        /\ r.before \in Attributes /\ r.todo \subseteq Key /\ r.key \in Key \cup {None}
        /\ r.saw \in {"none", "archived"} /\ r.fresh \in BOOLEAN
BY DEF Handlers

LEMMA RowFields ==
  ASSUME NEW row \in Rows \cup {NoRow}, row # NoRow
  PROVE /\ row \in Rows
        /\ row.external \in External \cup {None} /\ row.email \in Email \cup {None}
        /\ row.status \in Statuses /\ row.attributes \in Attributes
BY DEF Rows

LEMMA RowIsARow == \A row \in Rows : row # NoRow
BY Nones DEF Rows, NoRow

LEMMA MergeTyped ==
  ASSUME NEW a \in Attributes, NEW b \in Attributes
  PROVE Merge(a, b) \in Attributes
BY DEF Merge, Or, Attributes

LEMMA OrTyped ==
  ASSUME NEW S, NEW a \in S \cup {None}, NEW b \in S
  PROVE Or(a, b) \in S
BY DEF Or

LEMMA IdleTyped == Idle \in Handlers
<1>1. NoWish \in Wishes
  BY EmptyTyped DEF NoWish, Wishes
<1>2. [upsert |-> "external_id", mode |-> "discover"] \in Settings
  BY DEF Settings
<1> QED BY <1>1, <1>2, EmptyTyped DEF Idle, Handlers

(* What AfterDiscovery does to a request. *)
LEMMA DiscoveryEnds ==
  ASSUME NEW r \in Handlers, NEW s, s = AfterDiscovery(r)
  PROVE /\ s \in Handlers
        /\ s.wish = r.wish /\ s.set = r.set /\ s.customer = r.customer
        /\ s.attributes = r.attributes /\ s.status = r.status /\ s.before = r.before
        /\ s.todo = r.todo /\ s.fresh = r.fresh
        /\ r.todo # {} => s.pc = "discover"
        /\ r.todo = {} => s.pc = IF r.customer = None THEN "validate" ELSE "reread"
<1>1. PICK pc \in {"discover", "validate", "reread"} :
        /\ s = [r EXCEPT !.pc = pc, !.key = None, !.saw = "none"]
        /\ r.todo # {} => pc = "discover"
        /\ r.todo = {} => pc = IF r.customer = None THEN "validate" ELSE "reread"
  BY DEF AfterDiscovery
<1>2. s \in Handlers
  BY <1>1 DEF Handlers
<1>3. /\ s.wish = r.wish /\ s.set = r.set /\ s.customer = r.customer
      /\ s.attributes = r.attributes /\ s.status = r.status /\ s.before = r.before
      /\ s.todo = r.todo /\ s.fresh = r.fresh /\ s.pc = pc
  BY <1>1 DEF Handlers
<1> QED BY <1>1, <1>2, <1>3
---------------------------------------------------------------------------
(* What an idle request, and one that a step does not touch, still know *)

LEMMA IdleSteady ==
  ASSUME NEW rw, NEW d, NEW w, NEW t
  PROVE Steady(Idle, rw, d, w, t)
BY DEF Steady, Placed, Discovers, Validated, Idle

LEMMA FittingKept ==
  ASSUME NEW a, NEW d, NEW w, NEW t, NEW d2, NEW w2, NEW t2,
         Develop(d, w, t, d2, w2, t2), Fitting(a, d, t)
  PROVE Fitting(a, d2, t2)
BY DEF Fitting, Develop, Fits, KeysOf

LEMMA SteadyKept ==
  ASSUME NEW r \in Handlers, NEW s, s = r \/ s = [r EXCEPT !.fresh = FALSE],
         NEW rw, NEW d, NEW w, NEW t, NEW rw2, NEW d2, NEW w2, NEW t2,
         Steady(r, rw, d, w, t), Develop(d, w, t, d2, w2, t2),
         r.customer # None =>
            /\ rw2[r.customer] # NoRow
            /\ s.fresh => rw2[r.customer] = rw[r.customer]
  PROVE Steady(s, rw2, d2, w2, t2)
<1>1. /\ s.pc = r.pc /\ s.wish = r.wish /\ s.set = r.set /\ s.customer = r.customer
      /\ s.attributes = r.attributes /\ s.status = r.status /\ s.before = r.before
      /\ s.todo = r.todo /\ s.key = r.key /\ s.saw = r.saw
      /\ s.fresh => r.fresh
  BY DEF Handlers
<1>2. Placed(s, rw2)
  <2>1. r.customer # None /\ MergedInto(r, rw[r.customer]) => MergedInto(s, rw2[r.customer])
    BY <1>1 DEF MergedInto
  <2>2. Inserts(r) => Inserts(s)
    BY <1>1 DEF Inserts
  <2> QED BY <1>1, <2>1, <2>2 DEF Steady, Placed
<1>3. Discovers(s, d2, w2)
  <2>1. ASSUME NEW k \in Key, Settled(k, d, w) PROVE Settled(k, d2, w2)
    BY <2>1 DEF Develop, Settled
  <2>2. \A k \in KeysOf(r.wish.attributes) : k \in Key
    BY DEF KeysOf
  <2>3. r.pc = "define" => r.key \in Key
    BY <2>2 DEF Steady, Discovers
  <2> QED BY <1>1, <2>1, <2>2, <2>3 DEF Steady, Discovers, Develop
<1>4. Validated(s, d2, t2)
  BY <1>1, FittingKept DEF Steady, Validated, Sets
<1> QED BY <1>2, <1>3, <1>4 DEF Steady
---------------------------------------------------------------------------
(* What becomes of definitions *)

Table == [Key -> Definitions \cup {Undefined}]

LEMMA UndefinedIsNone == \A e \in Definitions : e # Undefined /\ e.status \in {"active", "archived"}
BY DEF Definitions, Undefined, Types

LEMMA NothingDevelops ==
  ASSUME NEW d, NEW w, NEW t
  PROVE Develop(d, w, t, d, w, t)
BY DEF Develop, Settled

LEMMA StandsKept ==
  ASSUME NEW d, NEW w, NEW t, NEW d2, NEW w2, NEW t2,
         Stands(d, w), Develop(d, w, t, d2, w2, t2)
  PROVE Stands(d2, w2)
BY DEF Stands, Develop, Settled

LEMMA SeededDevelops ==
  ASSUME NEW d \in Table, NEW w, NEW t
  PROVE /\ Seeded(d) \in Table
        /\ Develop(d, w, t, Seeded(d), w, t)
        /\ \A k \in Key : d[k] # Undefined => Seeded(d)[k] = d[k]
<1> DEFINE e == [type |-> "string", status |-> "active", required |-> FALSE, options |-> {}]
<1>1. e \in Definitions /\ e # Undefined /\ e.status = "active"
  BY DEF Definitions, Types, Undefined
<1>2. \A k \in Key : Seeded(d)[k] = IF k \in Default /\ d[k] = Undefined THEN e ELSE d[k]
  BY DEF Seeded
<1>3. Seeded(d) \in Table
  BY <1>1 DEF Seeded, Table
<1> HIDE DEF e
<1>4. Develop(d, w, t, Seeded(d), w, t)
  BY <1>1, <1>2 DEF Develop, Settled
<1> QED BY <1>2, <1>3, <1>4
---------------------------------------------------------------------------
(* Steps that write no customer *)

CountsTyped ==
    /\ settings \in Settings /\ withdrawn \subseteq Key /\ retyped \subseteq Key
    /\ edits \in 0 .. MaxEdits /\ requests \in 0 .. MaxRequests

(* A step of one request that neither writes nor announces. *)
LEMMA QuietStep ==
  ASSUME CustomersInv, NEW h \in Handler, NEW r \in Handlers,
         handlers' = [handlers EXCEPT ![h] = r], handlers[h].pc # "announce",
         UNCHANGED stored, defs' \in Table, CountsTyped',
         Develop(defs, withdrawn, retyped, defs', withdrawn', retyped'),
         Steady(r, rows, defs', withdrawn', retyped'), Announces(r, rows, muddled)
  PROVE CustomersInv'
<1>1. TypeOK'
  BY DEF CustomersInv, TypeOK, stored, CountsTyped, Table
<1>2. /\ handlers \in [Handler -> Handlers]
      /\ \A g \in Handler : handlers'[g] = IF g = h THEN r ELSE handlers[g]
      /\ rows' = rows /\ asked' = asked /\ heard' = heard /\ crossed' = crossed /\ muddled' = muddled
  BY DEF CustomersInv, TypeOK, stored
<1>3. Stands(defs', withdrawn')
  BY StandsKept DEF CustomersInv
<1>4. ASSUME NEW g \in Handler PROVE Steady(handlers'[g], rows', defs', withdrawn', retyped')
  <2>1. CASE g = h
    BY <1>2, <2>1
  <2>2. CASE g # h
    <3>1. handlers[g] \in Handlers /\ Steady(handlers[g], rows, defs, withdrawn, retyped)
      BY <1>2 DEF CustomersInv
    <3>2. handlers[g].customer # None => rows[handlers[g].customer] # NoRow
      BY <3>1 DEF Steady, Placed
    <3>3. Steady(handlers[g], rows, defs', withdrawn', retyped')
      BY <3>1, <3>2, SteadyKept
    <3> QED BY <1>2, <2>2, <3>3
  <2> QED BY <2>1, <2>2
<1>5. ASSUME NEW u \in Customer, rows[u] # NoRow PROVE Fitting(rows'[u].attributes, defs', retyped')
  <2>1. Fitting(rows[u].attributes, defs, retyped)
    BY <1>5 DEF CustomersInv, Stored
  <2>2. Fitting(rows[u].attributes, defs', retyped')
    BY <2>1, FittingKept
  <2> QED BY <1>2, <2>2
<1>6. RowsAreAsAsked'
  BY <1>2 DEF CustomersInv, RowsAreAsAsked, Stored
<1>7. Told(rows', heard', handlers', muddled')
  <2>1. ASSUME NEW g \in Handler PROVE Announces(handlers'[g], rows, muddled)
    BY <1>2 DEF CustomersInv, Told
  <2>2. ASSUME NEW u \in Customer \ muddled, rows[u] # NoRow
        PROVE HeardOrPending(u, rows, heard, handlers')
    <3>1. HeardOrPending(u, rows, heard, handlers)
      BY <2>2 DEF CustomersInv, Told
    <3> QED BY <1>2, <3>1 DEF HeardOrPending
  <2> QED BY <1>2, <2>1, <2>2 DEF CustomersInv, Told
<1> QED BY <1>1, <1>2, <1>3, <1>4, <1>5, <1>6, <1>7 DEF CustomersInv, Stored

(* A step of staff. *)
LEMMA StaffStep ==
  ASSUME CustomersInv, UNCHANGED <<handlers, stored>>, defs' \in Table, CountsTyped',
         Develop(defs, withdrawn, retyped, defs', withdrawn', retyped')
  PROVE CustomersInv'
<1>1. TypeOK'
  BY DEF CustomersInv, TypeOK, stored, CountsTyped, Table
<1>2. /\ handlers \in [Handler -> Handlers] /\ handlers' = handlers
      /\ rows' = rows /\ asked' = asked /\ heard' = heard /\ crossed' = crossed /\ muddled' = muddled
  BY DEF CustomersInv, TypeOK, stored
<1>3. Stands(defs', withdrawn')
  BY StandsKept DEF CustomersInv
<1>4. ASSUME NEW g \in Handler PROVE Steady(handlers'[g], rows', defs', withdrawn', retyped')
  <2>1. handlers[g] \in Handlers /\ Steady(handlers[g], rows, defs, withdrawn, retyped)
    BY <1>2 DEF CustomersInv
  <2>2. handlers[g].customer # None => rows[handlers[g].customer] # NoRow
    BY <2>1 DEF Steady, Placed
  <2>3. Steady(handlers[g], rows, defs', withdrawn', retyped')
    BY <2>1, <2>2, SteadyKept
  <2> QED BY <1>2, <2>3
<1>5. ASSUME NEW u \in Customer, rows[u] # NoRow PROVE Fitting(rows'[u].attributes, defs', retyped')
  <2>1. Fitting(rows[u].attributes, defs, retyped)
    BY <1>5 DEF CustomersInv, Stored
  <2>2. Fitting(rows[u].attributes, defs', retyped')
    BY <2>1, FittingKept
  <2> QED BY <1>2, <2>2
<1>6. RowsAreAsAsked'
  BY <1>2 DEF CustomersInv, RowsAreAsAsked, Stored
<1>7. Told(rows', heard', handlers', muddled')
  BY <1>2 DEF CustomersInv
<1> QED BY <1>1, <1>2, <1>3, <1>4, <1>5, <1>6, <1>7 DEF CustomersInv, Stored

LEMMA TypesNow ==
  ASSUME CustomersInv
  PROVE /\ defs \in Table /\ CountsTyped /\ handlers \in [Handler -> Handlers]
        /\ rows \in [Customer -> Rows \cup {NoRow}]
        /\ asked \in [Customer -> [status : Statuses \cup {"none"}, attributes : Attributes]]
        /\ heard \in [Customer -> Attributes]
        /\ crossed \subseteq Customer /\ muddled \subseteq Customer
BY DEF CustomersInv, TypeOK, CountsTyped, Table

(* The fields a request may leave out. *)
LEMMA PatchFields ==
  ASSUME NEW p \in DefinitionPatch
  PROVE /\ p.type \in Types \cup {None} /\ p.status \in {"active", "archived"} \cup {None}
        /\ p.required \in BOOLEAN \cup {None} /\ p.options \in (SUBSET Value) \cup {None}
OBVIOUS

LEMMA CreateDefinitionKeeps ==
  ASSUME CustomersInv, NEW k \in Key, NEW p \in DefinitionPatch, CreateAttributeDefinition(k, p)
  PROVE CustomersInv'
<1> DEFINE e == [type |-> p.type, status |-> "active", required |-> Or(p.required, FALSE),
                 options |-> Options(p.type, p.options)]
           s == Seeded(defs)
<1>1. /\ s[k] = Undefined /\ defs' = [s EXCEPT ![k] = e]
      /\ p.type # None /\ p.options # None
      /\ withdrawn' = withdrawn /\ retyped' = retyped
      /\ edits < MaxEdits /\ edits' = edits + 1
      /\ UNCHANGED <<settings, handlers, requests, stored>>
  BY DEF CreateAttributeDefinition, Edit
<1>2. e \in Definitions
  <2>1. Or(p.required, FALSE) \in BOOLEAN
    BY PatchFields DEF Or
  <2>2. Options(p.type, p.options) \in SUBSET Value
    BY <1>1, PatchFields DEF Options
  <2> QED BY <1>1, <2>1, <2>2, PatchFields DEF Definitions
<1>3. e.status = "active" /\ e # Undefined
  BY <1>2, UndefinedIsNone
<1>4. /\ s \in Table /\ Develop(defs, withdrawn, retyped, s, withdrawn, retyped)
      /\ \A x \in Key : defs[x] # Undefined => s[x] = defs[x]
  BY TypesNow, SeededDevelops
<1> HIDE DEF e, s
<1>5. defs' \in Table
  BY <1>1, <1>2, <1>4 DEF Table
<1>6. \A x \in Key : defs'[x] = IF x = k THEN e ELSE s[x]
  BY <1>1, <1>4 DEF Table
<1>7. Develop(defs, withdrawn, retyped, defs', withdrawn', retyped')
  BY <1>1, <1>3, <1>4, <1>6 DEF Develop, Settled
<1>8. CountsTyped'
  BY <1>1, TypesNow DEF CountsTyped
<1> QED BY <1>1, <1>5, <1>7, <1>8, StaffStep

LEMMA UpdateDefinitionKeeps ==
  ASSUME CustomersInv, NEW k \in Key, NEW p \in DefinitionPatch, UpdateAttributeDefinition(k, p)
  PROVE CustomersInv'
<1> DEFINE d == defs[k]
           type == Or(p.type, d.type)
           options == IF p.options = None THEN d.options ELSE Options(type, p.options)
           new == [type |-> type, status |-> Or(p.status, d.status),
                   required |-> Or(p.required, d.required), options |-> options]
<1>1. /\ d # Undefined /\ defs' = [defs EXCEPT ![k] = new]
      /\ withdrawn' = IF new.status = "archived" THEN withdrawn \cup {k} ELSE withdrawn
      /\ retyped' = IF new.type # d.type \/ new.options # d.options THEN retyped \cup {k}
                                                                    ELSE retyped
      /\ edits < MaxEdits /\ edits' = edits + 1
      /\ UNCHANGED <<settings, handlers, requests, stored>>
  BY DEF UpdateAttributeDefinition, Edit
<1>2. d \in Definitions
  BY <1>1, TypesNow DEF Table
<1>3. new \in Definitions
  <2>1. type \in Types /\ Or(p.status, d.status) \in {"active", "archived"}
        /\ Or(p.required, d.required) \in BOOLEAN
    BY <1>2, PatchFields DEF Or, Definitions
  <2>2. options \in SUBSET Value
    BY <1>2, PatchFields DEF Options, Definitions
  <2> HIDE DEF type, options
  <2> QED BY <2>1, <2>2 DEF Definitions
<1>4. new # Undefined /\ new.status \in {"active", "archived"}
  BY <1>3, UndefinedIsNone
<1> HIDE DEF new
<1>5. defs' \in Table /\ \A x \in Key : defs'[x] = IF x = k THEN new ELSE defs[x]
  BY <1>1, <1>3, TypesNow DEF Table
<1>6. Develop(defs, withdrawn, retyped, defs', withdrawn', retyped')
  <2>1. withdrawn \subseteq withdrawn' /\ retyped \subseteq retyped'
    BY <1>1
  <2>2. ASSUME NEW x \in Key, defs[x] # Undefined
        PROVE /\ defs'[x] # Undefined
              /\ x \in retyped' \/ (defs'[x].type = defs[x].type /\ defs'[x].options = defs[x].options)
              /\ defs[x].status = "active" => Settled(x, defs', withdrawn')
    <3>1. CASE x = k
      BY <1>1, <1>4, <1>5, <3>1 DEF Settled
    <3>2. CASE x # k
      BY <1>5, <2>2, <3>2 DEF Settled
    <3> QED BY <3>1, <3>2
  <2>3. ASSUME NEW x \in Key, defs[x] = Undefined PROVE defs'[x] = Undefined
    BY <1>1, <1>5, <2>3
  <2> QED BY <2>1, <2>2, <2>3 DEF Develop
<1>7. CountsTyped'
  BY <1>1, TypesNow DEF CountsTyped
<1> QED BY <1>1, <1>5, <1>6, <1>7, StaffStep

LEMMA DeleteDefinitionKeeps ==
  ASSUME CustomersInv, NEW k \in Key, DeleteAttributeDefinition(k)
  PROVE CustomersInv'
<1>1. /\ defs[k] # Undefined /\ defs' = [defs EXCEPT ![k].status = "archived"]
      /\ withdrawn' = withdrawn \cup {k} /\ retyped' = retyped
      /\ edits < MaxEdits /\ edits' = edits + 1
      /\ UNCHANGED <<settings, handlers, requests, stored>>
  BY DEF DeleteAttributeDefinition, Edit
<1> DEFINE new == [defs[k] EXCEPT !.status = "archived"]
<1>2. defs[k] \in Definitions
  BY <1>1, TypesNow DEF Table
<1>3. new \in Definitions /\ new.type = defs[k].type /\ new.options = defs[k].options
  BY <1>2 DEF Definitions
<1>4. defs' = [defs EXCEPT ![k] = new]
  BY <1>1
<1> HIDE DEF new
<1>5. new # Undefined
  BY <1>3, UndefinedIsNone
<1>6. defs' \in Table /\ \A x \in Key : defs'[x] = IF x = k THEN new ELSE defs[x]
  BY <1>3, <1>4, TypesNow DEF Table
<1>7. Develop(defs, withdrawn, retyped, defs', withdrawn', retyped')
  BY <1>1, <1>3, <1>5, <1>6 DEF Develop, Settled
<1>8. CountsTyped'
  BY <1>1, TypesNow DEF CountsTyped
<1> QED BY <1>1, <1>6, <1>7, <1>8, StaffStep

LEMMA ChangeSettingsKeeps ==
  ASSUME CustomersInv, NEW s \in Settings, ChangeSettings(s)
  PROVE CustomersInv'
<1>1. /\ settings' = s /\ edits < MaxEdits /\ edits' = edits + 1
      /\ UNCHANGED <<defs, withdrawn, retyped, handlers, requests, stored>>
  BY DEF ChangeSettings, Edit
<1>2. CountsTyped' /\ defs' \in Table
  BY <1>1, TypesNow DEF CountsTyped
<1>3. Develop(defs, withdrawn, retyped, defs', withdrawn', retyped')
  BY <1>1, NothingDevelops
<1> QED BY <1>1, <1>2, <1>3, StaffStep

(* A request begins with record r. *)
LEMMA BeginKeeps ==
  ASSUME CustomersInv, NEW h \in Handler, NEW r \in Handlers, Begin(h, r),
         Steady(r, rows, defs, withdrawn, retyped), Announces(r, rows, muddled)
  PROVE CustomersInv'
<1>1. /\ handlers[h].pc = "idle" /\ requests < MaxRequests /\ requests' = requests + 1
      /\ handlers' = [handlers EXCEPT ![h] = r]
      /\ UNCHANGED <<defs, settings, withdrawn, retyped, edits, stored>>
  BY DEF Begin, At, Goto
<1>2. CountsTyped' /\ defs' \in Table
  BY <1>1, TypesNow DEF CountsTyped
<1>3. Develop(defs, withdrawn, retyped, defs', withdrawn', retyped')
  BY <1>1, NothingDevelops
<1> QED BY <1>1, <1>2, <1>3, QuietStep

LEMMA WishTyped == ASSUME NEW w \in Wish PROVE w \in Wishes
OBVIOUS

LEMMA AskingKeeps ==
  ASSUME CustomersInv, NEW h \in Handler, Asking(h)
  PROVE CustomersInv'
<1>1. PICK w \in Wish :
        \/ IngestAppUser(h, w)
        \/ CreateAppUser(h, w)
        \/ \E u \in Customer : UpdateAppUser(h, w, u) \/ DeleteAppUser(h, w, u)
  BY DEF Asking
<1>w. w \in Wishes
  OBVIOUS
<1>2. CASE IngestAppUser(h, w)
  <2> DEFINE r == [Idle EXCEPT !.pc = "lookup", !.wish = w, !.set = settings]
  <2>1. w.op = "ingest" /\ Begin(h, r)
    BY <1>2 DEF IngestAppUser
  <2>2. r \in Handlers
    BY <1>w, IdleTyped, TypesNow DEF Handlers, CountsTyped
  <2>3. /\ r.pc = "lookup" /\ r.wish = w /\ r.customer = None /\ r.before = NoAttributes
        /\ r.todo = {}
    BY DEF Idle
  <2> HIDE DEF r
  <2>4. Steady(r, rows, defs, withdrawn, retyped)
    BY <2>1, <2>3 DEF Steady, Placed, Discovers, Validated
  <2>5. Announces(r, rows, muddled)
    BY <2>3, Nones DEF Announces
  <2> QED BY <2>1, <2>2, <2>4, <2>5, BeginKeeps
<1>3. CASE CreateAppUser(h, w)
  <2> DEFINE r == [Idle EXCEPT !.pc = "validate", !.wish = w, !.attributes = w.attributes,
                               !.status = Or(w.status, "active")]
  <2>1. w.op = "create" /\ Begin(h, r)
    BY <1>3 DEF CreateAppUser
  <2>2. r \in Handlers
    <3>1. Or(w.status, "active") \in Statuses \cup {None} /\ w.attributes \in Attributes
      BY <1>w, WishFields, Nones DEF Or
    <3> QED BY <1>w, <3>1, IdleTyped DEF Handlers
  <2>3. /\ r.pc = "validate" /\ r.wish = w /\ r.customer = None /\ r.before = NoAttributes
        /\ r.todo = {} /\ r.attributes = w.attributes /\ r.status = Or(w.status, "active")
    BY DEF Idle
  <2> HIDE DEF r
  <2>4. Steady(r, rows, defs, withdrawn, retyped)
    BY <2>1, <2>3 DEF Steady, Placed, Inserts, Discovers, Validated
  <2>5. Announces(r, rows, muddled)
    BY <2>3, Nones DEF Announces
  <2> QED BY <2>1, <2>2, <2>4, <2>5, BeginKeeps
<1>4. ASSUME NEW u \in Customer, UpdateAppUser(h, w, u) PROVE CustomersInv'
  <2> DEFINE r == [Idle EXCEPT !.pc = "reread", !.wish = w, !.customer = u,
                               !.attributes = w.attributes, !.status = w.status]
  <2>1. w.op = "update" /\ u \in Stored /\ Begin(h, r)
    BY <1>4 DEF UpdateAppUser
  <2>2. r \in Handlers
    BY <1>w, WishFields, IdleTyped DEF Handlers
  <2>3. /\ r.pc = "reread" /\ r.wish = w /\ r.customer = u /\ r.before = NoAttributes
        /\ r.todo = {} /\ r.attributes = w.attributes /\ r.status = w.status
    BY DEF Idle
  <2> HIDE DEF r
  <2>4. Steady(r, rows, defs, withdrawn, retyped)
    BY <2>1, <2>3, Nones DEF Steady, Placed, MergedInto, Discovers, Validated, Stored
  <2>5. Announces(r, rows, muddled)
    BY <2>3 DEF Announces
  <2> QED BY <2>1, <2>2, <2>4, <2>5, BeginKeeps
<1>5. ASSUME NEW u \in Customer, DeleteAppUser(h, w, u) PROVE CustomersInv'
  <2> DEFINE r == [Idle EXCEPT !.pc = "write", !.wish = w, !.customer = u]
  <2>1. w.op = "archive" /\ u \in Stored /\ Begin(h, r)
    BY <1>5 DEF DeleteAppUser
  <2>2. r \in Handlers
    BY <1>w, WishFields, IdleTyped DEF Handlers
  <2>3. /\ r.pc = "write" /\ r.wish = w /\ r.customer = u /\ r.before = NoAttributes
        /\ r.todo = {} /\ r.attributes = NoAttributes
    BY DEF Idle
  <2> HIDE DEF r
  <2>4. Steady(r, rows, defs, withdrawn, retyped)
    <3>1. Fitting(r.attributes, defs, retyped)
      BY <2>3, EmptyTyped DEF Fitting
    <3> QED BY <2>1, <2>3, <3>1, Nones DEF Steady, Placed, MergedInto, Discovers, Validated, Stored
  <2>5. Announces(r, rows, muddled)
    BY <2>1, <2>3 DEF Announces
  <2> QED BY <2>1, <2>2, <2>4, <2>5, BeginKeeps
<1> QED BY <1>1, <1>2, <1>3, <1>4, <1>5

(* A step of a request that leaves the counts and the keys alone. *)
LEMMA AdvanceKeeps ==
  ASSUME CustomersInv, NEW h \in Handler, NEW r \in Handlers, Goto(h, r),
         handlers[h].pc # "announce", UNCHANGED <<staff, stored>>, defs' \in Table,
         Develop(defs, withdrawn, retyped, defs', withdrawn, retyped),
         Steady(r, rows, defs', withdrawn, retyped), Announces(r, rows, muddled)
  PROVE CustomersInv'
<1>1. /\ handlers' = [handlers EXCEPT ![h] = r] /\ withdrawn' = withdrawn /\ retyped' = retyped
      /\ UNCHANGED stored
  BY DEF Goto, staff
<1>2. CountsTyped'
  BY TypesNow DEF CountsTyped, staff
<1> QED BY <1>1, <1>2, QuietStep

LEMMA RefuseKeeps ==
  ASSUME CustomersInv, NEW h \in Handler, Refuse(h), handlers[h].pc # "announce",
         UNCHANGED <<staff, stored>>, defs' \in Table,
         Develop(defs, withdrawn, retyped, defs', withdrawn, retyped)
  PROVE CustomersInv'
<1>1. Announces(Idle, rows, muddled)
  BY DEF Announces, Idle
<1>2. Goto(h, Idle)
  BY DEF Refuse
<1>3. Steady(Idle, rows, defs', withdrawn, retyped)
  BY IdleSteady
<1> QED BY <1>1, <1>2, <1>3, IdleTyped, AdvanceKeeps

LEMMA AbandonKeeps ==
  ASSUME CustomersInv, NEW h \in Handler, Abandon(h)
  PROVE CustomersInv'
<1>1. Refuse(h) /\ handlers[h].pc # "announce" /\ UNCHANGED <<staff, stored>> /\ defs' = defs
  BY DEF Abandon
<1> QED BY <1>1, TypesNow, NothingDevelops, RefuseKeeps

LEMMA LookupKeeps ==
  ASSUME CustomersInv, NEW h \in Handler, Lookup(h)
  PROVE CustomersInv'
<1> DEFINE r == handlers[h]
           todo == IF r.set.mode = "discover" THEN KeysOf(r.wish.attributes) ELSE {}
<1>1. r \in Handlers /\ Steady(r, rows, defs, withdrawn, retyped) /\ r.pc = "lookup"
  BY TypesNow DEF CustomersInv, Lookup, At
<1>2. r.wish.op = "ingest" /\ r.customer = None /\ r.before = NoAttributes
  BY <1>1 DEF Steady, Placed
<1>3. UNCHANGED <<staff, stored>> /\ defs' = defs
  BY DEF Lookup
<1>4. todo \subseteq KeysOf(r.wish.attributes) /\ todo \subseteq Key
      /\ (r.set.mode = "discover" => todo = KeysOf(r.wish.attributes))
  BY DEF KeysOf
<1>5. r.wish \in Wishes /\ r.wish.attributes \in Attributes /\ r.wish.status \in Statuses \cup {None}
  BY <1>1, RequestFields, WishFields
<1>6. \/ Goto(h, AfterDiscovery([r EXCEPT !.attributes = r.wish.attributes,
                                          !.status = Or(r.wish.status, "active"),
                                          !.todo = todo]))
      \/ \E u \in Named(r.wish, r.set) :
            Goto(h, AfterDiscovery(
                [r EXCEPT !.customer = u,
                          !.attributes = Merge(rows[u].attributes, r.wish.attributes),
                          !.status = Or(r.wish.status, rows[u].status),
                          !.todo = todo]))
  BY DEF Lookup
<1> HIDE DEF todo
<1>7. CASE Goto(h, AfterDiscovery([r EXCEPT !.attributes = r.wish.attributes,
                                            !.status = Or(r.wish.status, "active"),
                                            !.todo = todo]))
  <2> DEFINE q == [r EXCEPT !.attributes = r.wish.attributes,
                            !.status = Or(r.wish.status, "active"), !.todo = todo]
             s == AfterDiscovery(q)
  <2>1. Or(r.wish.status, "active") \in Statuses \cup {None}
    BY <1>5, Nones DEF Or
  <2>2. q \in Handlers
    BY <1>1, <1>4, <1>5, <2>1 DEF Handlers
  <2>3. /\ q.wish = r.wish /\ q.set = r.set /\ q.customer = None /\ q.before = NoAttributes
        /\ q.attributes = r.wish.attributes /\ q.status = Or(r.wish.status, "active")
        /\ q.todo = todo
    BY <1>1, <1>2 DEF Handlers
  <2> HIDE DEF q
  <2>4. /\ s \in Handlers /\ s.wish = r.wish /\ s.set = r.set /\ s.customer = None
        /\ s.before = NoAttributes /\ s.attributes = r.wish.attributes
        /\ s.status = Or(r.wish.status, "active") /\ s.todo = todo
        /\ s.pc = IF todo # {} THEN "discover" ELSE "validate"
    BY <2>2, <2>3, DiscoveryEnds
  <2>5. Goto(h, s)
    BY <1>7 DEF q
  <2> HIDE DEF s
  <2>6. Placed(s, rows)
    BY <1>2, <2>4 DEF Placed, Inserts
  <2>7. Discovers(s, defs, withdrawn) /\ Validated(s, defs, retyped)
    BY <1>4, <2>4 DEF Discovers, Validated
  <2>8. Steady(s, rows, defs', withdrawn, retyped)
    BY <1>3, <2>6, <2>7 DEF Steady
  <2>9. Announces(s, rows, muddled)
    BY <2>4, Nones DEF Announces
  <2> QED BY <1>1, <1>3, <2>4, <2>5, <2>8, <2>9, NothingDevelops, TypesNow, AdvanceKeeps
<1>8. ASSUME NEW u \in Named(r.wish, r.set),
             Goto(h, AfterDiscovery(
                [r EXCEPT !.customer = u,
                          !.attributes = Merge(rows[u].attributes, r.wish.attributes),
                          !.status = Or(r.wish.status, rows[u].status),
                          !.todo = todo]))
      PROVE CustomersInv'
  <2> DEFINE q == [r EXCEPT !.customer = u,
                            !.attributes = Merge(rows[u].attributes, r.wish.attributes),
                            !.status = Or(r.wish.status, rows[u].status), !.todo = todo]
             s == AfterDiscovery(q)
  <2>0. u \in Customer /\ rows[u] # NoRow /\ u # None
    BY Nones DEF Named, Stored
  <2>1. rows[u].status \in Statuses /\ rows[u].attributes \in Attributes
    BY <2>0, TypesNow, RowFields
  <2>2. /\ Or(r.wish.status, rows[u].status) \in Statuses
        /\ Merge(rows[u].attributes, r.wish.attributes) \in Attributes
    BY <1>5, <2>1, OrTyped, MergeTyped
  <2>3. q \in Handlers
    BY <1>1, <1>4, <2>0, <2>2 DEF Handlers
  <2>4. /\ q.wish = r.wish /\ q.set = r.set /\ q.customer = u /\ q.before = NoAttributes
        /\ q.attributes = Merge(rows[u].attributes, r.wish.attributes)
        /\ q.status = Or(r.wish.status, rows[u].status) /\ q.todo = todo
    BY <1>1, <1>2 DEF Handlers
  <2> HIDE DEF q
  <2>5. /\ s \in Handlers /\ s.wish = r.wish /\ s.set = r.set /\ s.customer = u
        /\ s.attributes = Merge(rows[u].attributes, r.wish.attributes)
        /\ s.status = Or(r.wish.status, rows[u].status) /\ s.todo = todo
        /\ s.pc = IF todo # {} THEN "discover" ELSE "reread"
    BY <2>0, <2>3, <2>4, DiscoveryEnds
  <2>6. Goto(h, s)
    BY <1>8 DEF q
  <2> HIDE DEF s
  <2>7. Placed(s, rows)
    BY <1>2, <2>0, <2>2, <2>5 DEF Placed, MergedInto
  <2>8. Discovers(s, defs, withdrawn) /\ Validated(s, defs, retyped)
    BY <1>4, <2>5 DEF Discovers, Validated
  <2>9. Steady(s, rows, defs', withdrawn, retyped)
    BY <1>3, <2>7, <2>8 DEF Steady
  <2>10. Announces(s, rows, muddled)
    BY <2>5 DEF Announces
  <2> QED BY <1>1, <1>3, <2>5, <2>6, <2>9, <2>10, NothingDevelops, TypesNow, AdvanceKeeps
<1> QED BY <1>6, <1>7, <1>8

LEMMA ReadDefinitionKeeps ==
  ASSUME CustomersInv, NEW h \in Handler, NEW k \in Key, ReadDefinition(h, k)
  PROVE CustomersInv'
<1> DEFINE r == handlers[h]
           d == Seeded(defs)
<1>1. r \in Handlers /\ Steady(r, rows, defs, withdrawn, retyped) /\ r.pc = "discover"
  BY TypesNow DEF CustomersInv, ReadDefinition, At
<1>2. /\ k \in r.todo /\ defs' = d /\ UNCHANGED <<staff, stored>>
      /\ Goto(h, IF d[k].status = "active" THEN Discovered(r, k)
                 ELSE [r EXCEPT !.pc = "define", !.key = k, !.saw = d[k].status])
  BY DEF ReadDefinition
<1>3. d \in Table /\ Develop(defs, withdrawn, retyped, d, withdrawn, retyped)
  BY TypesNow, SeededDevelops
<1>d. Stands(d, withdrawn)
  BY <1>3, StandsKept DEF CustomersInv
<1> HIDE DEF d
<1>4. Steady(r, rows, d, withdrawn, retyped)
  <2>1. r.customer # None => rows[r.customer] # NoRow
    BY <1>1 DEF Steady, Placed
  <2> QED BY <1>1, <1>3, <2>1, SteadyKept
<1>5. r.wish.op = "ingest" /\ r.todo \subseteq KeysOf(r.wish.attributes)
  BY <1>1 DEF Steady, Placed, Discovers
<1>6. CASE d[k].status = "active"
  <2> DEFINE q == [r EXCEPT !.todo = r.todo \ {k}]
             s == AfterDiscovery(q)
  <2>1. q \in Handlers
    BY <1>1 DEF Handlers
  <2>2. /\ q.wish = r.wish /\ q.set = r.set /\ q.customer = r.customer /\ q.before = r.before
        /\ q.attributes = r.attributes /\ q.status = r.status /\ q.todo = r.todo \ {k}
        /\ q.fresh = r.fresh
    BY <1>1 DEF Handlers
  <2> HIDE DEF q
  <2>3. /\ s \in Handlers /\ s.wish = r.wish /\ s.set = r.set /\ s.customer = r.customer
        /\ s.before = r.before /\ s.attributes = r.attributes /\ s.status = r.status
        /\ s.todo = r.todo \ {k} /\ s.fresh = r.fresh
        /\ s.pc \in {"discover", "validate", "reread"}
        /\ s.pc # "discover" => s.todo = {}
        /\ s.pc = "reread" => s.customer # None
        /\ s.pc = "validate" => s.customer = None
    BY <2>1, <2>2, DiscoveryEnds
  <2>4. Goto(h, s)
    BY <1>2, <1>6 DEF q, Discovered
  <2> HIDE DEF s
  <2>5. Placed(s, rows)
    <3>1. r.customer # None /\ MergedInto(r, rows[r.customer]) => MergedInto(s, rows[s.customer])
      BY <1>1, <2>3 DEF MergedInto
    <3>2. Inserts(r) => Inserts(s)
      BY <2>3 DEF Inserts
    <3> QED BY <1>1, <1>5, <2>3, <3>1, <3>2 DEF Steady, Placed
  <2>6. Discovers(s, d, withdrawn)
    <3>1. Settled(k, d, withdrawn)
      BY <1>6 DEF Settled, Undefined
    <3> QED BY <1>1, <1>4, <1>5, <2>3, <3>1 DEF Steady, Discovers
  <2>7. Steady(s, rows, defs', withdrawn, retyped)
    BY <1>2, <2>3, <2>5, <2>6 DEF Steady, Validated
  <2>8. Announces(s, rows, muddled)
    BY <2>3, Nones DEF Announces
  <2> QED BY <1>1, <1>2, <1>3, <2>3, <2>4, <2>7, <2>8, AdvanceKeeps
<1>7. CASE d[k].status # "active"
  <2> DEFINE s == [r EXCEPT !.pc = "define", !.key = k, !.saw = d[k].status]
  <2>1. /\ d[k].status \in {"none", "archived"}
        /\ d[k].status = "archived" => d[k] # Undefined
        /\ d[k].status = "none" => Defined[k] = Undefined
    <3>1. d[k] \in Definitions => d[k].status = "archived" /\ d[k] # Undefined
      BY <1>7, UndefinedIsNone
    <3>2. d[k] = Undefined => d[k].status = "none" /\ Defined[k] = Undefined
      BY <1>d DEF Undefined, Stands
    <3> QED BY <1>3, <3>1, <3>2 DEF Table, Undefined
  <2>2. s \in Handlers
    BY <1>1, <2>1 DEF Handlers
  <2>3. /\ s.wish = r.wish /\ s.set = r.set /\ s.customer = r.customer
        /\ s.before = r.before /\ s.attributes = r.attributes /\ s.status = r.status
        /\ s.todo = r.todo /\ s.fresh = r.fresh
        /\ s.pc = "define" /\ s.key = k /\ s.saw = d[k].status
    BY <1>1 DEF Handlers
  <2>4. Goto(h, s)
    BY <1>2, <1>7
  <2> HIDE DEF s
  <2>5. Placed(s, rows)
    <3>1. r.customer # None /\ MergedInto(r, rows[r.customer]) => MergedInto(s, rows[s.customer])
      BY <1>1, <2>3 DEF MergedInto
    <3>2. Inserts(r) => Inserts(s)
      BY <2>3 DEF Inserts
    <3> QED BY <1>1, <1>5, <2>3, <3>1, <3>2 DEF Steady, Placed
  <2>6. Discovers(s, d, withdrawn)
    BY <1>1, <1>2, <1>4, <1>5, <2>1, <2>3 DEF Steady, Discovers
  <2>7. Steady(s, rows, defs', withdrawn, retyped)
    BY <1>2, <2>3, <2>5, <2>6 DEF Steady, Validated
  <2>8. Announces(s, rows, muddled)
    BY <2>3 DEF Announces
  <2> QED BY <1>1, <1>2, <1>3, <2>2, <2>4, <2>7, <2>8, AdvanceKeeps
<1> QED BY <1>6, <1>7

LEMMA DefineKeeps ==
  ASSUME CustomersInv, NEW h \in Handler, Define(h)
  PROVE CustomersInv'
<1> DEFINE r == handlers[h]
           k == r.key
           e == [type |-> InferType(r.wish.attributes[k]), status |-> "active",
                 required |-> FALSE, options |-> {}]
           d == defs'
<1>1. r \in Handlers /\ Steady(r, rows, defs, withdrawn, retyped) /\ r.pc = "define"
  BY TypesNow DEF CustomersInv, Define, At
<1>2. /\ d = IF r.saw = "archived" THEN [defs EXCEPT ![k].status = "active"]
             ELSE IF defs[k] # Undefined THEN defs
             ELSE [defs EXCEPT ![k] = e]
      /\ Goto(h, Discovered(r, k)) /\ UNCHANGED <<staff, stored>>
  BY DEF Define
<1>3. /\ r.wish.op = "ingest" /\ r.todo \subseteq KeysOf(r.wish.attributes) /\ k \in r.todo
      /\ k \in Key
      /\ r.saw = "archived" => defs[k] # Undefined
      /\ r.saw # "archived" => Defined[k] = Undefined
  BY <1>1, RequestFields DEF Steady, Placed, Discovers, KeysOf
<1>4. /\ d \in Table /\ Develop(defs, withdrawn, retyped, d, withdrawn, retyped)
      /\ Settled(k, d, withdrawn)
  <2>1. CASE r.saw = "archived"
    <3> DEFINE new == [defs[k] EXCEPT !.status = "active"]
    <3>1. defs[k] \in Definitions
      BY <1>3, <2>1, TypesNow DEF Table
    <3>2. new \in Definitions /\ new.type = defs[k].type /\ new.options = defs[k].options
          /\ new.status = "active"
      BY <3>1 DEF Definitions
    <3>3. d = [defs EXCEPT ![k] = new]
      BY <1>2, <2>1
    <3> HIDE DEF new
    <3>4. new # Undefined
      BY <3>2, UndefinedIsNone
    <3>5. d \in Table /\ \A x \in Key : d[x] = IF x = k THEN new ELSE defs[x]
      BY <3>2, <3>3, TypesNow DEF Table
    <3> HIDE DEF d
    <3> QED BY <1>3, <3>2, <3>4, <3>5 DEF Develop, Settled
  <2>2. CASE r.saw # "archived" /\ defs[k] # Undefined
    <3>1. d = defs
      BY <1>2, <2>2
    <3>2. Settled(k, defs, withdrawn)
      BY <1>3, <2>2 DEF CustomersInv, Stands
    <3> QED BY <3>1, <3>2, TypesNow, NothingDevelops
  <2>3. CASE r.saw # "archived" /\ defs[k] = Undefined
    <3>1. InferType(r.wish.attributes[k]) \in Types
      BY DEF InferType, Types
    <3>2. e \in Definitions /\ e # Undefined /\ e.status = "active"
      BY <3>1 DEF Definitions, Undefined
    <3>3. d = [defs EXCEPT ![k] = e]
      BY <1>2, <2>3
    <3> HIDE DEF e
    <3>4. d \in Table /\ \A x \in Key : d[x] = IF x = k THEN e ELSE defs[x]
      BY <3>2, <3>3, TypesNow DEF Table
    <3> HIDE DEF d
    <3> QED BY <1>3, <2>3, <3>2, <3>4 DEF Develop, Settled
  <2> QED BY <2>1, <2>2, <2>3
<1> HIDE DEF e
<1>5. Steady(r, rows, d, withdrawn, retyped)
  <2>1. r.customer # None => rows[r.customer] # NoRow
    BY <1>1 DEF Steady, Placed
  <2> QED BY <1>1, <1>4, <2>1, SteadyKept
<1> DEFINE q == [r EXCEPT !.todo = r.todo \ {k}]
           s == AfterDiscovery(q)
<1>6. q \in Handlers
  BY <1>1 DEF Handlers
<1>7. /\ q.wish = r.wish /\ q.set = r.set /\ q.customer = r.customer /\ q.before = r.before
      /\ q.attributes = r.attributes /\ q.status = r.status /\ q.todo = r.todo \ {k}
      /\ q.fresh = r.fresh
  BY <1>1 DEF Handlers
<1> HIDE DEF q
<1>8. /\ s \in Handlers /\ s.wish = r.wish /\ s.set = r.set /\ s.customer = r.customer
      /\ s.before = r.before /\ s.attributes = r.attributes /\ s.status = r.status
      /\ s.todo = r.todo \ {k} /\ s.fresh = r.fresh
      /\ s.pc \in {"discover", "validate", "reread"}
      /\ s.pc # "discover" => s.todo = {}
      /\ s.pc = "reread" => s.customer # None
      /\ s.pc = "validate" => s.customer = None
  BY <1>6, <1>7, DiscoveryEnds
<1>9. Goto(h, s)
  BY <1>2 DEF q, Discovered
<1> HIDE DEF s
<1>10. Placed(s, rows)
  <2>1. r.customer # None /\ MergedInto(r, rows[r.customer]) => MergedInto(s, rows[s.customer])
    BY <1>1, <1>8 DEF MergedInto
  <2>2. Inserts(r) => Inserts(s)
    BY <1>8 DEF Inserts
  <2> QED BY <1>1, <1>3, <1>8, <2>1, <2>2 DEF Steady, Placed
<1>11. Discovers(s, d, withdrawn)
  BY <1>1, <1>4, <1>3, <1>5, <1>8 DEF Steady, Discovers
<1>12. Steady(s, rows, d, withdrawn, retyped)
  BY <1>8, <1>10, <1>11 DEF Steady, Validated
<1>13. Announces(s, rows, muddled)
  BY <1>8, Nones DEF Announces
<1> QED BY <1>1, <1>2, <1>4, <1>8, <1>9, <1>12, <1>13, AdvanceKeeps

LEMMA RereadKeeps ==
  ASSUME CustomersInv, NEW h \in Handler, Reread(h)
  PROVE CustomersInv'
<1> DEFINE r == handlers[h]
           pc == IF r.wish.op = "ingest" \/ r.wish.sends THEN "validate" ELSE "write"
           s == [r EXCEPT !.before = rows[r.customer].attributes, !.pc = pc]
<1>1. r \in Handlers /\ Steady(r, rows, defs, withdrawn, retyped) /\ r.pc = "reread"
  BY TypesNow DEF CustomersInv, Reread, At
<1>2. Goto(h, s) /\ UNCHANGED <<staff, stored>> /\ defs' = defs
  BY DEF Reread
<1>3. r.customer # None /\ r.customer \in Customer /\ rows[r.customer] # NoRow
      /\ MergedInto(r, rows[r.customer]) /\ r.wish.op \in {"ingest", "update"}
  BY <1>1, RequestFields DEF Steady, Placed, MergedInto
<1>4. rows[r.customer].attributes \in Attributes
  BY <1>3, TypesNow, RowFields
<1>5. s \in Handlers
  BY <1>1, <1>4, ZenonT(60) DEF Handlers
<1>6. /\ s.wish = r.wish /\ s.set = r.set /\ s.customer = r.customer
      /\ s.before = rows[r.customer].attributes /\ s.attributes = r.attributes
      /\ s.status = r.status /\ s.todo = r.todo /\ s.fresh = r.fresh /\ s.pc = pc
  BY <1>1 DEF Handlers
<1> HIDE DEF s
<1>7. Placed(s, rows)
  <2>1. MergedInto(s, rows[s.customer])
    BY <1>1, <1>3, <1>6 DEF MergedInto
  <2> QED BY <1>3, <1>6, <2>1 DEF Placed
<1>8. Discovers(s, defs, withdrawn)
  BY <1>1, <1>6 DEF Steady, Discovers
<1>9. Validated(s, defs, retyped)
  BY <1>3, <1>6 DEF Validated, Sets
<1>10. Steady(s, rows, defs', withdrawn, retyped)
  BY <1>2, <1>7, <1>8, <1>9 DEF Steady
<1>11. Announces(s, rows, muddled)
  BY <1>6 DEF Announces
<1> QED BY <1>1, <1>2, <1>5, <1>10, <1>11, NothingDevelops, TypesNow, AdvanceKeeps

LEMMA ValidateKeeps ==
  ASSUME CustomersInv, NEW h \in Handler, Validate(h)
  PROVE CustomersInv'
<1> DEFINE r == handlers[h]
           d == Seeded(defs)
           s == [r EXCEPT !.pc = "write"]
<1>1. r \in Handlers /\ Steady(r, rows, defs, withdrawn, retyped) /\ r.pc = "validate"
  BY TypesNow DEF CustomersInv, Validate, At
<1>2. /\ defs' = d /\ UNCHANGED <<staff, stored>>
      /\ IF Admits(d, r.attributes, r.wish.op # "ingest") THEN Goto(h, s) ELSE Refuse(h)
  BY DEF Validate
<1>3. d \in Table /\ Develop(defs, withdrawn, retyped, d, withdrawn, retyped)
  BY TypesNow, SeededDevelops
<1> HIDE DEF d
<1>4. CASE ~ Admits(d, r.attributes, r.wish.op # "ingest")
  BY <1>1, <1>2, <1>3, <1>4, RefuseKeeps
<1>5. CASE Admits(d, r.attributes, r.wish.op # "ingest")
  <2>1. Fitting(r.attributes, d, retyped)
    BY <1>5 DEF Admits, Fitting, Undefined
  <2>2. s \in Handlers
    BY <1>1 DEF Handlers
  <2>3. /\ s.wish = r.wish /\ s.set = r.set /\ s.customer = r.customer
        /\ s.before = r.before /\ s.attributes = r.attributes /\ s.status = r.status
        /\ s.todo = r.todo /\ s.fresh = r.fresh /\ s.pc = "write"
    BY <1>1 DEF Handlers
  <2>4. Goto(h, s)
    BY <1>2, <1>5
  <2> HIDE DEF s
  <2>5. Placed(s, rows)
    <3>1. r.customer # None /\ MergedInto(r, rows[r.customer]) => MergedInto(s, rows[s.customer])
      BY <1>1, <2>3 DEF MergedInto
    <3>2. Inserts(r) => Inserts(s)
      BY <2>3 DEF Inserts
    <3> QED BY <1>1, <2>3, <3>1, <3>2 DEF Steady, Placed
  <2>6. Discovers(s, d, withdrawn) /\ Validated(s, d, retyped)
    BY <1>1, <2>1, <2>3 DEF Steady, Discovers, Validated
  <2>7. Steady(s, rows, defs', withdrawn, retyped)
    BY <1>2, <2>5, <2>6 DEF Steady
  <2>8. Announces(r, rows, muddled)
    BY DEF CustomersInv, Told
  <2>9. Announces(s, rows, muddled)
    BY <1>1, <2>3, <2>8 DEF Announces
  <2> QED BY <1>1, <1>2, <1>3, <2>2, <2>4, <2>7, <2>9, AdvanceKeeps
<1> QED BY <1>4, <1>5
---------------------------------------------------------------------------
(* Steps that write a customer *)

LEMMA Overtaken ==
  ASSUME CustomersInv, NEW h \in Handler, NEW u, NEW s \in Handlers, Overtake(h, u, s)
  PROVE /\ handlers' \in [Handler -> Handlers] /\ handlers'[h] = s
        /\ \A g \in Handler \ {h} :
              \/ handlers'[g] = handlers[g] /\ handlers[g].customer # u
              \/ /\ handlers'[g] = [handlers[g] EXCEPT !.fresh = FALSE]
                 /\ handlers[g].customer = u
<1>1. \A q \in Handlers : [q EXCEPT !.fresh = FALSE] \in Handlers
  BY DEF Handlers
<1>2. \A g \in Handler : handlers[g] \in Handlers /\ [handlers[g] EXCEPT !.fresh = FALSE] \in Handlers
  BY <1>1, TypesNow
<1> QED BY <1>2 DEF Overtake

(* What is said of another request. *)
LEMMA OthersKnow ==
  ASSUME NEW r \in Handlers, NEW s, s = r \/ s = [r EXCEPT !.fresh = FALSE]
  PROVE /\ s.pc = r.pc /\ s.wish = r.wish /\ s.customer = r.customer
        /\ s.attributes = r.attributes /\ s.before = r.before
        /\ s # r => ~ s.fresh
BY DEF Handlers

LEMMA WriteStep ==
  ASSUME CustomersInv, NEW h \in Handler, NEW u \in Customer, NEW row \in Rows,
         rows' = [rows EXCEPT ![u] = row],
         handlers' \in [Handler -> Handlers],
         \A g \in Handler \ {h} :
              \/ handlers'[g] = handlers[g] /\ handlers[g].customer # u
              \/ /\ handlers'[g] = [handlers[g] EXCEPT !.fresh = FALSE]
                 /\ handlers[g].customer = u,
         UNCHANGED <<defs, staff>>,
         Steady(handlers'[h], rows', defs, withdrawn, retyped),
         Fitting(row.attributes, defs, retyped),
         heard' = heard, crossed' \subseteq Customer, muddled' \subseteq Customer,
         asked' \in [Customer -> [status : Statuses \cup {"none"}, attributes : Attributes]],
         RowsAreAsAsked',
         Told(rows', heard', handlers', muddled')
  PROVE CustomersInv'
<1>1. /\ rows' \in [Customer -> Rows \cup {NoRow}] /\ row # NoRow
      /\ \A x \in Customer : rows'[x] = IF x = u THEN row ELSE rows[x]
  BY TypesNow, RowIsARow
<1>2. CountsTyped' /\ defs' \in Table /\ defs' = defs /\ withdrawn' = withdrawn /\ retyped' = retyped
  BY TypesNow DEF CountsTyped, staff
<1>3. TypeOK'
  BY <1>1, <1>2, TypesNow DEF TypeOK, CountsTyped, Table
<1>4. Stands(defs', withdrawn')
  BY <1>2 DEF CustomersInv
<1>5. ASSUME NEW g \in Handler PROVE Steady(handlers'[g], rows', defs', withdrawn', retyped')
  <2>1. CASE g = h
    BY <1>2, <2>1
  <2>2. CASE g # h
    <3> DEFINE r == handlers[g]
               s == handlers'[g]
    <3>1. r \in Handlers /\ Steady(r, rows, defs, withdrawn, retyped)
      BY TypesNow DEF CustomersInv
    <3>2. r.customer # None => rows[r.customer] # NoRow /\ r.customer \in Customer
      BY <3>1, RequestFields DEF Steady, Placed
    <3>3. s = r \/ s = [r EXCEPT !.fresh = FALSE]
      BY <2>2
    <3>4. s.fresh => r.customer # u
      BY <2>2, <3>1, <3>3, OthersKnow DEF Handlers
    <3>5. r.customer # None =>
            /\ rows'[r.customer] # NoRow
            /\ s.fresh => rows'[r.customer] = rows[r.customer]
      BY <1>1, <3>2, <3>4
    <3> HIDE DEF r, s
    <3>6. Steady(s, rows', defs, withdrawn, retyped)
      BY <3>1, <3>3, <3>5, SteadyKept, NothingDevelops
    <3> QED BY <1>2, <3>6 DEF s
  <2> QED BY <2>1, <2>2
<1>6. ASSUME NEW x \in Customer, rows'[x] # NoRow
      PROVE Fitting(rows'[x].attributes, defs', retyped')
  BY <1>1, <1>2, <1>6 DEF CustomersInv, Stored
<1> QED BY <1>3, <1>4, <1>5, <1>6 DEF CustomersInv, Stored

LEMMA InsertKeeps ==
  ASSUME CustomersInv, NEW h \in Handler, Insert(h)
  PROVE CustomersInv'
<1> DEFINE r == handlers[h]
           row == [external |-> r.wish.external, email |-> r.wish.email,
                   status |-> r.status, attributes |-> r.attributes]
           told == [status |-> Or(r.wish.status, "active"), attributes |-> r.wish.attributes]
<1>1. r \in Handlers /\ Steady(r, rows, defs, withdrawn, retyped) /\ r.pc = "write"
      /\ r.customer = None /\ UNCHANGED <<defs, staff>>
  BY TypesNow, ZenonT(60) DEF CustomersInv, Insert, At
<1>2. CASE Refuse(h) /\ UNCHANGED stored
  <2>1. Develop(defs, withdrawn, retyped, defs', withdrawn, retyped) /\ defs' \in Table
    BY <1>1, NothingDevelops, TypesNow
  <2> QED BY <1>1, <1>2, <2>1, RefuseKeeps
<1>3. ASSUME NEW u \in Customer \ Stored,
             rows' = [rows EXCEPT ![u] = row], asked' = [asked EXCEPT ![u] = told],
             Goto(h, [r EXCEPT !.pc = "announce", !.customer = u]),
             UNCHANGED <<heard, crossed, muddled>>
      PROVE CustomersInv'
  <2> DEFINE s == [r EXCEPT !.pc = "announce", !.customer = u]
  <2>1. Inserts(r) /\ Fitting(r.attributes, defs, retyped) /\ r.todo \subseteq KeysOf(r.wish.attributes)
    BY <1>1 DEF Steady, Placed, Validated, Discovers
  <2>2. r.wish \in Wishes /\ r.attributes \in Attributes
    BY <1>1, RequestFields
  <2>3. r.status = Or(r.wish.status, "active") /\ r.status \in Statuses
    BY <2>1, <2>2, WishFields, Nones DEF Inserts, Or
  <2>4. row \in Rows /\ row.attributes = r.attributes /\ row.status = r.status
    BY <2>2, <2>3, WishFields DEF Rows
  <2>5. told \in [status : Statuses \cup {"none"}, attributes : Attributes]
        /\ told.attributes = row.attributes /\ told.status = row.status
    BY <2>1, <2>2, <2>3, WishFields DEF Inserts
  <2> HIDE DEF row, told
  <2>6. asked' \in [Customer -> [status : Statuses \cup {"none"}, attributes : Attributes]]
        /\ \A x \in Customer : asked'[x] = IF x = u THEN told ELSE asked[x]
    BY <1>3, <2>5, TypesNow
  <2>7. s \in Handlers
    BY <1>1 DEF Handlers
  <2>8. /\ s.wish = r.wish /\ s.set = r.set /\ s.customer = u /\ s.before = NoAttributes
        /\ s.attributes = r.attributes /\ s.todo = r.todo /\ s.pc = "announce"
    BY <1>1, <2>1 DEF Handlers, Inserts
  <2>9. handlers' = [handlers EXCEPT ![h] = s]
    BY <1>3 DEF Goto
  <2> HIDE DEF s
  <2>10. handlers' \in [Handler -> Handlers]
         /\ \A g \in Handler : handlers'[g] = IF g = h THEN s ELSE handlers[g]
    BY <2>7, <2>9, TypesNow
  <2>11. rows[u] = NoRow /\ row # NoRow
         /\ \A x \in Customer : rows'[x] = IF x = u THEN row ELSE rows[x]
    BY <1>3, <2>4, TypesNow, RowIsARow DEF Stored
  <2>12. \A g \in Handler : handlers[g].customer # u
    <3> SUFFICES ASSUME NEW g \in Handler PROVE handlers[g].customer # u
      OBVIOUS
    <3>1. Placed(handlers[g], rows)
      BY DEF CustomersInv, Steady
    <3>2. u # None
      BY Nones
    <3> QED BY <2>11, <3>1, <3>2 DEF Placed
  <2>13. Steady(s, rows', defs, withdrawn, retyped)
    BY <2>1, <2>8, <2>11, Nones DEF Steady, Placed, Discovers, Validated
  <2>14. RowsAreAsAsked'
    BY <1>3, <2>5, <2>6, <2>11 DEF CustomersInv, RowsAreAsAsked, Stored
  <2>15. Told(rows', heard', handlers', muddled')
    <3>1. ASSUME NEW g \in Handler PROVE Announces(handlers'[g], rows', muddled')
      <4>1. CASE g = h
        BY <2>4, <2>8, <2>10, <2>11, <4>1 DEF Announces
      <4>2. CASE g # h
        <5>1. Announces(handlers[g], rows, muddled)
          BY DEF CustomersInv, Told
        <5> QED BY <1>3, <2>10, <2>11, <2>12, <4>2, <5>1 DEF Announces
      <4> QED BY <4>1, <4>2
    <3>2. ASSUME NEW x \in Customer \ muddled, rows'[x] # NoRow
          PROVE HeardOrPending(x, rows', heard', handlers')
      <4>1. CASE x = u
        <5>1. heard[u] = NoAttributes
          BY <2>11 DEF CustomersInv, Told
        <5>2. \A k \in Key : Alike(heard[u][k], rows'[u].attributes[k])
                             \/ k \in Changed(s.before, s.attributes)
          BY <2>4, <2>8, <2>11, <5>1 DEF Changed
        <5> QED BY <1>3, <2>8, <2>10, <4>1, <5>2 DEF HeardOrPending
      <4>2. CASE x # u
        <5>1. HeardOrPending(x, rows, heard, handlers)
          BY <2>11, <3>2, <4>2 DEF CustomersInv, Told
        <5>2. \A g \in Handler : handlers[g].pc = "announce" => g # h
          BY <1>1
        <5> QED BY <1>3, <2>10, <2>11, <4>2, <5>1, <5>2 DEF HeardOrPending
      <4> QED BY <4>1, <4>2
    <3>3. \A x \in Customer : rows'[x] = NoRow => heard'[x] = NoAttributes
      BY <1>3, <2>11 DEF CustomersInv, Told
    <3> QED BY <1>3, <3>1, <3>2, <3>3 DEF Told
  <2>16. Fitting(row.attributes, defs, retyped)
    BY <2>1, <2>4
  <2>17. crossed' \subseteq Customer /\ muddled' \subseteq Customer
    BY <1>3, TypesNow
  <2>18. \A g \in Handler \ {h} :
            \/ handlers'[g] = handlers[g] /\ handlers[g].customer # u
            \/ /\ handlers'[g] = [handlers[g] EXCEPT !.fresh = FALSE]
               /\ handlers[g].customer = u
    BY <2>10, <2>12
  <2>19. Steady(handlers'[h], rows', defs, withdrawn, retyped)
    BY <2>10, <2>13
  <2>20. /\ u \in Customer /\ heard' = heard /\ row \in Rows
         /\ handlers' \in [Handler -> Handlers] /\ rows' = [rows EXCEPT ![u] = row]
         /\ asked' \in [Customer -> [status : Statuses \cup {"none"}, attributes : Attributes]]
    BY <1>3, <2>4, <2>6, <2>10
  <2> QED
    BY <1>1, <2>14, <2>15, <2>16, <2>17, <2>18, <2>19, <2>20, WriteStep, ZenonT(60)
<1> QED BY <1>1, <1>2, <1>3 DEF Insert

(* Of the other customers the triggers are told as before. *)
LEMMA OthersTold ==
  ASSUME CustomersInv, NEW h \in Handler, NEW u \in Customer, NEW row \in Rows,
         rows' = [rows EXCEPT ![u] = row], heard' = heard, muddled \subseteq muddled',
         handlers[h].customer = u,
         handlers'[h].customer \in {u, None},
         \A g \in Handler \ {h} :
              \/ handlers'[g] = handlers[g] /\ handlers[g].customer # u
              \/ /\ handlers'[g] = [handlers[g] EXCEPT !.fresh = FALSE]
                 /\ handlers[g].customer = u,
         \A g \in Handler : handlers[g].customer = u => Announces(handlers'[g], rows', muddled'),
         u \notin muddled' => HeardOrPending(u, rows', heard', handlers'),
         rows[u] # NoRow
  PROVE Told(rows', heard', handlers', muddled')
<1>1. /\ row # NoRow
      /\ \A x \in Customer : rows'[x] = IF x = u THEN row ELSE rows[x]
      /\ \A g \in Handler : handlers[g] \in Handlers
  BY TypesNow, RowIsARow
<1>2. ASSUME NEW g \in Handler PROVE Announces(handlers'[g], rows', muddled')
  <2>1. CASE handlers[g].customer = u
    BY <2>1
  <2>2. CASE handlers[g].customer # u
    <3>1. Announces(handlers[g], rows, muddled)
      BY DEF CustomersInv, Told
    <3>2. handlers'[g] = handlers[g]
      BY <2>2
    <3> QED BY <1>1, <2>2, <3>1, <3>2 DEF Announces
  <2> QED BY <2>1, <2>2
<1>3. ASSUME NEW x \in Customer \ muddled', rows'[x] # NoRow
      PROVE HeardOrPending(x, rows', heard', handlers')
  <2>1. CASE x = u
    BY <2>1
  <2>2. CASE x # u
    <3>1. HeardOrPending(x, rows, heard, handlers)
      BY <1>1, <1>3, <2>2 DEF CustomersInv, Told
    <3>2. \A g \in Handler : handlers[g].customer = x => handlers'[g] = handlers[g]
      BY <2>2
    <3> QED BY <1>1, <2>2, <3>1, <3>2 DEF HeardOrPending
  <2> QED BY <2>1, <2>2
<1>4. \A x \in Customer : rows'[x] = NoRow => heard'[x] = NoAttributes
  BY <1>1 DEF CustomersInv, Told
<1> QED BY <1>2, <1>3, <1>4 DEF Told

LEMMA UpdateKeeps ==
  ASSUME CustomersInv, NEW h \in Handler, Update(h)
  PROVE CustomersInv'
<1> DEFINE r == handlers[h]
           u == r.customer
           row == [external |-> Or(r.wish.external, rows[u].external),
                   email |-> Or(r.wish.email, rows[u].email),
                   status |-> Or(r.status, rows[u].status),
                   attributes |-> IF Sets(r) THEN r.attributes ELSE rows[u].attributes]
           s == [r EXCEPT !.pc = "announce", !.attributes = row.attributes]
           told == Serially(asked[u], r.wish)
<1>1. /\ r \in Handlers /\ Steady(r, rows, defs, withdrawn, retyped) /\ r.pc = "write"
      /\ u # None /\ r.wish.op \in {"ingest", "update"} /\ UNCHANGED <<defs, staff>>
  BY TypesNow DEF CustomersInv, Update, At
<1>2. \/ Refuse(h) /\ UNCHANGED stored
      \/ /\ rows' = [rows EXCEPT ![u] = row]
         /\ asked' = [asked EXCEPT ![u] = told]
         /\ crossed' = IF r.wish.op = "ingest" /\ ~r.fresh THEN crossed \cup {u} ELSE crossed
         /\ muddled' = IF Sets(r) /\ Announcing(h, u) THEN muddled \cup {u} ELSE muddled
         /\ Overtake(h, u, s)
         /\ UNCHANGED heard
  BY DEF Update
<1>3. CASE Refuse(h) /\ UNCHANGED stored
  <2>1. Develop(defs, withdrawn, retyped, defs', withdrawn, retyped) /\ defs' \in Table
    BY <1>1, NothingDevelops, TypesNow
  <2> QED BY <1>1, <1>3, <2>1, RefuseKeeps
<1>4. CASE /\ rows' = [rows EXCEPT ![u] = row]
           /\ asked' = [asked EXCEPT ![u] = told]
           /\ crossed' = IF r.wish.op = "ingest" /\ ~r.fresh THEN crossed \cup {u} ELSE crossed
           /\ muddled' = IF Sets(r) /\ Announcing(h, u) THEN muddled \cup {u} ELSE muddled
           /\ Overtake(h, u, s)
           /\ UNCHANGED heard
  <2>1. /\ u \in Customer /\ rows[u] # NoRow /\ r.wish \in Wishes /\ r.attributes \in Attributes
        /\ r.status \in Statuses \cup {None} /\ r.before \in Attributes
    BY <1>1, RequestFields DEF Steady, Placed
  <2>2. MergedInto(r, rows[u]) /\ r.todo \subseteq KeysOf(r.wish.attributes)
        /\ (Sets(r) => Fitting(r.attributes, defs, retyped))
    BY <1>1 DEF Steady, Placed, Discovers, Validated
  <2>3. /\ rows[u].external \in External \cup {None} /\ rows[u].email \in Email \cup {None}
        /\ rows[u].status \in Statuses /\ rows[u].attributes \in Attributes
    BY <2>1, TypesNow, RowFields
  <2>4. row \in Rows
    <3>1. /\ Or(r.wish.external, rows[u].external) \in External \cup {None}
          /\ Or(r.wish.email, rows[u].email) \in Email \cup {None}
          /\ Or(r.status, rows[u].status) \in Statuses
      BY <2>1, <2>3, WishFields DEF Or
    <3> QED BY <2>1, <2>3, <3>1 DEF Rows
  <2>5. /\ row.status = Or(r.status, rows[u].status)
        /\ Sets(r) => row.attributes = r.attributes
        /\ ~ Sets(r) => row.attributes = rows[u].attributes
        /\ row.attributes \in Attributes
    BY <2>1, <2>3
  <2> HIDE DEF row
  <2>6. s \in Handlers
    BY <1>1, <2>5 DEF Handlers
  <2>7. /\ s.wish = r.wish /\ s.set = r.set /\ s.customer = u /\ s.before = r.before
        /\ s.attributes = row.attributes /\ s.todo = r.todo /\ s.pc = "announce"
    BY <1>1 DEF Handlers
  <2> HIDE DEF s
  <2>8. row # NoRow /\ \A x \in Customer : rows'[x] = IF x = u THEN row ELSE rows[x]
    BY <1>4, <2>4, TypesNow, RowIsARow
  <2>9. /\ handlers' \in [Handler -> Handlers] /\ handlers'[h] = s
        /\ \A g \in Handler \ {h} :
              \/ handlers'[g] = handlers[g] /\ handlers[g].customer # u
              \/ /\ handlers'[g] = [handlers[g] EXCEPT !.fresh = FALSE]
                 /\ handlers[g].customer = u
    BY <1>4, <2>6, Overtaken
  <2>10. Steady(handlers'[h], rows', defs, withdrawn, retyped)
    BY <2>1, <2>2, <2>7, <2>8, <2>9 DEF Steady, Placed, Discovers, Validated
  <2>11. Fitting(row.attributes, defs, retyped)
    BY <2>1, <2>2, <2>5 DEF CustomersInv, Stored
  <2>12. /\ told.status = Or(r.wish.status, asked[u].status)
         /\ r.wish.op = "ingest" => told.attributes = Merge(asked[u].attributes, r.wish.attributes)
         /\ r.wish.op = "update" /\ r.wish.sends => told.attributes = r.wish.attributes
         /\ r.wish.op = "update" /\ ~ r.wish.sends => told.attributes = asked[u].attributes
         /\ told \in [status : Statuses \cup {"none"}, attributes : Attributes]
    <3>1. asked[u].status \in Statuses \cup {"none"} /\ asked[u].attributes \in Attributes
      BY <2>1, TypesNow
    <3>2. Or(r.wish.status, asked[u].status) \in Statuses \cup {"none"}
      BY <2>1, <3>1, WishFields DEF Or
    <3>3. Merge(asked[u].attributes, r.wish.attributes) \in Attributes
          /\ r.wish.attributes \in Attributes
      BY <2>1, <3>1, WishFields, MergeTyped
    <3> QED BY <1>1, <3>1, <3>2, <3>3 DEF Serially
  <2> HIDE DEF told
  <2>13. asked' \in [Customer -> [status : Statuses \cup {"none"}, attributes : Attributes]]
         /\ \A x \in Customer : asked'[x] = IF x = u THEN told ELSE asked[x]
    BY <1>4, <2>12, TypesNow
  <2>14. RowsAreAsAsked'
    <3> SUFFICES ASSUME NEW x \in Customer, rows'[x] # NoRow, x \notin crossed'
                 PROVE rows'[x].status = asked'[x].status /\ rows'[x].attributes = asked'[x].attributes
      BY DEF RowsAreAsAsked, Stored
    <3>1. CASE x # u
      BY <1>4, <2>8, <2>13, <3>1 DEF CustomersInv, RowsAreAsAsked, Stored
    <3>2. CASE x = u
      <4>1. /\ u \notin crossed /\ (r.wish.op = "ingest" => r.fresh)
            /\ rows[u].status = asked[u].status /\ rows[u].attributes = asked[u].attributes
        BY <1>4, <2>1, <3>2 DEF CustomersInv, RowsAreAsAsked, Stored
      <4>2. CASE r.wish.op = "ingest"
        <5>1. /\ r.attributes = Merge(rows[u].attributes, r.wish.attributes)
              /\ r.status = Or(r.wish.status, rows[u].status) /\ r.status \in Statuses
          BY <2>2, <4>1, <4>2 DEF MergedInto
        <5>2. row.status = r.status /\ row.attributes = r.attributes
          BY <2>5, <4>2, <5>1, Nones DEF Sets, Or
        <5> QED BY <2>8, <2>12, <2>13, <3>2, <4>1, <4>2, <5>1, <5>2
      <4>3. CASE r.wish.op = "update"
        <5>1. r.attributes = r.wish.attributes /\ r.status = r.wish.status
          BY <2>2, <4>3 DEF MergedInto
        <5>2. r.wish.sends \in BOOLEAN /\ (Sets(r) <=> r.wish.sends)
          BY <2>1, <4>3, WishFields DEF Sets
        <5> QED BY <2>5, <2>8, <2>12, <2>13, <3>2, <4>1, <4>3, <5>1, <5>2
      <4> QED BY <1>1, <4>2, <4>3
    <3> QED BY <3>1, <3>2
  <2>15. ASSUME NEW g \in Handler, handlers[g].customer = u
         PROVE Announces(handlers'[g], rows', muddled')
    <3>1. CASE g = h
      BY <2>1, <2>7, <2>8, <2>9, <3>1 DEF Announces
    <3>2. CASE g # h
      <4> DEFINE q == handlers[g]
                 o == handlers'[g]
      <4>1. q \in Handlers /\ o = [q EXCEPT !.fresh = FALSE] /\ Announces(q, rows, muddled)
        BY <2>9, <2>15, <3>2, TypesNow DEF CustomersInv, Told
      <4>2. /\ o.pc = q.pc /\ o.wish = q.wish /\ o.customer = u
            /\ o.attributes = q.attributes /\ o.before = q.before
        BY <2>15, <4>1, OthersKnow
      <4>3. CASE Sets(r)
        <5>1. u \notin muddled' => q.pc \notin {"validate", "write", "announce"}
          BY <1>4, <2>15, <3>2, <4>3 DEF Announcing
        <5> HIDE DEF q, o
        <5> QED BY <4>2, <5>1 DEF Announces, o
      <4>4. CASE ~ Sets(r)
        <5>1. rows'[u].attributes = rows[u].attributes /\ muddled' = muddled
          BY <1>4, <2>1, <2>5, <2>8, <4>4
        <5> HIDE DEF q, o
        <5> QED BY <2>1, <4>1, <4>2, <5>1, <2>15 DEF Announces, o, q
      <4> QED BY <4>3, <4>4
    <3> QED BY <3>1, <3>2
  <2>16. ASSUME u \notin muddled' PROVE HeardOrPending(u, rows', heard', handlers')
    <3>1. u \notin muddled /\ HeardOrPending(u, rows, heard, handlers)
      BY <1>4, <2>1, <2>16 DEF CustomersInv, Told
    <3>2. CASE Sets(r)
      <4>1. \A g \in Handler : ~ (handlers[g].pc = "announce" /\ handlers[g].customer = u)
        BY <1>1, <1>4, <2>16, <3>2 DEF Announcing
      <4>2. \A k \in Key : Alike(heard[u][k], rows[u].attributes[k])
        BY <3>1, <4>1 DEF HeardOrPending
      <4>3. r.before = rows[u].attributes
        BY <1>1, <2>1, <3>1 DEF CustomersInv, Told, Announces
      <4>4. \A k \in Key : Alike(heard[u][k], rows'[u].attributes[k])
                           \/ k \in Changed(s.before, s.attributes)
        BY <2>1, <2>7, <2>8, <4>2, <4>3, AlikeChains DEF Changed
      <4> QED BY <1>4, <2>7, <2>9, <4>4 DEF HeardOrPending
    <3>3. CASE ~ Sets(r)
      <4>1. rows'[u].attributes = rows[u].attributes
        BY <2>1, <2>5, <2>8, <3>3
      <4>2. ASSUME NEW g \in Handler, handlers[g].pc = "announce", handlers[g].customer = u
            PROVE /\ handlers'[g].pc = "announce" /\ handlers'[g].customer = u
                  /\ handlers'[g].before = handlers[g].before
                  /\ handlers'[g].attributes = handlers[g].attributes
        <5>1. g # h /\ handlers[g] \in Handlers
          BY <1>1, <4>2, TypesNow
        <5> QED BY <2>9, <4>2, <5>1, OthersKnow
      <4> QED BY <1>4, <3>1, <4>1, <4>2 DEF HeardOrPending
    <3> QED BY <3>2, <3>3
  <2>17. /\ crossed' \subseteq Customer /\ muddled' \subseteq Customer /\ muddled \subseteq muddled'
         /\ heard' = heard /\ handlers'[h].customer \in {u, None}
    BY <1>4, <2>1, <2>7, <2>9, TypesNow
  <2>18. rows' = [rows EXCEPT ![u] = row] /\ u \in Customer /\ rows[u] # NoRow
    BY <1>4, <2>1
  <2> HIDE <1>4
  <2>19. Told(rows', heard', handlers', muddled')
    BY <2>4, <2>9, <2>15, <2>16, <2>17, <2>18, OthersTold, ZenonT(60)
  <2>20. /\ UNCHANGED <<defs, staff>> /\ Fitting(row.attributes, defs, retyped) /\ row \in Rows
         /\ asked' \in [Customer -> [status : Statuses \cup {"none"}, attributes : Attributes]]
         /\ crossed' \subseteq Customer /\ muddled' \subseteq Customer /\ heard' = heard
         /\ handlers' \in [Handler -> Handlers]
    BY <1>1, <2>4, <2>9, <2>11, <2>13, <2>17
  <2>21. \A g \in Handler \ {h} :
            \/ handlers'[g] = handlers[g] /\ handlers[g].customer # u
            \/ /\ handlers'[g] = [handlers[g] EXCEPT !.fresh = FALSE]
               /\ handlers[g].customer = u
    BY <2>9
  <2> HIDE DEF u, r
  <2> QED BY <2>10, <2>14, <2>18, <2>19, <2>20, <2>21, WriteStep
<1> QED BY <1>2, <1>3, <1>4

LEMMA ArchiveKeeps ==
  ASSUME CustomersInv, NEW h \in Handler, Archive(h)
  PROVE CustomersInv'
<1> DEFINE r == handlers[h]
           u == r.customer
           row == [rows[u] EXCEPT !.status = "archived"]
           told == [asked[u] EXCEPT !.status = "archived"]
<1>1. /\ r \in Handlers /\ Steady(r, rows, defs, withdrawn, retyped) /\ r.pc = "write"
      /\ r.wish.op = "archive" /\ UNCHANGED <<defs, staff, heard, crossed, muddled>>
      /\ Overtake(h, u, Idle)
  BY TypesNow DEF CustomersInv, Archive, At
<1>2. u \in Customer /\ u # None /\ rows[u] # NoRow
  BY <1>1, RequestFields DEF Steady, Placed, Inserts
<1>3. rows' = [rows EXCEPT ![u] = row] /\ asked' = [asked EXCEPT ![u] = told]
  BY DEF Archive
<1>4. row \in Rows /\ row.status = "archived" /\ row.attributes = rows[u].attributes
  <2>1. rows[u] \in Rows
    BY <1>2, TypesNow, RowFields
  <2> QED BY <2>1, Nones DEF Rows
<1>5. /\ told \in [status : Statuses \cup {"none"}, attributes : Attributes]
      /\ told.status = "archived" /\ told.attributes = asked[u].attributes
  <2>1. asked[u] \in [status : Statuses \cup {"none"}, attributes : Attributes]
    BY <1>2, TypesNow
  <2> QED BY <2>1, Nones
<1> HIDE DEF row, told
<1>6. row # NoRow /\ \A x \in Customer : rows'[x] = IF x = u THEN row ELSE rows[x]
  BY <1>3, <1>4, TypesNow, RowIsARow
<1>7. asked' \in [Customer -> [status : Statuses \cup {"none"}, attributes : Attributes]]
      /\ \A x \in Customer : asked'[x] = IF x = u THEN told ELSE asked[x]
  BY <1>3, <1>5, TypesNow
<1>8. /\ handlers' \in [Handler -> Handlers] /\ handlers'[h] = Idle
      /\ \A g \in Handler \ {h} :
            \/ handlers'[g] = handlers[g] /\ handlers[g].customer # u
            \/ /\ handlers'[g] = [handlers[g] EXCEPT !.fresh = FALSE]
               /\ handlers[g].customer = u
  BY <1>1, IdleTyped, Overtaken
<1>9. RowsAreAsAsked'
  BY <1>1, <1>2, <1>4, <1>5, <1>6, <1>7 DEF CustomersInv, RowsAreAsAsked, Stored
<1>10. ASSUME NEW g \in Handler, handlers[g].customer = u
       PROVE Announces(handlers'[g], rows', muddled')
  <2>1. CASE g = h
    BY <1>8, <2>1 DEF Announces, Idle
  <2>2. CASE g # h
    <3> DEFINE q == handlers[g]
               o == handlers'[g]
    <3>1. q \in Handlers /\ o = [q EXCEPT !.fresh = FALSE] /\ Announces(q, rows, muddled)
      BY <1>8, <1>10, <2>2, TypesNow DEF CustomersInv, Told
    <3>2. /\ o.pc = q.pc /\ o.wish = q.wish /\ o.customer = u
          /\ o.attributes = q.attributes /\ o.before = q.before
      BY <1>10, <3>1, OthersKnow
    <3>3. rows'[u].attributes = rows[u].attributes /\ muddled' = muddled
      BY <1>1, <1>2, <1>4, <1>6
    <3> HIDE DEF q, o
    <3> QED BY <1>2, <1>10, <3>1, <3>2, <3>3 DEF Announces, o, q
  <2> QED BY <2>1, <2>2
<1>11. ASSUME u \notin muddled' PROVE HeardOrPending(u, rows', heard', handlers')
  <2>1. HeardOrPending(u, rows, heard, handlers)
    BY <1>1, <1>2, <1>11 DEF CustomersInv, Told
  <2>2. rows'[u].attributes = rows[u].attributes
    BY <1>2, <1>4, <1>6
  <2>3. ASSUME NEW g \in Handler, handlers[g].pc = "announce", handlers[g].customer = u
        PROVE /\ handlers'[g].pc = "announce" /\ handlers'[g].customer = u
              /\ handlers'[g].before = handlers[g].before
              /\ handlers'[g].attributes = handlers[g].attributes
    <3>1. g # h /\ handlers[g] \in Handlers
      BY <1>1, <2>3, TypesNow
    <3> QED BY <1>8, <2>3, <3>1, OthersKnow
  <2> QED BY <1>1, <2>1, <2>2, <2>3 DEF HeardOrPending
<1>12. /\ crossed' \subseteq Customer /\ muddled' \subseteq Customer /\ muddled \subseteq muddled'
       /\ heard' = heard /\ handlers'[h].customer \in {u, None}
  BY <1>1, <1>8, TypesNow DEF Idle
<1>13. rows' = [rows EXCEPT ![u] = row] /\ u \in Customer /\ rows[u] # NoRow /\ row \in Rows
  BY <1>2, <1>3, <1>4
<1>14. \A g \in Handler \ {h} :
          \/ handlers'[g] = handlers[g] /\ handlers[g].customer # u
          \/ /\ handlers'[g] = [handlers[g] EXCEPT !.fresh = FALSE]
             /\ handlers[g].customer = u
  BY <1>8
<1>15. Told(rows', heard', handlers', muddled')
  BY <1>10, <1>11, <1>12, <1>13, <1>14, OthersTold, ZenonT(60)
<1>16. Steady(handlers'[h], rows', defs, withdrawn, retyped)
  BY <1>8, IdleSteady
<1>17. /\ UNCHANGED <<defs, staff>> /\ Fitting(row.attributes, defs, retyped) /\ row \in Rows
       /\ asked' \in [Customer -> [status : Statuses \cup {"none"}, attributes : Attributes]]
       /\ crossed' \subseteq Customer /\ muddled' \subseteq Customer /\ heard' = heard
       /\ handlers' \in [Handler -> Handlers]
  BY <1>1, <1>2, <1>4, <1>7, <1>8, <1>12 DEF CustomersInv, Stored
<1> HIDE DEF u, r
<1> QED BY <1>9, <1>13, <1>14, <1>15, <1>16, <1>17, WriteStep

(* A request ends its work on a customer, with the triggers told or not. *)
LEMMA EndStep ==
  ASSUME CustomersInv, NEW h \in Handler, handlers' = [handlers EXCEPT ![h] = Idle],
         UNCHANGED <<defs, staff, rows, asked, crossed>>,
         heard' \in [Customer -> Attributes], muddled' \subseteq Customer,
         Told(rows', heard', handlers', muddled')
  PROVE CustomersInv'
<1>1. /\ handlers' \in [Handler -> Handlers]
      /\ \A g \in Handler : handlers'[g] = IF g = h THEN Idle ELSE handlers[g]
  BY TypesNow, IdleTyped
<1>2. TypeOK'
  BY <1>1, TypesNow DEF TypeOK, staff, CountsTyped, Table
<1>3. ASSUME NEW g \in Handler PROVE Steady(handlers'[g], rows', defs', withdrawn', retyped')
  BY <1>1, IdleSteady DEF CustomersInv, staff
<1> QED BY <1>2, <1>3 DEF CustomersInv, staff, RowsAreAsAsked, Stored

LEMMA AnnounceKeeps ==
  ASSUME CustomersInv, NEW h \in Handler, Announce(h)
  PROVE CustomersInv'
<1> DEFINE r == handlers[h]
           u == r.customer
           now == [k \in Key |-> IF k \in Changed(r.before, r.attributes)
                                 THEN r.attributes[k] ELSE heard[u][k]]
<1>1. /\ r \in Handlers /\ Steady(r, rows, defs, withdrawn, retyped) /\ r.pc = "announce"
      /\ heard' = [heard EXCEPT ![u] = now]
      /\ handlers' = [handlers EXCEPT ![h] = Idle]
      /\ UNCHANGED <<defs, staff, rows, asked, crossed, muddled>>
  BY TypesNow DEF CustomersInv, Announce, At, Goto
<1>2. u \in Customer /\ rows[u] # NoRow
  BY <1>1, RequestFields DEF Steady, Placed
<1>3. now \in Attributes
  <2>1. r.attributes \in Attributes /\ heard[u] \in Attributes
    BY <1>1, <1>2, RequestFields, TypesNow
  <2> QED BY <2>1 DEF Attributes
<1>4. \A k \in Key : now[k] = IF k \in Changed(r.before, r.attributes)
                               THEN r.attributes[k] ELSE heard[u][k]
  OBVIOUS
<1> HIDE DEF now
<1>5. /\ heard' \in [Customer -> Attributes]
      /\ \A x \in Customer : heard'[x] = IF x = u THEN now ELSE heard[x]
  BY <1>1, <1>3, TypesNow
<1>6. \A g \in Handler : handlers'[g] = IF g = h THEN Idle ELSE handlers[g]
  BY <1>1, TypesNow
<1>7. ASSUME NEW g \in Handler PROVE Announces(handlers'[g], rows', muddled')
  <2>1. Announces(handlers[g], rows, muddled)
    BY DEF CustomersInv, Told
  <2>2. Announces(Idle, rows, muddled)
    BY DEF Announces, Idle
  <2> QED BY <1>1, <1>6, <2>1, <2>2
<1>8. ASSUME NEW x \in Customer \ muddled, rows[x] # NoRow
      PROVE HeardOrPending(x, rows', heard', handlers')
  <2>1. HeardOrPending(x, rows, heard, handlers)
    BY <1>8 DEF CustomersInv, Told
  <2>2. \A g \in Handler : handlers[g].pc = "announce" /\ g # h =>
            handlers'[g] = handlers[g]
    BY <1>6
  <2>3. CASE x # u
    <3>1. heard'[x] = heard[x] /\ rows' = rows
      BY <1>1, <1>5, <2>3
    <3> QED BY <2>1, <2>2, <2>3, <3>1 DEF HeardOrPending
  <2>4. CASE x = u
    <3>1. r.attributes = rows[u].attributes
      BY <1>1, <1>8, <2>4 DEF CustomersInv, Told, Announces
    <3>2. heard'[u] = now /\ rows' = rows
      BY <1>1, <1>2, <1>5
    <3>3. ASSUME NEW k \in Key
          PROVE \/ Alike(heard'[u][k], rows'[u].attributes[k])
                \/ \E g \in Handler : /\ handlers'[g].pc = "announce"
                                      /\ handlers'[g].customer = u
                                      /\ k \in Changed(handlers'[g].before,
                                                       handlers'[g].attributes)
      <4>1. CASE k \in Changed(r.before, r.attributes)
        BY <1>4, <3>1, <3>2, <4>1, AlikeSelf
      <4>2. CASE k \notin Changed(r.before, r.attributes)
        <5>1. heard'[u][k] = heard[u][k]
          BY <1>4, <3>2, <4>2
        <5>2. CASE Alike(heard[u][k], rows[u].attributes[k])
          BY <3>2, <5>1, <5>2
        <5>3. CASE ~ Alike(heard[u][k], rows[u].attributes[k])
          <6>1. PICK g \in Handler : /\ handlers[g].pc = "announce"
                                     /\ handlers[g].customer = u
                                     /\ k \in Changed(handlers[g].before, handlers[g].attributes)
            BY <2>1, <2>4, <5>3 DEF HeardOrPending
          <6>2. handlers'[g] = handlers[g]
            BY <2>2, <4>2, <6>1
          <6> QED BY <6>1, <6>2
        <5> QED BY <5>2, <5>3
      <4> QED BY <4>1, <4>2
    <3> QED BY <2>4, <3>3 DEF HeardOrPending
  <2> QED BY <2>3, <2>4
<1>9. \A x \in Customer : rows'[x] = NoRow => heard'[x] = NoAttributes
  BY <1>1, <1>2, <1>5 DEF CustomersInv, Told
<1>10. Told(rows', heard', handlers', muddled')
  BY <1>1, <1>7, <1>8, <1>9 DEF Told
<1>11. muddled' \subseteq Customer
  BY <1>1, TypesNow
<1> QED BY <1>1, <1>5, <1>10, <1>11, EndStep

LEMMA LoseAnnouncementKeeps ==
  ASSUME CustomersInv, NEW h \in Handler, LoseAnnouncement(h)
  PROVE CustomersInv'
<1> DEFINE r == handlers[h]
           u == r.customer
<1>1. /\ r \in Handlers /\ Steady(r, rows, defs, withdrawn, retyped) /\ r.pc = "announce"
      /\ muddled' = muddled \cup {u}
      /\ handlers' = [handlers EXCEPT ![h] = Idle]
      /\ UNCHANGED <<defs, staff, rows, asked, heard, crossed>>
  BY TypesNow DEF CustomersInv, LoseAnnouncement, At, Goto
<1>2. u \in Customer
  BY <1>1, RequestFields DEF Steady, Placed
<1>3. \A g \in Handler : handlers'[g] = IF g = h THEN Idle ELSE handlers[g]
  BY <1>1, TypesNow
<1>4. ASSUME NEW g \in Handler PROVE Announces(handlers'[g], rows', muddled')
  <2>1. Announces(handlers[g], rows, muddled)
    BY DEF CustomersInv, Told
  <2>2. Announces(Idle, rows, muddled')
    BY DEF Announces, Idle
  <2>3. Announces(handlers[g], rows, muddled')
    BY <1>1, <2>1 DEF Announces
  <2> QED BY <1>1, <1>3, <2>2, <2>3
<1>5. ASSUME NEW x \in Customer \ muddled', rows[x] # NoRow
      PROVE HeardOrPending(x, rows', heard', handlers')
  <2>1. HeardOrPending(x, rows, heard, handlers) /\ x # u
    BY <1>1, <1>5 DEF CustomersInv, Told
  <2> QED BY <1>1, <1>3, <2>1 DEF HeardOrPending
<1>6. \A x \in Customer : rows'[x] = NoRow => heard'[x] = NoAttributes
  BY <1>1 DEF CustomersInv, Told
<1>7. Told(rows', heard', handlers', muddled')
  BY <1>1, <1>4, <1>5, <1>6 DEF Told
<1>8. muddled' \subseteq Customer /\ heard' \in [Customer -> Attributes]
  BY <1>1, <1>2, TypesNow
<1> QED BY <1>1, <1>7, <1>8, EndStep
---------------------------------------------------------------------------
LEMMA CustomersInit == Init => CustomersInv
<1> SUFFICES ASSUME Init PROVE CustomersInv
  OBVIOUS
<1>1. /\ \A h \in Handler : handlers[h] = Idle
      /\ \A u \in Customer : rows[u] = NoRow /\ heard[u] = NoAttributes
      /\ defs = Defined
  BY DEF Init
<1>2. TypeOK
  <2>1. rows \in [Customer -> Rows \cup {NoRow}]
    BY DEF Init
  <2>2. asked \in [Customer -> [status : Statuses \cup {"none"}, attributes : Attributes]]
    BY EmptyTyped DEF Init
  <2>3. handlers \in [Handler -> Handlers] /\ heard \in [Customer -> Attributes]
    BY EmptyTyped, IdleTyped DEF Init
  <2> QED BY <2>1, <2>2, <2>3 DEF Init, TypeOK
<1>3. Stands(defs, withdrawn)
  BY <1>1 DEF Stands
<1>4. Stored = {}
  BY <1>1 DEF Stored
<1>5. Told(rows, heard, handlers, muddled)
  <2>1. Announces(Idle, rows, muddled)
    BY DEF Announces, Idle
  <2> QED BY <1>1, <2>1 DEF Told
<1> QED BY <1>1, <1>2, <1>3, <1>4, <1>5, IdleSteady DEF CustomersInv, RowsAreAsAsked

LEMMA CustomersStep == CustomersInv /\ [Next]_vars => CustomersInv'
<1> SUFFICES ASSUME CustomersInv, [Next]_vars PROVE CustomersInv'
  OBVIOUS
<1>1. ASSUME NEW h \in Handler, Asking(h) PROVE CustomersInv'
  BY <1>1, AskingKeeps
<1>2. ASSUME NEW h \in Handler, Handling(h) PROVE CustomersInv'
  BY <1>2, LookupKeeps, ReadDefinitionKeeps, DefineKeeps, RereadKeeps, ValidateKeeps, InsertKeeps,
     UpdateKeeps, ArchiveKeeps, AnnounceKeeps, LoseAnnouncementKeeps, AbandonKeeps DEF Handling
<1>3. CASE Defining
  BY <1>3, CreateDefinitionKeeps, UpdateDefinitionKeeps, DeleteDefinitionKeeps DEF Defining
<1>4. ASSUME NEW s \in Settings, ChangeSettings(s) PROVE CustomersInv'
  BY <1>4, ChangeSettingsKeeps
<1>5. CASE UNCHANGED vars
  <2>1. UNCHANGED <<handlers, stored>> /\ defs' = defs /\ withdrawn' = withdrawn
        /\ retyped' = retyped /\ settings' = settings /\ edits' = edits /\ requests' = requests
    BY <1>5 DEF vars, stored
  <2>2. CountsTyped' /\ defs' \in Table
    BY <2>1, TypesNow DEF CountsTyped
  <2>3. Develop(defs, withdrawn, retyped, defs', withdrawn', retyped')
    BY <2>1, NothingDevelops
  <2> QED BY <2>1, <2>2, <2>3, StaffStep
<1> QED BY <1>1, <1>2, <1>3, <1>4, <1>5 DEF Next
---------------------------------------------------------------------------
(* What becomes of the properties of customers *)

CustomersKept ==
    /\ TypeOK /\ RowsAreAsAsked
    /\ AttributesAreTyped
    /\ TriggersMissNothing

LEMMA CustomersKeep == CustomersInv => CustomersKept
<1> SUFFICES ASSUME CustomersInv PROVE CustomersKept
  OBVIOUS
<1>1. AttributesAreTyped
  <2>1. ASSUME NEW u \in Stored, NEW k \in KeysOf(rows[u].attributes)
        PROVE defs[k] # Undefined /\ (k \in retyped \/ Fits(defs[k], rows[u].attributes[k]))
    BY <2>1 DEF CustomersInv, Fitting
  <2>2. ASSUME NEW h \in Handler,
               handlers[h].wish.op = "ingest", handlers[h].set.mode = "discover",
               handlers[h].pc \in {"reread", "validate"},
               NEW k \in KeysOf(handlers[h].wish.attributes)
        PROVE defs[k] # Undefined /\ (k \in withdrawn \/ defs[k].status = "active")
    <3>1. Discovers(handlers[h], defs, withdrawn)
      BY DEF CustomersInv, Steady
    <3> QED BY <2>2, <3>1 DEF Discovers, Settled
  <2> QED BY <2>1, <2>2 DEF AttributesAreTyped
<1>2. TriggersMissNothing
  <2> SUFFICES ASSUME NEW u \in Stored \ muddled, Announced(u), NEW k \in Key
               PROVE Alike(heard[u][k], rows[u].attributes[k])
    BY DEF TriggersMissNothing
  <2>1. u \in Customer /\ rows[u] # NoRow
    BY DEF Stored
  <2> QED BY <2>1 DEF CustomersInv, Told, HeardOrPending, Announced, At
<1> QED BY <1>1, <1>2 DEF CustomersInv, CustomersKept
---------------------------------------------------------------------------
(* What a request or a worker knows of a connection: r is it, tb the rows, gv
   the pairs that were given, rc those under which a database answered, cr the
   rows written from an old reading. *)

Live(row) == row.status \notin {"new", "deleted"}

(* What an update writes, worked out from an old row and a patch. *)
MergedFrom(c, old, p, row) ==
    CASE ConnectionKind[c] = "inbound" -> row = C!InboundMerge(old, p, row.secret)
      [] ConnectionKind[c] = "webhook" -> row = C!OutboundMerge(old, p)
      [] OTHER -> row = C!DatabaseMerge(old, p)

Earned(c, row) ==
    ConnectionKind[c] = "inbound" => ~ (row.status = "connected" /\ row.secret = Blank)

LoggedIn(row) == row.address \in Address /\ row.secret \in Secret

Writes(r, tb) ==
    /\ r.op = "update" /\ Earned(r.connection, r.row)
    /\ ConnectionKind[r.connection] = "database" => r.row.address \in Address
    /\ r.fresh /\ Live(tb[r.connection]) =>
          MergedFrom(r.connection, tb[r.connection], r.patch, r.row)

Checks(r, tb, rc) ==
    /\ ConnectionKind[r.connection] = "database" /\ LoggedIn(r.row)
    /\ r.fresh /\ Live(tb[r.connection]) => C!Pair(tb[r.connection]) = C!Pair(r.row)
    /\ r.pc = "record" =>
          /\ r.row.status \in {"connected", "unreachable"}
          /\ r.row.status = "connected" => C!Pair(r.row) \in rc[r.connection]

Knows(r, tb, gv, rc, cr) ==
    r.pc # "idle" =>
        /\ r.connection \in Connection /\ r.row \in C!Rows
        /\ tb[r.connection].status # "new"
        /\ r.pc = "write" => Writes(r, tb)
        /\ r.pc \in {"probe", "record"} => Checks(r, tb, rc)
        /\ r.pc = "act" => r.connection \in cr \/ C!Pair(r.row) \in gv[r.connection]

(* Of a connection that is there, with as what was asked for it. *)
Sound(c, row, as, gvc) ==
    Live(row) =>
        /\ row \in C!Rows /\ as \in C!Rows /\ C!Pair(as) \in gvc
        /\ ConnectionKind[c] = "database" => LoggedIn(row)
        /\ Earned(c, row)

AsAsked(c, row, as) ==
    Live(row) =>
        /\ C!Pair(row) = C!Pair(as)
        /\ ConnectionKind[c] # "database" => row.status = as.status
        /\ row.mode = as.mode

Checking(c, r) == r.connection = c /\ r.op = "update" /\ r.pc \in {"probe", "record"}

BeingChecked(c, hs) == \E h \in Handler : Checking(c, hs[h])

HasAnswered(c, row, rcc, hs) ==
    row.status = "connected" /\ ConnectionKind[c] = "database" =>
        C!Pair(row) \in rcc \/ BeingChecked(c, hs)

ConnectionsInv ==
    /\ C!TypeOK
    /\ \A c \in Connection :
        /\ Sound(c, tables[c], intent[c], pairs[c])
        /\ c \notin overlapped => AsAsked(c, tables[c], intent[c])
        /\ c \notin overlapped \cup cut => HasAnswered(c, tables[c], answered[c], calls)
    /\ \A h \in Handler : Knows(calls[h], tables, pairs, answered, overlapped)
    /\ \A x \in sent : x[1] \in overlapped \/ x[2] \in pairs[x[1]]
    /\ outdated \subseteq overlapped

LEMMA Fit ==
  /\ None \notin Address /\ None \notin Secret /\ None \notin C!Modes /\ None \notin Connection
  /\ None # Blank /\ Blank \notin Secret
  /\ None \notin {"connected", "unreachable", "disconnected"}
  /\ ConnectionKind \in [Connection -> C!Kinds]
  /\ ConnectionPatch \subseteq C!Patches /\ NewConnection \subseteq C!Rows
  /\ MaxConnectionRequests \in Nat
BY ConnectionsAssumption DEF C!ConstantsFit

LEMMA CTypes ==
  ASSUME ConnectionsInv
  PROVE /\ tables \in [Connection -> C!Rows \cup {C!NoRow, C!Gone}]
        /\ intent \in [Connection -> C!Rows \cup {C!NoRow, C!Gone}]
        /\ calls \in [Handler -> C!Handlers]
        /\ pairs \in [Connection -> SUBSET C!Pairs]
        /\ answered \in [Connection -> SUBSET (Address \X Secret)]
        /\ overlapped \subseteq Connection /\ cut \subseteq Connection /\ outdated \subseteq Connection
        /\ sent \subseteq Connection \X C!Pairs
        /\ count \in 0 .. MaxConnectionRequests
BY DEF ConnectionsInv, C!TypeOK

LEMMA CRowFields ==
  ASSUME NEW row \in C!Rows
  PROVE /\ row.address \in Address \cup {None} /\ row.secret \in Secret \cup {Blank}
        /\ row.mode \in C!Modes /\ row.status \in {"connected", "unreachable", "disconnected"}
        /\ Live(row) /\ row.status # "new" /\ C!Pair(row) \in C!Pairs
BY DEF C!Rows, Live, C!Pair, C!Pairs

LEMMA DeadRows ==
  /\ C!NoRow.status = "new" /\ ~ Live(C!NoRow)
  /\ C!Gone.status = "deleted" /\ ~ Live(C!Gone)
BY DEF C!NoRow, C!Gone, Live

LEMMA LiveIsARow ==
  ASSUME NEW row \in C!Rows \cup {C!NoRow, C!Gone}, Live(row)
  PROVE row \in C!Rows
BY DeadRows

LEMMA PatchOf ==
  ASSUME NEW p \in C!Patches
  PROVE /\ p.address \in Address \cup {None} /\ p.secret \in Secret \cup {Blank, None}
        /\ p.mode \in C!Modes \cup {None} /\ p.status \in {"connected", "disconnected", None}
        /\ p.rotate \in BOOLEAN
BY DEF C!Patches

LEMMA CallFields ==
  ASSUME NEW r \in C!Handlers
  PROVE /\ r.pc \in {"idle", "write", "probe", "record", "act"}
        /\ r.op \in {"none", "update", "check", "use"}
        /\ r.connection \in Connection \cup {None} /\ r.row \in C!Rows \cup {C!NoRow}
        /\ r.patch \in C!Patches /\ r.fresh \in BOOLEAN
BY DEF C!Handlers

LEMMA CIdleTyped == C!Idle \in C!Handlers /\ C!Idle.pc = "idle"
<1>1. C!NoPatch \in C!Patches
  BY DEF C!NoPatch, C!Patches
<1> QED BY <1>1 DEF C!Idle, C!Handlers

LEMMA CIdleKnows ==
  ASSUME NEW tb, NEW gv, NEW rc, NEW cr
  PROVE Knows(C!Idle, tb, gv, rc, cr)
BY CIdleTyped DEF Knows

LEMMA InboundTyped ==
  ASSUME NEW old \in C!Rows, NEW p \in C!Patches, NEW s \in Secret \cup {Blank}
  PROVE C!InboundMerge(old, p, s) \in C!Rows
<1>1. (IF p.rotate THEN s ELSE C!Or(p.secret, old.secret)) \in Secret \cup {Blank}
  BY CRowFields, PatchOf DEF C!Or
<1>2. C!Or(p.mode, old.mode) \in C!Modes
  BY CRowFields, PatchOf DEF C!Or
<1>3. (CASE p.rotate -> "connected"
         [] ~p.rotate /\ p.secret = Blank -> "disconnected"
         [] ~p.rotate /\ p.secret \in Secret -> "connected"
         [] OTHER -> old.status) \in {"connected", "unreachable", "disconnected"}
  BY CRowFields
<1>4. C!Or(p.status, CASE p.rotate -> "connected"
                       [] ~p.rotate /\ p.secret = Blank -> "disconnected"
                       [] ~p.rotate /\ p.secret \in Secret -> "connected"
                       [] OTHER -> old.status) \in {"connected", "unreachable", "disconnected"}
  BY <1>3, PatchOf DEF C!Or
<1> QED BY <1>1, <1>2, <1>4 DEF C!InboundMerge, C!Rows

LEMMA OutboundTyped ==
  ASSUME NEW old \in C!Rows, NEW p \in C!Patches
  PROVE /\ C!OutboundMerge(old, p) \in C!Rows /\ C!DatabaseMerge(old, p) \in C!Rows
        /\ C!OutboundMerge(old, p).address = C!Or(p.address, old.address)
        /\ C!OutboundMerge(old, p).mode = old.mode
        /\ C!OutboundMerge(old, p).status = C!Or(p.status, old.status)
        /\ C!DatabaseMerge(old, p).address = C!Or(p.address, old.address)
        /\ C!DatabaseMerge(old, p).mode = old.mode
<1> DEFINE secret == IF p.secret = None THEN Blank ELSE p.secret
<1>1. secret \in Secret \cup {Blank} /\ C!Or(p.address, old.address) \in Address \cup {None}
      /\ C!Or(p.status, old.status) \in {"connected", "unreachable", "disconnected"}
  BY CRowFields, PatchOf DEF C!Or
<1>2. C!OutboundMerge(old, p) =
        [address |-> C!Or(p.address, old.address), secret |-> secret,
         mode |-> old.mode, status |-> C!Or(p.status, old.status)]
  BY DEF C!OutboundMerge
<1> HIDE DEF secret
<1>3. C!OutboundMerge(old, p) \in C!Rows
  BY <1>1, <1>2, CRowFields DEF C!Rows
<1>4. C!DatabaseMerge(old, p) =
        [address |-> C!Or(p.address, old.address), secret |-> secret,
         mode |-> old.mode, status |-> old.status]
  BY <1>2 DEF C!DatabaseMerge
<1>5. C!DatabaseMerge(old, p) \in C!Rows
  BY <1>1, <1>4, CRowFields DEF C!Rows
<1> QED BY <1>2, <1>3, <1>4, <1>5

(* All that an update may write. *)
LEMMA MergesAre ==
  ASSUME NEW c \in Connection, NEW old \in C!Rows, NEW p \in C!Patches, NEW row \in C!Merges(c, old, p)
  PROVE /\ row \in C!Rows /\ MergedFrom(c, old, p, row) /\ Earned(c, row)
<1>1. ConnectionKind[c] \in {"database", "webhook", "inbound"}
  BY Fit DEF C!Kinds
<1>2. CASE ConnectionKind[c] = "inbound"
  <2>1. PICK s \in IF p.rotate THEN C!NewSecrets(c) ELSE {Blank} :
            /\ row = C!InboundMerge(old, p, s)
            /\ ~ (row.status = "connected" /\ row.secret = Blank)
    BY <1>2 DEF C!Merges
  <2>2. s \in Secret \cup {Blank}
    BY <2>1 DEF C!NewSecrets
  <2>3. row \in C!Rows
    BY <2>1, <2>2, InboundTyped
  <2>4. row = C!InboundMerge(old, p, row.secret)
    BY <2>1 DEF C!InboundMerge
  <2> QED BY <1>2, <2>1, <2>3, <2>4 DEF MergedFrom, Earned
<1>3. CASE ConnectionKind[c] = "webhook"
  BY <1>3, OutboundTyped DEF C!Merges, MergedFrom, Earned
<1>4. CASE ConnectionKind[c] = "database"
  BY <1>4, OutboundTyped DEF C!Merges, MergedFrom, Earned
<1> QED BY <1>1, <1>2, <1>3, <1>4

(* A reading that is old now. *)
Stale(r) == [r EXCEPT !.fresh = FALSE]

Follows(s, r) == s = r \/ s = Stale(r)

(* Histories grow, and no row is as good as new again. *)
Grows(tb, gv, rc, cr, tb2, gv2, rc2, cr2) ==
    /\ \A c \in Connection :
          /\ gv[c] \subseteq gv2[c] /\ rc[c] \subseteq rc2[c]
          /\ tb[c].status # "new" => tb2[c].status # "new"
    /\ cr \subseteq cr2

LEMMA KnowsKept ==
  ASSUME NEW r \in C!Handlers, NEW s, Follows(s, r),
         NEW tb, NEW gv, NEW rc, NEW cr, NEW tb2, NEW gv2, NEW rc2, NEW cr2,
         Knows(r, tb, gv, rc, cr), Grows(tb, gv, rc, cr, tb2, gv2, rc2, cr2),
         r.pc # "idle" /\ s.fresh =>
            tb2[r.connection] = tb[r.connection] \/ ~ Live(tb2[r.connection])
  PROVE Knows(s, tb2, gv2, rc2, cr2)
<1>1. /\ s.pc = r.pc /\ s.op = r.op /\ s.connection = r.connection /\ s.row = r.row
      /\ s.patch = r.patch /\ (s.fresh => r.fresh)
  BY DEF C!Handlers, Stale, Follows
<1>2. CASE r.pc = "idle"
  BY <1>1, <1>2 DEF Knows
<1>3. CASE r.pc # "idle"
  <2> DEFINE c == r.connection
  <2>1. c \in Connection /\ r.row \in C!Rows /\ tb[c].status # "new"
    BY <1>3 DEF Knows
  <2>2. gv[c] \subseteq gv2[c] /\ rc[c] \subseteq rc2[c] /\ tb2[c].status # "new"
    BY <2>1 DEF Grows
  <2>3. s.fresh => tb2[c] = tb[c] \/ ~ Live(tb2[c])
    BY <1>3
  <2>4. s.pc = "write" => Writes(s, tb2)
    <3>1. r.pc = "write" => Writes(r, tb)
      BY <1>3 DEF Knows
    <3> QED BY <1>1, <2>3, <3>1 DEF Writes
  <2>5. s.pc \in {"probe", "record"} => Checks(s, tb2, rc2)
    <3>1. r.pc \in {"probe", "record"} => Checks(r, tb, rc)
      BY <1>3 DEF Knows
    <3> QED BY <1>1, <2>2, <2>3, <3>1 DEF Checks
  <2>6. s.pc = "act" => c \in cr2 \/ C!Pair(s.row) \in gv2[c]
    <3>1. r.pc = "act" => c \in cr \/ C!Pair(r.row) \in gv[c]
      BY <1>3 DEF Knows
    <3>2. cr \subseteq cr2
      BY DEF Grows
    <3> QED BY <1>1, <2>2, <3>1, <3>2
  <2>7. s.connection = c /\ s.row \in C!Rows
    BY <1>1, <2>1
  <2> HIDE DEF c
  <2> QED BY <2>1, <2>2, <2>4, <2>5, <2>6, <2>7 DEF Knows
<1> QED BY <1>2, <1>3

(* A step of h that writes no row. *)
LEMMA QuietCall ==
  ASSUME ConnectionsInv, NEW h \in Handler, NEW s \in C!Handlers,
         calls' = [calls EXCEPT ![h] = s],
         tables' = tables, intent' = intent, pairs' = pairs,
         overlapped' = overlapped, outdated' = outdated,
         answered' \in [Connection -> SUBSET (Address \X Secret)],
         \A c \in Connection : answered[c] \subseteq answered'[c],
         cut \subseteq cut', cut' \subseteq Connection,
         sent' \subseteq Connection \X C!Pairs,
         \A x \in sent' : x[1] \in overlapped \/ x[2] \in pairs[x[1]],
         count' \in 0 .. MaxConnectionRequests,
         Knows(s, tables, pairs, answered', overlapped),
         \A c \in Connection :
            Checking(c, calls[h]) => Checking(c, s) \/ c \in cut' \/ ~ Live(tables[c])
  PROVE ConnectionsInv'
<1>1. calls' \in [Handler -> C!Handlers] /\ \A g \in Handler : calls'[g] = IF g = h THEN s ELSE calls[g]
  BY CTypes
<1>2. C!TypeOK'
  BY <1>1, CTypes DEF C!TypeOK
<1>3. ASSUME NEW g \in Handler
      PROVE Knows(calls'[g], tables', pairs', answered', overlapped')
  <2>1. CASE g = h
    BY <1>1, <2>1
  <2>2. CASE g # h
    <3>1. calls[g] \in C!Handlers /\ calls'[g] = calls[g]
      BY <1>1, <2>2, CTypes
    <3>2. Knows(calls[g], tables, pairs, answered, overlapped)
      BY DEF ConnectionsInv
    <3>3. /\ Grows(tables, pairs, answered, overlapped, tables, pairs, answered', overlapped)
          /\ Follows(calls[g], calls[g])
      BY DEF Grows, Follows
    <3>4. Knows(calls[g], tables, pairs, answered', overlapped)
      BY <3>1, <3>2, <3>3, KnowsKept
    <3> QED BY <3>1, <3>4
  <2> QED BY <2>1, <2>2
<1>4. ASSUME NEW c \in Connection, c \notin overlapped' \cup cut'
      PROVE HasAnswered(c, tables'[c], answered'[c], calls')
  <2>1. HasAnswered(c, tables[c], answered[c], calls)
    BY <1>4 DEF ConnectionsInv
  <2>2. SUFFICES ASSUME tables[c].status = "connected", ConnectionKind[c] = "database",
                        BeingChecked(c, calls)
                 PROVE BeingChecked(c, calls')
    BY <2>1 DEF HasAnswered
  <2>3. PICK g \in Handler : Checking(c, calls[g])
    BY <2>2 DEF BeingChecked
  <2>4. Checking(c, calls'[g])
    BY <1>1, <1>4, <2>2, <2>3 DEF Live
  <2> QED BY <2>4 DEF BeingChecked
<1>5. \A c \in Connection : /\ Sound(c, tables'[c], intent'[c], pairs'[c])
                            /\ c \notin overlapped' => AsAsked(c, tables'[c], intent'[c])
  BY DEF ConnectionsInv
<1>6. outdated' \subseteq overlapped' /\ \A x \in sent' : x[1] \in overlapped' \/ x[2] \in pairs'[x[1]]
  BY DEF ConnectionsInv
<1> QED BY <1>2, <1>3, <1>4, <1>5, <1>6 DEF ConnectionsInv

(* What the handlers outside S know, when the row of c is written. *)
LEMMA OthersStillKnow ==
  ASSUME ConnectionsInv, NEW c \in Connection, NEW row, row.status # "new",
         NEW gv, pairs[c] \subseteq gv, NEW S,
         tables' = [tables EXCEPT ![c] = row], pairs' = [pairs EXCEPT ![c] = gv],
         answered' = answered, overlapped \subseteq overlapped',
         \A g \in Handler : g \notin S => Follows(calls'[g], calls[g]),
         \A g \in Handler : g \notin S /\ calls[g].pc # "idle" /\ calls'[g].fresh =>
                               calls[g].connection # c \/ ~ Live(row)
  PROVE /\ \A g \in Handler :
              g \notin S => Knows(calls'[g], tables', pairs', answered', overlapped')
        /\ \A d \in Connection, g \in Handler :
              g \notin S /\ Checking(d, calls[g]) => Checking(d, calls'[g])
<1>1. ASSUME NEW g \in Handler, g \notin S
      PROVE /\ Knows(calls'[g], tables', pairs', answered', overlapped')
            /\ \A d \in Connection : Checking(d, calls[g]) => Checking(d, calls'[g])
  <2> DEFINE r == calls[g]  s == calls'[g]
  <2>1. r \in C!Handlers /\ Knows(r, tables, pairs, answered, overlapped)
    BY CTypes DEF ConnectionsInv
  <2>2. Follows(s, r)
    BY <1>1
  <2>3. \A d \in Connection : /\ tables'[d] = IF d = c THEN row ELSE tables[d]
                              /\ pairs'[d] = IF d = c THEN gv ELSE pairs[d]
    BY CTypes
  <2>4. Grows(tables, pairs, answered, overlapped, tables', pairs', answered', overlapped')
    BY <2>3 DEF Grows
  <2>5. r.pc # "idle" /\ s.fresh =>
           tables'[r.connection] = tables[r.connection] \/ ~ Live(tables'[r.connection])
    <3>1. r.pc # "idle" => r.connection \in Connection
      BY <2>1 DEF Knows
    <3>2. r.pc # "idle" /\ s.fresh => r.connection # c \/ ~ Live(row)
      BY <1>1
    <3> QED BY <2>3, <3>1, <3>2
  <2> HIDE DEF r, s
  <2>6. Knows(s, tables', pairs', answered', overlapped')
    BY <2>1, <2>2, <2>4, <2>5, KnowsKept
  <2>7. s \in C!Handlers /\ s.pc = r.pc /\ s.op = r.op /\ s.connection = r.connection
    BY <2>1, <2>2 DEF C!Handlers, Stale, Follows
  <2>8. \A d \in Connection : Checking(d, r) => Checking(d, s)
    BY <2>7 DEF Checking
  <2> QED BY <2>6, <2>7, <2>8 DEF r, s
<1> QED BY <1>1

(* A step that writes the row of c, on behalf of the handlers in S. *)
LEMMA WriteRow ==
  ASSUME ConnectionsInv, NEW c \in Connection,
         NEW row \in C!Rows \cup {C!Gone}, NEW wanted \in C!Rows \cup {C!Gone},
         NEW gv \in SUBSET C!Pairs, pairs[c] \subseteq gv, NEW S \in SUBSET Handler,
         tables' = [tables EXCEPT ![c] = row], intent' = [intent EXCEPT ![c] = wanted],
         pairs' = [pairs EXCEPT ![c] = gv],
         answered' = answered, cut' = cut, outdated' = outdated, sent' = sent,
         overlapped \subseteq overlapped', overlapped' \subseteq Connection,
         count' \in 0 .. MaxConnectionRequests,
         calls' \in [Handler -> C!Handlers],
         \A g \in Handler : g \notin S => Follows(calls'[g], calls[g]),
         \A g \in Handler : g \notin S /\ calls[g].pc # "idle" /\ calls'[g].fresh =>
                               calls[g].connection # c \/ ~ Live(row),
         \A g \in S : Knows(calls'[g], tables', pairs', answered', overlapped'),
         \A g \in S : calls[g].pc \in {"probe", "record"} => calls[g].connection = c,
         Sound(c, row, wanted, gv),
         c \notin overlapped' => AsAsked(c, row, wanted),
         c \notin overlapped' \cup cut => HasAnswered(c, row, answered[c], calls')
  PROVE ConnectionsInv'
<1>1. row.status # "new"
  BY CRowFields, DeadRows
<1>2. \A d \in Connection : /\ tables'[d] = IF d = c THEN row ELSE tables[d]
                            /\ intent'[d] = IF d = c THEN wanted ELSE intent[d]
                            /\ pairs'[d] = IF d = c THEN gv ELSE pairs[d]
  BY CTypes
<1>3. C!TypeOK'
  <2>1. /\ tables' \in [Connection -> C!Rows \cup {C!NoRow, C!Gone}]
        /\ intent' \in [Connection -> C!Rows \cup {C!NoRow, C!Gone}]
        /\ pairs' \in [Connection -> SUBSET C!Pairs]
    BY CTypes
  <2> QED BY <2>1, CTypes DEF C!TypeOK
<1>4. /\ \A g \in Handler :
              g \notin S => Knows(calls'[g], tables', pairs', answered', overlapped')
      /\ \A d \in Connection, g \in Handler :
              g \notin S /\ Checking(d, calls[g]) => Checking(d, calls'[g])
  BY <1>1, OthersStillKnow
<1>5. ASSUME NEW d \in Connection
      PROVE /\ Sound(d, tables'[d], intent'[d], pairs'[d])
            /\ d \notin overlapped' => AsAsked(d, tables'[d], intent'[d])
            /\ d \notin overlapped' \cup cut' => HasAnswered(d, tables'[d], answered'[d], calls')
  <2>1. CASE d = c
    BY <1>2, <2>1
  <2>2. CASE d # c
    <3>1. /\ Sound(d, tables[d], intent[d], pairs[d])
          /\ d \notin overlapped => AsAsked(d, tables[d], intent[d])
          /\ d \notin overlapped \cup cut => HasAnswered(d, tables[d], answered[d], calls)
      BY DEF ConnectionsInv
    <3>2. BeingChecked(d, calls) => BeingChecked(d, calls')
      <4>1. SUFFICES ASSUME NEW g \in Handler, Checking(d, calls[g])
                     PROVE BeingChecked(d, calls')
        BY DEF BeingChecked
      <4>2. g \notin S
        BY <2>2, <4>1 DEF Checking
      <4>3. Checking(d, calls'[g])
        BY <1>4, <4>1, <4>2
      <4> QED BY <4>3 DEF BeingChecked
    <3>3. HasAnswered(d, tables[d], answered[d], calls) => HasAnswered(d, tables[d], answered[d], calls')
      BY <3>2 DEF HasAnswered
    <3> QED BY <1>2, <2>2, <3>1, <3>3
  <2> QED BY <2>1, <2>2
<1>6. \A g \in Handler : Knows(calls'[g], tables', pairs', answered', overlapped')
  BY <1>4
<1>7. \A x \in sent' : x[1] \in overlapped' \/ x[2] \in pairs'[x[1]]
  <2>1. SUFFICES ASSUME NEW x \in sent PROVE x[1] \in overlapped' \/ x[2] \in pairs'[x[1]]
    OBVIOUS
  <2>2. x[1] \in Connection /\ (x[1] \in overlapped \/ x[2] \in pairs[x[1]])
    BY CTypes DEF ConnectionsInv
  <2> QED BY <1>2, <2>2
<1>8. outdated' \subseteq overlapped'
  BY DEF ConnectionsInv
<1> QED BY <1>3, <1>5, <1>6, <1>7, <1>8 DEF ConnectionsInv

LEMMA CountStep ==
  ASSUME ConnectionsInv, C!Begin \/ UNCHANGED count
  PROVE count' \in 0 .. MaxConnectionRequests
BY CTypes, Fit DEF C!Begin

LEMMA GotoStep ==
  ASSUME ConnectionsInv, NEW h \in Handler, NEW r \in C!Handlers, C!Goto(h, r)
  PROVE /\ calls' = [calls EXCEPT ![h] = r]
        /\ calls' \in [Handler -> C!Handlers] /\ calls'[h] = r
        /\ \A g \in Handler : g # h => calls'[g] = calls[g]
BY CTypes DEF C!Goto

LEMMA OvertakeStep ==
  ASSUME ConnectionsInv, NEW h \in Handler, NEW c \in Connection, NEW r \in C!Handlers,
         C!Overtake(h, c, r)
  PROVE /\ calls' \in [Handler -> C!Handlers] /\ calls'[h] = r
        /\ \A g \in Handler : g # h =>
              Follows(calls'[g], calls[g]) /\ (calls'[g].fresh => calls[g].connection # c)
<1>1. /\ calls' = [g \in Handler |-> IF g = h THEN r
                                     ELSE IF calls[g].connection = c THEN Stale(calls[g])
                                     ELSE calls[g]]
      /\ \A g \in Handler : calls[g] \in C!Handlers
  BY CTypes DEF C!Overtake, Stale
<1>2. \A q \in C!Handlers : Stale(q) \in C!Handlers /\ Stale(q).fresh = FALSE
  BY DEF C!Handlers, Stale
<1> QED BY <1>1, <1>2 DEF Follows

(* Nobody knows a connection that has never been there. *)
LEMMA NewIsUnknown ==
  ASSUME ConnectionsInv, NEW c \in Connection, tables[c].status = "new", NEW g \in Handler,
         calls[g].pc # "idle"
  PROVE calls[g].connection # c
BY DEF ConnectionsInv, Knows

LEMMA CreateHookStep ==
  ASSUME ConnectionsInv, NEW c \in Connection, NEW row \in NewConnection, C!CreateHook(c, row)
  PROVE ConnectionsInv'
<1> DEFINE gv == pairs[c] \cup {C!Pair(row)}
           Nobody == {}
<1>1. /\ row \in C!Rows /\ C!Pair(row) \in C!Pairs /\ pairs[c] \in SUBSET C!Pairs
  BY Fit, CRowFields, CTypes
<1>2. /\ tables[c] = C!NoRow /\ ConnectionKind[c] # "database"
      /\ ConnectionKind[c] = "inbound" => row.secret \in Secret
      /\ tables' = [tables EXCEPT ![c] = row] /\ intent' = [intent EXCEPT ![c] = row]
      /\ calls' = calls /\ answered' = answered /\ overlapped' = overlapped
      /\ cut' = cut /\ outdated' = outdated /\ sent' = sent
  BY DEF C!CreateHook, C!Store
<1>3. pairs' = [pairs EXCEPT ![c] = gv]
  BY DEF C!CreateHook, C!Store
<1>4. gv \in SUBSET C!Pairs /\ pairs[c] \subseteq gv /\ C!Pair(row) \in gv
  BY <1>1
<1>5. /\ Nobody \in SUBSET Handler
      /\ \A g \in Nobody : Knows(calls'[g], tables', pairs', answered', overlapped')
      /\ \A g \in Nobody : calls[g].pc \in {"probe", "record"} => calls[g].connection = c
  OBVIOUS
<1> HIDE DEF gv, Nobody
<1>6. count' \in 0 .. MaxConnectionRequests
  BY CountStep DEF C!CreateHook
<1>7. overlapped \subseteq overlapped' /\ overlapped' \subseteq Connection
      /\ calls' \in [Handler -> C!Handlers]
  BY <1>2, CTypes
<1>8. \A g \in Handler : g \notin Nobody => Follows(calls'[g], calls[g])
  BY <1>2 DEF Follows
<1>9. \A g \in Handler : g \notin Nobody /\ calls[g].pc # "idle" /\ calls'[g].fresh =>
                            calls[g].connection # c \/ ~ Live(row)
  BY <1>2, NewIsUnknown, DeadRows
<1>10. Sound(c, row, row, gv)
  BY <1>1, <1>2, <1>4, Fit DEF Sound, Earned
<1>11. AsAsked(c, row, row) /\ HasAnswered(c, row, answered[c], calls')
  BY <1>2 DEF AsAsked, HasAnswered
<1>12. row \in C!Rows \cup {C!Gone}
  BY <1>1
<1> QED BY <1>2, <1>3, <1>4, <1>5, <1>6, <1>7, <1>8, <1>9, <1>10, <1>11, <1>12, WriteRow

LEMMA CreateDatabaseStep ==
  ASSUME ConnectionsInv, NEW h \in Handler, NEW c \in Connection, NEW row \in NewConnection,
         C!CreateDatabase(h, c, row)
  PROVE ConnectionsInv'
<1> DEFINE gv == pairs[c] \cup {C!Pair(row)}
           r == [C!Idle EXCEPT !.pc = "probe", !.op = "update", !.connection = c, !.row = row]
<1>1. /\ row \in C!Rows /\ C!Pair(row) \in C!Pairs /\ pairs[c] \in SUBSET C!Pairs
  BY Fit, CRowFields, CTypes
<1>2. /\ tables[c] = C!NoRow /\ ConnectionKind[c] = "database" /\ calls[h].pc = "idle"
      /\ row.address \in Address /\ row.secret \in Secret /\ row.status = "unreachable"
      /\ tables' = [tables EXCEPT ![c] = row] /\ intent' = [intent EXCEPT ![c] = row]
      /\ answered' = answered /\ overlapped' = overlapped
      /\ cut' = cut /\ outdated' = outdated /\ sent' = sent
  BY DEF C!CreateDatabase, C!Store, C!At
<1>3. pairs' = [pairs EXCEPT ![c] = gv] /\ C!Goto(h, r)
  BY DEF C!CreateDatabase, C!Store
<1>4. gv \in SUBSET C!Pairs /\ pairs[c] \subseteq gv /\ C!Pair(row) \in gv
  BY <1>1
<1>5. /\ r \in C!Handlers /\ r.pc = "probe" /\ r.op = "update" /\ r.connection = c /\ r.row = row
  BY <1>1, CIdleTyped DEF C!Handlers
<1> HIDE DEF gv, r
<1>6. count' \in 0 .. MaxConnectionRequests
  BY CountStep DEF C!CreateDatabase
<1>7. /\ calls' \in [Handler -> C!Handlers] /\ calls'[h] = r
      /\ \A g \in Handler : g # h => calls'[g] = calls[g]
  BY <1>3, <1>5, GotoStep
<1>8. overlapped \subseteq overlapped' /\ overlapped' \subseteq Connection
  BY <1>2, CTypes
<1>9. \A g \in Handler : g \notin {h} => Follows(calls'[g], calls[g])
  BY <1>7 DEF Follows
<1>10. \A g \in Handler : g \notin {h} /\ calls[g].pc # "idle" /\ calls'[g].fresh =>
                             calls[g].connection # c \/ ~ Live(row)
  BY <1>2, NewIsUnknown, DeadRows
<1>11. Sound(c, row, row, gv) /\ AsAsked(c, row, row) /\ HasAnswered(c, row, answered[c], calls')
  BY <1>1, <1>2, <1>4, Fit DEF Sound, Earned, LoggedIn, AsAsked, HasAnswered
<1>12. Knows(r, tables', pairs', answered', overlapped')
  <2>1. tables'[c] = row /\ row.status # "new" /\ LoggedIn(row)
    BY <1>2, CTypes DEF LoggedIn
  <2>2. Checks(r, tables', answered')
    BY <1>2, <1>5, <2>1 DEF Checks
  <2> QED BY <1>1, <1>5, <2>1, <2>2 DEF Knows
<1>13. /\ row \in C!Rows \cup {C!Gone} /\ {h} \in SUBSET Handler
       /\ \A g \in {h} : Knows(calls'[g], tables', pairs', answered', overlapped')
       /\ \A g \in {h} : calls[g].pc \in {"probe", "record"} => calls[g].connection = c
  BY <1>1, <1>2, <1>7, <1>12
<1> QED BY <1>2, <1>3, <1>4, <1>6, <1>7, <1>8, <1>9, <1>10, <1>11, <1>13, WriteRow, ZenonT(60)

LEMMA DeleteStep ==
  ASSUME ConnectionsInv, NEW c \in Connection, C!Delete(c)
  PROVE ConnectionsInv'
<1> DEFINE gv == pairs[c]
           Nobody == {}
<1>1. /\ tables' = [tables EXCEPT ![c] = C!Gone] /\ intent' = [intent EXCEPT ![c] = C!Gone]
      /\ calls' = calls /\ answered' = answered /\ overlapped' = overlapped
      /\ cut' = cut /\ outdated' = outdated /\ sent' = sent /\ pairs' = pairs
  BY DEF C!Delete
<1>2. pairs' = [pairs EXCEPT ![c] = gv] /\ gv \in SUBSET C!Pairs /\ pairs[c] \subseteq gv
  BY <1>1, CTypes
<1>3. /\ Nobody \in SUBSET Handler
      /\ \A g \in Nobody : Knows(calls'[g], tables', pairs', answered', overlapped')
      /\ \A g \in Nobody : calls[g].pc \in {"probe", "record"} => calls[g].connection = c
  OBVIOUS
<1> HIDE DEF gv, Nobody
<1>4. count' \in 0 .. MaxConnectionRequests
  BY CountStep DEF C!Delete
<1>5. /\ overlapped \subseteq overlapped' /\ overlapped' \subseteq Connection
      /\ calls' \in [Handler -> C!Handlers]
  BY <1>1, CTypes
<1>6. \A g \in Handler : g \notin Nobody => Follows(calls'[g], calls[g])
  BY <1>1 DEF Follows
<1>7. \A g \in Handler : g \notin Nobody /\ calls[g].pc # "idle" /\ calls'[g].fresh =>
                            calls[g].connection # c \/ ~ Live(C!Gone)
  BY DeadRows
<1>8. /\ Sound(c, C!Gone, C!Gone, gv) /\ AsAsked(c, C!Gone, C!Gone)
      /\ HasAnswered(c, C!Gone, answered[c], calls')
  BY DeadRows DEF Sound, AsAsked, HasAnswered
<1>9. C!Gone \in C!Rows \cup {C!Gone}
  OBVIOUS
<1> QED BY <1>1, <1>2, <1>3, <1>4, <1>5, <1>6, <1>7, <1>8, <1>9, WriteRow

(* A row that is there, with another status. *)
LEMMA StatusWritten ==
  ASSUME ConnectionsInv, NEW c \in Connection, Live(tables[c]), ConnectionKind[c] = "database",
         NEW status \in {"connected", "unreachable", "disconnected"},
         NEW row, row = [tables[c] EXCEPT !.status = status]
  PROVE /\ tables[c] \in C!Rows /\ row \in C!Rows /\ intent[c] \in C!Rows
        /\ row.status = status /\ C!Pair(row) = C!Pair(tables[c])
        /\ Sound(c, row, intent[c], pairs[c])
        /\ c \notin overlapped => AsAsked(c, row, intent[c])
<1>1. Sound(c, tables[c], intent[c], pairs[c])
  BY DEF ConnectionsInv
<1>2. tables[c] \in C!Rows /\ intent[c] \in C!Rows /\ C!Pair(intent[c]) \in pairs[c] /\ LoggedIn(tables[c])
  BY <1>1 DEF Sound
<1>3. /\ row \in C!Rows /\ row.status = status /\ row.mode = tables[c].mode
      /\ row.address = tables[c].address /\ row.secret = tables[c].secret
  BY <1>2 DEF C!Rows
<1>4. C!Pair(row) = C!Pair(tables[c]) /\ LoggedIn(row)
  BY <1>2, <1>3 DEF C!Pair, LoggedIn
<1>5. Sound(c, row, intent[c], pairs[c])
  BY <1>2, <1>3, <1>4 DEF Sound, Earned
<1>6. c \notin overlapped => AsAsked(c, tables[c], intent[c])
  BY DEF ConnectionsInv
<1>7. c \notin overlapped => AsAsked(c, row, intent[c])
  BY <1>3, <1>4, <1>6 DEF AsAsked
<1> QED BY <1>2, <1>3, <1>4, <1>5, <1>7

LEMMA DisconnectStep ==
  ASSUME ConnectionsInv, NEW h \in Handler, NEW c \in Connection, C!Disconnect(h, c)
  PROVE ConnectionsInv'
<1> DEFINE row == [tables[c] EXCEPT !.status = "disconnected"]
           wanted == intent[c]
           gv == pairs[c]
<1>1. /\ calls[h].pc = "idle" /\ Live(tables[c]) /\ ConnectionKind[c] = "database"
      /\ intent' = intent /\ answered' = answered /\ overlapped' = overlapped
      /\ cut' = cut /\ outdated' = outdated /\ sent' = sent /\ pairs' = pairs
      /\ C!Overtake(h, c, C!Idle)
  BY DEF C!Disconnect, C!At, C!Exists, Live, C!histories
<1>2. tables' = [tables EXCEPT ![c] = row]
  BY DEF C!Disconnect
<1>3. /\ row \in C!Rows /\ wanted \in C!Rows /\ row.status = "disconnected"
      /\ Sound(c, row, wanted, gv)
      /\ c \notin overlapped => AsAsked(c, row, wanted)
  BY <1>1, StatusWritten
<1>4. /\ intent' = [intent EXCEPT ![c] = wanted] /\ pairs' = [pairs EXCEPT ![c] = gv]
      /\ gv \in SUBSET C!Pairs /\ pairs[c] \subseteq gv
  BY <1>1, CTypes
<1> HIDE DEF row, wanted, gv
<1>5. /\ calls' \in [Handler -> C!Handlers] /\ calls'[h] = C!Idle
      /\ \A g \in Handler : g # h =>
            Follows(calls'[g], calls[g]) /\ (calls'[g].fresh => calls[g].connection # c)
  BY <1>1, CIdleTyped, OvertakeStep
<1>6. \A g \in Handler : g \notin {h} => Follows(calls'[g], calls[g])
  BY <1>5
<1>10. \A g \in Handler : g \notin {h} /\ calls[g].pc # "idle" /\ calls'[g].fresh =>
                               calls[g].connection # c \/ ~ Live(row)
  BY <1>5
<1>7. /\ {h} \in SUBSET Handler
      /\ \A g \in {h} : Knows(calls'[g], tables', pairs', answered', overlapped')
      /\ \A g \in {h} : calls[g].pc \in {"probe", "record"} => calls[g].connection = c
  BY <1>1, <1>5, CIdleKnows
<1>8. count' \in 0 .. MaxConnectionRequests
  BY CountStep DEF C!Disconnect
<1>9. /\ overlapped \subseteq overlapped' /\ overlapped' \subseteq Connection
      /\ row \in C!Rows \cup {C!Gone} /\ wanted \in C!Rows \cup {C!Gone}
  BY <1>1, <1>3, CTypes
<1>11. /\ c \notin overlapped' => AsAsked(c, row, wanted)
       /\ c \notin overlapped' \cup cut => HasAnswered(c, row, answered[c], calls')
  BY <1>1, <1>3 DEF HasAnswered
<1>12. answered' = answered /\ cut' = cut /\ outdated' = outdated /\ sent' = sent
  BY <1>1
<1>13. calls' \in [Handler -> C!Handlers] /\ Sound(c, row, wanted, gv)
  BY <1>3, <1>5
<1> QED BY <1>2, <1>4, <1>6, <1>7, <1>8, <1>9, <1>10, <1>11, <1>12, <1>13, WriteRow

(* What h knows when it has a reading of a connection. *)
LEMMA KnownBy ==
  ASSUME ConnectionsInv, NEW h \in Handler, calls[h].pc # "idle"
  PROVE /\ calls[h] \in C!Handlers
        /\ calls[h].connection \in Connection /\ calls[h].row \in C!Rows
        /\ calls[h].patch \in C!Patches /\ calls[h].fresh \in BOOLEAN
        /\ tables[calls[h].connection].status # "new"
        /\ calls[h].pc = "write" => Writes(calls[h], tables)
        /\ calls[h].pc \in {"probe", "record"} => Checks(calls[h], tables, answered)
        /\ calls[h].pc = "act" => \/ calls[h].connection \in overlapped
                                  \/ C!Pair(calls[h].row) \in pairs[calls[h].connection]
<1>1. calls[h] \in C!Handlers /\ Knows(calls[h], tables, pairs, answered, overlapped)
  BY CTypes DEF ConnectionsInv
<1> QED BY <1>1, CallFields DEF Knows

(* h fails, or is done with, and nothing is written. *)
LEMMA BackToIdle ==
  ASSUME ConnectionsInv, NEW h \in Handler, C!Goto(h, C!Idle),
         UNCHANGED <<tables, intent, pairs, answered, overlapped, outdated, count>>,
         cut \subseteq cut', cut' \subseteq Connection,
         sent' \subseteq Connection \X C!Pairs,
         \A x \in sent' : x[1] \in overlapped \/ x[2] \in pairs[x[1]],
         calls[h].pc \in {"probe", "record"} =>
            calls[h].connection \in cut' \/ ~ Live(tables[calls[h].connection])
  PROVE ConnectionsInv'
<1> DEFINE s == C!Idle
<1>1. s \in C!Handlers /\ Knows(s, tables, pairs, answered', overlapped)
  BY CIdleTyped, CIdleKnows
<1>2. \A c \in Connection :
         Checking(c, calls[h]) => Checking(c, s) \/ c \in cut' \/ ~ Live(tables[c])
  BY DEF Checking
<1>3. /\ answered' \in [Connection -> SUBSET (Address \X Secret)]
      /\ \A c \in Connection : answered[c] \subseteq answered'[c]
      /\ count' \in 0 .. MaxConnectionRequests
  BY CTypes
<1>4. calls' = [calls EXCEPT ![h] = s]
  BY DEF C!Goto
<1> HIDE DEF s
<1>5. /\ tables' = tables /\ intent' = intent /\ pairs' = pairs
      /\ overlapped' = overlapped /\ outdated' = outdated
  OBVIOUS
<1> QED BY <1>1, <1>2, <1>3, <1>4, <1>5, QuietCall

LEMMA RecordCheckStep ==
  ASSUME ConnectionsInv, NEW h \in Handler, C!RecordCheck(h)
  PROVE ConnectionsInv'
<1> DEFINE r == calls[h]
           c == r.connection
           row == [tables[c] EXCEPT !.status = r.row.status]
           wanted == intent[c]
           gv == pairs[c]
<1>1. /\ r.pc = "record" /\ count' = count /\ intent' = intent /\ pairs' = pairs
      /\ answered' = answered /\ cut' = cut /\ outdated' = outdated /\ sent' = sent
  BY DEF C!RecordCheck, C!At
<1>2. c \in Connection /\ r.row \in C!Rows /\ r.fresh \in BOOLEAN /\ Checks(r, tables, answered)
  BY <1>1, KnownBy
<1>3. CASE ~ Live(tables[c])
  <2>1. C!Goto(h, C!Idle) /\ UNCHANGED <<tables, overlapped>>
    BY <1>3 DEF C!RecordCheck, C!Exists, Live
  <2>2. /\ cut \subseteq cut' /\ cut' \subseteq Connection /\ sent' \subseteq Connection \X C!Pairs
        /\ \A x \in sent' : x[1] \in overlapped \/ x[2] \in pairs[x[1]]
    BY <1>1, CTypes DEF ConnectionsInv
  <2>3. UNCHANGED <<tables, intent, pairs, answered, overlapped, outdated, count>>
    BY <1>1, <2>1
  <2> QED BY <1>3, <2>1, <2>2, <2>3, BackToIdle
<1>4. CASE Live(tables[c])
  <2>1. /\ tables' = [tables EXCEPT ![c] = row]
        /\ overlapped' = IF r.fresh THEN overlapped ELSE overlapped \cup {c}
        /\ C!Overtake(h, c, C!Idle)
    BY <1>4 DEF C!RecordCheck, C!Exists, Live
  <2>2. /\ ConnectionKind[c] = "database" /\ r.row.status \in {"connected", "unreachable"}
        /\ r.row.status = "connected" => C!Pair(r.row) \in answered[c]
        /\ r.fresh => C!Pair(tables[c]) = C!Pair(r.row)
    BY <1>1, <1>2, <1>4 DEF Checks
  <2>3. /\ row \in C!Rows /\ wanted \in C!Rows /\ row.status = r.row.status
        /\ C!Pair(row) = C!Pair(tables[c]) /\ Sound(c, row, wanted, gv)
        /\ c \notin overlapped => AsAsked(c, row, wanted)
    BY <1>2, <1>4, <2>2, StatusWritten
  <2>4. /\ intent' = [intent EXCEPT ![c] = wanted] /\ pairs' = [pairs EXCEPT ![c] = gv]
        /\ gv \in SUBSET C!Pairs /\ pairs[c] \subseteq gv
    BY <1>1, <1>2, CTypes
  <2>5. /\ \A g \in {h} : calls[g].pc \in {"probe", "record"} => calls[g].connection = c
        /\ c \notin overlapped' => r.fresh
    BY <2>1
  <2> HIDE DEF r, c, row, wanted, gv
  <2>6. /\ calls' \in [Handler -> C!Handlers] /\ calls'[h] = C!Idle
        /\ \A g \in Handler : g # h =>
              Follows(calls'[g], calls[g]) /\ (calls'[g].fresh => calls[g].connection # c)
    BY <1>2, <2>1, CIdleTyped, OvertakeStep
  <2>7. \A g \in Handler : g \notin {h} => Follows(calls'[g], calls[g])
    BY <2>6
  <2>8. \A g \in Handler : g \notin {h} /\ calls[g].pc # "idle" /\ calls'[g].fresh =>
                              calls[g].connection # c \/ ~ Live(row)
    BY <2>6
  <2>9. /\ {h} \in SUBSET Handler
        /\ \A g \in {h} : Knows(calls'[g], tables', pairs', answered', overlapped')
    BY <2>6, CIdleKnows
  <2>10. count' \in 0 .. MaxConnectionRequests
    BY <1>1, CTypes
  <2>11. /\ overlapped \subseteq overlapped' /\ overlapped' \subseteq Connection
         /\ row \in C!Rows \cup {C!Gone} /\ wanted \in C!Rows \cup {C!Gone}
    BY <1>2, <2>1, <2>3, CTypes
  <2>12. c \notin overlapped' => AsAsked(c, row, wanted)
    BY <2>3, <2>11
  <2>13. c \notin overlapped' \cup cut => HasAnswered(c, row, answered[c], calls')
    BY <2>2, <2>3, <2>5 DEF HasAnswered
  <2>14. answered' = answered /\ cut' = cut /\ outdated' = outdated /\ sent' = sent
    BY <1>1
  <2>15. calls' \in [Handler -> C!Handlers] /\ Sound(c, row, wanted, gv) /\ c \in Connection
    BY <1>2, <2>3, <2>6
  <2>16. tables' = [tables EXCEPT ![c] = row]
    BY <2>1
  <2> QED BY <2>4, <2>5, <2>7, <2>8, <2>9, <2>10, <2>11, <2>12, <2>13, <2>14, <2>15, <2>16, WriteRow
<1> QED BY <1>3, <1>4

(* What an UPDATE leaves of a row, and what was asked for by then. *)
LEMMA UpdateWritten ==
  ASSUME ConnectionsInv, NEW c \in Connection, Live(tables[c]),
         NEW upd \in C!Rows, NEW p \in C!Patches, Earned(c, upd),
         ConnectionKind[c] = "database" => upd.address \in Address,
         NEW row, row = C!Written(c, upd), NEW wanted, wanted = C!Wanted(c, p, upd)
  PROVE /\ row \in C!Rows /\ wanted \in C!Rows
        /\ ConnectionKind[c] = "database" => LoggedIn(row)
        /\ Earned(c, row)
        /\ c \notin overlapped /\ MergedFrom(c, tables[c], p, upd) => AsAsked(c, row, wanted)
<1> DEFINE old == tables[c]
           as == intent[c]
<1>1. Sound(c, old, as, pairs[c]) /\ (c \notin overlapped => AsAsked(c, old, as))
  BY DEF ConnectionsInv
<1>2. old \in C!Rows /\ as \in C!Rows /\ (ConnectionKind[c] = "database" => LoggedIn(old))
  BY <1>1 DEF Sound
<1>3. c \notin overlapped => /\ old.address = as.address /\ old.secret = as.secret
                             /\ ConnectionKind[c] # "database" => old.status = as.status
                             /\ old.mode = as.mode
  BY <1>1 DEF AsAsked, C!Pair
<1>4. ConnectionKind[c] \in {"database", "webhook", "inbound"}
  BY Fit DEF C!Kinds
<1>5. /\ upd.address \in Address \cup {None} /\ upd.secret \in Secret \cup {Blank}
      /\ upd.mode \in C!Modes /\ upd.status \in {"connected", "unreachable", "disconnected"}
      /\ old.address \in Address \cup {None} /\ old.secret \in Secret \cup {Blank}
      /\ old.mode \in C!Modes /\ old.status \in {"connected", "unreachable", "disconnected"}
      /\ as.address \in Address \cup {None} /\ as.secret \in Secret \cup {Blank}
      /\ as.mode \in C!Modes /\ as.status \in {"connected", "unreachable", "disconnected"}
  BY <1>2, CRowFields
<1>6. CASE ConnectionKind[c] = "inbound"
  <2>1. row = upd /\ wanted = C!InboundMerge(as, p, upd.secret)
    BY <1>6 DEF C!Written, C!Wanted
  <2>2. wanted \in C!Rows
    BY <1>2, <1>5, <2>1, InboundTyped
  <2>3. c \notin overlapped /\ MergedFrom(c, old, p, upd) => row = wanted
    BY <1>3, <1>6, <2>1 DEF MergedFrom, C!InboundMerge
  <2> QED BY <1>6, <2>1, <2>2, <2>3 DEF AsAsked
<1>7. CASE ConnectionKind[c] # "inbound"
  <2> DEFINE secret == C!Keep(upd.secret, old.secret)
             status == IF ConnectionKind[c] = "database" THEN old.status ELSE upd.status
             wsecret == C!Keep(upd.secret, as.secret)
             wstatus == IF ConnectionKind[c] = "database" THEN old.status
                                                          ELSE C!Or(p.status, as.status)
             waddress == C!Or(p.address, as.address)
  <2>1. row = [upd EXCEPT !.secret = secret, !.status = status]
    BY <1>7 DEF C!Written
  <2>2. wanted = [address |-> waddress, secret |-> wsecret, mode |-> upd.mode, status |-> wstatus]
    BY <1>7 DEF C!Wanted
  <2>3. /\ secret \in Secret \cup {Blank} /\ wsecret \in Secret \cup {Blank}
        /\ status \in {"connected", "unreachable", "disconnected"}
        /\ ConnectionKind[c] = "database" /\ old.secret \in Secret => secret \in Secret
    BY <1>5 DEF C!Keep
  <2>4. /\ waddress \in Address \cup {None}
        /\ wstatus \in {"connected", "unreachable", "disconnected"}
    BY <1>5, PatchOf DEF C!Or
  <2>5. c \notin overlapped => wsecret = secret
    BY <1>3
  <2>6. c \notin overlapped /\ MergedFrom(c, old, p, upd) =>
           upd.address = waddress /\ (ConnectionKind[c] # "database" => upd.status = wstatus)
    BY <1>2, <1>3, <1>4, <1>7, OutboundTyped DEF MergedFrom
  <2>7. ConnectionKind[c] # "database" => status = upd.status
    OBVIOUS
  <2> HIDE DEF secret, status, wsecret, wstatus, waddress
  <2>8. /\ row \in C!Rows /\ row.address = upd.address /\ row.secret = secret
        /\ row.mode = upd.mode /\ row.status = status
    BY <1>5, <2>1, <2>3 DEF C!Rows
  <2>9. /\ wanted \in C!Rows /\ wanted.address = waddress /\ wanted.secret = wsecret
        /\ wanted.mode = upd.mode /\ wanted.status = wstatus
    BY <1>5, <2>2, <2>3, <2>4 DEF C!Rows
  <2>10. ConnectionKind[c] = "database" => LoggedIn(row)
    BY <1>2, <2>3, <2>8 DEF LoggedIn
  <2>11. c \notin overlapped /\ MergedFrom(c, old, p, upd) => AsAsked(c, row, wanted)
    BY <2>5, <2>6, <2>7, <2>8, <2>9 DEF AsAsked, C!Pair
  <2> QED BY <1>7, <2>8, <2>9, <2>10, <2>11 DEF Earned
<1> QED BY <1>6, <1>7

LEMMA WriteUpdateStep ==
  ASSUME ConnectionsInv, NEW h \in Handler, C!WriteUpdate(h)
  PROVE ConnectionsInv'
<1> DEFINE r == calls[h]
           c == r.connection
           row == C!Written(c, r.row)
           wanted == C!Wanted(c, r.patch, r.row)
           gv == pairs[c] \cup {C!Pair(wanted)}
           s == IF ConnectionKind[c] = "database"
                THEN [r EXCEPT !.pc = "probe", !.row = row, !.fresh = TRUE]
                ELSE C!Idle
<1>1. r.pc = "write" /\ count' = count
  BY DEF C!WriteUpdate, C!At
<1>2. /\ r \in C!Handlers /\ c \in Connection /\ r.row \in C!Rows /\ r.patch \in C!Patches
      /\ r.fresh \in BOOLEAN /\ tables[c].status # "new" /\ Writes(r, tables)
  BY <1>1, KnownBy
<1>3. CASE ~ Live(tables[c])
  <2>1. C!Goto(h, C!Idle) /\ UNCHANGED <<tables, intent, pairs, answered, overlapped, cut, outdated, sent>>
    BY <1>3 DEF C!WriteUpdate, C!Exists, Live, C!histories
  <2>2. /\ cut \subseteq cut' /\ cut' \subseteq Connection /\ sent' \subseteq Connection \X C!Pairs
        /\ \A x \in sent' : x[1] \in overlapped \/ x[2] \in pairs[x[1]]
    BY <2>1, CTypes DEF ConnectionsInv
  <2>3. UNCHANGED <<tables, intent, pairs, answered, overlapped, outdated, count>>
    BY <1>1, <2>1
  <2> QED BY <1>3, <2>1, <2>2, <2>3, BackToIdle
<1>4. CASE Live(tables[c])
  <2>1. /\ tables' = [tables EXCEPT ![c] = row] /\ intent' = [intent EXCEPT ![c] = wanted]
        /\ pairs' = [pairs EXCEPT ![c] = gv]
        /\ overlapped' = IF r.fresh THEN overlapped ELSE overlapped \cup {c}
        /\ C!Overtake(h, c, s)
        /\ answered' = answered /\ cut' = cut /\ outdated' = outdated /\ sent' = sent
    BY <1>4 DEF C!WriteUpdate, C!Exists, Live, C!Store
  <2>2. /\ Earned(c, r.row)
        /\ ConnectionKind[c] = "database" => r.row.address \in Address
        /\ r.fresh => MergedFrom(c, tables[c], r.patch, r.row)
    BY <1>2, <1>4 DEF Writes
  <2>3. /\ row \in C!Rows /\ wanted \in C!Rows /\ Earned(c, row)
        /\ ConnectionKind[c] = "database" => LoggedIn(row)
        /\ c \notin overlapped /\ r.fresh => AsAsked(c, row, wanted)
    <3> HIDE DEF r, c, row, wanted
    <3>1. row = C!Written(c, r.row) /\ wanted = C!Wanted(c, r.patch, r.row)
      BY DEF row, wanted
    <3> QED BY <1>2, <1>4, <2>2, <3>1, UpdateWritten
  <2>4. C!Pair(row) \in C!Pairs /\ C!Pair(wanted) \in C!Pairs /\ pairs[c] \in SUBSET C!Pairs
    BY <1>2, <2>3, CRowFields, CTypes
  <2>5. gv \in SUBSET C!Pairs /\ pairs[c] \subseteq gv /\ C!Pair(wanted) \in gv
    BY <2>4
  <2>6. /\ \A g \in {h} : calls[g].pc \in {"probe", "record"} => calls[g].connection = c
        /\ c \notin overlapped' => r.fresh
    BY <2>1
  <2>7. /\ s \in C!Handlers
        /\ ConnectionKind[c] = "database" =>
              /\ s.pc = "probe" /\ s.op = "update" /\ s.connection = c /\ s.row = row
        /\ ConnectionKind[c] # "database" => s = C!Idle
    <3>1. r.connection = c /\ r.op = "update"
      BY <1>2 DEF Writes
    <3> HIDE DEF r, c, row
    <3>2. [r EXCEPT !.pc = "probe", !.row = row, !.fresh = TRUE] \in C!Handlers
      BY <1>2, <2>3 DEF C!Handlers
    <3> QED BY <1>2, <3>1, <3>2, CIdleTyped DEF C!Handlers
  <2>8. c \in Connection
    BY <1>2
  <2> HIDE DEF r, c, row, wanted, gv, s
  <2>9. /\ calls' \in [Handler -> C!Handlers] /\ calls'[h] = s
        /\ \A g \in Handler : g # h =>
              Follows(calls'[g], calls[g]) /\ (calls'[g].fresh => calls[g].connection # c)
    BY <2>1, <2>7, <2>8, OvertakeStep
  <2>10. \A g \in Handler : g \notin {h} => Follows(calls'[g], calls[g])
    BY <2>9
  <2>11. \A g \in Handler : g \notin {h} /\ calls[g].pc # "idle" /\ calls'[g].fresh =>
                               calls[g].connection # c \/ ~ Live(row)
    BY <2>9
  <2>12. Knows(s, tables', pairs', answered', overlapped')
    <3>1. CASE ConnectionKind[c] # "database"
      BY <2>7, <3>1, CIdleKnows
    <3>2. CASE ConnectionKind[c] = "database"
      <4>1. tables'[c] = row /\ row.status # "new" /\ LoggedIn(row)
        BY <2>1, <2>3, <2>8, <3>2, CTypes, CRowFields
      <4>2. s.pc = "probe" /\ s.connection = c /\ s.row = row
        BY <2>7, <3>2
      <4>3. Checks(s, tables', answered')
        BY <3>2, <4>1, <4>2 DEF Checks
      <4> QED BY <2>3, <2>8, <4>1, <4>2, <4>3 DEF Knows
    <3> QED BY <3>1, <3>2
  <2>13. /\ {h} \in SUBSET Handler
         /\ \A g \in {h} : Knows(calls'[g], tables', pairs', answered', overlapped')
    BY <2>9, <2>12
  <2>14. count' \in 0 .. MaxConnectionRequests
    BY <1>1, CTypes
  <2>15. /\ overlapped \subseteq overlapped' /\ overlapped' \subseteq Connection
         /\ row \in C!Rows \cup {C!Gone} /\ wanted \in C!Rows \cup {C!Gone}
    BY <2>1, <2>3, <2>8, CTypes
  <2>16. c \notin overlapped' => AsAsked(c, row, wanted)
    BY <2>3, <2>6, <2>15
  <2>17. c \notin overlapped' \cup cut => HasAnswered(c, row, answered[c], calls')
    BY <2>7, <2>9 DEF HasAnswered, BeingChecked, Checking
  <2>18. Sound(c, row, wanted, gv)
    BY <2>3, <2>5 DEF Sound
  <2>19. /\ tables' = [tables EXCEPT ![c] = row] /\ intent' = [intent EXCEPT ![c] = wanted]
         /\ pairs' = [pairs EXCEPT ![c] = gv]
    BY <2>1
  <2>20. answered' = answered /\ cut' = cut /\ outdated' = outdated /\ sent' = sent
    BY <2>1
  <2>21. calls' \in [Handler -> C!Handlers]
    BY <2>9
  <2> QED BY <2>5, <2>6, <2>8, <2>10, <2>11, <2>13, <2>14, <2>15, <2>16, <2>17, <2>18, <2>19,
             <2>20, <2>21, WriteRow
<1> QED BY <1>3, <1>4

(* h comes to be idle no more, with a reading of what is there. *)
LEMMA ReadingStep ==
  ASSUME ConnectionsInv, NEW h \in Handler, calls[h].pc = "idle",
         NEW s \in C!Handlers, C!Goto(h, s), C!Begin,
         UNCHANGED tables, UNCHANGED C!histories,
         Knows(s, tables, pairs, answered, overlapped)
  PROVE ConnectionsInv'
<1>1. /\ tables' = tables /\ intent' = intent /\ pairs' = pairs /\ overlapped' = overlapped
      /\ outdated' = outdated /\ answered' = answered /\ cut' = cut /\ sent' = sent
      /\ calls' = [calls EXCEPT ![h] = s]
  BY DEF C!histories, C!Goto
<1>2. \A c \in Connection :
         Checking(c, calls[h]) => Checking(c, s) \/ c \in cut' \/ ~ Live(tables[c])
  BY DEF Checking
<1>3. /\ answered' \in [Connection -> SUBSET (Address \X Secret)]
      /\ \A c \in Connection : answered[c] \subseteq answered'[c]
      /\ cut \subseteq cut' /\ cut' \subseteq Connection
      /\ sent' \subseteq Connection \X C!Pairs
      /\ \A x \in sent' : x[1] \in overlapped \/ x[2] \in pairs[x[1]]
  BY <1>1, CTypes DEF ConnectionsInv
<1>4. count' \in 0 .. MaxConnectionRequests
  BY CountStep
<1>5. Knows(s, tables, pairs, answered', overlapped)
  BY <1>1
<1> QED BY <1>1, <1>2, <1>3, <1>4, <1>5, QuietCall

(* The row of a connection that is there. *)
LEMMA LiveRow ==
  ASSUME ConnectionsInv, NEW c \in Connection, Live(tables[c])
  PROVE /\ tables[c] \in C!Rows /\ tables[c].status # "new"
        /\ ConnectionKind[c] = "database" => LoggedIn(tables[c])
        /\ c \in overlapped \/ C!Pair(tables[c]) \in pairs[c]
<1>1. /\ Sound(c, tables[c], intent[c], pairs[c])
      /\ c \notin overlapped => AsAsked(c, tables[c], intent[c])
  BY DEF ConnectionsInv
<1> QED BY <1>1, CRowFields DEF Sound, AsAsked

LEMMA ReadForUpdateStep ==
  ASSUME ConnectionsInv, NEW h \in Handler, NEW c \in Connection, NEW p \in ConnectionPatch,
         C!ReadForUpdate(h, c, p)
  PROVE ConnectionsInv'
<1>1. /\ calls[h].pc = "idle" /\ Live(tables[c]) /\ C!Begin
      /\ UNCHANGED tables /\ UNCHANGED C!histories
  BY DEF C!ReadForUpdate, C!At, C!Exists, Live
<1>2. PICK row \in C!Merges(c, tables[c], p) :
         C!Goto(h, [C!Idle EXCEPT !.pc = "write", !.op = "update", !.connection = c,
                                  !.row = row, !.patch = p])
  BY DEF C!ReadForUpdate
<1> DEFINE s == [C!Idle EXCEPT !.pc = "write", !.op = "update", !.connection = c,
                               !.row = row, !.patch = p]
<1>3. p \in C!Patches /\ tables[c] \in C!Rows /\ tables[c].status # "new"
      /\ (ConnectionKind[c] = "database" => LoggedIn(tables[c]))
  BY <1>1, Fit, LiveRow
<1>4. row \in C!Rows /\ MergedFrom(c, tables[c], p, row) /\ Earned(c, row)
  BY <1>3, MergesAre
<1>5. ConnectionKind[c] = "database" => row.address \in Address
  <2>1. ConnectionKind[c] = "database" => row.address = C!Or(p.address, tables[c].address)
    BY <1>3, <1>4, OutboundTyped DEF MergedFrom
  <2> QED BY <1>3, <2>1, PatchOf DEF C!Or, LoggedIn
<1>6. /\ s \in C!Handlers /\ s.pc = "write" /\ s.op = "update" /\ s.connection = c
      /\ s.row = row /\ s.patch = p
  BY <1>3, <1>4, CIdleTyped DEF C!Handlers
<1> HIDE DEF s
<1>7. Writes(s, tables)
  BY <1>4, <1>5, <1>6 DEF Writes
<1>8. Knows(s, tables, pairs, answered, overlapped)
  BY <1>3, <1>4, <1>6, <1>7 DEF Knows
<1>9. C!Goto(h, s)
  BY <1>2 DEF s
<1> QED BY <1>1, <1>6, <1>8, <1>9, ReadingStep

LEMMA CheckStep ==
  ASSUME ConnectionsInv, NEW h \in Handler, NEW c \in Connection,
         C!CheckOrganisationDatabase(h, c)
  PROVE ConnectionsInv'
<1> DEFINE s == [C!Idle EXCEPT !.pc = "probe", !.op = "check", !.connection = c, !.row = tables[c]]
<1>1. /\ calls[h].pc = "idle" /\ Live(tables[c]) /\ C!Begin /\ ConnectionKind[c] = "database"
      /\ UNCHANGED tables /\ UNCHANGED C!histories /\ C!Goto(h, s)
  BY DEF C!CheckOrganisationDatabase, C!At, C!Exists, Live
<1>2. tables[c] \in C!Rows /\ tables[c].status # "new" /\ LoggedIn(tables[c])
  BY <1>1, LiveRow
<1>3. s \in C!Handlers /\ s.pc = "probe" /\ s.connection = c /\ s.row = tables[c]
  BY <1>2, CIdleTyped DEF C!Handlers
<1> HIDE DEF s
<1>4. Checks(s, tables, answered)
  BY <1>1, <1>2, <1>3 DEF Checks
<1>5. Knows(s, tables, pairs, answered, overlapped)
  BY <1>2, <1>3, <1>4 DEF Knows
<1> QED BY <1>1, <1>3, <1>5, ReadingStep

LEMMA ReadForUseStep ==
  ASSUME ConnectionsInv, NEW h \in Handler, NEW c \in Connection, C!ReadForUse(h, c)
  PROVE ConnectionsInv'
<1> DEFINE s == [C!Idle EXCEPT !.pc = "act", !.op = "use", !.connection = c, !.row = tables[c]]
<1>1. /\ calls[h].pc = "idle" /\ Live(tables[c]) /\ C!Begin
      /\ UNCHANGED tables /\ UNCHANGED C!histories /\ C!Goto(h, s)
  BY DEF C!ReadForUse, C!At, C!Exists, Live
<1>2. /\ tables[c] \in C!Rows /\ tables[c].status # "new"
      /\ c \in overlapped \/ C!Pair(tables[c]) \in pairs[c]
  BY <1>1, LiveRow
<1>3. s \in C!Handlers /\ s.pc = "act" /\ s.connection = c /\ s.row = tables[c]
  BY <1>2, CIdleTyped DEF C!Handlers
<1> HIDE DEF s
<1>4. Knows(s, tables, pairs, answered, overlapped)
  BY <1>2, <1>3 DEF Knows
<1> QED BY <1>1, <1>3, <1>4, ReadingStep

LEMMA AbandonStep ==
  ASSUME ConnectionsInv, NEW h \in Handler, C!Abandon(h)
  PROVE ConnectionsInv'
<1>1. /\ calls[h].pc # "idle" /\ C!Goto(h, C!Idle) /\ sent' = sent
      /\ UNCHANGED <<tables, intent, pairs, answered, overlapped, outdated, count>>
      /\ cut' = IF calls[h].pc \in {"probe", "record"} THEN cut \cup {calls[h].connection} ELSE cut
  BY DEF C!Abandon, C!At
<1>2. calls[h].connection \in Connection
  BY <1>1, KnownBy
<1>3. /\ cut \subseteq cut' /\ cut' \subseteq Connection
      /\ calls[h].pc \in {"probe", "record"} =>
            calls[h].connection \in cut' \/ ~ Live(tables[calls[h].connection])
  BY <1>1, <1>2, CTypes
<1>4. /\ sent' \subseteq Connection \X C!Pairs
      /\ \A x \in sent' : x[1] \in overlapped \/ x[2] \in pairs[x[1]]
  BY <1>1, CTypes DEF ConnectionsInv
<1> QED BY <1>1, <1>3, <1>4, BackToIdle

LEMMA ActStep ==
  ASSUME ConnectionsInv, NEW h \in Handler, C!Act(h)
  PROVE ConnectionsInv'
<1> DEFINE r == calls[h]
           x == <<r.connection, C!Pair(r.row)>>
<1>1. /\ r.pc = "act" /\ C!Goto(h, C!Idle) /\ sent' = sent \cup {x} /\ cut' = cut
      /\ UNCHANGED <<tables, intent, pairs, answered, overlapped, outdated, count>>
  BY DEF C!Act, C!At
<1>2. /\ r.connection \in Connection /\ C!Pair(r.row) \in C!Pairs
      /\ r.connection \in overlapped \/ C!Pair(r.row) \in pairs[r.connection]
  BY <1>1, KnownBy, CRowFields
<1>3. /\ x \in Connection \X C!Pairs /\ (x[1] \in overlapped \/ x[2] \in pairs[x[1]])
  BY <1>2
<1> HIDE DEF x
<1>4. /\ sent' \subseteq Connection \X C!Pairs
      /\ \A y \in sent' : y[1] \in overlapped \/ y[2] \in pairs[y[1]]
  BY <1>1, <1>3, CTypes DEF ConnectionsInv
<1>5. /\ cut \subseteq cut' /\ cut' \subseteq Connection
      /\ calls[h].pc \in {"probe", "record"} =>
            calls[h].connection \in cut' \/ ~ Live(tables[calls[h].connection])
  BY <1>1, CTypes
<1> QED BY <1>1, <1>4, <1>5, BackToIdle

LEMMA ProbeStep ==
  ASSUME ConnectionsInv, NEW h \in Handler, C!Probe(h)
  PROVE ConnectionsInv'
<1> DEFINE r == calls[h]
           c == r.connection
           S(status) == [r EXCEPT !.pc = "record", !.row.status = status]
<1>1. /\ r.pc = "probe"
      /\ tables' = tables /\ intent' = intent /\ pairs' = pairs /\ overlapped' = overlapped
      /\ outdated' = outdated /\ cut' = cut /\ sent' = sent /\ count' = count
  BY DEF C!Probe, C!At
<1>2. \/ C!Goto(h, S("connected")) /\ answered' = [answered EXCEPT ![c] = @ \cup {C!Pair(r.row)}]
      \/ C!Goto(h, S("unreachable")) /\ answered' = answered
  BY DEF C!Probe
<1>3. PICK status \in {"connected", "unreachable"} :
         /\ C!Goto(h, S(status))
         /\ IF status = "connected"
            THEN answered' = [answered EXCEPT ![c] = @ \cup {C!Pair(r.row)}]
            ELSE answered' = answered
  BY <1>2
<1>4. /\ r \in C!Handlers /\ c \in Connection /\ r.row \in C!Rows /\ tables[c].status # "new"
      /\ r.connection = c /\ Checks(r, tables, answered)
  BY <1>1, KnownBy
<1> DEFINE s == S(status)
<1>5. /\ s \in C!Handlers /\ s.pc = "record" /\ s.op = r.op /\ s.connection = c
      /\ s.fresh = r.fresh
      /\ s.row \in C!Rows /\ s.row.status = status
      /\ s.row.address = r.row.address /\ s.row.secret = r.row.secret
  <2> DEFINE row == [r.row EXCEPT !.status = status]
  <2>1. s = [r EXCEPT !.pc = "record", !.row = row]
    BY <1>4 DEF C!Handlers
  <2>2. /\ row \in C!Rows /\ row.status = status
        /\ row.address = r.row.address /\ row.secret = r.row.secret
    BY <1>3, <1>4 DEF C!Rows
  <2> HIDE DEF row, s, r
  <2> QED BY <1>4, <2>1, <2>2 DEF C!Handlers
<1>6. calls' = [calls EXCEPT ![h] = s]
  BY <1>3 DEF C!Goto
<1>7. C!Pair(r.row) \in Address \X Secret /\ C!Pair(s.row) = C!Pair(r.row)
  BY <1>4, <1>5 DEF Checks, LoggedIn, C!Pair
<1>8. /\ answered' \in [Connection -> SUBSET (Address \X Secret)]
      /\ \A d \in Connection : answered[d] \subseteq answered'[d]
      /\ status = "connected" => C!Pair(r.row) \in answered'[c]
  <2> HIDE DEF r, c, s, S
  <2> QED BY <1>3, <1>4, <1>7, CTypes
<1>9. \A d \in Connection :
         Checking(d, calls[h]) => Checking(d, s) \/ d \in cut' \/ ~ Live(tables[d])
  BY <1>5 DEF Checking
<1> HIDE DEF s, S, r, c
<1>10. Checks(s, tables, answered')
  BY <1>3, <1>4, <1>5, <1>7, <1>8 DEF Checks, LoggedIn
<1>11. Knows(s, tables, pairs, answered', overlapped)
  BY <1>4, <1>5, <1>10 DEF Knows
<1>12. /\ cut \subseteq cut' /\ cut' \subseteq Connection
       /\ sent' \subseteq Connection \X C!Pairs
       /\ \A x \in sent' : x[1] \in overlapped \/ x[2] \in pairs[x[1]]
       /\ count' \in 0 .. MaxConnectionRequests
  BY <1>1, CTypes DEF ConnectionsInv
<1> QED BY <1>1, <1>5, <1>6, <1>8, <1>9, <1>11, <1>12, QuietCall

LEMMA DeliveryStep ==
  ASSUME ConnectionsInv, NEW c \in Connection, NEW secret, NEW place,
         C!HandleInboundWebhook(c, secret, place)
  PROVE ConnectionsInv'
<1>1. /\ ConnectionKind[c] = "inbound" /\ Live(tables[c]) /\ C!Begin
      /\ tables[c].status = "connected" /\ place = tables[c].mode /\ secret = tables[c].secret
      /\ outdated' = IF C!Valid(intent[c], secret, place) THEN outdated ELSE outdated \cup {c}
      /\ tables' = tables /\ calls' = calls /\ intent' = intent /\ pairs' = pairs
      /\ answered' = answered /\ overlapped' = overlapped /\ cut' = cut /\ sent' = sent
  BY DEF C!HandleInboundWebhook, C!Exists, Live, C!Authentic
<1>2. count' \in 0 .. MaxConnectionRequests
  BY <1>1, CountStep
<1>3. c \notin overlapped => AsAsked(c, tables[c], intent[c])
  BY DEF ConnectionsInv
<1>4. c \notin overlapped => C!Valid(intent[c], secret, place)
  BY <1>1, <1>3 DEF AsAsked, C!Valid, C!Pair
<1>5. outdated' \subseteq overlapped' /\ outdated' \subseteq Connection
  BY <1>1, <1>4, CTypes DEF ConnectionsInv
<1>6. C!TypeOK'
  BY <1>1, <1>2, <1>5 DEF ConnectionsInv, C!TypeOK
<1> QED BY <1>1, <1>5, <1>6 DEF ConnectionsInv

(* What connects an organisation to other systems: each step keeps ConnectionsInv. *)
LEMMA ConnectionsInit == C!Init => ConnectionsInv
<1> SUFFICES ASSUME C!Init PROVE ConnectionsInv
  OBVIOUS
<1>1. /\ tables = [c \in Connection |-> C!NoRow] /\ calls = [h \in Handler |-> C!Idle]
      /\ intent = [c \in Connection |-> C!NoRow] /\ pairs = [c \in Connection |-> {}]
      /\ answered = [c \in Connection |-> {}]
      /\ overlapped = {} /\ cut = {} /\ outdated = {} /\ sent = {} /\ count = 0
  BY DEF C!Init
<1>2. C!TypeOK
  BY <1>1, CIdleTyped, Fit DEF C!TypeOK
<1>3. \A c \in Connection :
         /\ Sound(c, tables[c], intent[c], pairs[c])
         /\ AsAsked(c, tables[c], intent[c])
         /\ HasAnswered(c, tables[c], answered[c], calls)
  BY <1>1, DeadRows DEF Sound, AsAsked, HasAnswered
<1>4. \A h \in Handler : Knows(calls[h], tables, pairs, answered, overlapped)
  BY <1>1, CIdleKnows
<1> QED BY <1>1, <1>2, <1>3, <1>4 DEF ConnectionsInv

LEMMA ConnectionsStep == ConnectionsInv /\ [C!Next]_(C!vars) => ConnectionsInv'
<1> SUFFICES ASSUME ConnectionsInv, [C!Next]_(C!vars) PROVE ConnectionsInv'
  OBVIOUS
<1>1. CASE UNCHANGED C!vars
  <2>1. /\ tables' = tables /\ calls' = calls /\ intent' = intent /\ pairs' = pairs
        /\ answered' = answered /\ overlapped' = overlapped /\ cut' = cut
        /\ outdated' = outdated /\ sent' = sent /\ count' = count
    BY <1>1 DEF C!vars
  <2>2. C!TypeOK'
    BY <2>1 DEF ConnectionsInv, C!TypeOK
  <2> QED BY <2>1, <2>2 DEF ConnectionsInv
<1>2. CASE C!Creating
  BY <1>2, CreateHookStep, CreateDatabaseStep DEF C!Creating
<1>3. ASSUME NEW h \in Handler, C!Serving(h)
      PROVE ConnectionsInv'
  <2>1. CASE \E c \in Connection :
                \/ \E p \in ConnectionPatch : C!ReadForUpdate(h, c, p)
                \/ C!CheckOrganisationDatabase(h, c) \/ C!Disconnect(h, c) \/ C!ReadForUse(h, c)
    BY <2>1, ReadForUpdateStep, CheckStep, DisconnectStep, ReadForUseStep
  <2>2. CASE C!WriteUpdate(h)
    BY <2>2, WriteUpdateStep
  <2>3. CASE C!Probe(h)
    BY <2>3, ProbeStep
  <2>4. CASE C!RecordCheck(h)
    BY <2>4, RecordCheckStep
  <2>5. CASE C!Act(h)
    BY <2>5, ActStep
  <2>6. CASE C!Abandon(h)
    BY <2>6, AbandonStep
  <2> QED BY <1>3, <2>1, <2>2, <2>3, <2>4, <2>5, <2>6 DEF C!Serving
<1>4. ASSUME NEW c \in Connection,
             C!Delete(c) \/ \E s \in Secret, m \in C!Modes : C!HandleInboundWebhook(c, s, m)
      PROVE ConnectionsInv'
  BY <1>4, DeleteStep, DeliveryStep
<1> QED BY <1>1, <1>2, <1>3, <1>4 DEF C!Next

ConnectionsKept ==
    C!TypeOK /\ C!RowsAreAsAsked /\ C!ConnectedIsEarned /\ C!SecretsServeOnlyTheirRow

LEMMA ConnectionsKeep == ConnectionsInv => ConnectionsKept
<1> SUFFICES ASSUME ConnectionsInv PROVE ConnectionsKept
  OBVIOUS
<1>1. C!RowsAreAsAsked
  BY DEF ConnectionsInv, AsAsked, Live, C!RowsAreAsAsked, C!Exists
<1>2. ASSUME NEW c \in Connection, tables[c].status = "connected"
      PROVE /\ ConnectionKind[c] = "inbound" => tables[c].secret # Blank
            /\ ConnectionKind[c] = "database" /\ c \notin overlapped \cup cut =>
                  C!DatabaseHasAnswered(c)
  <2>1. Earned(c, tables[c])
    BY <1>2 DEF ConnectionsInv, Sound, Live
  <2>2. c \notin overlapped \cup cut => HasAnswered(c, tables[c], answered[c], calls)
    BY DEF ConnectionsInv
  <2> QED BY <1>2, <2>1, <2>2 DEF Earned, HasAnswered, BeingChecked, Checking, C!DatabaseHasAnswered
<1>3. C!ConnectedIsEarned
  BY <1>2 DEF C!ConnectedIsEarned
<1>4. C!SecretsServeOnlyTheirRow
  BY DEF ConnectionsInv, C!SecretsServeOnlyTheirRow
<1> QED BY <1>1, <1>3, <1>4 DEF ConnectionsInv, ConnectionsKept
---------------------------------------------------------------------------
(* The two side by side: a step of one leaves the other as it is. *)

RecordsInv == CustomersInv /\ ConnectionsInv

LEMMA RecordsStep == RecordsInv /\ [RecordsNext]_<<vars, connections>> => RecordsInv'
<1> SUFFICES ASSUME RecordsInv, [RecordsNext]_<<vars, connections>> PROVE RecordsInv'
  OBVIOUS
<1>1. UNCHANGED connections => UNCHANGED C!vars
  BY DEF connections, C!vars
<1>2. \/ Next \/ UNCHANGED vars
  BY DEF RecordsNext
<1>3. C!Next \/ UNCHANGED connections
  BY DEF RecordsNext
<1>4. CustomersInv'
  BY <1>2, CustomersStep DEF RecordsInv
<1>5. ConnectionsInv'
  BY <1>1, <1>3, ConnectionsStep DEF RecordsInv
<1> QED BY <1>4, <1>5 DEF RecordsInv

LEMMA RecordsInvariant == Records => []RecordsInv
<1>1. RecordsInit => RecordsInv
  BY CustomersInit, ConnectionsInit DEF RecordsInit, RecordsInv
<1> QED BY <1>1, RecordsStep, PTL DEF Records

(* Each customer and each connection holds what the requests ask for one after      *)
(* another, unless one of them wrote it from a reading that another had made old    *)
(* (IngestAppUser; the updates of organisation_webhooks.go, inbound_webhook.go and  *)
(* organisation_databases.go), and every row is one of its table.                   *)
THEOREM StoredIsAskedAlways == Records => []StoredIsAsked
<1>1. RecordsInv => StoredIsAsked
  BY CustomersKeep, ConnectionsKeep DEF RecordsInv, CustomersKept, ConnectionsKept, StoredIsAsked
<1> QED BY <1>1, RecordsInvariant, PTL

(* Every attribute a customer holds is defined and of the type its definition says, *)
(* unless staff changed that type, also when ingests race to define a new key, and  *)
(* that race refuses neither of them (ensureDiscoveredAttributes and                *)
(* validateAttributes, called by IngestAppUser).                                    *)
THEOREM AttributesAreTypedAlways == Records => []AttributesAreTyped
<1>1. RecordsInv => AttributesAreTyped
  BY CustomersKeep DEF RecordsInv, CustomersKept
<1> QED BY <1>1, RecordsInvariant, PTL

(* Once a write of a customer is announced, the triggers have been told every       *)
(* attribute as it is, up to a value that prints alike, unless another write of     *)
(* that customer came between a reading and its events, or the events were lost     *)
(* (IngestAppUser and the updates compare with what they read before they write;    *)
(* attrValuesEqual compares what fmt.Sprint prints).                                *)
THEOREM TriggersMissNothingAlways == Records => []TriggersMissNothing
<1>1. RecordsInv => TriggersMissNothing
  BY CustomersKeep DEF RecordsInv, CustomersKept
<1> QED BY <1>1, RecordsInvariant, PTL

(* An inbound hook that is connected has a secret whatever updates overlap, and a   *)
(* database that is connected has answered under the settings it has now, unless    *)
(* its check was cut short or overlapped (UpdateInboundWebhook,                     *)
(* UpdateOrganisationDatabase, UpdateOrganisationDatabaseCheck).                    *)
THEOREM ConnectedIsEarnedAlways == Records => []ConnectedIsEarned
<1>1. RecordsInv => ConnectedIsEarned
  BY ConnectionsKeep DEF RecordsInv, ConnectionsKept, ConnectedIsEarned
<1> QED BY <1>1, RecordsInvariant, PTL

(* A secret is sent only to an address it was given with, and no delivery is        *)
(* accepted that the requests before it have retired, unless updates of that        *)
(* connection overlapped (execCallWebhook, execDBInsert, HandleInboundWebhook).     *)
THEOREM SecretsServeOnlyTheirRowAlways == Records => []SecretsServeOnlyTheirRow
<1>1. RecordsInv => SecretsServeOnlyTheirRow
  BY ConnectionsKeep DEF RecordsInv, ConnectionsKept, SecretsServeOnlyTheirRow
<1> QED BY <1>1, RecordsInvariant, PTL
=============================================================================
