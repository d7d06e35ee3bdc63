--------------------------- MODULE CustomerRecords ---------------------------
(***************************************************************************)
(* The customers of one organisation (app users) and the definitions of    *)
(* their attributes: create, patch, archive, and the ingest by which the   *)
(* organisation's own system upserts a customer, merging attributes and,   *)
(* in discover mode, defining those it has not seen                        *)
(* (internal/service/app_users.go, attribute_defaults.go, the handlers in  *)
(* internal/http/app_users_handlers.go).                                   *)
(*                                                                         *)
(* No request runs in a transaction: every statement is a step, and what   *)
(* one read is used by the later ones.  The automation events of a write   *)
(* are inserted after it, and a failure to insert them is only logged.     *)
(***************************************************************************)
EXTENDS Naturals, FiniteSets

CONSTANTS
    Customer,               \* the ids of app_users
    Key,                    \* attribute keys
    Default,                \* those that every organisation is given
    Value, Kind,            \* JSON values of attributes, and what kind each is
    Printed,                \* the text that fmt.Sprint makes of each
    External, Email,        \* external ids, and addresses in lower case
    None,                   \* NULL, an omitted field, an absent attribute
    Wish,                   \* the requests callers may send
    DefinitionPatch,        \* what staff may change of a definition
    Defined,                \* the definitions at the start
    Handler,                \* requests that can run at a time
    MaxEdits,               \* bound on what staff do to definitions and settings
    MaxRequests             \* bound on the requests that write customers

Types == {"string", "number", "boolean", "date", "dropdown"}
Texts == {"text", "date", "empty"}
Kinds == Texts \cup {"number", "boolean", "null"}

Statuses == {"active", "disabled", "archived"}

Undefined == [type |-> "none", status |-> "none", required |-> FALSE, options |-> {}]

Definitions ==
    [type : Types, status : {"active", "archived"}, required : BOOLEAN,
     options : SUBSET Value]

\* What a customer's attributes column holds: None for a key that is not there.
Attributes == [Key -> Value \cup {None}]

NoAttributes == [k \in Key |-> None]

Identity == [external : External \cup {None}, email : Email \cup {None}]

Rows == [external : External \cup {None}, email : Email \cup {None},
         status : Statuses, attributes : Attributes]

NoRow == [external |-> None, email |-> None, status |-> "none", attributes |-> NoAttributes]

Wishes ==
    [op : {"ingest", "create", "update", "archive"},
     external : External \cup {None}, email : Email \cup {None},
     status : Statuses \cup {None}, sends : BOOLEAN, attributes : Attributes]

NoWish == [op |-> "archive", external |-> None, email |-> None, status |-> None,
           sends |-> FALSE, attributes |-> NoAttributes]

ASSUME NoneAssumption == None \notin Customer \cup Key \cup Value \cup External \cup Email \cup Statuses
ASSUME KindAssumption == Kind \in [Value -> Kinds]
ASSUME PrintedAssumption == DOMAIN Printed = Value
ASSUME DefinedAssumption ==
    /\ Default \subseteq Key
    /\ Defined \in [Key -> Definitions \cup {Undefined}]
ASSUME WishAssumption == Wish \subseteq Wishes
ASSUME PatchAssumption ==
    DefinitionPatch \subseteq
        [type : Types \cup {None}, status : {"active", "archived"} \cup {None},
         required : BOOLEAN \cup {None}, options : (SUBSET Value) \cup {None}]
ASSUME BoundAssumption == MaxEdits \in Nat /\ MaxRequests \in Nat

VARIABLES
    defs,       \* attribute_definitions, one per key
    rows,       \* app_users
    settings,   \* app_user_ingest_upsert_key and app_user_attributes_mode
    handlers,   \* the requests under way
    asked,      \* history: each customer as the requests, one after another, ask for it
    heard,      \* history: an attribute as its last trigger told it
    crossed,    \* history: customers that an ingest wrote from an older reading
    muddled,    \* history: customers written while a write of theirs was being announced
    withdrawn,  \* history: keys that staff archived
    retyped,    \* history: keys whose type or options staff changed
    edits,      \* counts what staff do to definitions and settings
    requests    \* counts the requests that write customers

staff == <<settings, withdrawn, retyped, edits, requests>>
stored == <<rows, asked, heard, crossed, muddled>>
vars == <<defs, rows, settings, handlers, asked, heard, crossed, muddled,
          withdrawn, retyped, edits, requests>>

Settings == [upsert : {"external_id", "email"}, mode : {"discover", "strict"}]

Idle == [pc |-> "idle", wish |-> NoWish, set |-> [upsert |-> "external_id", mode |-> "discover"],
         customer |-> None, attributes |-> NoAttributes, status |-> None,
         before |-> NoAttributes, todo |-> {}, key |-> None, saw |-> "none", fresh |-> TRUE]

Handlers ==
    [pc : {"idle", "lookup", "discover", "define", "reread", "validate", "write", "announce"},
     wish : Wishes, set : Settings, customer : Customer \cup {None},
     attributes : Attributes,           \* what will be, or was, written
     status : Statuses \cup {None},
     before : Attributes,               \* read just before an update
     todo : SUBSET Key, key : Key \cup {None}, saw : {"none", "archived"},
     fresh : BOOLEAN]                   \* nobody wrote the customer since it was looked up

Init ==
    /\ defs = Defined
    /\ rows = [u \in Customer |-> NoRow]
    /\ settings \in Settings
    /\ handlers = [h \in Handler |-> Idle]
    /\ asked = [u \in Customer |-> [status |-> "none", attributes |-> NoAttributes]]
    /\ heard = [u \in Customer |-> NoAttributes]
    /\ crossed = {} /\ muddled = {} /\ withdrawn = {} /\ retyped = {}
    /\ edits = 0 /\ requests = 0

-----------------------------------------------------------------------------
\* COALESCE($n, column), and an empty field of a request.
Or(given, old) == IF given = None THEN old ELSE given

Merge(old, patch) == [k \in Key |-> Or(patch[k], old[k])]

KeysOf(a) == {k \in Key : a[k] # None}

\* validateAttrValue
Fits(d, v) ==
    \/ Kind[v] = "null"
    \/ d.type = "string" /\ Kind[v] \in Texts
    \/ d.type \in {"number", "boolean", "date"} /\ Kind[v] = d.type
    \/ d.type = "dropdown" /\ Kind[v] \in Texts /\ v \in d.options

InferType(v) == IF Kind[v] \in {"number", "boolean"} THEN Kind[v] ELSE "string"

\* Every statement that needs definitions first adds the defaults that are missing.
Seeded(d) ==
    [k \in Key |->
        IF k \in Default /\ d[k] = Undefined
        THEN [type |-> "string", status |-> "active", required |-> FALSE, options |-> {}]
        ELSE d[k]]

\* validateAttributes: only the active definitions are looked at.
Admits(d, attributes, enforceRequired) ==
    /\ \A k \in KeysOf(attributes) : d[k].status = "active" /\ Fits(d[k], attributes[k])
    /\ enforceRequired =>
        \A k \in Key : d[k].status = "active" /\ d[k].required =>
            attributes[k] # None /\ Kind[attributes[k]] \notin {"null", "empty"}

\* The partial unique indexes of app_users: no other row has this identity.
Taken(external, email, u) ==
    \E v \in Customer \ {u} :
        \/ external # None /\ rows[v].external = external
        \/ email # None /\ rows[v].email = email

At(h, pc) == handlers[h].pc = pc

Goto(h, r) == handlers' = [handlers EXCEPT ![h] = r]

Refuse(h) == Goto(h, Idle)

\* Every writer of u but h now holds what it read of u before this write.
Overtake(h, u, r) ==
    handlers' = [g \in Handler |->
        IF g = h THEN r
        ELSE IF handlers[g].customer = u THEN [handlers[g] EXCEPT !.fresh = FALSE]
        ELSE handlers[g]]

\* Somebody else has read u for an update it has not announced yet.
Announcing(h, u) ==
    \E g \in Handler \ {h} :
        handlers[g].customer = u /\ handlers[g].pc \in {"validate", "write", "announce"}
-----------------------------------------------------------------------------
Stored == {u \in Customer : rows[u] # NoRow}

Begin(h, r) ==
    /\ At(h, "idle") /\ requests < MaxRequests
    /\ requests' = requests + 1
    /\ Goto(h, r)
    /\ UNCHANGED <<defs, settings, withdrawn, retyped, edits, stored>>

UpsertKey(w) == IF settings.upsert = "email" THEN w.email ELSE w.external

\* An ingest without the field it is looked up by is refused before anything is read.
IngestAppUser(h, w) ==
    /\ w.op = "ingest" /\ UpsertKey(w) # None
    /\ Begin(h, [Idle EXCEPT !.pc = "lookup", !.wish = w, !.set = settings])

CreateAppUser(h, w) ==
    /\ w.op = "create"
    /\ Begin(h, [Idle EXCEPT !.pc = "validate", !.wish = w, !.attributes = w.attributes,
                             !.status = Or(w.status, "active")])

UpdateAppUser(h, w, u) ==
    /\ w.op = "update" /\ u \in Stored
    /\ Begin(h, [Idle EXCEPT !.pc = "reread", !.wish = w, !.customer = u,
                             !.attributes = w.attributes, !.status = w.status])

DeleteAppUser(h, w, u) ==
    /\ w.op = "archive" /\ u \in Stored
    /\ Begin(h, [Idle EXCEPT !.pc = "write", !.wish = w, !.customer = u])

\* GetAppUserByOrgExternalID, GetAppUserByOrgEmail
Named(w, set) ==
    {u \in Stored : IF set.upsert = "email" THEN rows[u].email = w.email
                                            ELSE rows[u].external = w.external}

AfterDiscovery(r) ==
    [r EXCEPT !.pc = CASE r.todo # {} -> "discover"
                       [] r.todo = {} /\ r.customer = None -> "validate"
                       [] OTHER -> "reread",
              !.key = None, !.saw = "none"]

\* Mutant: an ingest that names no status makes the customer active.
Lookup_Revives(h) ==
    /\ At(h, "lookup")
    /\ LET r == handlers[h]
           todo == IF r.set.mode = "discover" THEN KeysOf(r.wish.attributes) ELSE {}
       IN  \E u \in IF Named(r.wish, r.set) = {} THEN {None} ELSE Named(r.wish, r.set) :
              Goto(h, AfterDiscovery(
                  [r EXCEPT !.customer = u,
                            !.attributes = IF u = None THEN r.wish.attributes
                                           ELSE Merge(rows[u].attributes, r.wish.attributes),
                            !.status = Or(r.wish.status, "active"),
                            !.todo = todo]))
    /\ UNCHANGED <<defs, staff, stored>>

\* What an ingest reads here, attributes and status, is what it merges into and
\* writes back at the end.
Lookup(h) ==
    /\ At(h, "lookup")
    /\ LET r == handlers[h]
           todo == IF r.set.mode = "discover" THEN KeysOf(r.wish.attributes) ELSE {}
       IN  \/ /\ Named(r.wish, r.set) = {}
              /\ Goto(h, AfterDiscovery([r EXCEPT !.attributes = r.wish.attributes,
                                                  !.status = Or(r.wish.status, "active"),
                                                  !.todo = todo]))
           \/ \E u \in Named(r.wish, r.set) :
                Goto(h, AfterDiscovery(
                    [r EXCEPT !.customer = u,
                              !.attributes = Merge(rows[u].attributes, r.wish.attributes),
                              !.status = Or(r.wish.status, rows[u].status),
                              !.todo = todo]))
    /\ UNCHANGED <<defs, staff, stored>>

Discovered(r, k) == AfterDiscovery([r EXCEPT !.todo = r.todo \ {k}])

\* ensureDiscoveredAttributes walks the patch in the random order of a Go map.
ReadDefinition(h, k) ==
    /\ At(h, "discover") /\ k \in handlers[h].todo
    /\ defs' = Seeded(defs)
    /\ Goto(h, IF defs'[k].status = "active"
               THEN Discovered(handlers[h], k)
               ELSE [handlers[h] EXCEPT !.pc = "define", !.key = k, !.saw = defs'[k].status])
    /\ UNCHANGED <<staff, stored>>

\* An archived definition becomes active again; the insert of a new one yields to
\* another that came first.
Define(h) ==
    LET r == handlers[h]
        k == r.key
    IN  /\ At(h, "define")
        /\ defs' = IF r.saw = "archived" THEN [defs EXCEPT ![k].status = "active"]
                   ELSE IF defs[k] # Undefined THEN defs
                   ELSE [defs EXCEPT ![k] = [type |-> InferType(r.wish.attributes[k]),
                                             status |-> "active", required |-> FALSE,
                                             options |-> {}]]
        /\ Goto(h, Discovered(r, k))
        /\ UNCHANGED <<staff, stored>>

\* UpdateAppUser reads the row once more, to tell afterwards what it changed.
Reread(h) ==
    /\ At(h, "reread")
    /\ LET r == handlers[h]
       IN  Goto(h, [r EXCEPT !.before = rows[r.customer].attributes,
                             !.pc = IF r.wish.op = "ingest" \/ r.wish.sends THEN "validate"
                                                                            ELSE "write"])
    /\ UNCHANGED <<defs, staff, stored>>

\* Mutant: what discovery has just defined is not validated again.
Validate_Trusting(h) ==
    /\ At(h, "validate")
    /\ defs' = Seeded(defs)
    /\ IF \/ handlers[h].wish.op = "ingest" /\ handlers[h].set.mode = "discover"
          \/ Admits(defs', handlers[h].attributes, handlers[h].wish.op # "ingest")
       THEN Goto(h, [handlers[h] EXCEPT !.pc = "write"])
       ELSE Refuse(h)
    /\ UNCHANGED <<staff, stored>>

Validate(h) ==
    /\ At(h, "validate")
    /\ defs' = Seeded(defs)
    /\ IF Admits(defs', handlers[h].attributes, handlers[h].wish.op # "ingest")
       THEN Goto(h, [handlers[h] EXCEPT !.pc = "write"])
       ELSE Refuse(h)
    /\ UNCHANGED <<staff, stored>>

\* The ids are fresh: any row that is not there yet will do.
Insert(h) ==
    LET r == handlers[h]
    IN  /\ At(h, "write") /\ r.customer = None
        /\ \/ /\ Taken(r.wish.external, r.wish.email, None)
              /\ Refuse(h)
              /\ UNCHANGED stored
           \/ /\ ~Taken(r.wish.external, r.wish.email, None)
              /\ \E u \in Customer \ Stored :
                    /\ rows' = [rows EXCEPT ![u] =
                            [external |-> r.wish.external, email |-> r.wish.email,
                             status |-> r.status, attributes |-> r.attributes]]
                    /\ asked' = [asked EXCEPT ![u] =
                            [status |-> Or(r.wish.status, "active"),
                             attributes |-> r.wish.attributes]]
                    /\ Goto(h, [r EXCEPT !.pc = "announce", !.customer = u])
              /\ UNCHANGED <<heard, crossed, muddled>>
        /\ UNCHANGED <<defs, staff>>

\* Is the attributes column among those this request sets?
Sets(r) == r.wish.op = "ingest" \/ r.wish.sends

\* The row as the request asks for it, if the requests ran one after another.
Serially(old, w) ==
    [status |-> Or(w.status, old.status),
     attributes |-> CASE w.op = "ingest" -> Merge(old.attributes, w.attributes)
                      [] w.op = "update" /\ w.sends -> w.attributes
                      [] OTHER -> old.attributes]

Update(h) ==
    LET r == handlers[h]
        u == r.customer
        row == [external |-> Or(r.wish.external, rows[u].external),
                email |-> Or(r.wish.email, rows[u].email),
                status |-> Or(r.status, rows[u].status),
                attributes |-> IF Sets(r) THEN r.attributes ELSE rows[u].attributes]
    IN  /\ At(h, "write") /\ u # None /\ r.wish.op \in {"ingest", "update"}
        /\ \/ /\ Taken(r.wish.external, r.wish.email, u)
              /\ Refuse(h)
              /\ UNCHANGED stored
           \/ /\ ~Taken(r.wish.external, r.wish.email, u)
              /\ rows' = [rows EXCEPT ![u] = row]
              /\ asked' = [asked EXCEPT ![u] = Serially(asked[u], r.wish)]
              /\ crossed' = IF r.wish.op = "ingest" /\ ~r.fresh THEN crossed \cup {u}
                                                                ELSE crossed
              /\ muddled' = IF Sets(r) /\ Announcing(h, u) THEN muddled \cup {u}
                                                           ELSE muddled
              /\ Overtake(h, u, [r EXCEPT !.pc = "announce", !.attributes = row.attributes])
              /\ UNCHANGED heard
        /\ UNCHANGED <<defs, staff>>

\* The event of an archival carries no attribute trigger.
Archive(h) ==
    LET u == handlers[h].customer
    IN  /\ At(h, "write") /\ handlers[h].wish.op = "archive"
        /\ rows' = [rows EXCEPT ![u].status = "archived"]
        /\ asked' = [asked EXCEPT ![u].status = "archived"]
        /\ Overtake(h, u, Idle)
        /\ UNCHANGED <<defs, staff, heard, crossed, muddled>>

\* attrValuesEqual compares what the two values print as: the text "80" and the number
\* 80 are equal.
Alike(v, w) == v = w \/ (None \notin {v, w} /\ Printed[v] = Printed[w])

\* Mutant: a removed attribute has not changed.
Changed_Set(before, after) == {k \in Key : after[k] # None /\ ~Alike(before[k], after[k])}

\* ChangedAttributeKeys: set, changed or removed.
Changed(before, after) == {k \in Key : ~Alike(before[k], after[k])}

Announce(h) ==
    LET r == handlers[h]
    IN  /\ At(h, "announce")
        /\ heard' = [heard EXCEPT ![r.customer] =
                [k \in Key |-> IF k \in Changed(r.before, r.attributes)
                               THEN r.attributes[k] ELSE heard[r.customer][k]]]
        /\ Goto(h, Idle)
        /\ UNCHANGED <<defs, staff, rows, asked, crossed, muddled>>

\* The process ends, or an insert fails and is only logged.
LoseAnnouncement(h) ==
    /\ At(h, "announce")
    /\ muddled' = muddled \cup {handlers[h].customer}
    /\ Goto(h, Idle)
    /\ UNCHANGED <<defs, staff, rows, asked, heard, crossed>>

\* A statement fails, or the process ends, before the write.
Abandon(h) ==
    /\ handlers[h].pc \notin {"idle", "announce"}
    /\ Refuse(h)
    /\ UNCHANGED <<defs, staff, stored>>
-----------------------------------------------------------------------------
Edit == edits < MaxEdits /\ edits' = edits + 1

\* encodeOptionValues
Options(type, options) == IF type = "dropdown" THEN options ELSE {}

\* A key that is there already is a conflict, and nothing changes.
CreateAttributeDefinition(k, p) ==
    /\ Edit
    /\ Seeded(defs)[k] = Undefined /\ p.type # None
    /\ p.options # None /\ (p.type = "dropdown" => p.options # {})
    /\ defs' = [Seeded(defs) EXCEPT ![k] =
            [type |-> p.type, status |-> "active", required |-> Or(p.required, FALSE),
             options |-> Options(p.type, p.options)]]
    /\ UNCHANGED <<settings, withdrawn, retyped, handlers, requests, stored>>

UpdateAttributeDefinition(k, p) ==
    LET d == defs[k]
        type == Or(p.type, d.type)
        new == [type |-> type,
                status |-> Or(p.status, d.status),
                required |-> Or(p.required, d.required),
                options |-> IF p.options = None THEN d.options ELSE Options(type, p.options)]
    IN  /\ Edit
        /\ d # Undefined
        /\ p.options # None /\ type = "dropdown" => p.options # {}
        /\ defs' = [defs EXCEPT ![k] = new]
        /\ withdrawn' = IF new.status = "archived" THEN withdrawn \cup {k} ELSE withdrawn
        /\ retyped' = IF new.type # d.type \/ new.options # d.options THEN retyped \cup {k}
                                                                      ELSE retyped
        /\ UNCHANGED <<settings, handlers, requests, stored>>

DeleteAttributeDefinition(k) ==
    /\ Edit
    /\ defs[k] # Undefined
    /\ defs' = [defs EXCEPT ![k].status = "archived"]
    /\ withdrawn' = withdrawn \cup {k}
    /\ UNCHANGED <<settings, retyped, handlers, requests, stored>>

ChangeSettings(s) ==
    /\ Edit
    /\ s # settings /\ settings' = s
    /\ UNCHANGED <<defs, withdrawn, retyped, handlers, requests, stored>>
-----------------------------------------------------------------------------
Asking(h) ==
    \E w \in Wish :
        \/ IngestAppUser(h, w)
        \/ CreateAppUser(h, w)
        \/ \E u \in Customer : UpdateAppUser(h, w, u) \/ DeleteAppUser(h, w, u)

Handling(h) ==
    \/ Lookup(h)
    \/ \E k \in Key : ReadDefinition(h, k)
    \/ Define(h)
    \/ Reread(h) \/ Validate(h)
    \/ Insert(h) \/ Update(h) \/ Archive(h)
    \/ Announce(h)
    \/ LoseAnnouncement(h) \/ Abandon(h)

Defining ==
    \E k \in Key :
        \/ \E p \in DefinitionPatch :
              CreateAttributeDefinition(k, p) \/ UpdateAttributeDefinition(k, p)
        \/ DeleteAttributeDefinition(k)

Next ==
    \/ \E h \in Handler : Asking(h) \/ Handling(h)
    \/ Defining
    \/ \E s \in Settings : ChangeSettings(s)

Spec == Init /\ [][Next]_vars
-----------------------------------------------------------------------------
\* Types of the tables, the requests and the histories.
TypeOK ==
    /\ defs \in [Key -> Definitions \cup {Undefined}]
    /\ rows \in [Customer -> Rows \cup {NoRow}]
    /\ settings \in Settings
    /\ handlers \in [Handler -> Handlers]
    /\ asked \in [Customer -> [status : Statuses \cup {"none"}, attributes : Attributes]]
    /\ heard \in [Customer -> Attributes]
    /\ crossed \subseteq Customer /\ muddled \subseteq Customer
    /\ withdrawn \subseteq Key /\ retyped \subseteq Key
    /\ edits \in 0 .. MaxEdits /\ requests \in 0 .. MaxRequests

\* Every attribute a customer holds is of a key that is defined, and is of the type
\* the definition says, unless staff changed that type: also when two ingests that
\* carry one new key with values of different types define it at the same time, one
\* of them yields, and both validate after that (ensureDiscoveredAttributes tolerates
\* the conflict, validateAttributes reads the definitions anew).  The race refuses
\* neither: once its discovery is over, each key that an ingest sends has a definition,
\* an active one unless staff archived it.
AttributesAreTyped ==
    /\ \A u \in Stored : \A k \in KeysOf(rows[u].attributes) :
          /\ defs[k] # Undefined
          /\ k \in retyped \/ Fits(defs[k], rows[u].attributes[k])
    /\ \A h \in Handler :
          /\ handlers[h].wish.op = "ingest" /\ handlers[h].set.mode = "discover"
          /\ handlers[h].pc \in {"reread", "validate"}
          => \A k \in KeysOf(handlers[h].wish.attributes) :
                /\ defs[k] # Undefined
                /\ k \in withdrawn \/ defs[k].status = "active"

\* A customer is what the requests that wrote it ask for, one after another: an
\* ingest keeps the attributes it does not send and the status it does not name, so
\* that one archived stays archived.  The exception is a customer that an ingest
\* wrote from a reading which another request had overtaken (IngestAppUser reads,
\* merges and writes back in separate statements).
RowsAreAsAsked ==
    \A u \in Stored \ crossed :
        rows[u].status = asked[u].status /\ rows[u].attributes = asked[u].attributes

\* No request has a write of u left to announce.
Announced(u) == \A h \in Handler : ~(At(h, "announce") /\ handlers[h].customer = u)

\* Once a write is announced, the triggers have told every attribute as it is, the
\* removed ones too, unless another write of the same customer came between the
\* reading an update compares with and its events, or the events were lost.  What they
\* told may differ from what is stored in one way only: the two print alike
\* (attrValuesEqual), as the text and the number of a key that was retyped do; however
\* many such changes follow each other, they never add up to a value that prints
\* otherwise.
TriggersMissNothing ==
    \A u \in Stored \ muddled : Announced(u) =>
        \A k \in Key : Alike(heard[u][k], rows[u].attributes[k])
=============================================================================
