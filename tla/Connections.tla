----------------------------- MODULE Connections -----------------------------
(***************************************************************************)
(* What connects an organisation to other systems: the databases that      *)
(* automations insert into, the webhooks they call, and the inbound hooks  *)
(* that raise webhook.received (internal/service/organisation_databases.go,*)
(* organisation_webhooks.go, inbound_webhook.go, the executors of          *)
(* action_executors.go that use a connection, and their handlers).         *)
(*                                                                         *)
(* An update reads the row, merges the request into it and writes every    *)
(* column back in a statement of its own; a database is probed, for up to  *)
(* eight seconds, between the statement that stores its settings and the   *)
(* one that stores the verdict.                                            *)
(***************************************************************************)
EXTENDS Naturals, FiniteSets

CONSTANTS
    Connection, Kind,       \* ids, and which of the three kinds each one is
    Address,                \* URLs, and where a database is and who logs in
    Secret,                 \* secrets and passwords
    Blank, None,            \* the empty string; a field that a request omits
    New,                    \* the rows a request may ask for
    Patch,                  \* what a request may change
    Handler,                \* requests and workers that can run at a time
    MaxRequests             \* bound on them

Kinds == {"database", "webhook", "inbound"}

Modes == {"header", "query", "path"}

Status(kind) == IF kind = "database" THEN {"connected", "unreachable", "disconnected"}
                                     ELSE {"connected", "disconnected"}

Rows == [address : Address \cup {None}, secret : Secret \cup {Blank}, mode : Modes,
         status : {"connected", "unreachable", "disconnected"}]

NoRow == [address |-> None, secret |-> Blank, mode |-> "header", status |-> "new"]
Gone == [NoRow EXCEPT !.status = "deleted"]

\* What is sent where.
Pairs == (Address \cup {None}) \X (Secret \cup {Blank})

Patches ==
    [address : Address \cup {None}, secret : Secret \cup {Blank, None},
     mode : Modes \cup {None}, status : {"connected", "disconnected", None},
     rotate : BOOLEAN]

\* What the constants are to be.
ConstantsFit ==
    /\ None \notin Address \cup Secret \cup Modes \cup Connection
    /\ None # Blank /\ Blank \notin Secret
    /\ None \notin {"connected", "unreachable", "disconnected"}
    /\ Kind \in [Connection -> Kinds]
    /\ Patch \subseteq Patches /\ New \subseteq Rows
    /\ MaxRequests \in Nat

VARIABLES
    rows,       \* the tables
    handlers,   \* the requests and the executions under way
    asked,      \* history: each row as the requests, one after another, ask for it
    given,      \* history: the addresses and secrets that were asked to go together
    reached,    \* history: the settings under which a database answered
    crossed,    \* history: rows written from a reading that was no longer true
    lost,       \* history: databases whose check did not come to its end
    retired,    \* history: hooks that accepted a secret asked to be no longer valid
    used,       \* history: addresses and secrets that were used together
    requests    \* counts the requests

histories == <<asked, given, reached, crossed, lost, retired, used>>
vars == <<rows, handlers, asked, given, reached, crossed, lost, retired, used, requests>>

NoPatch == [address |-> None, secret |-> None, mode |-> None, status |-> None, rotate |-> FALSE]

Idle == [pc |-> "idle", op |-> "none", connection |-> None, row |-> NoRow,
         patch |-> NoPatch, fresh |-> TRUE]

Handlers ==
    [pc : {"idle", "write", "probe", "record", "act"},
     op : {"none", "update", "check", "use"},
     connection : Connection \cup {None},
     row : Rows \cup {NoRow},       \* what it read, will write or has written
     patch : Patches,
     fresh : BOOLEAN]               \* nobody wrote the row since

Init ==
    /\ rows = [c \in Connection |-> NoRow]
    /\ handlers = [h \in Handler |-> Idle]
    /\ asked = [c \in Connection |-> NoRow]
    /\ given = [c \in Connection |-> {}]
    /\ reached = [c \in Connection |-> {}]
    /\ crossed = {} /\ lost = {} /\ retired = {}
    /\ used = {}
    /\ requests = 0
-----------------------------------------------------------------------------
Or(value, old) == IF value = None THEN old ELSE value

\* In the UPDATE of databases and webhooks an empty secret keeps the one there is.
Keep(secret, old) == IF secret = Blank THEN old ELSE secret

Exists(c) == rows[c].status \notin {"new", "deleted"}

Pair(row) == <<row.address, row.secret>>

At(h, pc) == handlers[h].pc = pc

\* Every other holder of a reading of c holds an old one now.
Overtake(h, c, r) ==
    handlers' = [g \in Handler |->
        IF g = h THEN r
        ELSE IF handlers[g].connection = c THEN [handlers[g] EXCEPT !.fresh = FALSE]
        ELSE handlers[g]]

Goto(h, r) == handlers' = [handlers EXCEPT ![h] = r]

Begin == requests < MaxRequests /\ requests' = requests + 1

\* Writes row into c for h, which has been asked for wanted.
Store(c, row, wanted) ==
    /\ rows' = [rows EXCEPT ![c] = row]
    /\ asked' = [asked EXCEPT ![c] = wanted]
    /\ given' = [given EXCEPT ![c] = @ \cup {Pair(wanted)}]

\* A secret that was never one of c's: the random ones are not repeated.
NewSecrets(c) == {s \in Secret : \A p \in given[c] : p[2] # s}
-----------------------------------------------------------------------------
\* UpdateInboundWebhook: a new secret, given or generated, connects the hook, and an
\* empty one disconnects it, unless the request names a status itself.
InboundMerge(old, p, generated) ==
    [address |-> None,
     secret |-> IF p.rotate THEN generated ELSE Or(p.secret, old.secret),
     mode |-> Or(p.mode, old.mode),
     status |-> Or(p.status, CASE p.rotate -> "connected"
                               [] ~p.rotate /\ p.secret = Blank -> "disconnected"
                               [] ~p.rotate /\ p.secret \in Secret -> "connected"
                               [] OTHER -> old.status)]

\* UpdateOrganisationWebhook; UpdateOrganisationDatabase, which leaves the status.
OutboundMerge(old, p) ==
    [address |-> Or(p.address, old.address),
     secret |-> IF p.secret = None THEN Blank ELSE p.secret,
     mode |-> old.mode,
     status |-> Or(p.status, old.status)]

DatabaseMerge(old, p) == [OutboundMerge(old, p) EXCEPT !.status = old.status]

\* Mutant: the merge is not validated as a whole.
Merges_Unchecked(c, old, p) ==
    CASE Kind[c] = "inbound" ->
            {InboundMerge(old, p, s) : s \in IF p.rotate THEN NewSecrets(c) ELSE {Blank}}
      [] Kind[c] = "webhook" -> {OutboundMerge(old, p)}
      [] OTHER -> {DatabaseMerge(old, p)}

Merges(c, old, p) ==
    CASE Kind[c] = "inbound" ->
            {r \in {InboundMerge(old, p, s) : s \in IF p.rotate THEN NewSecrets(c) ELSE {Blank}} :
                ~(r.status = "connected" /\ r.secret = Blank)}
      [] Kind[c] = "webhook" -> {OutboundMerge(old, p)}
      [] OTHER -> {DatabaseMerge(old, p)}

\* The row that the UPDATE leaves.
Written(c, row) ==
    IF Kind[c] = "inbound" THEN row
    ELSE [row EXCEPT !.secret = Keep(row.secret, rows[c].secret),
                     !.status = IF Kind[c] = "database" THEN rows[c].status ELSE row.status]

\* The row that would be left if the requests were served one after another.
Wanted(c, p, row) ==
    CASE Kind[c] = "inbound" -> InboundMerge(asked[c], p, row.secret)
      [] OTHER -> [address |-> Or(p.address, asked[c].address),
                   secret |-> Keep(row.secret, asked[c].secret),
                   mode |-> row.mode,
                   status |-> IF Kind[c] = "database" THEN rows[c].status
                                                      ELSE Or(p.status, asked[c].status)]
-----------------------------------------------------------------------------
\* CreateInboundWebhook, CreateOrganisationWebhook: a webhook may have no secret, a hook
\* without one is given one.
CreateHook(c, row) ==
    /\ Begin
    /\ rows[c] = NoRow /\ Kind[c] # "database"
    /\ Kind[c] = "inbound" => row.address = None /\ row.secret \in Secret
    /\ Kind[c] = "webhook" => row.address \in Address /\ row.status = "connected"
    /\ row.status \in Status(Kind[c])
    /\ Store(c, row, row)
    /\ UNCHANGED <<handlers, reached, crossed, lost, retired, used>>

\* A database is stored as unreachable, and then probed.
CreateDatabase(h, c, row) ==
    /\ Begin
    /\ At(h, "idle")
    /\ rows[c] = NoRow /\ Kind[c] = "database"
    /\ row.address \in Address /\ row.secret \in Secret /\ row.status = "unreachable"
    /\ Store(c, row, row)
    /\ Goto(h, [Idle EXCEPT !.pc = "probe", !.op = "update", !.connection = c, !.row = row])
    /\ UNCHANGED <<reached, crossed, lost, retired, used>>

\* The reading of an update, and all that it works out from it.
ReadForUpdate(h, c, p) ==
    /\ Begin
    /\ At(h, "idle") /\ Exists(c)
    /\ \E row \in Merges(c, rows[c], p) :
          Goto(h, [Idle EXCEPT !.pc = "write", !.op = "update", !.connection = c,
                               !.row = row, !.patch = p])
    /\ UNCHANGED <<rows, histories>>

\* Mutant: a database is not probed again after its settings have changed.
WriteUpdate_Unprobed(h) ==
    LET r == handlers[h]
        c == r.connection
    IN  /\ At(h, "write")
        /\ \/ ~Exists(c) /\ Goto(h, Idle) /\ UNCHANGED <<rows, histories>>
           \/ /\ Exists(c)
              /\ Store(c, Written(c, r.row), Wanted(c, r.patch, r.row))
              /\ crossed' = IF r.fresh THEN crossed ELSE crossed \cup {c}
              /\ Overtake(h, c, Idle)
              /\ UNCHANGED <<reached, lost, retired, used>>
        /\ UNCHANGED requests

\* Its UPDATE.  No row any more: the request fails.
WriteUpdate(h) ==
    LET r == handlers[h]
        c == r.connection
    IN  /\ At(h, "write")
        /\ \/ ~Exists(c) /\ Goto(h, Idle) /\ UNCHANGED <<rows, histories>>
           \/ /\ Exists(c)
              /\ Store(c, Written(c, r.row), Wanted(c, r.patch, r.row))
              /\ crossed' = IF r.fresh THEN crossed ELSE crossed \cup {c}
              /\ Overtake(h, c,
                    IF Kind[c] = "database"
                    THEN [r EXCEPT !.pc = "probe", !.row = Written(c, r.row), !.fresh = TRUE]
                    ELSE Idle)
              /\ UNCHANGED <<reached, lost, retired, used>>
        /\ UNCHANGED requests

CheckOrganisationDatabase(h, c) ==
    /\ Begin
    /\ At(h, "idle") /\ Exists(c) /\ Kind[c] = "database"
    /\ Goto(h, [Idle EXCEPT !.pc = "probe", !.op = "check", !.connection = c, !.row = rows[c]])
    /\ UNCHANGED <<rows, histories>>

\* The database answers, or it does not within the time there is.
Probe(h) ==
    LET r == handlers[h]
    IN  /\ At(h, "probe")
        /\ \/ /\ reached' = [reached EXCEPT ![r.connection] = @ \cup {Pair(r.row)}]
              /\ Goto(h, [r EXCEPT !.pc = "record", !.row.status = "connected"])
           \/ /\ Goto(h, [r EXCEPT !.pc = "record", !.row.status = "unreachable"])
              /\ UNCHANGED reached
        /\ UNCHANGED <<rows, requests, asked, given, crossed, lost, retired, used>>

\* UpdateOrganisationDatabaseCheck writes the verdict, whatever the row says by now.
RecordCheck(h) ==
    LET r == handlers[h]
        c == r.connection
    IN  /\ At(h, "record")
        /\ \/ ~Exists(c) /\ Goto(h, Idle) /\ UNCHANGED <<rows, crossed>>
           \/ /\ Exists(c)
              /\ rows' = [rows EXCEPT ![c].status = r.row.status]
              /\ crossed' = IF r.fresh THEN crossed ELSE crossed \cup {c}
              /\ Overtake(h, c, Idle)
        /\ UNCHANGED <<requests, asked, given, reached, lost, retired, used>>

\* SetOrganisationDatabaseDisconnected asks the row for nothing but its existence.
Disconnect(h, c) ==
    /\ Begin
    /\ At(h, "idle") /\ Exists(c) /\ Kind[c] = "database"
    /\ rows' = [rows EXCEPT ![c].status = "disconnected"]
    /\ Overtake(h, c, Idle)
    /\ UNCHANGED histories

Delete(c) ==
    /\ Begin
    /\ Exists(c)
    /\ rows' = [rows EXCEPT ![c] = Gone]
    /\ asked' = [asked EXCEPT ![c] = Gone]
    /\ UNCHANGED <<handlers, given, reached, crossed, lost, retired, used>>

\* The request is cancelled or the process ends: what is stored stays as it is.
Abandon(h) ==
    /\ ~At(h, "idle")
    /\ lost' = IF handlers[h].pc \in {"probe", "record"} THEN lost \cup {handlers[h].connection}
                                                          ELSE lost
    /\ Goto(h, Idle)
    /\ UNCHANGED <<rows, requests, asked, given, reached, crossed, retired, used>>
-----------------------------------------------------------------------------
\* organisationWebhookRow, organisationDatabaseRow: read when the action is executed.
ReadForUse(h, c) ==
    /\ Begin
    /\ At(h, "idle") /\ Exists(c) /\ Kind[c] # "inbound"
    /\ rows[c].status = "connected"
    /\ Kind[c] = "database" => rows[c].secret # Blank
    /\ Goto(h, [Idle EXCEPT !.pc = "act", !.op = "use", !.connection = c, !.row = rows[c]])
    /\ UNCHANGED <<rows, histories>>

\* Mutant: the address is read once more when the call is made.
Act_Late(h) ==
    LET r == handlers[h]
    IN  /\ At(h, "act")
        /\ used' = used \cup {<<r.connection, <<rows[r.connection].address, r.row.secret>>>>}
        /\ Goto(h, Idle)
        /\ UNCHANGED <<rows, requests, asked, given, reached, crossed, lost, retired>>

\* execCallWebhook posts to the address with the secret, execDBInsert logs in with it.
Act(h) ==
    LET r == handlers[h]
    IN  /\ At(h, "act")
        /\ used' = used \cup {<<r.connection, Pair(r.row)>>}
        /\ Goto(h, Idle)
        /\ UNCHANGED <<rows, requests, asked, given, reached, crossed, lost, retired>>

\* HandleInboundWebhook: the secret is looked for where the hook's mode says.
Authentic(row, secret, place) ==
    /\ row.status = "connected" /\ row.secret # Blank
    /\ place = row.mode /\ secret = row.secret

\* What the requests so far ask for: is this a delivery the hook is to accept?
Valid(row, secret, place) ==
    row.status = "connected" /\ secret = row.secret /\ place = row.mode

HandleInboundWebhook(c, secret, place) ==
    /\ Begin
    /\ Exists(c) /\ Kind[c] = "inbound"
    /\ Authentic(rows[c], secret, place)
    /\ retired' = IF Valid(asked[c], secret, place) THEN retired ELSE retired \cup {c}
    /\ UNCHANGED <<rows, handlers, asked, given, reached, crossed, lost, used>>
-----------------------------------------------------------------------------
Creating ==
    \E c \in Connection, row \in New :
        CreateHook(c, row) \/ \E h \in Handler : CreateDatabase(h, c, row)

Serving(h) ==
    \/ \E c \in Connection :
          \/ \E p \in Patch : ReadForUpdate(h, c, p)
          \/ CheckOrganisationDatabase(h, c) \/ Disconnect(h, c) \/ ReadForUse(h, c)
    \/ WriteUpdate(h) \/ Probe(h) \/ RecordCheck(h) \/ Act(h) \/ Abandon(h)

Next ==
    \/ Creating
    \/ \E h \in Handler : Serving(h)
    \/ \E c \in Connection :
          \/ Delete(c)
          \/ \E s \in Secret, m \in Modes : HandleInboundWebhook(c, s, m)

Spec == Init /\ [][Next]_vars
-----------------------------------------------------------------------------
\* Types of the rows, the requests and the histories.
TypeOK ==
    /\ rows \in [Connection -> Rows \cup {NoRow, Gone}]
    /\ handlers \in [Handler -> Handlers]
    /\ asked \in [Connection -> Rows \cup {NoRow, Gone}]
    /\ given \in [Connection -> SUBSET Pairs]
    /\ reached \in [Connection -> SUBSET (Address \X Secret)]
    /\ crossed \subseteq Connection /\ lost \subseteq Connection /\ retired \subseteq Connection
    /\ used \subseteq Connection \X Pairs
    /\ requests \in 0 .. MaxRequests

\* A row holds what the requests ask for, one after another, unless one of them wrote
\* it from a reading that another had made old: a rename by one member of staff then
\* brings back the secret that another has just rotated.
RowsAreAsAsked ==
    \A c \in Connection \ crossed :
        Exists(c) =>
            /\ Pair(rows[c]) = Pair(asked[c])
            /\ Kind[c] # "database" => rows[c].status = asked[c].status
            /\ rows[c].mode = asked[c].mode

\* A secret is sent only to an address it was given with: a call reads both from the
\* row when it is made, and an update cannot tear them apart unless it overlapped
\* another (a rename would put the old address back beside the new secret).  And no
\* delivery is accepted with a secret, at a place or by a hook that the requests before
\* it have retired, unless updates of that hook overlapped.
SecretsServeOnlyTheirRow ==
    /\ \A x \in used : x[1] \in crossed \/ x[2] \in given[x[1]]
    /\ retired \subseteq crossed

\* A database that is connected has answered under the settings it has now, unless a
\* request that changed them is still checking it, or was cancelled before its verdict
\* was stored, or a verdict was written over settings it is not about.
DatabaseHasAnswered(c) ==
    \/ Pair(rows[c]) \in reached[c]
    \/ \E h \in Handler : /\ handlers[h].connection = c /\ handlers[h].op = "update"
                          /\ handlers[h].pc \in {"probe", "record"}

\* What is connected has earned it: an inbound hook has a secret, whatever updates
\* overlap, as each one writes every column from a merge that it has validated as a
\* whole (UpdateInboundWebhook), and a database has answered.
ConnectedIsEarned ==
    \A c \in Connection : rows[c].status = "connected" =>
        /\ Kind[c] = "inbound" => rows[c].secret # Blank
        /\ Kind[c] = "database" /\ c \notin crossed \cup lost => DatabaseHasAnswered(c)
=============================================================================
