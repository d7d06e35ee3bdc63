--------------------------- MODULE AutomationRules ---------------------------
(***************************************************************************)
(* What an automation says and what becomes of it: its trigger and the     *)
(* trigger's parameters, its conditions and its actions, as a request      *)
(* gives them, as they are checked, rewritten and stored, and as a worker  *)
(* applies what is stored to the payload of an event (core/automations,    *)
(* core/resources, validateAutomationSpec and ProcessAutomationEvent of    *)
(* internal/service/automations.go, action_executors.go).                  *)
(*                                                                         *)
(* JSON values are abstracted to their kind and their text; which texts    *)
(* read as a number or as a time, and how a number is printed, are         *)
(* constants.  Workflows, delays and job delivery are AutomationEngine's.  *)
(***************************************************************************)
EXTENDS Integers, Sequences, FiniteSets

CONSTANTS
    Editor,         \* handlers of updates
    Key,            \* attribute keys
    Value,          \* JSON values: [kind, text]
    Texts,          \* texts in their order, the empty one first
    NumberOf,       \* the number that a text reads as (strconv.ParseFloat), or None
    NaN,            \* the one that is not equal to itself
    TimeOf,         \* the time that a text reads as, or None
    Printed,        \* the text that fmt.Sprint makes of a number of this text
    Contained,      \* pairs of texts, the second within the first
    Options,        \* the options of a dropdown attribute
    CronExpr, Zone, \* what the cron parser and the time zone database know
    Id,             \* ids of inbound webhooks, roles and plans
    Columns,        \* by resource: the columns that the payload of its event may have
    Request,        \* the automations that callers ask for
    Named,          \* the sets of parts that the body of an update may name
    Redefined,      \* what staff make of an attribute: [key, type, status]
    None,
    Starts,         \* definitions and attributes to start from, with what is spent by then
    Bound           \* bounds on [edit, event]

Blank == Texts[1]

Types == {"string", "number", "boolean", "date", "dropdown"}

Text(t) == [kind |-> "text", text |-> t]
Null == [kind |-> "null", text |-> Blank]

Core == {"id", "email", "display_name", "status", "external_id", "attributes"}

\* A field: app_user.name, attributes.name, or the name alone.
Of(root, name) == [root |-> root, name |-> name]
User(name) == Of("app_user", name)
Bare(name) == Of("none", name)

ParamNames == {"inbound_webhook_id", "status", "plan_id", "role_id", "expr", "timezone"}
Params == {Bare(n) : n \in ParamNames} \cup {User(k) : k \in Key}
NoParams == [p \in Params |-> Blank]

NoRule == [trigger |-> None]
NoEvent == [trigger |-> None]
NoRun == [status |-> None, why |-> None]
NoDraft == [read |-> None]

\* What JSON and its decoding leave possible (Automation, Condition, Action).
TextSet == {Texts[i] : i \in DOMAIN Texts}
JSON == [kind : {"text", "number", "boolean", "null"}, text : TextSet]
Condition ==
    [field : [root : {"none", "app_user", "attributes"}, name : STRING],
     op : STRING, values : SUBSET JSON]
Conditions ==
    [mode : STRING, items : SUBSET Condition, all : SUBSET Condition, any : SUBSET Condition]
Action ==
    [type : STRING, given : BOOLEAN, table : STRING, mode : STRING, mapping : STRING,
     seconds : Int]
Automation ==
    [trigger : [resource : STRING, event : STRING, key : Key \cup {None}],
     params : [Params -> STRING], conditions : Conditions, actions : SUBSET Action,
     enabled : BOOLEAN]

Attributes == [Key -> Value \cup {None}]

ASSUME RequestAssumption == Request \subseteq Automation
ASSUME NamedAssumption == Named \subseteq SUBSET {"trigger", "params", "conditions", "actions", "enabled"}

\* A JSON number is a number, and None is neither an attribute nor what becomes of a run.
ASSUME ValueAssumption ==
    /\ Value \subseteq JSON
    /\ \A v \in Value : v.kind = "number" => NumberOf[v.text] \notin {None, NaN}
    /\ \A v \in Value : v.kind = "boolean" => v.text \in {"true", "false"}
    /\ None \notin Key \cup {"customer"}

\* An empty text reads as nothing, and what reads as a time (RFC 3339, or a date with its
\* hyphens) does not read as a number.
ASSUME TextAssumption ==
    /\ NumberOf[Blank] = None /\ TimeOf[Blank] = None
    /\ \A t \in TextSet : TimeOf[t] # None => NumberOf[t] = None

\* AppUserEventPayload keeps the attributes apart from the columns.
ASSUME ColumnsAssumption == \A top \in Columns["app_user"] : DOMAIN top \subseteq Core

ASSUME StartAssumption == \A s \in Starts : s.attributes \in Attributes

VARIABLES
    defs,       \* attribute_definitions: [type, status] of each key
    attributes, \* the attributes column of a customer
    known,      \* the hooks, roles and plans there are
    rule,       \* a row of automations, from its creation to its deletion
    drafts,     \* updates between their read and their write: the row read, the patch
    asked,      \* history: what was asked for, part by part, in the caller's words
    undone,     \* history: the parts that a later update wrote back as it had read them
    event,      \* an event on its way to the worker
    run,        \* the last row of automation_runs: its status, and why it failed
    spent       \* counts edits and events

vars == <<defs, attributes, known, rule, drafts, asked, undone, event, run, spent>>

NoAttributes == [k \in Key |-> None]

Init ==
    /\ \E s \in Starts : defs = s.defs /\ attributes = s.attributes /\ spent = s.spent
    /\ known = Id
    /\ rule = NoRule /\ asked = NoRule /\ undone = {}
    /\ drafts = [h \in Editor |-> NoDraft]
    /\ event = NoEvent
    /\ run = NoRun
-----------------------------------------------------------------------------
\* core/resources: the catalog of what raises events, and whom an event is about.
Resources == {"app_user", "membership", "subscription", "schedule", "webhook"}

Lifecycles(r) ==
    CASE r = "schedule" -> {"cron"}
      [] r = "webhook" -> {"received"}
      [] OTHER -> {"created", "updated", "deleted"}

SupportsAttributes(r) == r = "app_user"

Relations(r) == IF r = "membership" THEN {"user"} ELSE {}

Provides(r) == IF r \in {"schedule", "webhook"} THEN {"organisation"} ELSE {r}

AvailableSubjects(r) == {r} \cup Provides(r) \cup Relations(r)

Lifecycle(r, e) == [resource |-> r, event |-> e, key |-> None]
Attribute(r, k) == [resource |-> r, event |-> "attribute", key |-> k]

KnownTrigger(t) ==
    /\ t.resource \in Resources
    /\ \/ t.key # None /\ SupportsAttributes(t.resource)
       \/ t.key = None /\ t.event \in Lifecycles(t.resource)

ActiveKeys == {k \in Key : defs[k].status = "active"}

\* ExpandTriggers, with the attributes that are active.
AllowedTriggers ==
    {Lifecycle(r, e) : r \in Resources, e \in UNION {Lifecycles(r) : r \in Resources}}
        \cup {Attribute("app_user", k) : k \in ActiveKeys}

LegacyExpr == [hourly |-> "0 * * * *", daily |-> "0 0 * * *", weekly |-> "0 0 * * 1"]

IsLegacy(t) == t.resource = "schedule" /\ t.event \in DOMAIN LegacyExpr

\* NormalizeScheduleTrigger
NormalizeTrigger(t) == IF IsLegacy(t) THEN Lifecycle("schedule", "cron") ELSE t

NormalizeParams(t, params) ==
    IF ~IsLegacy(t) THEN params
    ELSE [params EXCEPT
            ![Bare("expr")] = LegacyExpr[t.event],
            ![Bare("timezone")] = IF @ = Blank THEN "UTC" ELSE @]

ParamSchema(t) ==
    CASE t.resource = "webhook" -> {Bare("inbound_webhook_id")}
      [] t.key # None -> {User(t.key)}
      [] t.resource = "schedule" -> {Bare("expr"), Bare("timezone")}
      [] t.resource = "membership" -> {Bare("role_id"), Bare("status")}
      [] t.resource = "subscription" -> {Bare("plan_id"), Bare("status")}
      [] OTHER -> {Bare("status")}

Required(t) == ParamSchema(t) \cap {Bare("inbound_webhook_id"), Bare("expr")}

Given(params) == {p \in Params : params[p] # Blank}

\* ValidateTriggerParams
ParamsFit(t, params) ==
    /\ Required(t) \subseteq Given(params)
    /\ Given(params) \subseteq ParamSchema(t)
    /\ t.resource = "schedule" =>
         /\ params[Bare("expr")] \in CronExpr
         /\ params[Bare("timezone")] \in Zone \cup {Blank}

\* validateTriggerParamBindings
BindingsExist(params) ==
    \A n \in {"inbound_webhook_id", "role_id", "plan_id"} :
        params[Bare(n)] \in known \cup {Blank}
-----------------------------------------------------------------------------
\* asNumber, asTime, stringify.
AsNumber(v) == IF v.kind \in {"number", "text"} THEN NumberOf[v.text] ELSE None
AsTime(v) == IF v.kind = "text" THEN TimeOf[v.text] ELSE None

Rank(t) == CHOOSE i \in DOMAIN Texts : Texts[i] = t

BothNumbers(a, b) == AsNumber(a) # None /\ AsNumber(b) # None
BothTimes(a, b) == AsTime(a) # None /\ AsTime(b) # None

\* Mutant: numbers are compared by their texts.
ValuesEqual_ByText(a, b) ==
    CASE BothTimes(a, b) -> AsTime(a) = AsTime(b)
      [] ~BothTimes(a, b) /\ a.kind = "boolean" ->
            b.text \in (IF a.text = "true" THEN {"true", "1"} ELSE {"false", "0"})
      [] OTHER -> a.text = b.text

\* a is the payload's, b the condition's.
ValuesEqual(a, b) ==
    CASE BothNumbers(a, b) -> AsNumber(a) = AsNumber(b) /\ AsNumber(a) # NaN
      [] ~BothNumbers(a, b) /\ BothTimes(a, b) -> AsTime(a) = AsTime(b)
      [] ~BothNumbers(a, b) /\ ~BothTimes(a, b) /\ a.kind = "boolean" ->
            IF b.kind = "boolean" THEN a.text = b.text
            ELSE b.text \in (IF a.text = "true" THEN {"true", "1"} ELSE {"false", "0"})
      [] OTHER -> a.text = b.text

Ordered(op, x, y) ==
    CASE op = "gt" -> x > y [] op = "gte" -> x >= y [] op = "lt" -> x < y [] op = "lte" -> x <= y

CompareOrdered(a, b, op) ==
    IF BothNumbers(a, b)
    THEN NaN \notin {AsNumber(a), AsNumber(b)} /\ Ordered(op, AsNumber(a), AsNumber(b))
    ELSE IF BothTimes(a, b) THEN Ordered(op, AsTime(a), AsTime(b))
    ELSE Ordered(op, Rank(a.text), Rank(b.text))

\* valueAsStringList: a member that is empty is dropped.
AsList(values) == {Text(v.text) : v \in {w \in values : w.text # Blank}}

Orderings == {"gt", "gte", "lt", "lte"}
Ops == {"eq", "neq", "contains", "in", "not_in", "exists", "not_exists"} \cup Orderings

\* registeredOps
OpsForValueType(type) ==
    {"eq", "neq", "exists", "not_exists"}
        \cup (IF type = "string" THEN {"contains"} ELSE {})
        \cup (IF type \in {"string", "number", "dropdown"} THEN {"in", "not_in"} ELSE {})
        \cup (IF type \in {"number", "date"} THEN Orderings ELSE {})

Only(values) == CHOOSE v \in values : TRUE

\* matchOne
Holds(op, val, values) ==
    IF val = None THEN op \in {"not_exists", "neq", "not_in"}
    ELSE CASE op = "exists" -> val.kind # "null" /\ val # Text(Blank)
           [] op = "not_exists" -> val.kind = "null" \/ val = Text(Blank)
           [] op = "eq" -> ValuesEqual(val, Only(values))
           [] op = "neq" -> ~ValuesEqual(val, Only(values))
           [] op = "contains" -> <<val.text, Only(values).text>> \in Contained
           [] op = "in" -> \E w \in AsList(values) : ValuesEqual(val, w)
           [] op = "not_in" -> ~\E w \in AsList(values) : ValuesEqual(val, w)
           [] OTHER -> CompareOrdered(val, Only(values), op)
-----------------------------------------------------------------------------
NormalizeFieldPath(p) ==
    IF p.root = "attributes" \/ (p.root = "none" /\ p.name \in Core) THEN User(p.name) ELSE p

\* lookupAppUser, in a payload that is the row itself: its columns come first.
LookupAppUser(top, attrs, name) ==
    IF name \in DOMAIN top THEN top[name]
    ELSE IF name \in Key \ Core THEN attrs[name] ELSE None

\* Lookup: the path as it is, and then as the canonical path.
Lookup(top, attrs, p) ==
    IF p.root = "none" /\ p.name \in DOMAIN top THEN top[p.name]
    ELSE IF p.root = "attributes" /\ p.name \in Key /\ attrs[p.name] # None THEN attrs[p.name]
    ELSE IF NormalizeFieldPath(p).root = "app_user"
    THEN LookupAppUser(top, attrs, NormalizeFieldPath(p).name) ELSE None

\* A condition: [field, op, values], with no value or with several.
Matches(c, e) == Holds(c.op, Lookup(e.top, e.attributes, c.field), c.values)

NoConditions == [mode |-> "", items |-> {}, all |-> {}, any |-> {}]

\* Conditions.Normalize: the items, when there are some, become one of the two groups.
Normalize(c) ==
    IF c.items # {}
    THEN IF c.mode = "any" THEN [NoConditions EXCEPT !.mode = "any", !.any = c.items]
         ELSE [NoConditions EXCEPT !.mode = "all", !.all = c.items]
    ELSE [c EXCEPT !.mode = IF c.any # {} /\ c.all = {} THEN "any"
                            ELSE IF @ = "" THEN "all" ELSE @]

Canonical(group) == {[c EXCEPT !.field = NormalizeFieldPath(@)] : c \in group}

NormalizeConditionsFields(c) ==
    LET n == Normalize(c)
    IN  [n EXCEPT !.items = Canonical(@), !.all = Canonical(@), !.any = Canonical(@)]

\* MarshalConditions: a single group is stored twice, as items and by its mode.
MarshalConditions(c) ==
    LET n == Normalize(c)
    IN  CASE n.all # {} /\ n.any = {} -> [NoConditions EXCEPT !.mode = "all", !.items = n.all, !.all = n.all]
          [] n.any # {} /\ n.all = {} -> [NoConditions EXCEPT !.mode = "any", !.items = n.any, !.any = n.any]
          [] OTHER -> n

Match(c, e) ==
    LET n == Normalize(c)
    IN  /\ \A x \in n.all : Matches(x, e)
        /\ n.any # {} => \E x \in n.any : Matches(x, e)

\* validateConditionList
WellFormed(c) ==
    /\ c.op \in Ops
    /\ c.op \notin {"exists", "not_exists"} => c.values \ {Null} # {}
    /\ c.op \in {"in", "not_in"} => AsList(c.values) # {}

\* BaseConditionFields and the active attributes; a field named twice is the attribute's.
FieldType(p) == IF p.name \in ActiveKeys THEN defs[p.name].type ELSE "string"

ConditionFields == {User(n) : n \in (Core \ {"attributes"}) \cup ActiveKeys}

\* ValidateConditionFields
FieldFits(c) ==
    LET p == NormalizeFieldPath(c.field)
    IN  p \in ConditionFields /\ c.op \in OpsForValueType(FieldType(p))
-----------------------------------------------------------------------------
\* An action: [type, given, table, mode, mapping, seconds], where given says that the
\* parameters it cannot do without are there.
ActionTypes == {"send_email", "call_webhook", "db_insert", "delay"}

MaxDelay == 30 * 24 * 3600

\* The Validate of each handler.
ValidateAction(a) ==
    /\ a.type \in ActionTypes
    /\ a.given
    /\ a.type = "db_insert" =>
         /\ a.table = "identifier"
         /\ a.mapping # "broken"
         /\ a.mode \in {"", "event", "columns"}
         /\ a.mode = "columns" => a.mapping = "paths"
    /\ a.type = "delay" => a.seconds \in 1 .. MaxDelay

Requires(a) == IF a.type = "send_email" THEN {"app_user"} ELSE {}

\* ValidateSubjectCompatibility
SubjectsFit(t, actions) == \A a \in actions : Requires(a) \subseteq AvailableSubjects(t.resource)

\* ValidateCreate: what a request is rewritten to before it is checked.
Canonized(r) ==
    [trigger |-> NormalizeTrigger(r.trigger),
     params |-> NormalizeParams(r.trigger, r.params),
     conditions |-> NormalizeConditionsFields(r.conditions),
     actions |-> r.actions,
     enabled |-> r.enabled]

\* validateAutomationSpec
Accepts(r) ==
    LET s == Canonized(r)
    IN  /\ KnownTrigger(s.trigger) /\ s.trigger \in AllowedTriggers
        /\ ParamsFit(s.trigger, s.params) /\ BindingsExist(s.params)
        /\ \A c \in s.conditions.all \cup s.conditions.any : WellFormed(c) /\ FieldFits(c)
        /\ s.actions # {} /\ \A a \in s.actions : ValidateAction(a)
        /\ SubjectsFit(s.trigger, s.actions)

\* Mutant: both groups are stored in the first one.
Row_OneGroup(r) ==
    LET s == Canonized(r)
    IN  [s EXCEPT !.conditions = MarshalConditions([@ EXCEPT !.all = @ \cup s.conditions.any])]

\* Mutant: the parameters are stored as they were sent.
Row_Params(r) == [Canonized(r) EXCEPT !.conditions = MarshalConditions(@), !.params = r.params]

\* The row that is written.
Row(r) == LET s == Canonized(r) IN [s EXCEPT !.conditions = MarshalConditions(@)]
-----------------------------------------------------------------------------

Edit == spent.edit < Bound.edit /\ spent' = [spent EXCEPT !.edit = @ + 1]

CreateAutomation(r) ==
    /\ Edit
    /\ asked = NoRule
    /\ Accepts(r)
    /\ rule' = Row(r) /\ asked' = r
    /\ UNCHANGED <<defs, attributes, known, drafts, undone, event, run>>

\* The parts that a request names replace those of the row.
Patched(old, p) == [f \in DOMAIN old |-> IF f \in DOMAIN p THEN p[f] ELSE old[f]]

\* UpdateAutomation up to its statement: the row is read, and the whole checked again.
UpdateAutomation(h, p) ==
    /\ Edit
    /\ rule # NoRule /\ drafts[h] = NoDraft
    /\ Accepts(Patched(rule, p))
    /\ drafts' = [drafts EXCEPT ![h] = [read |-> rule, patch |-> p]]
    /\ UNCHANGED <<defs, attributes, known, rule, asked, undone, event, run>>

\* Mutant: a request that does not say whether enables.
Saved_Enables(d, enabled) ==
    Row([Patched(d.read, d.patch) EXCEPT
           !.enabled = IF "enabled" \in DOMAIN d.patch THEN d.patch.enabled ELSE TRUE])

\* What it stores.  A part it does not name goes back as it was read, but for enabled,
\* which the statement leaves alone.
Saved(d, enabled) ==
    Row([Patched(d.read, d.patch) EXCEPT
           !.enabled = IF "enabled" \in DOMAIN d.patch THEN d.patch.enabled ELSE enabled])

\* What was asked, with the trigger that a later update finds: hourly, daily and weekly have
\* become parameters.
InForce(a) == [Canonized(a) EXCEPT !.conditions = a.conditions]

SaveUpdate(h) ==
    LET d == drafts[h] IN
    /\ d # NoDraft
    /\ drafts' = [drafts EXCEPT ![h] = NoDraft]
    /\ IF rule = NoRule THEN UNCHANGED <<rule, asked, undone>>
       ELSE /\ rule' = Saved(d, rule.enabled)
            /\ asked' = Patched(InForce(asked), d.patch)
            /\ undone' = (undone \cup {f \in DOMAIN rule \ {"enabled"} : rule[f] # d.read[f]})
                           \ DOMAIN d.patch
    /\ UNCHANGED <<defs, attributes, known, event, run, spent>>

DeleteAutomation ==
    /\ Edit
    /\ rule # NoRule
    /\ rule' = NoRule
    /\ UNCHANGED <<defs, attributes, known, drafts, asked, undone, event, run>>

\* CreateAttributeDefinition, UpdateAttributeDefinition, DeleteAttributeDefinition.
Define(k, type, status) ==
    /\ Edit
    /\ defs[k] # [type |-> type, status |-> status]
    /\ defs' = [defs EXCEPT ![k] = [type |-> type, status |-> status]]
    /\ UNCHANGED <<attributes, known, rule, drafts, asked, undone, event, run>>

\* An inbound webhook, a role or a plan is removed.
Withdraw(id) ==
    /\ Edit
    /\ id \in known
    /\ known' = known \ {id}
    /\ UNCHANGED <<defs, attributes, rule, drafts, asked, undone, event, run>>
-----------------------------------------------------------------------------
\* validateAttrValue
Fits(type, v) ==
    \/ v.kind = "null"
    \/ type = "string" /\ v.kind = "text"
    \/ type \in {"number", "boolean"} /\ v.kind = type
    \/ type = "date" /\ v.kind = "text" /\ TimeOf[v.text] # None
    \/ type = "dropdown" /\ v.kind = "text" /\ v.text \in Options

Admits(attrs) ==
    \A k \in Key : attrs[k] # None => defs[k].status = "active" /\ Fits(defs[k].type, attrs[k])

Emit(t, top, attrs) ==
    /\ event = NoEvent
    /\ spent.event < Bound.event /\ spent' = [spent EXCEPT !.event = @ + 1]
    /\ event' = [trigger |-> t, top |-> top, attributes |-> attrs]
    /\ UNCHANGED <<defs, known, rule, drafts, asked, undone, run>>

\* A customer's attribute is set or removed: all of them are checked, and the change told.
SetAttribute(k, v) ==
    LET new == [attributes EXCEPT ![k] = v]
    IN  /\ v # attributes[k] /\ Admits(new)
        /\ attributes' = new
        /\ \E top \in Columns["app_user"] : Emit(Attribute("app_user", k), top, new)

\* EnqueueResourceLifecycle, and the inbound webhooks.
Raise(r, e) ==
    /\ e \in Lifecycles(r)
    /\ \E top \in Columns[r] :
         Emit(Lifecycle(r, e), top, IF r = "app_user" THEN attributes ELSE NoAttributes)
    /\ UNCHANGED attributes

\* ProcessScheduleTick finds the row due, and tells what it was due by.
Tick ==
    /\ rule # NoRule /\ rule.enabled /\ rule.trigger = Lifecycle("schedule", "cron")
    /\ Emit(rule.trigger,
            [expr |-> Text(rule.params[Bare("expr")]),
             timezone |-> Text(IF rule.params[Bare("timezone")] = Blank THEN "UTC"
                               ELSE rule.params[Bare("timezone")])],
            NoAttributes)
    /\ UNCHANGED attributes

\* fmt.Sprint of a value.
Sprint(v) == CASE v.kind = "number" -> Printed[v.text] [] v.kind = "null" -> "<nil>" [] OTHER -> v.text

MatchTriggerParams(params, e) ==
    \A p \in Given(params) :
        LET got == Lookup(e.top, e.attributes, p) IN got # None /\ Sprint(got) = params[p]

Scoped(r, e) == r.enabled /\ r.trigger = e.trigger /\ MatchTriggerParams(r.params, e)

\* resolveSubjects: whom the actions of an event can be about.
Subjects(e) ==
    {e.trigger.resource} \cup Provides(e.trigger.resource) \cup Relations(e.trigger.resource)

\* Why the executor of an action does not even try: nobody to write to, or no address
\* (execSendEmail).
Refusal(a, e) ==
    CASE a.type = "send_email" /\ "app_user" \notin Subjects(e) -> "customer"
      [] a.type = "send_email" /\ "app_user" \in Subjects(e) /\ e.top["email"] = Text(Blank) -> "address"
      [] OTHER -> None

\* What else an executor may fail of, which is left open: a template, a webhook or a
\* database that is gone, not connected or not public, and whatever the call meets.
Mishaps(a) ==
    CASE a.type = "send_email" -> {"template", "mailer"}
      [] a.type \in {"call_webhook", "db_insert"} -> {"target", "remote"}
      [] OTHER -> {}

Endings(a, e) == IF Refusal(a, e) = None THEN {None} \cup Mishaps(a) ELSE {Refusal(a, e)}

\* How a run may end, None if well: a related subject may not be loaded, or any of the
\* actions be the first that fails.
Reasons(r, e) ==
    (IF Relations(e.trigger.resource) # {} THEN {"subject"} ELSE {})
        \cup (UNION {Endings(a, e) \ {None} : a \in r.actions})
        \cup (IF \A a \in r.actions : None \in Endings(a, e) THEN {None} ELSE {})

\* What the row of the run says.
Outcomes(r, e) ==
    IF Match(r.conditions, e)
    THEN {[status |-> IF why = None THEN "success" ELSE "error", why |-> why] : why \in Reasons(r, e)}
    ELSE {[status |-> "skipped", why |-> None]}

ProcessAutomationEvent ==
    /\ event # NoEvent
    /\ event' = NoEvent
    /\ IF rule # NoRule /\ Scoped(rule, event)
       THEN \E o \in Outcomes(rule, event) : run' = o
       ELSE UNCHANGED run
    /\ UNCHANGED <<defs, attributes, known, rule, drafts, asked, undone, spent>>
-----------------------------------------------------------------------------
\* The body of an update: each of its parts may be there or not.
Patches == {[f \in fs |-> r[f]] : r \in Request, fs \in Named}

Next ==
    \/ \E r \in Request : CreateAutomation(r)
    \/ \E h \in Editor, p \in Patches : UpdateAutomation(h, p)
    \/ \E h \in Editor : SaveUpdate(h)
    \/ DeleteAutomation
    \/ \E d \in Redefined : Define(d.key, d.type, d.status)
    \/ \E id \in Id : Withdraw(id)
    \/ \E k \in Key, v \in Value \cup {None} : SetAttribute(k, v)
    \/ \E r \in Resources \ {"schedule"}, e \in {"created", "updated", "deleted", "received"} : Raise(r, e)
    \/ Tick
    \/ ProcessAutomationEvent

Spec == Init /\ [][Next]_vars
-----------------------------------------------------------------------------
\* What a field means to who writes it: a column of the customer, or an attribute.
Told(e, p) ==
    IF p.name \in Core /\ p.root # "attributes"
    THEN IF p.name \in DOMAIN e.top THEN e.top[p.name] ELSE None
    ELSE IF p.name \in Key THEN e.attributes[p.name] ELSE None

MeansAsked(c, e) ==
    LET Met(x) == Holds(x.op, Told(e, x.field), x.values)
    IN  IF c.items # {} THEN IF c.mode = "any" THEN \E x \in c.items : Met(x) ELSE \A x \in c.items : Met(x)
        ELSE (\A x \in c.all : Met(x)) /\ (c.any = {} \/ \E x \in c.any : Met(x))

AskedFor(c) == c.items \cup c.all \cup c.any

\* An attribute that has the name of a column, of customers or of this payload, gives way
\* to it.
Shadowed(x, e) ==
    x.field.name \in IF x.field.root = "attributes" THEN Core \cup DOMAIN e.top
                    ELSE DOMAIN e.top \ Core

\* A stored rule lets through the events that its author described, whichever of the forms
\* the request had, through every rewriting on the way to the row and back
\* (conditions.go, paths.go).  Excepted: an attribute that has the name of a column, and
\* what a concurrent update wrote back.
SavedMeansAsked ==
    event # NoEvent /\ rule # NoRule /\ "conditions" \notin undone
        /\ ~(\E x \in AskedFor(asked.conditions) : Shadowed(x, event))
    => (Match(rule.conditions, event) <=> MeansAsked(asked.conditions, event))

\* An update changes what it names: every part of the row is what was last asked for it,
\* unless an update that had read the row before wrote it back (UpdateAutomation).
RuleIsAsAsked ==
    rule # NoRule => \A f \in DOMAIN rule \ undone : rule[f] = Row(asked)[f]

\* What a condition says of a value of the declared type: numbers by size, dates by
\* instant, the others by their characters.
MeansTyped(type, op, v, ws) ==
    LET Measure(x) == IF type = "number" THEN AsNumber(x) ELSE AsTime(x)
        Same(x, w) == IF type \in {"number", "date"} THEN Measure(x) = Measure(w)
                      ELSE x.text = w.text
    IN  CASE op = "eq" -> Same(v, Only(ws))
          [] op = "neq" -> ~Same(v, Only(ws))
          [] op = "in" -> \E w \in ws : Same(v, w)
          [] op = "not_in" -> ~\E w \in ws : Same(v, w)
          [] OTHER -> Ordered(op, Measure(v), Measure(Only(ws)))

\* What can be read as of the type.
Reads(type, w) ==
    CASE type = "number" -> AsNumber(w) \notin {None, NaN}
      [] type = "date" -> AsTime(w) # None
      [] type = "boolean" -> w.text \in {"true", "false"}
      [] OTHER -> w.kind = "text" /\ w.text # Blank

\* Two texts that both read as numbers or as times, which are compared as such.
Numeric(a, b) == BothNumbers(a, b) \/ BothTimes(a, b)

\* Matching goes by the declared type of the attribute, although it is only handed two
\* JSON values (valuesEqual, compareOrdered).  Excepted: values that are not of the type,
\* those stored under an older one among them, and texts that read as numbers or times.
MatchingIsTyped ==
    event # NoEvent /\ rule # NoRule =>
        \A c \in rule.conditions.all \cup rule.conditions.any :
            c.field.name \in ActiveKeys \ Core /\ c.op \notin {"exists", "not_exists", "contains"} =>
                LET type == defs[c.field.name].type
                    v == event.attributes[c.field.name]
                IN  /\ FieldFits(c)
                    /\ v # None /\ v.kind # "null" /\ Fits(type, v)
                    /\ \A w \in c.values : Reads(type, w)
                    /\ type \in {"string", "dropdown"} => ~\E w \in c.values : Numeric(v, w)
                    => (Matches(c, event) <=> MeansTyped(type, c.op, v, c.values))

\* The value that a parameter of an attribute trigger stands for.
EqualsParam(v, want) ==
    v # None /\ want = IF v.kind = "null" THEN "<nil>" ELSE v.text

Misprinted(v) == v # None /\ v.kind = "number" /\ Printed[v.text] # v.text

AttributeScope(k) == rule.params[User(k)]

\* The hint of the parameter: only fire when the attribute equals this value
\* (trigger_params.go).  Excepted: numbers that are not printed as they are written.
ScopeIsEquality ==
    event # NoEvent /\ rule # NoRule =>
        \A k \in Key \ Core :
            /\ event.trigger = Attribute("app_user", k) /\ rule.trigger = event.trigger
            /\ rule.enabled /\ AttributeScope(k) # Blank
            /\ ~Misprinted(event.attributes[k])
            => (Scoped(rule, event) <=> EqualsParam(event.attributes[k], AttributeScope(k)))

\* What a rule names is no longer there, or no longer of a type that its operators suit.
Orphaned(r) ==
    \/ r.trigger.key # None /\ r.trigger.key \notin ActiveKeys
    \/ \E p \in {Bare("inbound_webhook_id"), Bare("role_id"), Bare("plan_id")} :
          r.params[p] \notin known \cup {Blank}
    \/ \E c \in r.conditions.all \cup r.conditions.any : ~FieldFits(c)

\* Whatever is stored passes the checks again, so that the rule can be renamed or disabled
\* (UpdateAutomation checks the whole row whatever is patched).  Excepted: rules that name
\* something that has been archived, retyped or withdrawn, which can only be deleted.
StoredRulesStayEditable ==
    rule # NoRule /\ ~Orphaned(rule) => Accepts(rule) /\ Row(rule) = rule

\* No run ever fails because its e-mail has nobody to go to: whatever updates of trigger
\* and actions overlap, no rule is stored that mails on an event that is not about a
\* customer (ValidateSubjectCompatibility).  A customer without an address, and all that an
\* executor may find missing or failing outside, still make it fail.
EmailsHaveACustomer == run.why # "customer"

\* A stored rule does for an event what was asked of it: it runs for the events it is
\* bound to, is skipped for those its conditions exclude, and its e-mails are about the
\* customer of the event.
RulesDoAsAsked == SavedMeansAsked /\ ScopeIsEquality /\ EmailsHaveACustomer

=============================================================================
