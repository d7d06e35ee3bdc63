-------------------------- MODULE MCAutomationRules --------------------------
(***************************************************************************)
(* AutomationRules for TLC: two attributes, one of them named as a column, *)
(* values that are hard to tell apart, and rules of every form.            *)
(***************************************************************************)
EXTENDS AutomationRules, TLC

CONSTANT e1, e2

MCBound == [edit |-> 3, event |-> 1]

MCTexts == <<"", "0 0 * * *", "1", "1.0", "1000000", "1e+06", "2024-01-01", "2024-01-01T00:00:00Z",
             "7", "<nil>", "UTC", "a1", "active", "false", "hook", "nan", "role", "true", "vip", "vipx">>

Domain == {MCTexts[i] : i \in DOMAIN MCTexts}

MCNumberOf == [t \in Domain |->
    CASE t \in {"1", "1.0"} -> 1 [] t = "7" -> 7 [] t \in {"1000000", "1e+06"} -> 1000000
      [] t = "nan" -> NaN [] OTHER -> None]

MCTimeOf == [t \in Domain |-> IF t \in {"2024-01-01", "2024-01-01T00:00:00Z"} THEN 1 ELSE None]

MCPrinted == [t \in Domain |-> IF t = "1000000" THEN "1e+06" ELSE t]

MCContained == {<<t, t>> : t \in Domain} \cup {<<"vipx", "vip">>}

N(t) == [kind |-> "number", text |-> t]
B(t) == [kind |-> "boolean", text |-> t]

MCValue == {N("7"), N("1000000"), Text("1"), Text("vip"), Text("vipx"),
            Text("2024-01-01T00:00:00Z"), B("true"), B("false"), Null}

MCColumns == [r \in Resources |->
    CASE r = "app_user" ->
           {[id |-> Text("a1"), email |-> Text(e), display_name |-> Text(""), status |-> Text("active")]
              : e \in {"", "a1"}}
      [] r = "membership" ->
           {[id |-> Text("a1"), organisation_id |-> Text("a1"), user_id |-> Text("a1"),
             role_id |-> Text("role"), status |-> Text("active")]}
      [] r = "subscription" ->
           {[id |-> Text("a1"), organisation_id |-> Text("a1"), plan_id |-> Text("a1"), status |-> Text("active")]}
      [] r = "webhook" -> {[id |-> Text("a1"), inbound_webhook_id |-> Text("hook")]}
      [] OTHER -> {}]

Stored(type) ==
    CASE type = "number" -> N("7") [] type = "boolean" -> B("true")
      [] type = "date" -> Text("2024-01-01T00:00:00Z") [] OTHER -> Text("vip")

\* Three edits where the attribute is a text, two where it is of another type; the
\* attribute that is named as a column is there when the other one is a number.
MCStarts ==
    {[defs |-> [score |-> [type |-> t, status |-> "active"],
                status |-> [type |-> "string", status |-> IF t = "number" THEN "active" ELSE "none"]],
      attributes |-> [score |-> Stored(t), status |-> None],
      spent |-> [edit |-> IF t = "string" THEN 0 ELSE 1, event |-> 0]] : t \in Types}

MCRedefined ==
    {[key |-> "score", type |-> "number", status |-> "active"],
     [key |-> "score", type |-> "string", status |-> "archived"],
     [key |-> "status", type |-> "date", status |-> "active"]}

C(field, op, values) == [field |-> field, op |-> op, values |-> values]

Score == User("score")

Rules ==
    {NoConditions,
     [NoConditions EXCEPT !.mode = "any", !.items = {C(Score, "eq", {Text("1e+06")}), C(Bare("status"), "neq", {Text("active")})}],
     [NoConditions EXCEPT !.items = {C(Score, "not_in", {Text("1.0"), Text("vip")}), C(User("status"), "eq", {Text("active")})}],
     [NoConditions EXCEPT !.all = {C(Bare("email"), "exists", {})}, !.any = {C(Of("attributes", "score"), "gte", {Text("7")}), C(Score, "not_exists", {})}],
     [NoConditions EXCEPT !.any = {C(Score, "lt", {Text("2024-01-01")}), C(Of("attributes", "score"), "eq", {Text("true")})}],
     [NoConditions EXCEPT !.all = {C(Score, "contains", {Text("vip")}), C(Score, "neq", {N("7")})}],
     [NoConditions EXCEPT !.all = {C(Of("attributes", "status"), "eq", {Text("vip")})}]}

Scopes ==
    {<<Attribute("app_user", "score"), NoParams>>,
     <<Attribute("app_user", "score"), [NoParams EXCEPT ![Score] = "1000000"]>>,
     <<Attribute("app_user", "score"), [NoParams EXCEPT ![Score] = "vip"]>>,
     <<Lifecycle("app_user", "updated"), [NoParams EXCEPT ![Bare("status")] = "active"]>>,
     <<Lifecycle("membership", "created"), [NoParams EXCEPT ![Bare("role_id")] = "role"]>>,
     <<Lifecycle("webhook", "received"), [NoParams EXCEPT ![Bare("inbound_webhook_id")] = "hook"]>>,
     <<Lifecycle("schedule", "daily"), NoParams>>}

A(type) == [type |-> type, given |-> TRUE, table |-> "identifier", mode |-> "columns", mapping |-> "paths", seconds |-> 60]

Mail == {A("send_email")}
Post == {A("db_insert"), A("call_webhook")}
NoDelay == {[A("delay") EXCEPT !.seconds = 0]}

Rule(scope, conditions, actions, enabled) ==
    [trigger |-> scope[1], params |-> scope[2], conditions |-> conditions, actions |-> actions, enabled |-> enabled]

AnyScore == <<Attribute("app_user", "score"), NoParams>>
Joined == <<Lifecycle("membership", "created"), NoParams>>

MCRequest ==
    {Rule(AnyScore, c, Mail, TRUE) : c \in Rules}
        \cup {Rule(s, NoConditions, Post, TRUE) : s \in Scopes}
        \cup {Rule(Joined, NoConditions, Mail, FALSE),
              Rule(AnyScore, NoConditions, NoDelay, FALSE)}

Symmetry == Permutations(Editor)
=============================================================================
