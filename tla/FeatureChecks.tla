---------------------------- MODULE FeatureChecks ----------------------------
(***************************************************************************)
(* The features that an organisation gates for its own customers, and      *)
(* CheckEntitlement, which a merchant's backend calls to ask whether a     *)
(* subject has one (internal/service/product_features.go and billing.go,   *)
(* core/billing/effective.go, core/featureflags/evaluate.go), on top of    *)
(* the plans that carry them.                                              *)
(*                                                                         *)
(* A check reads seven tables in as many statements, in no transaction.    *)
(* There is one key, asked about by one subject; several ids bear the key  *)
(* one after the other, as the feature is deleted and made again.  The     *)
(* subscription to KYC is left out: no plan of KYC has the key.            *)
(***************************************************************************)
EXTENDS ProductPlans

CONSTANTS
    Feature,        \* ids of the features that have the key
    Rollouts,       \* "off", "some", "all": 0, a percentage between, 100
    Subjects        \* who is asked about: "in", "out", "nobody"

Rows == [enabled : BOOLEAN, rollout : Rollouts]
Unborn == [rollout |-> "unborn"]
Dead == [rollout |-> "dead"]

ASSUME FeatureAssumption == Feature # {} /\ None \notin Feature /\ "grant" \notin Plan
                            /\ Rollouts \subseteq {"off", "some", "all"}
                            /\ Subjects \subseteq {"in", "out", "nobody"}

VARIABLES
    serving,    \* organisations: the status is active
    features,   \* entitlements, with scope product
    carried,    \* product_plan_features
    effects,    \* organisation_entitlements: grant or deny
    included,   \* product_feature_overrides of the subject: include or exclude
    edit,       \* an edit that has read and not written yet
    check       \* the check under way, and what has stood since it began

featureTables == <<serving, features, carried, effects, included>>
vars == <<planVars, featureTables, edit, check>>

NoEdit == [kind |-> "none", plan |-> None, feature |-> None, effect |-> "none"]
NoCheck == [pc |-> "idle", subject |-> "nobody", feature |-> None, enabled |-> FALSE,
            rollout |-> "off", plan |-> None, carries |-> FALSE, answer |-> "none",
            against |-> {}, titles |-> {}]

Live == {f \in Feature : features[f] \in Rows}

Has(p, f) == Exists(p) /\ f \in carried[p]
-----------------------------------------------------------------------------
(* What speaks against the subject's having the feature, and what for it *)

\* The bucket of key and subject never changes: a subject is within the percentage, or
\* out of it.  A check need not name a subject.
InRollout(rollout, s) == rollout = "all" \/ (rollout = "some" /\ s = "in")

Excludes(f, s) == s # "nobody" /\ included[f] = "exclude"
Includes(f, s) == s # "nobody" /\ included[f] = "include"

Objections(s) ==
    {o \in {"suspended", "missing", "disabled", "denied", "unplanned", "excluded", "outside"} :
        CASE o = "suspended" -> ~serving
          [] o = "missing" -> Live = {}
          [] o = "disabled" -> \E f \in Live : ~features[f].enabled
          [] o = "denied" -> \E f \in Live : effects[f] = "deny"
          [] o = "unplanned" -> \A f \in Live : effects[f] # "grant" /\ \A p \in Plan : ~Has(p, f)
          [] o = "excluded" -> \E f \in Live : Excludes(f, s)
          [] o = "outside" -> \E f \in Live :
                                 ~Includes(f, s) /\ ~InRollout(features[f].rollout, s)}

\* By which plan, or grant, the feature comes, and by what the subject is let in.
Titles(s) ==
    {t \in (Plan \cup {"grant"}) \X {"include", "rollout"} :
        \E f \in Live :
            /\ serving /\ features[f].enabled /\ effects[f] # "deny" /\ ~Excludes(f, s)
            /\ \/ t[1] = "grant" /\ effects[f] = "grant"
               \/ t[1] = active /\ Has(t[1], f)
            /\ \/ t[2] = "include" /\ Includes(f, s)
               \/ t[2] = "rollout" /\ InRollout(features[f].rollout, s)}

\* A check keeps the objections and the titles that still stand.
Watch(c) ==
    \E s \in Subjects :
        /\ s = c.subject
        /\ check' = [c EXCEPT !.against = @ \cap Objections(s)', !.titles = @ \cap Titles(s)']

Watching == IF check.pc \in {"idle", "done"} THEN UNCHANGED check ELSE Watch(check)
-----------------------------------------------------------------------------
(* CheckEntitlementWithSubject *)

Checks(pc) == check.pc = pc

Unchecked == <<planVars, featureTables, edit>>

Answer(a) ==
    Watch([NoCheck EXCEPT !.pc = "done", !.subject = check.subject, !.answer = a,
                          !.against = check.against, !.titles = check.titles])

\* GetOrganisation
StartCheck(s) ==
    /\ Checks("idle")
    /\ Spend("checks")
    /\ check' = [NoCheck EXCEPT !.pc = IF serving THEN "feature" ELSE "done", !.subject = s,
                     !.answer = IF serving THEN "none" ELSE "denied",
                     !.against = Objections(s), !.titles = Titles(s)]
    /\ UNCHANGED <<tables, stripe, handlers, histories, featureTables, edit>>

\* GetEntitlementForOrgCheck
ReadFeature ==
    /\ Checks("feature")
    /\ UNCHANGED Unchecked
    /\ \/ Live = {} /\ Answer("error")
       \/ \E f \in Live :
             Watch([check EXCEPT !.pc = "plan", !.feature = f, !.enabled = features[f].enabled,
                                 !.rollout = features[f].rollout])

\* activeProductPlanFeatureKeys: the plan in use, and then its keys.
ReadPlanInUse ==
    /\ Checks("plan")
    /\ UNCHANGED Unchecked
    /\ Watch([check EXCEPT !.pc = IF active = None THEN "effects" ELSE "keys", !.plan = active])

ReadKeys ==
    /\ Checks("keys")
    /\ UNCHANGED Unchecked
    /\ Watch([check EXCEPT !.pc = "effects", !.plan = None,
                            !.carries = \E f \in Live : Has(check.plan, f)])

\* Plan keys and grants, less denials; by key, whatever the id.
EffectiveKeys(carries) ==
    /\ carries \/ \E f \in Live : effects[f] = "grant"
    /\ \A f \in Live : effects[f] # "deny"

\* A percentage asks for a subject.  Who names none has no override.
ReadEffects ==
    /\ Checks("effects")
    /\ UNCHANGED Unchecked
    /\ IF ~EffectiveKeys(check.carries) THEN Answer("denied")
       ELSE IF check.enabled /\ check.rollout = "some" /\ check.subject = "nobody"
       THEN Answer("error")
       ELSE Watch([check EXCEPT !.pc = "evaluate", !.carries = FALSE])

\* Mutant: an override wins over the kill switch.
Evaluate_OverrideFirst(enabled, rollout, s, override) ==
    override = "include" \/ (enabled /\ override # "exclude" /\ InRollout(rollout, s))

\* Kill switch, then override, then percentage.
Evaluate(enabled, rollout, s, override) ==
    /\ enabled
    /\ override # "exclude"
    /\ override = "include" \/ InRollout(rollout, s)

\* GetProductFeatureOverride is by the id that was read: a deleted feature has none.
ReadOverride ==
    LET override == IF check.subject = "nobody" THEN "none" ELSE included[check.feature]
    IN  /\ Checks("evaluate")
        /\ UNCHANGED Unchecked
        /\ Answer(IF Evaluate(check.enabled, check.rollout, check.subject, override)
                  THEN "allowed" ELSE "denied")

CheckStep == ReadFeature \/ ReadPlanInUse \/ ReadKeys \/ ReadEffects \/ ReadOverride
-----------------------------------------------------------------------------
(* Features *)

Edits ==
    /\ Spend("features")
    /\ UNCHANGED <<tables, stripe, handlers, histories>>

\* The unique index on organisation and key.
CreateProductFeature(f, row) ==
    /\ Edits
    /\ Live = {} /\ features[f] = Unborn /\ f = CHOOSE g \in Feature : features[g] = Unborn
    /\ features' = [features EXCEPT ![f] = row]
    /\ UNCHANGED <<serving, carried, effects, included, edit>>
    /\ Watching

\* UpdateProductFeature: what a request leaves out is kept by the statement.
UpdateProductFeature(f, row) ==
    /\ Edits
    /\ f \in Live
    /\ features' = [features EXCEPT ![f] = row]
    /\ UNCHANGED <<serving, carried, effects, included, edit>>
    /\ Watching

\* The rows of plans and of subjects go with it; an organisation's effect holds it.
DeleteProductFeature(f) ==
    /\ Edits
    /\ f \in Live /\ effects[f] = "none"
    /\ features' = [features EXCEPT ![f] = Dead]
    /\ carried' = [p \in Plan |-> carried[p] \ {f}]
    /\ included' = [included EXCEPT ![f] = "none"]
    /\ UNCHANGED <<serving, effects, edit>>
    /\ Watching

\* UpdateOrganisation: suspended or active again.
SetStatus ==
    /\ Edits
    /\ serving' = ~serving
    /\ UNCHANGED <<features, carried, effects, included, edit>>
    /\ Watching

\* SetProductPlanFeatures, SetOrganisationEntitlements and SetProductFeatureOverrides look
\* the key up and then replace what there was, in a transaction.
BeginEdit(e) ==
    /\ edit = NoEdit
    /\ Edits
    /\ e.feature \in Live \cup {None}
    /\ e.kind = "plan" => Exists(e.plan)
    /\ e.kind = "subject" => e.feature # None
    /\ edit' = e
    /\ UNCHANGED <<featureTables, check>>

EditRequests ==
    [kind : {"plan"}, plan : Plan, feature : Feature \cup {None}, effect : {"none"}]
    \cup [kind : {"organisation"}, plan : {None}, feature : Feature, effect : {"grant", "deny"}]
    \cup [kind : {"organisation"}, plan : {None}, feature : {None}, effect : {"none"}]
    \cup [kind : {"subject"}, plan : {None}, feature : Feature,
          effect : {"include", "exclude", "none"}]

\* The foreign keys: the plan and the feature that were looked up are still there.
Writable(e) ==
    e.feature # None =>
        /\ e.kind = "plan" => Exists(e.plan)
        /\ e.feature \in Live \/ (e.kind = "subject" /\ e.effect = "none")

Replace(e) ==
    \/ /\ e.kind = "plan"
       /\ carried' = IF Exists(e.plan) THEN [carried EXCEPT ![e.plan] = {e.feature} \ {None}]
                     ELSE carried
       /\ UNCHANGED <<effects, included>>
    \/ /\ e.kind = "organisation"
       /\ effects' = [f \in Feature |-> IF f = e.feature THEN e.effect ELSE "none"]
       /\ UNCHANGED <<carried, included>>
    \/ /\ e.kind = "subject"
       /\ included' = [included EXCEPT ![e.feature] = e.effect]
       /\ UNCHANGED <<carried, effects>>

CommitEdit ==
    /\ edit # NoEdit
    /\ IF Writable(edit) THEN Replace(edit) ELSE UNCHANGED <<carried, effects, included>>
    /\ edit' = NoEdit
    /\ UNCHANGED <<planVars, serving, features>>
    /\ Watching

\* The plans go on as before; the rows of a deleted plan go with it.
PlanStep ==
    /\ PlansNext
    /\ carried' = [p \in Plan |-> IF Exists(p)' THEN carried[p] ELSE {}]
    /\ UNCHANGED <<serving, features, effects, included, edit>>
    /\ Watching

FeatureStep ==
    \/ \E f \in Feature :
          \/ \E row \in Rows : CreateProductFeature(f, row) \/ UpdateProductFeature(f, row)
          \/ DeleteProductFeature(f)
    \/ SetStatus
    \/ \E e \in EditRequests : BeginEdit(e)
    \/ CommitEdit

\* There is no feature at first, or, where there is a check to come, one that is on.
Init ==
    /\ PlansInit
    /\ serving = TRUE /\ edit = NoEdit /\ check = NoCheck
    /\ \/ /\ features = [f \in Feature |-> Unborn]
          /\ carried = [p \in Plan |-> {}]
          /\ effects = [f \in Feature |-> "none"] /\ included = [f \in Feature |-> "none"]
       \/ /\ left["checks"] > 0
          /\ \E f \in {CHOOSE g \in Feature : TRUE}, row \in Rows, e \in {"none", "grant"},
                i \in {"none", "include"}, holders \in SUBSET Plan :
                /\ row.enabled
                /\ features = [g \in Feature |-> IF g = f THEN row ELSE Unborn]
                /\ holders \subseteq {p \in Plan : Exists(p)}
                /\ carried = [p \in Plan |-> IF p \in holders THEN {f} ELSE {}]
                /\ effects = [g \in Feature |-> IF g = f THEN e ELSE "none"]
                /\ included = [g \in Feature |-> IF g = f THEN i ELSE "none"]

Next ==
    PlanStep \/ FeatureStep \/ CheckStep \/ \E s \in Subjects : StartCheck(s)

Spec == Init /\ [][Next]_vars
-----------------------------------------------------------------------------
\* Types, with those of the plans; one feature has the key at a time, and what refers to
\* a feature refers to one that is there.
TypesOK ==
    /\ TypeOK
    /\ serving \in BOOLEAN
    /\ features \in [Feature -> Rows \cup {Unborn, Dead}] /\ Cardinality(Live) <= 1
    /\ carried \in [Plan -> SUBSET Live]
    /\ effects \in [Feature -> {"none", "grant", "deny"}]
    /\ included \in [Feature -> {"none", "include", "exclude"}]
    /\ \A f \in Feature \ Live : effects[f] = "none" /\ included[f] = "none"
    /\ edit \in EditRequests \cup {NoEdit}
    /\ check.pc \in {"idle", "feature", "plan", "keys", "effects", "evaluate", "done"}
    /\ check.answer \in {"none", "allowed", "denied", "error"}

\* What refers to a plan or to a feature refers to one that is there, and the choice of
\* a plan stands until it is made anew (see ChoiceStands).
ReferencesStand == TypesOK /\ ChoiceStands

\* A check that ran across edits is still not wrong about what did not change: an
\* objection that stood from its first statement to its last is heard, and so is a title
\* (a plan in use, or a grant, together with an inclusion or the rollout).  "No plan in
\* use carries it" is no such objection: between the reading of the plan and of its keys
\* another one may be chosen and the first be given the feature, so the objection that
\* is heard is that no plan carries it.
StandingGroundsDecide ==
    check.pc = "done" =>
        /\ check.against # {} => check.answer # "allowed"
        /\ check.titles # {} => check.answer = "allowed"
=============================================================================
