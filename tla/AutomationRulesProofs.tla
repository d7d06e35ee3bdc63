------------------------ MODULE AutomationRulesProofs ------------------------
(***************************************************************************)
(* Proofs about AutomationRules, for any rules, patches, attributes,       *)
(* values, payloads and editors: what is stored is what was asked for in   *)
(* its final form, is matched as its author meant it, and can be edited    *)
(* again.                                                                  *)
(***************************************************************************)
EXTENDS AutomationRules, TLAPS

(* The rewriting of conditions on their way to the row *)

HasForm(c) ==
    /\ c = [mode |-> c.mode, items |-> c.items, all |-> c.all, any |-> c.any]
    /\ {c.items, c.all, c.any} \subseteq SUBSET Condition

AllOf(c) == IF c.items = {} THEN c.all ELSE IF c.mode = "any" THEN {} ELSE c.items
AnyOf(c) == IF c.items = {} THEN c.any ELSE IF c.mode = "any" THEN c.items ELSE {}
ModeOf(c) ==
    IF c.items # {} THEN IF c.mode = "any" THEN "any" ELSE "all"
    ELSE IF c.any # {} /\ c.all = {} THEN "any" ELSE IF c.mode = "" THEN "all" ELSE c.mode

Stored(c) == MarshalConditions(NormalizeConditionsFields(c))

LEMMA CanonicalFields ==
  /\ \A p : NormalizeFieldPath(NormalizeFieldPath(p)) = NormalizeFieldPath(p)
  /\ \A c \in Condition : /\ [c EXCEPT !.field = NormalizeFieldPath(@)] \in Condition
                          /\ [c EXCEPT !.field = NormalizeFieldPath(@)]
                                = [field |-> NormalizeFieldPath(c.field), op |-> c.op, values |-> c.values]
<1>1. \A p : NormalizeFieldPath(NormalizeFieldPath(p)) = NormalizeFieldPath(p)
  BY DEF NormalizeFieldPath, User, Of
<1>2. ASSUME NEW c \in Condition
      PROVE  /\ [c EXCEPT !.field = NormalizeFieldPath(@)] \in Condition
             /\ [c EXCEPT !.field = NormalizeFieldPath(@)]
                   = [field |-> NormalizeFieldPath(c.field), op |-> c.op, values |-> c.values]
  <2>1. NormalizeFieldPath(c.field) \in [root : {"none", "app_user", "attributes"}, name : STRING]
    BY DEF Condition, NormalizeFieldPath, User, Of
  <2> QED BY <2>1 DEF Condition
<1> QED BY <1>1, <1>2

LEMMA CanonicalGroup ==
  ASSUME NEW G \in SUBSET Condition
  PROVE /\ Canonical(G) \in SUBSET Condition
        /\ Canonical(Canonical(G)) = Canonical(G)
        /\ Canonical(G) = {} <=> G = {}
<1>1. ASSUME NEW c \in Condition
      PROVE LET d == [c EXCEPT !.field = NormalizeFieldPath(@)]
            IN  d \in Condition /\ [d EXCEPT !.field = NormalizeFieldPath(@)] = d
  <2> DEFINE d == [c EXCEPT !.field = NormalizeFieldPath(@)]
  <2>1. d \in Condition /\ d = [field |-> NormalizeFieldPath(c.field), op |-> c.op, values |-> c.values]
    BY CanonicalFields
  <2>2. [d EXCEPT !.field = NormalizeFieldPath(@)]
          = [field |-> NormalizeFieldPath(d.field), op |-> d.op, values |-> d.values]
    BY <2>1, CanonicalFields
  <2>3. NormalizeFieldPath(d.field) = d.field
    BY <2>1, CanonicalFields
  <2> QED BY <2>1, <2>2, <2>3
<1> DEFINE F(c) == [c EXCEPT !.field = NormalizeFieldPath(@)]
<1>2. \A c \in Condition : F(c) \in Condition /\ F(F(c)) = F(c)
  BY <1>1
<1>3. \A S : Canonical(S) = {F(c) : c \in S}
  BY DEF Canonical
<1> HIDE DEF F
<1> QED BY <1>2, <1>3

LEMMA NormalForm ==
  ASSUME NEW c, HasForm(c)
  PROVE Normalize(c) = [mode |-> ModeOf(c), items |-> {}, all |-> AllOf(c), any |-> AnyOf(c)]
BY DEF HasForm, Normalize, NoConditions, ModeOf, AllOf, AnyOf

LEMMA GroupsTyped ==
  ASSUME NEW c, HasForm(c)
  PROVE AllOf(c) \in SUBSET Condition /\ AnyOf(c) \in SUBSET Condition
BY DEF HasForm, AllOf, AnyOf

LEMMA CanonicalForm ==
  ASSUME NEW c, HasForm(c)
  PROVE NormalizeConditionsFields(c)
          = [mode |-> ModeOf(c), items |-> {}, all |-> Canonical(AllOf(c)), any |-> Canonical(AnyOf(c))]
<1>1. Canonical({}) = {}
  BY DEF Canonical
<1> DEFINE n == Normalize(c)
<1>2. NormalizeConditionsFields(c)
        = [n EXCEPT !.items = Canonical(n.items), !.all = Canonical(n.all), !.any = Canonical(n.any)]
  BY DEF NormalizeConditionsFields
<1>3. n = [mode |-> ModeOf(c), items |-> {}, all |-> AllOf(c), any |-> AnyOf(c)]
  BY NormalForm
<1> HIDE DEF n
<1> QED BY <1>1, <1>2, <1>3

(* The row's conditions, by which of the groups there are. *)
LEMMA StoredForm ==
  ASSUME NEW c, HasForm(c)
  PROVE LET A == Canonical(AllOf(c))
            B == Canonical(AnyOf(c))
        IN  Stored(c) = IF A # {} /\ B = {} THEN [mode |-> "all", items |-> A, all |-> A, any |-> {}]
                        ELSE IF A = {} /\ B # {} THEN [mode |-> "any", items |-> B, all |-> {}, any |-> B]
                        ELSE [mode |-> ModeOf(c), items |-> {}, all |-> A, any |-> B]
<1> DEFINE A == Canonical(AllOf(c))
           B == Canonical(AnyOf(c))
           d == [mode |-> ModeOf(c), items |-> {}, all |-> A, any |-> B]
<1>1. A \in SUBSET Condition /\ B \in SUBSET Condition
  BY GroupsTyped, CanonicalGroup
<1>2. (A = {} <=> AllOf(c) = {}) /\ (B = {} <=> AnyOf(c) = {})
  BY GroupsTyped, CanonicalGroup
<1>3. ModeOf(c) # "" /\ (AnyOf(c) # {} /\ AllOf(c) = {} => ModeOf(c) = "any")
  BY DEF ModeOf, AnyOf, AllOf
<1>4. HasForm(d)
  BY <1>1 DEF HasForm
<1>5. NormalizeConditionsFields(c) = d
  BY CanonicalForm
<1>6. Normalize(d) = d
  <2>1. ModeOf(d) = ModeOf(c) /\ AllOf(d) = A /\ AnyOf(d) = B
    BY <1>2, <1>3 DEF ModeOf, AllOf, AnyOf
  <2> QED BY <1>4, <2>1, NormalForm
<1> HIDE DEF A, B
<1>7. MarshalConditions(d)
        = IF A # {} /\ B = {} THEN [mode |-> "all", items |-> A, all |-> A, any |-> {}]
          ELSE IF A = {} /\ B # {} THEN [mode |-> "any", items |-> B, all |-> {}, any |-> B]
          ELSE d
  <2>1. d.all = A /\ d.any = B
    OBVIOUS
  <2> HIDE DEF d
  <2>2. MarshalConditions(d)
          = CASE d.all # {} /\ d.any = {} ->
                   [NoConditions EXCEPT !.mode = "all", !.items = d.all, !.all = d.all]
              [] d.any # {} /\ d.all = {} ->
                   [NoConditions EXCEPT !.mode = "any", !.items = d.any, !.any = d.any]
              [] OTHER -> d
    BY <1>6, Zenon DEF MarshalConditions
  <2>3. CASE A # {} /\ B = {}
    BY <2>1, <2>2, <2>3 DEF NoConditions
  <2>4. CASE A = {} /\ B # {}
    BY <2>1, <2>2, <2>4 DEF NoConditions
  <2>5. CASE (A = {} /\ B = {}) \/ (A # {} /\ B # {})
    BY <2>1, <2>2, <2>5
  <2> QED BY <2>3, <2>4, <2>5
<1> QED BY <1>5, <1>7 DEF Stored, A, B

LEMMA StoredIsFinal ==
  ASSUME NEW c, HasForm(c)
  PROVE /\ HasForm(Stored(c))
        /\ Stored(Stored(c)) = Stored(c)
        /\ Stored(c).all = Canonical(AllOf(c)) /\ Stored(c).any = Canonical(AnyOf(c))
        /\ Normalize(Stored(c)).all = Stored(c).all /\ Normalize(Stored(c)).any = Stored(c).any
        /\ NormalizeConditionsFields(Stored(c)).all = Stored(c).all
        /\ NormalizeConditionsFields(Stored(c)).any = Stored(c).any
<1> DEFINE A == Canonical(AllOf(c))
           B == Canonical(AnyOf(c))
           s == Stored(c)
<1>1. /\ A \in SUBSET Condition /\ B \in SUBSET Condition
      /\ Canonical(A) = A /\ Canonical(B) = B
      /\ A = {} <=> AllOf(c) = {}
      /\ B = {} <=> AnyOf(c) = {}
  BY GroupsTyped, CanonicalGroup
<1>2. ModeOf(c) # "" /\ (AnyOf(c) # {} /\ AllOf(c) = {} => ModeOf(c) = "any")
  BY DEF ModeOf, AnyOf, AllOf
<1>3. s = IF A # {} /\ B = {} THEN [mode |-> "all", items |-> A, all |-> A, any |-> {}]
          ELSE IF A = {} /\ B # {} THEN [mode |-> "any", items |-> B, all |-> {}, any |-> B]
          ELSE [mode |-> ModeOf(c), items |-> {}, all |-> A, any |-> B]
  BY StoredForm
<1> HIDE DEF A, B, s
<1>4. HasForm(s) /\ s.all = A /\ s.any = B
  BY <1>1, <1>3 DEF HasForm
<1>5. AllOf(s) = A /\ AnyOf(s) = B /\ (s.items = {} => ModeOf(s) = s.mode)
  BY <1>1, <1>2, <1>3 DEF AllOf, AnyOf, ModeOf
<1>6. Stored(s) = IF A # {} /\ B = {} THEN [mode |-> "all", items |-> A, all |-> A, any |-> {}]
                  ELSE IF A = {} /\ B # {} THEN [mode |-> "any", items |-> B, all |-> {}, any |-> B]
                  ELSE [mode |-> ModeOf(s), items |-> {}, all |-> A, any |-> B]
  BY <1>1, <1>4, <1>5, StoredForm
<1>7. Stored(s) = s
  BY <1>3, <1>5, <1>6
<1>8. /\ Normalize(s).all = A /\ Normalize(s).any = B
      /\ NormalizeConditionsFields(s).all = A /\ NormalizeConditionsFields(s).any = B
  BY <1>1, <1>4, <1>5, NormalForm, CanonicalForm
<1> QED BY <1>4, <1>7, <1>8 DEF A, B, s

---------------------------------------------------------------------------
(* Rows *)

HasParts(r) ==
    /\ r = [trigger |-> r.trigger, params |-> r.params, conditions |-> r.conditions,
            actions |-> r.actions, enabled |-> r.enabled]
    /\ HasForm(r.conditions)

LEMMA RequestParts == \A r \in Request : HasParts(r)
<1> SUFFICES ASSUME NEW r \in Request PROVE HasParts(r)
  OBVIOUS
<1>1. r \in Automation
  BY RequestAssumption
<1>2. r.conditions \in Conditions
  BY <1>1 DEF Automation
<1>3. HasForm(r.conditions)
  BY <1>2 DEF Conditions, HasForm
<1> QED BY <1>1, <1>3 DEF Automation, HasParts

LEMMA RowParts ==
  ASSUME NEW r, HasParts(r)
  PROVE Row(r) = [trigger |-> NormalizeTrigger(r.trigger),
                  params |-> NormalizeParams(r.trigger, r.params),
                  conditions |-> Stored(r.conditions), actions |-> r.actions,
                  enabled |-> r.enabled]
BY DEF Row, Canonized, Stored

LEMMA TriggersAreFinal ==
  /\ \A t : NormalizeTrigger(NormalizeTrigger(t)) = NormalizeTrigger(t)
  /\ \A t, params : NormalizeParams(NormalizeTrigger(t), params) = params
<1>1. \A t : ~ IsLegacy(NormalizeTrigger(t))
  <2>1. DOMAIN LegacyExpr = {"hourly", "daily", "weekly"}
    BY DEF LegacyExpr
  <2> QED BY <2>1 DEF IsLegacy, NormalizeTrigger, Lifecycle
<1> QED BY <1>1 DEF NormalizeTrigger, NormalizeParams

LEMMA RowIsFinal ==
  ASSUME NEW r, HasParts(r)
  PROVE HasParts(Row(r)) /\ Row(Row(r)) = Row(r)
<1>1. HasParts(Row(r))
  BY RowParts, StoredIsFinal DEF HasParts
<1>2. Row(Row(r)) = [trigger |-> NormalizeTrigger(NormalizeTrigger(r.trigger)),
                     params |-> NormalizeParams(NormalizeTrigger(r.trigger),
                                                NormalizeParams(r.trigger, r.params)),
                     conditions |-> Stored(Stored(r.conditions)), actions |-> r.actions,
                     enabled |-> r.enabled]
  BY <1>1, RowParts
<1>3. HasForm(r.conditions)
  BY DEF HasParts
<1> QED BY <1>1, <1>2, <1>3, RowParts, StoredIsFinal, TriggersAreFinal

(* What is stored is final, and passes every check that looks at nothing but the rule. *)
CatalogTrigger(t) ==
    \/ t \in {Lifecycle(s, e) : s \in Resources, e \in UNION {Lifecycles(s) : s \in Resources}}
    \/ \E k \in Key : t = Attribute("app_user", k)

Settled(r) ==
    /\ HasParts(r) /\ Row(r) = r
    /\ KnownTrigger(r.trigger) /\ CatalogTrigger(r.trigger) /\ ParamsFit(r.trigger, r.params)
    /\ \A c \in r.conditions.all \cup r.conditions.any :
          /\ c \in Condition /\ WellFormed(c)
          /\ \E n \in (Core \ {"attributes"}) \cup Key : c.field = User(n)
    /\ r.actions # {} /\ \A a \in r.actions : ValidateAction(a)
    /\ SubjectsFit(r.trigger, r.actions)

LEMMA AcceptedIsSettled ==
  ASSUME NEW r, HasParts(r), Accepts(r)
  PROVE Settled(Row(r))
<1> DEFINE s == Row(r)
           k == Canonized(r)
<1>1. HasParts(s) /\ Row(s) = s
  BY RowIsFinal
<1>2. /\ s.trigger = k.trigger /\ s.params = k.params /\ s.actions = k.actions
      /\ s.conditions.all = k.conditions.all /\ s.conditions.any = k.conditions.any
      /\ s.conditions.all = Canonical(AllOf(r.conditions))
      /\ s.conditions.any = Canonical(AnyOf(r.conditions))
  <2>1. HasForm(r.conditions)
    BY DEF HasParts
  <2>2. /\ Stored(r.conditions).all = NormalizeConditionsFields(r.conditions).all
        /\ Stored(r.conditions).any = NormalizeConditionsFields(r.conditions).any
    BY <2>1, StoredIsFinal, CanonicalForm
  <2> QED BY <2>1, <2>2, RowParts, StoredIsFinal DEF Canonized
<1>3. /\ KnownTrigger(k.trigger) /\ k.trigger \in AllowedTriggers
      /\ ParamsFit(k.trigger, k.params)
      /\ \A c \in k.conditions.all \cup k.conditions.any : WellFormed(c) /\ FieldFits(c)
      /\ k.actions # {} /\ \A a \in k.actions : ValidateAction(a)
      /\ SubjectsFit(k.trigger, k.actions)
  BY DEF Accepts
<1> HIDE DEF s, k
<1>4. CatalogTrigger(k.trigger)
  BY <1>3 DEF AllowedTriggers, CatalogTrigger, ActiveKeys
<1>5. ASSUME NEW c \in s.conditions.all \cup s.conditions.any
      PROVE c \in Condition /\ \E n \in (Core \ {"attributes"}) \cup Key : c.field = User(n)
  <2>1. HasForm(r.conditions)
    BY DEF HasParts
  <2>2. PICK x \in AllOf(r.conditions) \cup AnyOf(r.conditions) :
            c = [x EXCEPT !.field = NormalizeFieldPath(@)]
    BY <1>2, <1>5 DEF Canonical
  <2>3. x \in Condition
    BY <2>1, GroupsTyped
  <2>4. c \in Condition /\ c.field = NormalizeFieldPath(x.field)
    <3>1. /\ c = [field |-> NormalizeFieldPath(x.field), op |-> x.op, values |-> x.values]
          /\ c \in Condition
      BY <2>2, <2>3, CanonicalFields, Zenon
    <3> QED BY <3>1
  <2>5. NormalizeFieldPath(c.field) \in ConditionFields
    BY <1>2, <1>3, <1>5 DEF FieldFits
  <2>6. NormalizeFieldPath(c.field) = c.field
    BY <2>4, CanonicalFields
  <2> QED BY <2>4, <2>5, <2>6 DEF ConditionFields, ActiveKeys
<1>6. \A c \in s.conditions.all \cup s.conditions.any : WellFormed(c)
  BY <1>2, <1>3
<1>7. Settled(s)
  BY <1>1, <1>2, <1>3, <1>4, <1>5, <1>6 DEF Settled
<1> QED BY <1>7 DEF s

LEMMA SettledIsAccepted ==
  ASSUME NEW r, Settled(r), ~ Orphaned(r)
  PROVE Accepts(r)
<1> DEFINE k == Canonized(r)
<1>1. HasParts(r) /\ HasForm(r.conditions) /\ Row(r) = r
  BY DEF Settled, HasParts
<1>2. /\ NormalizeTrigger(r.trigger) = r.trigger /\ NormalizeParams(r.trigger, r.params) = r.params
      /\ Stored(r.conditions) = r.conditions
  BY <1>1, RowParts
<1>3. /\ k.trigger = r.trigger /\ k.params = r.params /\ k.actions = r.actions
      /\ k.conditions.all = r.conditions.all /\ k.conditions.any = r.conditions.any
  BY <1>1, <1>2, StoredIsFinal DEF Canonized
<1>4. r.trigger \in AllowedTriggers
  <2>1. CASE \E q \in Key : r.trigger = Attribute("app_user", q)
    <3>1. PICK q \in Key : r.trigger = Attribute("app_user", q)
      BY <2>1
    <3>2. q \in ActiveKeys
      BY <3>1, ValueAssumption DEF Orphaned, Attribute
    <3> QED BY <3>1, <3>2 DEF AllowedTriggers
  <2>2. CASE ~ \E q \in Key : r.trigger = Attribute("app_user", q)
    BY <2>2 DEF Settled, CatalogTrigger, AllowedTriggers
  <2> QED BY <2>1, <2>2
<1>5. BindingsExist(r.params)
  BY DEF Orphaned, BindingsExist
<1>6. \A c \in r.conditions.all \cup r.conditions.any : WellFormed(c) /\ FieldFits(c)
  BY DEF Settled, Orphaned
<1> HIDE DEF k
<1>7. /\ KnownTrigger(k.trigger) /\ k.trigger \in AllowedTriggers
      /\ ParamsFit(k.trigger, k.params) /\ BindingsExist(k.params)
      /\ \A c \in k.conditions.all \cup k.conditions.any : WellFormed(c) /\ FieldFits(c)
      /\ k.actions # {} /\ \A a \in k.actions : ValidateAction(a)
      /\ SubjectsFit(k.trigger, k.actions)
  BY <1>3, <1>4, <1>5, <1>6 DEF Settled
<1> QED BY <1>7 DEF k, Accepts

LEMMA SettledEither ==
  ASSUME NEW r, Settled(r), NEW b
  PROVE Settled([r EXCEPT !.enabled = b])
<1> DEFINE s == [r EXCEPT !.enabled = b]
<1>1. HasParts(r) /\ Row(r) = r
  BY DEF Settled
<1>2. s = [trigger |-> r.trigger, params |-> r.params, conditions |-> r.conditions,
           actions |-> r.actions, enabled |-> b]
  BY <1>1 DEF HasParts
<1> HIDE DEF s
<1>3. HasParts(s)
  BY <1>1, <1>2 DEF HasParts
<1>4. Row(s) = s
  BY <1>1, <1>2, <1>3, RowParts
<1>5. Settled(s)
  BY <1>2, <1>3, <1>4 DEF Settled
<1> QED BY <1>5 DEF s

---------------------------------------------------------------------------
(* Updates *)

Parts == {"trigger", "params", "conditions", "actions", "enabled"}

LEMMA PartsOfRule == \A r : HasParts(r) => DOMAIN r = Parts
BY DEF HasParts, Parts

LEMMA PatchShape ==
  ASSUME NEW p \in Patches
  PROVE /\ DOMAIN p \subseteq Parts
        /\ "conditions" \in DOMAIN p => HasForm(p.conditions)
<1>1. PICK r \in Request, fs \in Named : p = [f \in fs |-> r[f]]
  BY DEF Patches
<1>2. HasForm(r.conditions)
  BY RequestParts DEF HasParts
<1> QED BY <1>1, <1>2, NamedAssumption DEF Parts

LEMMA PatchedParts ==
  ASSUME NEW r, HasParts(r), NEW p \in Patches
  PROVE /\ HasParts(Patched(r, p))
        /\ \A f \in Parts : Patched(r, p)[f] = IF f \in DOMAIN p THEN p[f] ELSE r[f]
<1> DEFINE q == Patched(r, p)
<1>1. q = [f \in Parts |-> IF f \in DOMAIN p THEN p[f] ELSE r[f]]
  BY PartsOfRule DEF Patched
<1> HIDE DEF q
<1>2. q = [trigger |-> q.trigger, params |-> q.params, conditions |-> q.conditions,
           actions |-> q.actions, enabled |-> q.enabled]
  BY <1>1 DEF Parts
<1>3. HasForm(q.conditions)
  BY <1>1, PatchShape DEF Parts, HasParts
<1>4. HasParts(q) /\ \A f \in Parts : q[f] = IF f \in DOMAIN p THEN p[f] ELSE r[f]
  BY <1>1, <1>2, <1>3 DEF HasParts
<1> QED BY <1>4 DEF q

(* Each part of a row comes from the same part of what was asked.  The parameters come
   from the trigger too, unless it is one that is stored as it is. *)
Plain(x) == NormalizeTrigger(x.trigger) = x.trigger

LEMMA RowByPart ==
  ASSUME NEW x, HasParts(x), NEW y, HasParts(y)
  PROVE /\ x.trigger = y.trigger => Row(x).trigger = Row(y).trigger
        /\ (x.trigger = y.trigger \/ (Plain(x) /\ Plain(y))) /\ x.params = y.params
              => Row(x).params = Row(y).params
        /\ x.conditions = y.conditions => Row(x).conditions = Row(y).conditions
        /\ x.actions = y.actions => Row(x).actions = Row(y).actions
        /\ Row(x).enabled = x.enabled
<1>1. ASSUME NEW z, HasParts(z), Plain(z) PROVE Row(z).params = z.params
  BY <1>1, RowParts, TriggersAreFinal DEF Plain
<1> QED BY <1>1, RowParts

(* What was asked is in force as it is stored. *)
LEMMA InForceParts ==
  ASSUME NEW a, HasParts(a)
  PROVE /\ HasParts(InForce(a)) /\ Row(InForce(a)) = Row(a)
        /\ Plain(InForce(a)) /\ Row(a).trigger = InForce(a).trigger /\ Row(a).params = InForce(a).params
        /\ InForce(a).conditions = a.conditions
<1> DEFINE b == InForce(a)
<1>1. b = [trigger |-> NormalizeTrigger(a.trigger), params |-> NormalizeParams(a.trigger, a.params),
           conditions |-> a.conditions, actions |-> a.actions, enabled |-> a.enabled]
  BY DEF InForce, Canonized
<1> HIDE DEF b
<1>2. HasParts(b)
  BY <1>1 DEF HasParts
<1>3. Plain(b)
  BY <1>1, TriggersAreFinal DEF Plain
<1>4. Row(b) = Row(a)
  BY <1>1, <1>2, RowParts, TriggersAreFinal
<1> QED BY <1>1, <1>2, <1>3, <1>4, RowParts DEF b

LEMMA SavedIsAsked ==
  ASSUME NEW old, Settled(old), NEW wanted, HasParts(wanted), NEW ex,
         Plain(wanted), Row(wanted).trigger = wanted.trigger, Row(wanted).params = wanted.params,
         \A f \in Parts \ ex : old[f] = Row(wanted)[f],
         NEW read, Settled(read), NEW p \in Patches, Settled(Row(Patched(read, p))),
         NEW new, NEW ex2,
         new = Row([Patched(read, p) EXCEPT
                      !.enabled = IF "enabled" \in DOMAIN p THEN p.enabled ELSE old.enabled]),
         ex2 = (ex \cup {f \in DOMAIN old \ {"enabled"} : old[f] # read[f]}) \ DOMAIN p
  PROVE /\ Settled(new)
        /\ \A f \in Parts \ ex2 : new[f] = Row(Patched(wanted, p))[f]
<1> DEFINE x == Patched(read, p)
           b == IF "enabled" \in DOMAIN p THEN p.enabled ELSE old.enabled
           y == [x EXCEPT !.enabled = b]
           w == Patched(wanted, p)
<1>1. HasParts(read) /\ HasParts(old) /\ Row(read) = read
  BY DEF Settled
<1>2. /\ HasParts(x) /\ \A f \in Parts : x[f] = IF f \in DOMAIN p THEN p[f] ELSE read[f]
      /\ HasParts(w) /\ \A f \in Parts : w[f] = IF f \in DOMAIN p THEN p[f] ELSE wanted[f]
  BY <1>1, PatchedParts
<1>3. new = Row(y) /\ Settled(Row(x))
  OBVIOUS
<1> HIDE DEF x, w, b
<1>4. y = [trigger |-> x.trigger, params |-> x.params, conditions |-> x.conditions,
           actions |-> x.actions, enabled |-> b]
  BY <1>2 DEF HasParts
<1> HIDE DEF y
<1>5. HasParts(y)
  BY <1>2, <1>4 DEF HasParts
<1>6. Row(y) = [Row(x) EXCEPT !.enabled = b]
  BY <1>2, <1>4, <1>5, RowParts
<1>7. Settled(new)
  BY <1>3, <1>6, SettledEither
<1>8. Row(read) = read /\ Plain(read)
  <2>1. Row(read).trigger = NormalizeTrigger(read.trigger)
    BY <1>1, RowParts
  <2> QED BY <1>1, <2>1 DEF Plain
(* A part that is not excused and not named is in the row as it was read. *)
<1>9. ASSUME NEW f \in Parts \ ex2, f \notin DOMAIN p
      PROVE /\ old[f] = Row(wanted)[f] /\ x[f] = read[f] /\ w[f] = wanted[f]
            /\ f # "enabled" => Row(wanted)[f] = read[f]
  <2>1. f \notin ex /\ (f # "enabled" => old[f] = read[f])
    BY <1>1, <1>9, PartsOfRule
  <2> QED BY <1>2, <1>9, <2>1
<1>10. ASSUME NEW f \in {"trigger", "params"} \ ex2 PROVE y[f] = w[f]
  <2>1. f \in Parts /\ y[f] = x[f]
    BY <1>4 DEF Parts
  <2>2. CASE f \in DOMAIN p
    BY <1>2, <2>1, <2>2
  <2>3. CASE f \notin DOMAIN p
    <3>1. x[f] = read[f] /\ w[f] = wanted[f] /\ Row(wanted)[f] = read[f]
      BY <1>9, <1>10, <2>1, <2>3
    <3> QED BY <1>10, <2>1, <3>1
  <2> QED BY <2>2, <2>3
<1>11. ASSUME NEW f \in Parts \ ex2 PROVE new[f] = Row(w)[f]
  <2>1. CASE f = "enabled"
    <3>1. CASE f \in DOMAIN p
      BY <1>2, <1>3, <1>4, <1>5, <2>1, <3>1, RowByPart DEF b, Parts
    <3>2. CASE f \notin DOMAIN p
      <4>1. new.enabled = old.enabled
        BY <1>3, <1>4, <1>5, <2>1, <3>2, RowByPart DEF b
      <4>2. Row(w).enabled = wanted.enabled /\ Row(wanted).enabled = wanted.enabled
        BY <1>2, <1>9, <1>11, <2>1, <3>2, RowByPart
      <4> QED BY <1>9, <1>11, <2>1, <3>2, <4>1, <4>2
    <3> QED BY <3>1, <3>2
  <2>2. CASE f = "trigger"
    <3>1. y.trigger = w.trigger
      BY <1>10, <1>11, <2>2
    <3> QED BY <1>2, <1>3, <1>5, <2>2, <3>1, RowByPart
  <2>3. CASE f = "params"
    <3>1. y.params = w.params
      BY <1>10, <1>11, <2>3
    <3>2. y.trigger = w.trigger \/ (Plain(y) /\ Plain(w))
      <4>1. CASE "trigger" \in DOMAIN p
        BY <1>2, <1>4, <4>1 DEF Parts
      <4>2. CASE "trigger" \notin DOMAIN p
        <5>1. x.trigger = read.trigger /\ w.trigger = wanted.trigger
          BY <1>2, <4>2 DEF Parts
        <5> QED BY <1>4, <1>8, <5>1 DEF Plain
      <4> QED BY <4>1, <4>2
    <3> QED BY <1>2, <1>3, <1>5, <2>3, <3>1, <3>2, RowByPart
  <2>4. CASE f \in {"conditions", "actions"}
    <3>1. CASE f \in DOMAIN p
      <4>1. y[f] = w[f]
        BY <1>2, <1>4, <1>11, <2>4, <3>1
      <4> QED BY <1>2, <1>3, <1>5, <2>4, <4>1, RowByPart
    <3>2. CASE f \notin DOMAIN p
      <4>1. y[f] = read[f] /\ w[f] = wanted[f] /\ Row(wanted)[f] = read[f]
        BY <1>4, <1>9, <1>11, <2>4, <3>2
      <4>2. Row(y)[f] = Row(read)[f] /\ Row(w)[f] = Row(wanted)[f]
        BY <1>1, <1>2, <1>5, <2>4, <4>1, RowByPart
      <4> QED BY <1>3, <1>8, <4>1, <4>2
    <3> QED BY <3>1, <3>2
  <2> QED BY <2>1, <2>2, <2>3, <2>4 DEF Parts
<1> QED BY <1>7, <1>11 DEF w

---------------------------------------------------------------------------
(* The row and what was asked of it *)

DraftOK(d) ==
    /\ Settled(d.read) /\ d.patch \in Patches
    /\ Settled(Row(Patched(d.read, d.patch)))

RuleInv ==
    /\ drafts = [h \in Editor |-> drafts[h]]
    /\ \A h \in Editor : drafts[h] # NoDraft => DraftOK(drafts[h])
    /\ rule # NoRule =>
         /\ Settled(rule) /\ HasParts(asked)
         /\ \A f \in Parts \ undone : rule[f] = Row(asked)[f]

LEMMA RuleStep == RuleInv /\ [Next]_vars => RuleInv'
<1> SUFFICES ASSUME RuleInv, [Next]_vars PROVE RuleInv'
  OBVIOUS
<1>1. ASSUME NEW r \in Request, CreateAutomation(r) PROVE RuleInv'
  <2>1. rule' = Row(r) /\ asked' = r /\ UNCHANGED <<drafts, undone>>
    BY <1>1 DEF CreateAutomation
  <2>2. HasParts(r) /\ Settled(Row(r))
    BY <1>1, RequestParts, AcceptedIsSettled DEF CreateAutomation
  <2> QED BY <2>1, <2>2 DEF RuleInv
<1>2. ASSUME NEW h \in Editor, NEW p \in Patches, UpdateAutomation(h, p) PROVE RuleInv'
  <2>1. /\ rule # NoRule /\ Accepts(Patched(rule, p))
        /\ drafts' = [drafts EXCEPT ![h] = [read |-> rule, patch |-> p]]
        /\ UNCHANGED <<rule, asked, undone>>
    BY <1>2 DEF UpdateAutomation
  <2>2. Settled(rule) /\ HasParts(rule)
    BY <2>1 DEF RuleInv, Settled
  <2>3. HasParts(Patched(rule, p))
    BY <2>2, PatchedParts
  <2>4. Settled(Row(Patched(rule, p)))
    BY <2>1, <2>3, AcceptedIsSettled
  <2> DEFINE d == [read |-> rule, patch |-> p]
  <2>5. DraftOK(d)
    BY <2>2, <2>4 DEF DraftOK
  <2> HIDE DEF d
  <2>6. drafts' = [g \in Editor |-> IF g = h THEN d ELSE drafts[g]]
    BY <2>1 DEF RuleInv, d
  <2>7. /\ drafts' = [g \in Editor |-> drafts'[g]]
        /\ \A g \in Editor : drafts'[g] # NoDraft => DraftOK(drafts'[g])
    BY <2>5, <2>6 DEF RuleInv
  <2> QED BY <2>1, <2>7 DEF RuleInv
<1>3. ASSUME NEW h \in Editor, SaveUpdate(h) PROVE RuleInv'
  <2> DEFINE d == drafts[h]
  <2>1. DraftOK(d)
    BY <1>3 DEF RuleInv, SaveUpdate
  <2>2. /\ drafts' = [g \in Editor |-> drafts'[g]]
        /\ \A g \in Editor : drafts'[g] # NoDraft => DraftOK(drafts'[g])
    <3>1. drafts' = [g \in Editor |-> IF g = h THEN NoDraft ELSE drafts[g]]
      BY <1>3 DEF RuleInv, SaveUpdate
    <3> QED BY <3>1 DEF RuleInv
  <2>3. CASE rule = NoRule
    <3>1. UNCHANGED <<rule, asked, undone>>
      BY <1>3, <2>3 DEF SaveUpdate
    <3> QED BY <2>2, <2>3, <3>1 DEF RuleInv
  <2>4. CASE rule # NoRule
    <3>1. Settled(rule) /\ HasParts(asked) /\ \A f \in Parts \ undone : rule[f] = Row(asked)[f]
      BY <2>4 DEF RuleInv
    <3>2. /\ rule' = Row([Patched(d.read, d.patch) EXCEPT
                            !.enabled = IF "enabled" \in DOMAIN d.patch THEN d.patch.enabled
                                        ELSE rule.enabled])
          /\ asked' = Patched(InForce(asked), d.patch)
          /\ undone' = (undone \cup {f \in DOMAIN rule \ {"enabled"} : rule[f] # d.read[f]})
                          \ DOMAIN d.patch
      BY <1>3, <2>4 DEF SaveUpdate, Saved, Patched
    <3>3. HasParts(asked')
      BY <2>1, <3>1, <3>2, InForceParts, PatchedParts DEF DraftOK
    <3>4. Settled(rule') /\ \A f \in Parts \ undone' : rule'[f] = Row(Patched(InForce(asked), d.patch))[f]
      <4> DEFINE wanted == InForce(asked)
      <4>1. /\ HasParts(wanted) /\ Row(wanted) = Row(asked) /\ Plain(wanted)
            /\ Row(wanted).trigger = wanted.trigger /\ Row(wanted).params = wanted.params
        BY <3>1, InForceParts
      <4>a. \A f \in Parts \ undone : rule[f] = Row(wanted)[f]
        BY <3>1, <4>1
      <4>b. Settled(d.read) /\ d.patch \in Patches /\ Settled(Row(Patched(d.read, d.patch))) /\ Settled(rule)
        BY <2>1, <3>1 DEF DraftOK
      <4> HIDE DEF wanted, d
      <4>2. Settled(rule') /\ \A f \in Parts \ undone' : rule'[f] = Row(Patched(wanted, d.patch))[f]
        BY <3>2, <4>1, <4>a, <4>b, SavedIsAsked
      <4> QED BY <4>2 DEF wanted
    <3> QED BY <2>2, <3>2, <3>3, <3>4 DEF RuleInv
  <2> QED BY <2>3, <2>4
<1>4. ASSUME DeleteAutomation PROVE RuleInv'
  BY <1>4 DEF DeleteAutomation, RuleInv
<1>5. ASSUME UNCHANGED <<rule, drafts, asked, undone>> PROVE RuleInv'
  BY <1>5 DEF RuleInv
<1>6. CASE \/ \E d \in Redefined : Define(d.key, d.type, d.status)
           \/ \E id \in Id : Withdraw(id)
           \/ \E k \in Key, v \in Value \cup {None} : SetAttribute(k, v)
           \/ \E r \in Resources \ {"schedule"}, e \in {"created", "updated", "deleted", "received"} : Raise(r, e)
           \/ Tick \/ ProcessAutomationEvent \/ UNCHANGED vars
  BY <1>5, <1>6 DEF Define, Withdraw, SetAttribute, Raise, Tick, Emit, ProcessAutomationEvent, vars
<1> QED BY <1>1, <1>2, <1>3, <1>4, <1>6 DEF Next

LEMMA InitRule == Init => RuleInv
BY DEF Init, RuleInv

LEMMA RuleInvHolds == Spec => []RuleInv
BY InitRule, RuleStep, PTL DEF Spec

(* Whatever updates overlap, whatever they name: each part of the row is the final form of
   what was last asked for it, but for those an update wrote back as it had read them. *)
THEOREM RuleIsAsAskedAlways == Spec => []RuleIsAsAsked
<1>1. RuleInv => RuleIsAsAsked
  <2> SUFFICES ASSUME RuleInv, rule # NoRule PROVE \A f \in DOMAIN rule \ undone : rule[f] = Row(asked)[f]
    BY DEF RuleIsAsAsked
  <2>1. DOMAIN rule = Parts
    BY PartsOfRule DEF RuleInv, Settled
  <2> QED BY <2>1 DEF RuleInv
<1> QED BY <1>1, RuleInvHolds, PTL

(* However a rule came to be stored, it passes the checks of an update again, unless what
   it names has gone or has another type. *)
THEOREM StoredRulesStayEditableAlways == Spec => []StoredRulesStayEditable
<1>1. RuleInv => StoredRulesStayEditable
  BY SettledIsAccepted DEF RuleInv, StoredRulesStayEditable, Settled
<1> QED BY <1>1, RuleInvHolds, PTL

---------------------------------------------------------------------------
(* Events *)

EventInv ==
    /\ attributes \in Attributes
    /\ event # NoEvent =>
         /\ event.attributes \in Attributes
         /\ event.trigger.resource = "app_user" => DOMAIN event.top \subseteq Core
         /\ event.trigger.resource # "app_user" => event.attributes = NoAttributes

LEMMA NoneGiven == NoAttributes \in Attributes
BY DEF NoAttributes, Attributes

LEMMA EventStep == EventInv /\ [Next]_vars => EventInv'
<1> SUFFICES ASSUME EventInv, [Next]_vars PROVE EventInv'
  OBVIOUS
<1>1. ASSUME NEW k \in Key, NEW v \in Value \cup {None}, SetAttribute(k, v) PROVE EventInv'
  <2> DEFINE new == [attributes EXCEPT ![k] = v]
  <2>1. PICK top \in Columns["app_user"] : Emit(Attribute("app_user", k), top, new)
    BY <1>1 DEF SetAttribute
  <2>2. attributes' = new /\ new \in Attributes
    BY <1>1 DEF SetAttribute, EventInv, Attributes
  <2> HIDE DEF new
  <2>3. event' = [trigger |-> Attribute("app_user", k), top |-> top, attributes |-> new]
    BY <2>1 DEF Emit
  <2> QED BY <2>2, <2>3, ColumnsAssumption DEF EventInv, Attribute
<1>2. ASSUME NEW r \in Resources, NEW e, Raise(r, e) PROVE EventInv'
  <2>1. PICK top \in Columns[r] :
           Emit(Lifecycle(r, e), top, IF r = "app_user" THEN attributes ELSE NoAttributes)
    BY <1>2 DEF Raise
  <2>2. event' = [trigger |-> Lifecycle(r, e), top |-> top,
                  attributes |-> IF r = "app_user" THEN attributes ELSE NoAttributes]
    BY <2>1 DEF Emit
  <2>3. attributes' = attributes
    BY <1>2 DEF Raise
  <2> QED BY <2>2, <2>3, ColumnsAssumption, NoneGiven DEF EventInv, Lifecycle
<1>3. ASSUME Tick PROVE EventInv'
  <2>1. \E top : event' = [trigger |-> Lifecycle("schedule", "cron"), top |-> top,
                           attributes |-> NoAttributes]
    BY <1>3 DEF Tick, Emit
  <2>2. attributes' = attributes
    BY <1>3 DEF Tick
  <2> QED BY <2>1, <2>2, NoneGiven DEF EventInv, Lifecycle
<1>4. ASSUME ProcessAutomationEvent PROVE EventInv'
  BY <1>4 DEF ProcessAutomationEvent, EventInv
<1>5. ASSUME UNCHANGED <<attributes, event>> PROVE EventInv'
  BY <1>5 DEF EventInv
<1>6. CASE \/ \E r \in Request : CreateAutomation(r)
           \/ \E h \in Editor, p \in Patches : UpdateAutomation(h, p)
           \/ \E h \in Editor : SaveUpdate(h)
           \/ DeleteAutomation
           \/ \E d \in Redefined : Define(d.key, d.type, d.status)
           \/ \E id \in Id : Withdraw(id)
           \/ UNCHANGED vars
  BY <1>5, <1>6 DEF CreateAutomation, UpdateAutomation, SaveUpdate, DeleteAutomation, Define,
                    Withdraw, vars
<1> QED BY <1>1, <1>2, <1>3, <1>4, <1>6 DEF Next

LEMMA InitEvent == Init => EventInv
BY StartAssumption DEF Init, EventInv

LEMMA EventInvHolds == Spec => []EventInv
BY InitEvent, EventStep, PTL DEF Spec

---------------------------------------------------------------------------
(* Matching *)

LEMMA OnlyIsOne == \A S : S # {} => Only(S) \in S
BY DEF Only

(* Two values that are of the type, and do not read as of another. *)
SameOf(type, v, w) ==
    CASE type = "number" -> AsNumber(v) = AsNumber(w)
      [] type = "date" -> AsTime(v) = AsTime(w)
      [] OTHER -> v.text = w.text

Comparable(type, v, w) ==
    /\ v \in Value /\ v.kind # "null" /\ Fits(type, v)
    /\ w \in JSON /\ Reads(type, w)
    /\ type \in {"string", "dropdown"} => ~ Numeric(v, w)

LEMMA TypedEqual ==
  ASSUME NEW type, NEW v, NEW w, Comparable(type, v, w)
  PROVE ValuesEqual(v, w) <=> SameOf(type, v, w)
<1>1. v \in JSON /\ w \in JSON /\ v.text \in TextSet /\ w.text \in TextSet
  BY ValueAssumption DEF Comparable, JSON
<1>2. CASE type = "number"
  <2>1. v.kind = "number"
    BY <1>2 DEF Comparable, Fits
  <2>2. AsNumber(v) \notin {None, NaN} /\ AsNumber(w) \notin {None, NaN}
    BY <1>2, <2>1, ValueAssumption DEF Comparable, Reads, AsNumber
  <2> QED BY <1>2, <2>2 DEF ValuesEqual, BothNumbers, SameOf
<1>3. CASE type = "date"
  <2>1. v.kind = "text" /\ TimeOf[v.text] # None
    BY <1>3 DEF Comparable, Fits
  <2>2. AsTime(v) # None /\ AsTime(w) # None /\ AsNumber(v) = None
    BY <1>1, <1>3, <2>1, TextAssumption DEF Comparable, Reads, AsTime, AsNumber
  <2> QED BY <1>3, <2>2 DEF ValuesEqual, BothNumbers, BothTimes, SameOf
<1>4. CASE type = "boolean"
  <2>1. v.kind = "boolean" /\ v.text \in {"true", "false"} /\ w.text \in {"true", "false"}
    BY <1>4, ValueAssumption DEF Comparable, Fits, Reads
  <2>2. AsNumber(v) = None /\ AsTime(v) = None
    BY <2>1 DEF AsNumber, AsTime
  <2>3. ~ BothNumbers(v, w) /\ ~ BothTimes(v, w)
    BY <2>2 DEF BothNumbers, BothTimes
  <2>4. ValuesEqual(v, w) = IF w.kind = "boolean" THEN v.text = w.text
                            ELSE w.text \in (IF v.text = "true" THEN {"true", "1"} ELSE {"false", "0"})
    BY <2>1, <2>3 DEF ValuesEqual
  <2> QED BY <1>4, <2>1, <2>4 DEF SameOf
<1>5. CASE type \in {"string", "dropdown"}
  <2>1. v.kind = "text" /\ ~ BothNumbers(v, w) /\ ~ BothTimes(v, w)
    BY <1>5 DEF Comparable, Fits, Numeric
  <2> QED BY <1>5, <2>1 DEF ValuesEqual, SameOf
<1>6. type \in Types
  BY DEF Comparable, Fits, Types
<1> QED BY <1>2, <1>3, <1>4, <1>5, <1>6 DEF Types

(* A list is handed over as texts. *)
LEMMA ListedAsText ==
  ASSUME NEW type \in {"string", "number", "dropdown"}, NEW v, NEW w, Comparable(type, v, w)
  PROVE /\ w.text # Blank
        /\ ValuesEqual(v, Text(w.text)) <=> SameOf(type, v, w)
<1>1. w \in JSON /\ w.text \in TextSet /\ w.kind \in {"text", "number", "boolean", "null"}
      /\ w = [kind |-> w.kind, text |-> w.text]
  BY DEF Comparable, JSON
<1>2. CASE type = "number"
  <2>1. w.kind \in {"text", "number"} /\ NumberOf[w.text] \notin {None, NaN}
    BY <1>2 DEF Comparable, Reads, AsNumber
  <2>2. AsNumber(Text(w.text)) = AsNumber(w)
    BY <2>1 DEF AsNumber, Text
  <2>3. Text(w.text) \in JSON
    BY <1>1 DEF Text, JSON
  <2>4. Comparable(type, v, Text(w.text))
    BY <1>2, <2>2, <2>3 DEF Comparable, Reads
  <2>5. ValuesEqual(v, Text(w.text)) <=> SameOf(type, v, Text(w.text))
    BY <2>4, TypedEqual
  <2>6. SameOf(type, v, Text(w.text)) <=> SameOf(type, v, w)
    BY <1>2, <2>2 DEF SameOf
  <2> QED BY <2>1, <2>5, <2>6, TextAssumption
<1>3. CASE type \in {"string", "dropdown"}
  <2>1. w.kind = "text" /\ w.text # Blank
    BY <1>3 DEF Comparable, Reads
  <2>2. Text(w.text) = w
    BY <1>1, <2>1 DEF Text
  <2> QED BY <2>1, <2>2, TypedEqual
<1> QED BY <1>2, <1>3

LEMMA ListIsTyped ==
  ASSUME NEW type \in {"string", "number", "dropdown"}, NEW v, NEW ws,
         \A w \in ws : Comparable(type, v, w)
  PROVE (\E u \in AsList(ws) : ValuesEqual(v, u)) <=> \E w \in ws : SameOf(type, v, w)
<1>1. \A u : u \in AsList(ws) <=> \E w \in ws : w.text # Blank /\ u = Text(w.text)
  BY DEF AsList
<1> QED BY <1>1, ListedAsText

LEMMA TypedOrder ==
  ASSUME NEW type \in {"number", "date"}, NEW v, NEW w, Comparable(type, v, w), NEW op
  PROVE CompareOrdered(v, w, op)
          <=> IF type = "number" THEN Ordered(op, AsNumber(v), AsNumber(w))
              ELSE Ordered(op, AsTime(v), AsTime(w))
<1>1. v \in JSON /\ v.text \in TextSet
  BY ValueAssumption DEF Comparable, JSON
<1>2. CASE type = "number"
  <2>1. v.kind = "number"
    BY <1>2 DEF Comparable, Fits
  <2>2. AsNumber(v) \notin {None, NaN} /\ AsNumber(w) \notin {None, NaN}
    BY <1>2, <2>1, ValueAssumption DEF Comparable, Reads, AsNumber
  <2>3. CompareOrdered(v, w, op) <=> Ordered(op, AsNumber(v), AsNumber(w))
    BY <2>2 DEF CompareOrdered, BothNumbers
  <2> QED BY <1>2, <2>3
<1>3. CASE type = "date"
  <2>1. v.kind = "text" /\ TimeOf[v.text] # None
    BY <1>3 DEF Comparable, Fits
  <2>2. AsTime(v) # None /\ AsTime(w) # None /\ AsNumber(v) = None
    BY <1>1, <1>3, <2>1, TextAssumption DEF Comparable, Reads, AsTime, AsNumber
  <2>3. CompareOrdered(v, w, op) = Ordered(op, AsTime(v), AsTime(w))
    BY <2>2 DEF CompareOrdered, BothNumbers, BothTimes
  <2> QED BY <1>3, <2>3
<1> QED BY <1>2, <1>3

LEMMA HoldsAsTyped ==
  ASSUME NEW type \in Types, NEW v, NEW ws, ws # {}, v # None,
         \A w \in ws : Comparable(type, v, w),
         NEW op \in OpsForValueType(type) \ {"exists", "not_exists", "contains"}
  PROVE Holds(op, v, ws) <=> MeansTyped(type, op, v, ws)
<1>1. Only(ws) \in ws
  BY OnlyIsOne
<1>2. \A w \in ws : /\ ValuesEqual(v, w) <=> SameOf(type, v, w)
  BY TypedEqual
<1>3. CASE op = "eq"
  <2>1. Holds(op, v, ws) <=> ValuesEqual(v, Only(ws))
    BY <1>3 DEF Holds
  <2>2. MeansTyped(type, op, v, ws) <=> SameOf(type, v, Only(ws))
    BY <1>3 DEF MeansTyped, SameOf
  <2> QED BY <1>1, <1>2, <2>1, <2>2
<1>4. CASE op = "neq"
  <2>1. Holds(op, v, ws) <=> ~ ValuesEqual(v, Only(ws))
    BY <1>4 DEF Holds
  <2>2. MeansTyped(type, op, v, ws) <=> ~ SameOf(type, v, Only(ws))
    BY <1>4 DEF MeansTyped, SameOf
  <2> QED BY <1>1, <1>2, <2>1, <2>2
<1>5. CASE op \in {"in", "not_in"}
  <2>1. type \in {"string", "number", "dropdown"}
    BY <1>5 DEF OpsForValueType, Orderings
  <2>2. (\E u \in AsList(ws) : ValuesEqual(v, u)) <=> \E w \in ws : SameOf(type, v, w)
    BY <2>1, ListIsTyped
  <2>3. op = "in" => /\ Holds(op, v, ws) <=> \E u \in AsList(ws) : ValuesEqual(v, u)
                     /\ MeansTyped(type, op, v, ws) <=> \E w \in ws : SameOf(type, v, w)
    BY DEF Holds, MeansTyped, SameOf
  <2>4. op = "not_in" => /\ Holds(op, v, ws) <=> ~ \E u \in AsList(ws) : ValuesEqual(v, u)
                         /\ MeansTyped(type, op, v, ws) <=> ~ \E w \in ws : SameOf(type, v, w)
    BY DEF Holds, MeansTyped, SameOf
  <2> QED BY <1>5, <2>2, <2>3, <2>4
<1>6. CASE op \in Orderings
  <2>1. type \in {"number", "date"}
    BY <1>6 DEF OpsForValueType, Orderings
  <2>2. Holds(op, v, ws) <=> CompareOrdered(v, Only(ws), op)
    BY <1>6 DEF Holds, Orderings
  <2>3. MeansTyped(type, op, v, ws)
          <=> IF type = "number" THEN Ordered(op, AsNumber(v), AsNumber(Only(ws)))
              ELSE Ordered(op, AsTime(v), AsTime(Only(ws)))
    BY <1>6, <2>1 DEF MeansTyped, Orderings
  <2>4. CompareOrdered(v, Only(ws), op)
          <=> IF type = "number" THEN Ordered(op, AsNumber(v), AsNumber(Only(ws)))
              ELSE Ordered(op, AsTime(v), AsTime(Only(ws)))
    BY <1>1, <2>1, TypedOrder
  <2> QED BY <2>2, <2>3, <2>4
<1> QED BY <1>3, <1>4, <1>5, <1>6 DEF OpsForValueType

(* What is looked up for a stored field, in an event. *)
LEMMA StoredField ==
  ASSUME NEW top, NEW attrs, NEW n
  PROVE /\ NormalizeFieldPath(User(n)) = User(n)
        /\ Lookup(top, attrs, User(n)) = LookupAppUser(top, attrs, n)
BY DEF NormalizeFieldPath, User, Of, Lookup

(* For events of customers the attributes are apart from the columns; others have none. *)
LEMMA AttributeLookedUp ==
  ASSUME EventInv, event # NoEvent, NEW k \in Key \ Core,
         event.attributes[k] # None \/ event.trigger.resource = "app_user"
  PROVE Lookup(event.top, event.attributes, User(k)) = event.attributes[k]
<1>1. event.trigger.resource = "app_user"
  BY DEF EventInv, NoAttributes
<1>2. k \notin DOMAIN event.top
  BY <1>1 DEF EventInv
<1> QED BY <1>2, StoredField DEF LookupAppUser

(* Matching is typed, for every type, operator and list: by TypedEqual and TypedOrder, since
   a JSON number is a number, a date is not one, and an empty text is neither. *)
THEOREM MatchingIsTypedAlways == Spec => []MatchingIsTyped
<1>1. RuleInv /\ EventInv => MatchingIsTyped
  <2> SUFFICES ASSUME RuleInv, EventInv, event # NoEvent, rule # NoRule,
                      NEW c \in rule.conditions.all \cup rule.conditions.any,
                      c.field.name \in ActiveKeys \ Core,
                      c.op \notin {"exists", "not_exists", "contains"},
                      NEW type, type = defs[c.field.name].type,
                      NEW v, v = event.attributes[c.field.name],
                      FieldFits(c), v # None, v.kind # "null", Fits(type, v),
                      \A w \in c.values : Reads(type, w),
                      type \in {"string", "dropdown"} => ~ \E w \in c.values : Numeric(v, w)
               PROVE Matches(c, event) <=> MeansTyped(type, c.op, v, c.values)
    BY DEF MatchingIsTyped
  <2>1. c \in Condition /\ WellFormed(c) /\ \E n : c.field = User(n)
    BY DEF RuleInv, Settled
  <2> DEFINE k == c.field.name
  <2>2. c.field = User(k) /\ k \in Key \ Core /\ k \in ActiveKeys
    BY <2>1 DEF User, Of, ActiveKeys
  <2>3. c.op \in OpsForValueType(type)
    BY <2>2, StoredField DEF FieldFits, FieldType
  <2>4. c.values # {} /\ c.values \subseteq JSON
    BY <2>1 DEF WellFormed, Condition
  <2>5. type \in Types
    BY DEF Fits, Types
  <2>6. v \in Value
    BY <2>2 DEF EventInv, Attributes
  <2>7. \A w \in c.values : Comparable(type, v, w)
    BY <2>4, <2>6 DEF Comparable
  <2>8. Matches(c, event) = Holds(c.op, v, c.values)
    BY <2>2, AttributeLookedUp DEF Matches
  <2> QED BY <2>3, <2>4, <2>5, <2>7, <2>8, HoldsAsTyped
<1> QED BY <1>1, RuleInvHolds, EventInvHolds, PTL

---------------------------------------------------------------------------
(* A rule does as it was asked *)

LEMMA ToldIsLookedUp ==
  ASSUME NEW e, NEW x \in Condition, NEW n \in Core \cup Key,
         NormalizeFieldPath(x.field) = User(n), ~ Shadowed(x, e)
  PROVE Lookup(e.top, e.attributes, NormalizeFieldPath(x.field)) = Told(e, x.field)
<1>1. x.field \in [root : {"none", "app_user", "attributes"}, name : STRING]
  BY DEF Condition
<1>2. x.field.name = n /\ (x.field.root = "none" => n \in Core)
  BY <1>1 DEF NormalizeFieldPath, User, Of
<1>3. Lookup(e.top, e.attributes, NormalizeFieldPath(x.field)) = LookupAppUser(e.top, e.attributes, n)
  BY StoredField
<1>4. CASE n \in Core /\ x.field.root # "attributes"
  BY <1>2, <1>3, <1>4 DEF Told, LookupAppUser
<1>5. CASE n \notin Core \/ x.field.root = "attributes"
  <2>1. n \notin DOMAIN e.top /\ n \notin Core
    BY <1>2, <1>5 DEF Shadowed
  <2> QED BY <1>2, <1>3, <2>1 DEF Told, LookupAppUser
<1> QED BY <1>4, <1>5

LEMMA SavedMeansAskedInv == RuleInv => SavedMeansAsked
<1> SUFFICES ASSUME RuleInv, event # NoEvent, rule # NoRule, "conditions" \notin undone,
                    ~ \E x \in AskedFor(asked.conditions) : Shadowed(x, event)
             PROVE Match(rule.conditions, event) <=> MeansAsked(asked.conditions, event)
  BY DEF SavedMeansAsked
<1> DEFINE a == asked.conditions
           A == AllOf(a)
           B == AnyOf(a)
           Met(x) == Holds(x.op, Told(event, x.field), x.values)
<1>1. HasForm(a) /\ Settled(rule) /\ rule.conditions = Stored(a)
  <2>1. rule.conditions = Row(asked).conditions
    BY DEF RuleInv, Parts
  <2> QED BY <2>1, RowParts DEF RuleInv, HasParts
<1>2. /\ rule.conditions.all = Canonical(A) /\ rule.conditions.any = Canonical(B)
      /\ Normalize(rule.conditions).all = Canonical(A) /\ Normalize(rule.conditions).any = Canonical(B)
  BY <1>1, StoredIsFinal
<1>3. A \in SUBSET Condition /\ B \in SUBSET Condition /\ (Canonical(B) = {} <=> B = {})
  BY <1>1, GroupsTyped, CanonicalGroup
<1>4. A \cup B \subseteq AskedFor(a)
  BY DEF AllOf, AnyOf, AskedFor
<1> DEFINE F(x) == [x EXCEPT !.field = NormalizeFieldPath(@)]
<1>5. Canonical(A) = {F(x) : x \in A} /\ Canonical(B) = {F(x) : x \in B}
  BY DEF Canonical
<1> HIDE DEF A, B
<1>6. ASSUME NEW x \in A \cup B PROVE Matches(F(x), event) <=> Met(x)
  <2>1. x \in Condition /\ ~ Shadowed(x, event)
    BY <1>3, <1>4
  <2>2. F(x) = [field |-> NormalizeFieldPath(x.field), op |-> x.op, values |-> x.values]
    BY <2>1, CanonicalFields, Zenon
  <2>3. F(x) \in rule.conditions.all \cup rule.conditions.any
    BY <1>2, <1>5
  <2>4. \E n \in Core \cup Key : NormalizeFieldPath(x.field) = User(n)
    BY <1>1, <2>2, <2>3 DEF Settled
  <2>5. Lookup(event.top, event.attributes, NormalizeFieldPath(x.field)) = Told(event, x.field)
    BY <2>1, <2>4, ToldIsLookedUp
  <2> QED BY <2>2, <2>5 DEF Matches
<1> HIDE DEF F, Met
<1>7. Match(rule.conditions, event)
        <=> (\A x \in A : Met(x)) /\ (B # {} => \E x \in B : Met(x))
  <2>1. Match(rule.conditions, event)
          <=> /\ \A y \in Canonical(A) : Matches(y, event)
              /\ Canonical(B) # {} => \E y \in Canonical(B) : Matches(y, event)
    BY <1>2 DEF Match
  <2> QED BY <1>3, <1>5, <1>6, <2>1
<1>8. MeansAsked(a, event)
        <=> (\A x \in A : Met(x)) /\ (B # {} => \E x \in B : Met(x))
  BY DEF MeansAsked, A, B, AllOf, AnyOf, Met
<1> QED BY <1>7, <1>8

LEMMA ScopeIsEqualityInv == RuleInv /\ EventInv => ScopeIsEquality
<1> SUFFICES ASSUME RuleInv, EventInv, event # NoEvent, rule # NoRule, NEW k \in Key \ Core,
                    event.trigger = Attribute("app_user", k), rule.trigger = event.trigger,
                    rule.enabled, AttributeScope(k) # Blank, ~ Misprinted(event.attributes[k])
             PROVE Scoped(rule, event) <=> EqualsParam(event.attributes[k], AttributeScope(k))
  BY DEF ScopeIsEquality
<1> DEFINE v == event.attributes[k]
           want == AttributeScope(k)
<1>1. Given(rule.params) = {User(k)}
  <2>1. ParamSchema(rule.trigger) = {User(k)}
    BY ValueAssumption DEF ParamSchema, Attribute
  <2>2. User(k) \in Given(rule.params)
    BY DEF Given, Params, AttributeScope
  <2> QED BY <2>1, <2>2 DEF RuleInv, Settled, ParamsFit
<1>2. Lookup(event.top, event.attributes, User(k)) = v
  BY AttributeLookedUp DEF Attribute
<1>3. Scoped(rule, event) <=> v # None /\ Sprint(v) = want
  BY <1>1, <1>2 DEF Scoped, MatchTriggerParams, AttributeScope
<1>4. v # None => (Sprint(v) = want <=> want = IF v.kind = "null" THEN "<nil>" ELSE v.text)
  BY DEF Sprint, Misprinted
<1> QED BY <1>3, <1>4 DEF EqualsParam

LEMMA EmailStep == RuleInv /\ EmailsHaveACustomer /\ [Next]_vars => EmailsHaveACustomer'
<1> SUFFICES ASSUME RuleInv, EmailsHaveACustomer, [Next]_vars PROVE EmailsHaveACustomer'
  OBVIOUS
<1>1. CASE UNCHANGED run
  BY <1>1 DEF EmailsHaveACustomer
<1>2. CASE ProcessAutomationEvent /\ run' # run
  <2>1. /\ rule # NoRule /\ Scoped(rule, event)
        /\ run' \in Outcomes(rule, event)
    BY <1>2 DEF ProcessAutomationEvent
  <2>2. SUFFICES ASSUME run'.why = "customer" PROVE FALSE
    BY DEF EmailsHaveACustomer
  <2>3. "customer" \in Reasons(rule, event)
    BY <2>1, <2>2, ValueAssumption DEF Outcomes
  <2>4. PICK a \in rule.actions : "customer" \in Endings(a, event)
    <3>1. "customer" \in UNION {Endings(a, event) \ {None} : a \in rule.actions}
      <4>1. "customer" \notin (IF Relations(event.trigger.resource) # {} THEN {"subject"} ELSE {})
        OBVIOUS
      <4>2. "customer" \notin (IF \A a \in rule.actions : None \in Endings(a, event) THEN {None} ELSE {})
        BY ValueAssumption
      <4> QED BY <2>3, <4>1, <4>2 DEF Reasons
    <3> QED BY <3>1
  <2>5. a.type = "send_email" /\ "app_user" \notin Subjects(event)
    BY <2>4, ValueAssumption DEF Endings, Refusal, Mishaps
  <2>6. "app_user" \in AvailableSubjects(event.trigger.resource)
    BY <2>1, <2>5 DEF RuleInv, Settled, SubjectsFit, Requires, Scoped
  <2> QED BY <2>5, <2>6 DEF AvailableSubjects, Subjects
<1>3. UNCHANGED run \/ ProcessAutomationEvent
  BY DEF Next, CreateAutomation, UpdateAutomation, SaveUpdate, DeleteAutomation, Define, Withdraw,
         SetAttribute, Raise, Tick, Emit, vars
<1> QED BY <1>1, <1>2, <1>3

(* A stored rule does for an event what its author asked, however the request was written,
   whatever has been patched since, overlapping updates included, and whatever the event:
   its conditions are met when those of the author are, a parameter of an attribute is
   equality, and none of its e-mails is without a customer to go to. *)
THEOREM RulesDoAsAskedAlways == Spec => []RulesDoAsAsked
<1>1. Init => EmailsHaveACustomer
  BY ValueAssumption DEF Init, NoRun, EmailsHaveACustomer
<1>2. RuleInv /\ EventInv /\ EmailsHaveACustomer => RulesDoAsAsked
  BY SavedMeansAskedInv, ScopeIsEqualityInv DEF RulesDoAsAsked
<1> QED BY <1>1, <1>2, EmailStep, RuleInvHolds, EventInvHolds, PTL DEF Spec
=============================================================================
