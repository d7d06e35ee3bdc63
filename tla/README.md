# A verification development for kycapp

kycapp is a multi-tenant backend, written in Go over Postgres. An organisation
(a merchant) uses it for its staff's roles, for the plans it is billed on, for
what its own customers may do, for customer records, for the plans and features
it sells, and for automations that run when something happens. One process
serves the API, another works a River job queue, and both act on the same
database. Almost every operation is a sequence of single statements without a
transaction, so what a test exercises one request at a time runs interleaved in
production. That is what this development is about.

The TLA+ modules here model the parts whose correctness is a matter of order,
failure and interleaving. TLC checks them on small instances, TLAPS proves the
main results for every value of the constants.

## 1. Inventory

### The system's components

| Component | State | Operations | What makes it correct | Module |
|---|---|---|---|---|
| Automations engine (`internal/service/automations.go`, `core/automations/workflow.go`) | `automations`, `automation_runs`, walk in memory | process an event, resume after a delay, process a tick, walk a graph of actions | every automation of an event is evaluated; no action repeats in a walk; a pause loses nothing; an event for one rule fires no other | `AutomationEngine` |
| Automations API (same file) | `automations` | create, update, delete, list runs | an update keeps what it does not name; what is stored means what was asked and can be edited again; saved workflows are valid | `AutomationRules`, `AutomationEngine` |
| Triggers, conditions, payload paths (`core/resources`, `core/automations`) | none (pure) | catalog of triggers, rewriting and matching of conditions, parameters of triggers | a rule matches what its author described, by the type of the attribute | `AutomationRules` |
| Job queue (`internal/jobs`, River) | `river_job` | insert, start, complete, fail, retry, rescue, tick each minute | at-least-once; every job settles | `AutomationEngine` |
| Action executors (`internal/service/action_executors.go`) | none of their own | send mail, call a webhook, insert into a database, delay | a delay queues its continuation before it stops; an e-mail has a customer to go to | `AutomationEngine`, `AutomationRules`, `Connections` |
| Event publishing (`EnqueueAutomationEvent`, `core/resources`) | none | one event per domain write | what is announced is what was written; a failed insert is logged | `CustomerRecords` |
| Customer access (`internal/service/app_access.go`) | `app_roles`, `app_user_groups`, their `_extends`, members, `app_grants`, flattened expansions | create, update and delete of roles, groups, grants, members, vocabulary; assembled access of a customer | expansions are those of the stored sets; a change reaches everyone it concerns | `AppAccess` |
| Set expansion (`core/reach/expand.go`) | none (pure) | flatten sets that extend sets | union over ancestors; cycles and excess depth refused | `SetExpansion` |
| Namespace version (`queries/reach.sql`) and the merchant's cache | `reach_namespace_versions`; the cache is the merchant's | bump, read | a cached set that is no longer current can be told by its version | `AppAccess`, `MerchantGraph` |
| Reachability evaluator (`core/reach/walk.go`) | memo of one walk | check a subject's action on a resource | says what the graph says, in whatever order edges are listed; terminates | `ReachWalk` |
| Access model (`internal/accessmodel`, the view `reach_edges_live`) | `reach_edges` | project tables to edges, resolve edges | the projection is what the tables say; a merchant's generated schema holds | `StaffAccess`, `MerchantGraph` |
| Staff roles and permission checks (`authz.go`, `access.go`) | `roles`, `role_permissions`, `role_extends` | role edits, checks | authority only comes from who had it; a role in use cannot be deleted | `StaffAccess` |
| Delegation (`delegation.go`) | none | may this caller grant these permissions | nobody grants what they lack | `StaffAccess` |
| Memberships (`membership.go`) | `memberships` | invite, accept, update, revoke | a role of its own organisation; the life cycle | `StaffAccess` |
| Bootstrap (`bootstrap.go`) | `system_state` | first login | exactly one first staff member | `StaffAccess` |
| API keys (`apikeys.go`) | `api_keys` | mint, revoke, what a key reaches | never more than its owner | `StaffAccess` |
| Plans, subscriptions, entitlements (`billing.go`) | `plans`, `subscriptions`, `organisation_entitlements` | upsert, set, check | one subscription per organisation; deny overrides | `PaymentWebhooks`, `FeatureChecks` |
| Payments (`billing_payments.go`, `internal/payments`) | `processor_events`, `billing_customers`, `subscriptions` | checkout, webhook | one event is applied once; what is paid is not overlooked | `PaymentWebhooks`, `EventInbox` |
| Product plans and prices (`product_plan_prices.go`, `payments/catalog.go`) | `product_plans`, `product_plan_prices`, Stripe's catalogue | save, push, import, rename, delete, choose | what is listed is what is charged; one product per price | `ProductPlans` |
| Product features, flags (`product_features.go`, `core/featureflags`) | features, overrides | edit, check | an answer does not contradict what did not change | `FeatureChecks` |
| App users and ingest (`app_users.go`) | `app_users`, attribute definitions | create, update, ingest | ingests merge; attributes are typed | `CustomerRecords` |
| Outbound targets, inbound webhooks (`organisation_databases.go`, `organisation_webhooks.go`, `inbound_webhook.go`) | settings with secrets | create, update, check, use, receive | a secret goes where it belongs; connected means it answered | `Connections` |
| Capability templates (`app_capability_template.go`) | as customer access | apply a template | converges; no half-applied template | |
| Merchant graph (`merchant_graph.go`, `internal/accessmodel/merchant.go`) | declared kinds and capabilities, `reach_edges`, version | derive a schema, write and delete edges, check, list objects and subjects | the derived schema stands; the lists are exact; the version moves in the edge's transaction | `MerchantGraph` |
| Reverse queries, schema parser (`core/reach/reverse.go`, `parse.go`, `schema.go`) | none | who reaches, what is reached; parse, validate, warn | agree with the evaluator | `MerchantGraph`, in part |
| Key delegation, explanations, diagrams (`core/reach`), instances map (`merchant_instances.go`) | none | explain, draw | | |
| Organisations, onboarding | `organisations` | signup, delete | one transaction each | |
| Authentication, sessions, recovery | tokens by hash | mint, resolve, revoke | revoked or expired tokens resolve to nobody | |
| Mail, branding, observability, HTTP layer, store, configuration, SDKs, web console | templates, logs, rate-limit windows | render, deliver, append, route | | |

`PROJECT.json` lists them with their files and with what is modelled of each.

### How they interact

* The API commits a domain write and then inserts an `automation_event` job
  (`EnqueueAutomationEvent`, automations.go:396-407); the insert can fail on its
  own. The worker's handlers read `automations` and insert `automation_runs`
  and further jobs: `automation_resume` from a delay, `automation_event` from a
  tick. Edits of automations interleave with all of it. Its actions read a
  connection (a webhook, a database) at the moment they use it.
* Customer-access requests write their tables, recompute every expansion of
  their kind, and bump the namespace's version, each statement on its own. The
  merchant's backend reads a customer's grants and the version in two statements
  and keeps the result until it sees another version.
* The edges of the merchant graph share that version; the evaluator walks edges
  that are projections of the staff tables and of the customer-access tables.
* Staff declare a vocabulary; each request of the merchant's backend derives a schema
  from what is declared at that moment and evaluates the edges by it.
* Every administrative request of staff passes a gate (one walk of the
  evaluator), the subset rule (one walk for each permission it hands on) and
  then writes.
* A payment processor calls the webhook, at least once and in any order;
  applying the event writes the subscription that entitlements are read from.
* A merchant's plan prices are pushed to, and imported from, the Stripe account that
  is connected, by calls that share one variable of the process for their key, with
  other merchants' calls and KYC's own billing; a check of a feature reads the plan
  that is in use.

### What is hard

Interleaved requests without transactions; statements that fail after others
have committed; jobs that are retried from their start; reads in two
statements; rows read, merged with a request and written back whole; rows edited
between a decision and its use; a library queue with at-least-once delivery;
calls of an outside service between two statements; a memoised search over
cyclic data; counters at limits. `PROJECT.json` lists each such place as a
hazard, with the properties that cover it.

## 2. Modules

| Module | Models | Kind |
|---|---|---|
| `ActionGraph` | a workflow and its save-time validation (`core/automations/workflow.go`) | operators |
| `AutomationEngine` | automations, queue, handlers, run log | state machine, properties |
| `AutomationRules` | what a rule says, from the request to the row, and what becomes of it at an event | state machine, properties |
| `SetExpansion` | `ExpandSets` | operators |
| `AppAccess` | customer access, version, caches | state machine, properties |
| `ReachWalk` | the evaluator (`core/reach/walk.go`) over a store that changes | state machine, properties |
| `MerchantGraph` | a merchant's vocabulary, the schema made of it, its edges, checks and lists | state machine, properties |
| `EventInbox` | what the webhook inbox promises | abstract specification |
| `PaymentWebhooks` | webhook, checkouts, overrides, price links, deletion of organisations; implements `EventInbox` | state machine, properties, refinement |
| `StaffAccess` | roles, memberships, keys, delegation, the first staff member | state machine, properties |
| `CustomerRecords` | customers, ingest, attribute definitions, what is announced | state machine, properties |
| `Connections` | databases, webhooks, inbound hooks | state machine, properties |
| `ProductPlans` | plans, prices and their counterpart at Stripe | state machine, properties |
| `FeatureChecks` | features and the check of an entitlement, on top of `ProductPlans` | composition |
| `MCAutomationEngine`, `MCAutomationRules`, `MCAppAccess`, `MCReachWalk`, `MCMerchantGraph`, `MCPaymentWebhooks`, `MCStaffAccess`, `MCFeatureChecks` | the values of the constants for TLC | instances |
| `Records` | an organisation's `CustomerRecords` and `Connections`, side by side | composition |
| `MCRecords` | values of the constants of `Records` for TLC; a behaviour explores one of the two sides, as no step of one is seen by the other | instance |
| `AutomationEngineProofs`, `AutomationRulesProofs`, `AppAccessProofs`, `ReachWalkProofs`, `PaymentWebhooksProofs` (of `EventInbox` too), `StaffAccessProofs`, `FeatureChecksProofs` (of `ProductPlans` too), `RecordsProofs` (of `CustomerRecords` and `Connections`) | theorems | proofs |

Conventions. An action is one statement, one call of an outside service, or a
stretch of code between two of those; a handler is a record with a `pc` and the
locals that later steps use. A variable called a history in its comment is
bookkeeping of the properties: no guard reads it. An operator whose comment
starts with *Mutant* is a plausible wrong version of the definition below it,
and is used by nothing: it shows what the property that fails under it is
sensitive to.

Many of these operations do lose something when they overlap: the code reads,
merges and writes without a lock, and nothing in the repository says that it
should not. The properties say exactly what is kept and name the exception as a
history (`crossed`, `lost`, `muddled`, `crowded`, `disordered`, `swept`,
`undone`, `shared`, `moved`, `strayed`, ...):
whatever is outside of it holds for every interleaving.

### AutomationEngine

| Variable | Stands for |
|---|---|
| `automation` | rows of `automations`: status, `enabled`, the schedule binding, the graph |
| `job` | rows of `river_job` with their arguments |
| `exec` | what a worker goroutine holds: rows left, the row under evaluation, position, visited ids, step count, outcome |
| `runs` | rows of `automation_runs` |
| `effect` | history: outside effects per originating event, automation and action |
| `spent` | how much of `Bound` is used |

A step is one statement, queue insert or outside effect. `LoadRows` and
`RowsForEvent` are the list query with the two filters of the loop, the target and
`MatchTriggerParams`: what a tick found due says which expression in which time zone
(`Firing`, the default zone for a rule without one, `Effective`), and is compared with
the binding the row has when the event is processed (`Schedule`), of which a time zone
that is left out is passed over; `NextRow` starts `runOneAutomation` on the oldest row
left; `WalkEnds`, `ExecuteEffect` and `ExecuteDelay` are the loop of `RunActionGraphFrom` with
`executeAction` as its runner; `RecordRun` is `recordRun` with what each handler
makes of its result: an event handler logs it and goes on, a resume handler
returns it. `LoadResumed` is the start of `ResumeAutomation`, `EnqueueDue` the
loop of `ProcessScheduleTick`. `WorkerCrash` may happen between any two steps:
memory is lost, running rows stay until `RescueJob`. A failing outside effect
may have happened or not.

Abstracted: payload contents (whether conditions match is left open), rendering,
how long a delay lasts (a resume may start at any later time), the triggers
(one domain trigger, and `schedule.cron` with an expression and perhaps a time zone;
the default zone may be left out or written), which of several failures it was. `detectCycle` is
modelled by what some run of it accepts, since it ranges over a map that it extends. `UpdateAutomation` is one step here; `AutomationRules`
has its reading, merging and writing apart.

### AutomationRules

| Variable | Stands for |
|---|---|
| `rule` | a row of `automations`, from its creation to its deletion: trigger, parameters, conditions, actions, `enabled` |
| `drafts` | updates between their read and their statement: the row read, the patch |
| `defs`, `attributes` | `attribute_definitions`; the attributes of a customer |
| `known` | the inbound hooks, roles and plans there are |
| `event`, `run` | an event on its way; the last row of `automation_runs` |
| `asked`, `undone` | histories: what was last asked of each part, and the parts that an update wrote back as it had read them |
| `spent` | how much of `Bound` is used |

`Accepts` is `validateAutomationSpec` (with the catalog of `core/resources`), `Row`
what is stored: the legacy schedules, the paths of fields and the two groups of
conditions rewritten on the way in and again on the way out. `UpdateAutomation` reads
the row and checks the whole of what it would become, `SaveUpdate` is its statement.
`Define` and `Withdraw` change what a stored rule names. `SetAttribute`, `Raise` and
`Tick` are what raises an event, `ProcessAutomationEvent` is the scope, the conditions
and the outcome of the one rule; the job's steps are `AutomationEngine`'s. A run that
fails says why: `Refusal` is the customer or the address that an e-mail lacks, as the
event has it; `Mishaps` and the subject that cannot be loaded are what may also happen
in the executors (a template, a webhook or a database that is gone, not connected or
not public, a call that fails), and are left open.

`Named` are the parts a patch may name: any alone, and the trigger with its parameters.

Abstracted: a JSON value is its kind and its text; which texts read as a number or a
time, and how a number prints, are constants (`NumberOf`, `TimeOf`, `Printed`); names,
templates and workflows are left out. What is assumed of the constants is what Go's
libraries guarantee: a request is what its JSON decodes to (`RequestAssumption`), a JSON
number reads as a number and a boolean is `true` or `false` (`ValueAssumption`), the
empty text reads as neither number nor time and what reads as a time, which has hyphens
within, does not read as a number (`TextAssumption`: `strconv.ParseFloat`,
`time.Parse`); and the payload of a customer has the customer's columns at the top and
its attributes below (`ColumnsAssumption`: `AppUserEventPayload`).

### AppAccess

Roles and groups are the same mechanism in the code, which says so, and are one
here: a set has own members, parents and a stored expansion; a role's members
are capabilities, a group's is its own id.

| Variable | Stands for |
|---|---|
| `live`, `own`, `effective`, `extends` | `app_roles` and `app_user_groups` with their `_extends` |
| `grant`, `member` | `app_grants`, `app_user_group_members` |
| `version` | the namespace's row of `reach_namespace_versions` |
| `req` | each administrative request: where it is, what it has read, what it has still to write |
| `load`, `cache` | `AppAccessFor` between its two reads; the backend's copy, with whether no bump fell into its loading |
| `faults`, `overlap` | the bound on lost requests; history: two requests on one kind of set were in flight together |

`CreateSet`, `UpdateSet` and `DeleteSet` are the first statement of a request,
`ClearParents`, `AddParent` and `ParentsSet` are `setAppRoleParents`, `ListSets`,
`ExpandAll`, `StoreExpansion` and `ExpansionsStored` are `recomputeAppRoles`
(and the two functions' twins for groups), `TouchAppAccess` is the bump.
`CreateAppGrant`, `DeleteAppGrant`, `SetAppUserGroupMember` and
`ChangeVocabulary` are one statement and the bump. A refused parent or a refused
expansion ends a request and leaves what it has committed. `LoseRequest` ends
one anywhere between two statements. `ReadGrants` and `ReadVersion` are
`AppAccessFor`; the backend may call it at any time.

Abstracted: scopes, expiry and labels of grants, the declared vocabulary's
contents, validation that only reads, ids of rows that are deleted and created
again (a set may be created, deleted and created again under the same id, which
only adds behaviours).

### ReachWalk

| Variable | Stands for |
|---|---|
| `edges` | the rows of `reach_edges` in the namespace |
| `request`, `phase`, `left` | the arguments of `Check`; whether it is at the asked rule or in `reachesAtAll`; the rules still to try |
| `stack` | the calls of `satisfies` with their locals: node, term, depth, edges listed and not yet followed, part of a composed term, what was asked last |
| `ret` | the answer that the innermost call has just returned |
| `open`, `dead`, `excluded` | `run.state` and `run.excluded` |
| `decision` | the last answer |
| `kept`, `seen` | history: the edges there all through the request, and at some time in it |
| `denied`, `wentOn`, `answers` | history: goals refuted; whether a walk asked more after a match; answers since the edges last changed |

A goal is a term asked at a node; the key of the memo is that pair. `Enter` and
`MeetsAgain` are the start of `satisfies` and `memo`, `ReadOwn` and `ReadStar` the
two queries of `edgesFor`, `FollowEdge` one turn of the loops of `relation` and
`arrow`, `AskPart` one turn of the loops over terms (and `rule`, whose one part is
the body), `Exhausted` the end of a loop, `Resume` and `GoOn` what a caller does
with an answer. `Ask`, `StartRun`, `TryOthers` and `Decide` are `Check` and
`reachesAtAll`; `Fail` is `ErrDepthExceeded`, which unwinds every call. `WriteEdge`
and `DeleteEdge` are other requests, at any moment.

The constants are the schema and the edges that can be written. `Follows` reads
them as rules of inference; of a subtraction only the base counts, so what follows
is what *might* be reached. `Interpretation` names the sets of goals that answers
are compared with: any closed set for the proofs, the least fixed point for TLC.

A term found false while another is in progress is remembered as false, although
it may have been false only because the one in progress counts as false. When that
one succeeds, the mark stays, and the subtracted part of a rule finds it: with two
groups that contain each other, the order of a group's members then decides between
allowed and excluded. `DenialsAreExact` and `SameAnswerInAnyOrder` say what holds:
as long as a walk asks nothing more after a match, the memo is exact and the order
does not matter. Only an intersection or a subtraction makes a walk go on.

Abstracted: names are model values; a row is active or expired for the whole of a
request, since `Check` takes one `now`; the path that explains an answer; the
sorted order in which `reachesAtAll` tries the other rules, of which only whether
one matches is used; requests that are refused before the walk (an unknown type or
action). Rows come back in any order, as SQL without ORDER BY gives them, the
object's own before the star's.

### MerchantGraph

| Variable | Stands for |
|---|---|
| `kinds`, `caps` | `app_scope_types`, `app_capabilities` |
| `edges`, `version` | the merchant's rows of `reach_edges`, its row of `reach_namespace_versions` |
| `owed` | changes of the vocabulary whose bump, a statement of its own, is still to come |
| `task`, `answer` | the question being answered, with what its walk has gathered; the last answer, with the version its backend had read before |
| `kept`, `seen` | histories: the edges there all through the request, and at some time in it |
| `spent` | edits so far |

`Carried`, `Rule` and `Types` are the schema that `MerchantSchema` writes out and
`core/reach` parses; `Validates` and `NothingInert` are `Schema.Validate` and
`Warnings`. `ReadKinds` and `ReadCaps` are the two statements of the vocabulary,
`CheckStar`, `Walk` and `Verify` the loops of `ListObjects` and `ListSubjects`, one
read of edges at a time. `Redeclare` is the write of a vocabulary row,
`TouchAppAccess` its bump; `WriteMerchantEdges` and `DeleteMerchantEdge` are a
transaction with theirs.

A check is one step: `ReachWalk` has its steps, and a merchant's rules are unions,
for which that walk is exact. Abstracted: expiry and labels of edges, the refusal of
a batch that is too long.

### PaymentWebhooks and EventInbox

`EventInbox` states the promise apart from the machine: an attempt at an event may
begin only while the event is not settled, takes effect once at most, and settles
the event only after it has taken effect or found that it concerns nobody.
`PaymentWebhooks` implements it (`Inbox == INSTANCE EventInbox WITH ...`): an
attempt is a delivery that is past its look at the inbox, the settled events are
those with `processed_at`, an effect is a write of a subscription.

| Variable | Stands for |
|---|---|
| `orgs`, `subscription`, `customer`, `price` | `organisations`, `subscriptions`, `billing_customers`, `plan_prices` |
| `inbox`, `processed` | `processor_events`, and those with `processed_at` |
| `delivery` | handlers of the webhook: event, organisation and plan found so far, place |
| `checkout` | `CreateBillingCheckout` requests |
| `known`, `opened` | the processor's customers, and those that have a checkout |
| `applied`, `excused`, `dropped`, `last`, `disordered`, `crowded`, `manual` | histories |

`Receive` is the insert into the inbox, `ReadInbox` the look at `processed_at`;
`ByCustomer`, `BySubscription`, `Nobody` and `CheckOrganisation` are the lookups of
the organisation in the order of `applyPaymentEvent`, `LinkCustomer` its upsert of
the billing customer (refused by the unique index), `ByPrice` and `ByCurrent` the
plan, `WriteSubscription` and `MarkProcessed` the two last statements.
`EnsureCustomer`, `StoreCustomer` and `OpenSession` are a checkout. `LoseDelivery`
and `LoseCheckout` end a request anywhere. The processor is outside the repository:
it delivers an event at least once, in any order, to any number of handlers, and an
event about a customer only after that customer's checkout was opened.

Abstracted: signatures and parsing (`Content` is what `ParseWebhook` makes of an
event), money, periods, retrying of a failed call inside one request, KYC's own
plan list, the customer portal, the events that announce a subscription.

### StaffAccess

| Variable | Stands for |
|---|---|
| `role`, `permission` | `roles` (new, live, deleted) and `role_permissions` |
| `membership`, `key` | `memberships`, `api_keys` |
| `request` | requests of staff: caller, key used, operation, what was read, permissions still to check |
| `bootstrapped` | `system_state.bootstrapped_at` |
| `seats`, `issued` | histories: memberships the bootstrap made; who put which permission into a role, or gave a role that has it |

`Ask...` is the gate of a route with what the handler then reads, `LoadRole` the
reading of the role to be assigned, `CheckPermission` one turn of the loop of
`requireCanGrant`, `ListHolders` the look of `DeleteRole` at the memberships, and
`CreateRole` to `RevokeAPIKey` the write. `Confers`, `PersonReaches` and `KeyReaches`
are the view `reach_edges_live` with the fixed schema: one walk over it, whose steps
`ReachWalk` has, is one step here. `BootstrapFirstStaff` is one transaction.

Abstracted: organisations are active, nothing expires, callers are people and their
keys (no break-glass, recovery or platform tokens), a request that a feature gate
refuses is one that leaves (`Leave`, which is also a refusal and a lost request),
ids are fresh. `Wish` and `Patch` bound what a request may ask for.

### CustomerRecords

| Variable | Stands for |
|---|---|
| `defs`, `rows`, `settings` | `attribute_definitions`, `app_users`, the organisation's ingest settings |
| `handlers` | requests: what they ask, the row they read, keys still to define, place |
| `asked`, `heard`, `crossed`, `muddled`, `withdrawn`, `retyped` | histories |
| `edits`, `requests` | what is used of `MaxEdits` and `MaxRequests` |

`Lookup`, `ReadDefinition`, `Define`, `Reread`, `Validate`, `Insert` and `Update` are
`IngestAppUser` with `ensureDiscoveredAttributes`, statement by statement; create,
patch and archive use those they share with it. `Announce` is the events of a write,
computed from the row read before it; `LoseAnnouncement` is their insert failing.

Abstracted: an attribute's value is one of a few with a kind (text, number, ...), a
definition's options are a set of values, labels and defaults are left out. What a
value prints as is a constant (`Printed`), since `ChangedAttributeKeys` compares the
printed forms (`Alike`): the text and the number 80 print alike.

### Connections

| Variable | Stands for |
|---|---|
| `rows` | `organisation_databases`, `organisation_webhooks`, `organisation_inbound_webhooks`: address, secret, where an inbound hook looks for its secret, status |
| `handlers` | updates, probes and uses under way, with the row each has read |
| `asked`, `given`, `reached`, `crossed`, `lost`, `retired`, `used` | histories |
| `requests` | what is used of `MaxRequests` |

`InboundMerge`, `OutboundMerge` and `DatabaseMerge` are the three ways a patch is
laid over a row, `ReadForUpdate` and `WriteUpdate` the statements around them,
`Probe` and `RecordCheck` the check of a database between its two. `ReadForUse` and
`Act` are an action of a workflow that uses a connection, `HandleInboundWebhook` a
delivery. Abstracted: HMAC arithmetic (a signature is made with a secret or it is
not), names, drivers, the mapping of a payload.

### Records

Customers and connections are of the same organisation and are served by the same
processes, but no statement of one reads or writes a table of the other. `Records`
puts the two modules side by side (`RecordsNext` is a step of one or of the other) and
states what both keep.

### ProductPlans and FeatureChecks

| Variable | Stands for |
|---|---|
| `plans`, `prices`, `active`, `connected` | `product_plans`, `product_plan_prices`, `organisation_product_plans`, the Stripe account whose key the integration has, if any |
| `products`, `charges` | products and prices at Stripe, in the merchant's account or another one |
| `handlers` | requests on plans: plan, interval, account whose key was read, product and price in hand, place |
| `serving`, `features`, `carried`, `effects`, `included` | the organisation's status; the features with the key; `product_plan_features`; an organisation's grants and denials; a subject's overrides |
| `edit`, `check` | a replacement of a set that has looked its key up; a check under way, with what has stood since it began |
| `asked`, `chosen`, `swept`, `crossed`, `lost`, `offline`, `shared`, `moved`, `strayed` | histories |
| `left` | the requests still to come, by kind, and the calls that may still reach another account |

`PutPrice`, `ReadRow`, `EnsureProduct`, `EnsurePrice`, `StorePrice` are the push of a
price, `SyncProductPlansToStripe` and `NextUnsynced` the sync, `ImportStripeCatalog`
and `ImportNext` the import, `RenamePlan`, `ListLinked`, `UpdateProductName` a renaming,
`DeletePlan`, `ReadActive`, `ClearActive`, `FinishDelete` a deletion. `CallFails` is a
call of Stripe or a statement that returns an error, `Crash` the end of the process.
`Connect` connects an account, the same or another, or none. `Reaches` says which account
a call is made to: the one whose key the request has set, or another, if a request of
another organisation or KYC's own billing has set `stripe.Key` since; a product of one
account is unknown to the others, so that a call which names one fails there.
`FeatureChecks` adds `CheckEntitlement`, one statement per step, beside every edit of
what it reads; deleting a plan takes what it carried with it (`PlanStep`).

Abstracted: one organisation and one feature key (several features bear it one after
the other), a currency is part of an amount, rollout is off, partial or full and a
subject is in or out of the part, the replacement of a set is one transaction and one
is pending at a time, an old price stays active at Stripe when a new one replaces it,
the subscription to KYC is left out (no plan of KYC has the key).

## 3. Runs

| Run | Shows | Bounds, and why they are enough |
|---|---|---|
| `events` | `PauseHandsOver`, `UndisturbedEffectsOnce`, `TargetedEventTouchesOnlyTarget`, `WalkMatchesEvent`, `CompletedJobsAreDone` | two automations, one edit and one fault, in two scenarios (`Scenario`): a domain event with two workers and a workflow of an effect, a delay and an error edge; a cron tick with one worker and a workflow of a delay and an effect, over rules with either of two expressions (interchangeable) in either of two time zones or none, one of which schedules is due, and either the edit, which may reschedule, or the fault. One fault suffices to put a crash or failure between any two steps; two automations for one to fail beside another |
| `settles` | `NoEffectTwiceInAWalk`; `EveryJobSettles` under `FairSpec` | one event; workflows with a delay and cycles through error edges; two faults, enough to walk a cycle round once; one edit; one worker |
| `replayed` | violation of `UndisturbedEffectsOnce` | a workflow with two delays, no fault, no edit |
| `access` | `CacheIsCurrentOrOwed`, `SerialEditsMaterialise` | two roles, two groups, one capability, one customer, depth limit 1, two requests of any kind (interchangeable), one lost; from a populated and a fresh merchant. Two sets of a kind that may extend each other make the shortest cycle, a parent and a child, and a chain that the limit still allows; two requests give every pairwise interleaving |
| `walk` | `AllowedHasAPath`, `DenialsAreExact`, `LoopsNeverExhaustDepth`, `SameAnswerInAnyOrder` | two groups, a document with a folder, one user, two wildcards; every graph over seven edges and some over ten; rules with a subtraction, an intersection, an arrow; one write; depth limit 3. Two groups make the shortest loop that runs through a second goal; limit 3 is reached by an honest path and must not be by that loop |
| `payments` | `PaymentsAreNotOverlooked`, `StatusIsNewest`, `InboxPromise` | one organisation with two customers at the processor, a checkout event and an invoice of an unlinked price, two handlers, two checkouts, one override, one price link, one lost request, one deletion. Two of everything that can overtake |
| `settling` | `OwnMoneyOnly`; `EveryEventSettles` under `FairSpec` | two organisations, a customer and a subscription each, two events, two handlers, two checkouts, one lost request, one deletion |
| `staff` | `AuthorityIsHandedDown`, `RolesStayInTheirTenancy`, `FirstStaffOnce`, `OnlyLatecomersAreDropped` | KYC itself and one tenant, five roles one of which may be made, two people, four memberships, one key, two requests that each run once, first logins. A circle of two people with an outsider is the smallest that could talk itself into authority |
| `records` | `StoredIsAsked`, which has the types; `AttributesAreTyped`, `TriggersMissNothing`, `ConnectedIsEarned`, `SecretsServeOnlyTheirRow` | of customers: two, a default attribute and a discovered one, three values of two types, two of which print alike, three requests, two at a time, one edit by staff; three, because what one leaves behind must meet two that overlap. Of connections: one of each kind, two addresses, two secrets, four requests, two at a time: create, two updates that overlap, and a use |
| `products` | `ListedIsCharged`, `DuplicatesAreExcused`, `ReferencesStand`, which has the types, `StandingGroundsDecide` | two plans, one interval, two amounts and names, two accounts, at first a price and perhaps an older one of the same product, two requests at a time; the mix of requests is one of `FewRequests`: two on the catalogue with one call that may stray, one with two, one on each side, two on the plans, or an edit of a plan, an edit of features and a check. Two calls that stray are the fewest that make a product and its price in a wrong account without an error |
| `rules` | `RulesDoAsAsked`, `RuleIsAsAsked`, `MatchingIsTyped`, `StoredRulesStayEditable` | one rule of each form (every group of conditions, every kind of trigger, every field notation), two attributes, one of which is named as a column, values of every type among them texts that read as numbers and times; patches of each part alone and of the trigger with its parameters; two editors, three edits, one event. Three: a rule is made, and two updates overlap, or what it names changes beside one |
| `merchant` | `SchemaStands`, `AccessIsRevocable`, `ListsAreExact`, `SameVersionSameAnswer`, `VocabularyOnlyWidens` | four kinds, five capabilities (among them names that do not fit), six graphs to start from in which stars, groups within groups, usersets and containers matter; depth 4, three candidates, so that both limits are met; two edits, at any point of any question. Two, because one may be of the vocabulary and one of the edges |

Deadlock is checked where the system goes on for ever: in `ReachWalk` it would be a
walk that stops without an answer; `AutomationEngine` has a `Quiescent` action for
the state in which every job is settled; in `AppAccess` a backend can always load
again, in `PaymentWebhooks` an event can always be delivered again, in
`MerchantGraph` a question, once asked, must come to its answer, and another can be
asked. In the runs `staff`, `records`, `products` and `rules` requests are used up and
the system really stops (`CHECK_DEADLOCK FALSE`).

The symmetry sets contain only identifiers that the modules compare and never count
or order, and none is used in a run with a liveness property.

### What the violation says

`replayed`: the schema admits only `success`, `skipped` and `error` as the status
of a run. The code inserts `paused` when a delay is reached, which fails, so the
log never has the run the documentation describes. For the same reason a resume job
that reaches a *second* delay returns an error after executing its actions and
queueing its continuation. River retries it from the start: the actions between two
delays happen again at each attempt, and so do all that follow.

### What the exceptions say

Where a property names an exception, TLC finds it violated without the exception:

* `CacheIsCurrentOrOwed`: a revocation and its bump between the two reads of
  `AppAccessFor`; a request that was lost, or refused for a cycle, after its write
  and before its bump.
* `SerialEditsMaterialise`: two edits of sets at once; the one that lists the sets
  first may store its expansions last.
* `InboxPromise`: two deliveries of one event at once, or one lost between the write
  and the mark, apply it twice.
* `PaymentsAreNotOverlooked`: two checkouts at once make two customers, and only the
  later one is remembered.
* `StatusIsNewest`: an older event that is applied after a newer one; an override by staff;
  an event whose only delivery found nobody.
* `WalkMatchesEvent`: a rule edited, between the tick and its event, to the same expression
  without a time zone, which the comparison with the payload then passes over
  (trigger_params.go:228-248), although to the next tick it means UTC.
* `OnlyLatecomersAreDropped`: a membership that gets a role after `DeleteRole` looked.
* `StoredIsAsked` (`RowsAreAsAsked` of customers and of connections), `RuleIsAsAsked`:
  read-merge-write updates that overlap.
* `RulesDoAsAsked`: the same, and an attribute that has the name of a column of the
  customer or of the event's payload, which the column shadows; a trigger parameter of a
  number that is not printed as it is written (below).
* `MatchingIsTyped`: values that were stored under an older type of the attribute, and
  texts that read as numbers or times, which are compared as such.
* `StoredRulesStayEditable`: a rule that names something archived, retyped or withdrawn
  can no longer be renamed or disabled, only deleted.
* `SchemaStands`: names that no vocabulary may have, although it may declare them (below).
* `VocabularyOnlyWidens`: a kind that is also a resource (below).
* `AccessIsRevocable`: edges on a type that does not carry their relation, which the check
  on writing lets through.
* `ListsAreExact`: objects reached by a star or a userset of their container (below);
  `all` of `ListSubjects`, which is set for any star that is met.
* `SameVersionSameAnswer`: a change of the vocabulary whose bump is owed.
* `TriggersMissNothing`: writes of a customer that overlap, events that were lost, and, up to
  what prints alike, a change of type.
* `ListedIsCharged`: the name, if a price the plan had before was imported as another plan
  (`shared`): the two plans have one product at Stripe then, and whichever is renamed or
  saved renames it, with nothing overlapping and nothing lost. The account, if another one
  was connected while prices were linked to the old one (`moved`: the links stay, and are not
  among what a sync pushes), or if a call strayed (`strayed`).
* `ListedIsCharged`, `DuplicatesAreExcused`, `ReferencesStand`: pushes of one price that
  overlap or are lost after Stripe has answered; a choice made while the plan in use
  is being deleted.

Some of these are more than a race, and a reader of the code may want to know them, beside
the shared product and the dropped time zone above:

* `StripeCatalog` sets `stripe.Key`, a variable of the whole process, at the start of each
  operation and then makes several calls, although it is to use "a per-org secret key"
  (catalog.go:46). If another request of the process sets it in between, a product and its
  price are made in that request's account, without an error, and are linked to the
  merchant's plan. KYC's own billing sets it too (stripe.go:38, 56, 89).
* The attribute triggers of a customer's update are those of the keys whose value *prints*
  otherwise than before (`attrValuesEqual`, triggers.go:225-227), not of all those "whose
  values differ" (193). Staff may retype an attribute from text to number; when the text
  `80` is then replaced by the number 80, a condition that looks at the type sees another
  value, and no trigger is raised.
* `ListObjects` walks edges backwards from the customer. It follows neither an edge whose
  object is a star (`EdgesForSubject` results on star nodes are dropped, reverse.go:187-191)
  nor a parent that is named as a userset, so a document inside such a container is in
  no list, with `all` and `truncated` both false, although a check allows it.
* `MerchantSchema` fails for a vocabulary with a kind or a resource called `app_user`,
  `group` or `role`, with an action called `all`, or with a name that begins with a
  digit, all of which staff may declare ("No names are reserved", app_access.go:48-59).
  Every question of that merchant is then refused until the name is withdrawn. To declare
  a kind of the name of a resource succeeds, and the owners of such objects lose access.
* A parameter of an attribute trigger is compared with `fmt.Sprint` of the value
  (trigger_params.go:243, the hint at 102). A JSON number of a million prints as `1e+06`, so a rule for
  `1000000` never fires.

### Fairness

`AutomationEngine!FairSpec` assumes weak fairness of each job's steps: River's fetcher
takes available jobs while a slot is free, its rescuer runs for as long as a client
does, and a started handler goes on. Nothing is assumed of events, ticks, edits,
failures or crashes. `PaymentWebhooks!FairSpec` assumes weak fairness of each handler
that has started, and strong fairness of the delivery of each event that is not yet
settled: the processor sends it again until it is acknowledged. Nothing is assumed of
checkouts, staff, deletions or faults. No other run uses fairness.

## 4. Proofs

All theorems are about `Spec` (of `Records`, the specification `Records`) for all values of the constants that satisfy the
named assumptions of the modules. The type invariants of `AutomationEngine`,
`AppAccess`, `ReachWalk`, `PaymentWebhooks` and `StaffAccess` are proved here and no
run repeats them; that of `FeatureChecks` is part of `ReferencesStand`, which is proved,
and so are those of the two modules of `Records`, part of `StoredIsAsked`. Two theorems have a
hypothesis of their own, `UndisturbedWorkIsDoneOnce` and `SerialEditsReachDescendants`.

`AutomationEngineProofs`

| Theorem | Property | Argument |
|---|---|---|
| `TypeCorrect` | `TypeOK` | strengthened: an execution has a row exactly from its start to its record |
| `EffectsOncePerWalk` | `NoEffectTwiceInAWalk` | an action with an effect in this walk is in `visited`, and only actions outside `visited` are executed |
| `TargetedEventIsScoped` | `TargetedEventTouchesOnlyTarget` | every job that descends from a targeted event, and every row it holds, is of the target |
| `WalksMatchEvents` | `WalkMatchesEvent` | rows listed by an event are enabled and pass `MatchTriggerParams`; a row that names a zone names the one that fired, one that names none was due by the default one, unless something was edited: `ScheduleInv`, as long as nothing is, what is held of a rule and what it was found due by are what it says now; the walk keeps its copy |
| `CompletedJobsHaveWorked` | `CompletedJobsAreDone` | of an event job: listed = dealt, the row under evaluation and the rows left; of a resume job: only `RecordRun` completes it, and only after the insert |
| `PausesAreHandedOver` | `PauseHandsOver` | `PauseInv`: a walk is paused only from its delay to the record of its run, and the job the delay inserted is there. `QueueStays`, about every step: a job that is in the queue stays there with its kind, event, automation and node, whatever its state becomes |
| `UndisturbedWorkIsDoneOnce` | `UndisturbedEffectsOnce` | supposes that every workflow that may be saved satisfies `PausesOnce`. `UndisturbedInv`, inductive as long as there is neither fault nor edit: at most one job may still act for an event and an automation (`Sole`: the event job until it has walked to the pause, then the one resume job), an automation the event has still to come to has had no effect (`Untouched`), and all effects so far lie on the success route before the action that job has reached, or will be resumed at (`Ahead`). A resume job is past the pause (`PastPause`), so its walk ends as `success` or is skipped, its record is accepted, and it is not tried again |

What `PausesOnce` asks of a workflow, beyond what `ValidateActionGraph` makes certain
(that the success path from the entry ends, so that its actions can be placed one before
the next), is that at most one delay on that path has a next action and that the path has
no more than `maxWorkflowSteps` actions. The code asks for neither: `replayed` is what a second delay does to
the conclusion. Actions reached only through `on_error` are not restricted.
`MCAutomationEngine` has TLC confirm that the workflows of the run `events` satisfy it.

`AppAccessProofs`

| Theorem | Property | Argument |
|---|---|---|
| `TypeCorrect` | `TypeOK` | with foreign keys (`References`): a grant's role and subject exist |
| `CachesAreCurrentOrOwed` | `CacheIsCurrentOrOwed` | `CacheInv`: every step that changes what somebody is served leaves its request owing a bump, an owing request stops owing only by the bump, a load or a cache never carries a version that has not been reached; so a set loaded across no bump and under the current version is current, or somebody owes. The same holds of a load under way (`LoadIsCurrentOrOwed`), without which the step that fills the cache would not preserve it |
| `SerialEditsReachDescendants` | `SerialEditsMaterialise` | `SerialInv`: as long as requests on a kind of set come one at a time and none has failed, either every expansion is flat, or the one request under way has yet to list, has listed what is stored now (`ListedNow`), or holds a plan made of it (`PlannedNow`). Supposes that every state to start from is flat (`Flattened`), as a merchant's tables are when they are created |

`ReachWalkProofs`

| Theorem | Property | Argument |
|---|---|---|
| `TypeCorrect` | `TypeOK` | with `Chain`, each call waits for exactly the next, and `Phases` |
| `AllowedMeansReached` | `AllowedHasAPath` | `Sound`: what a waiting call asked is one step of inference away from its own goal, and a yes is only ever returned for a goal that is in every set closed under the edges seen so far. Edges can only be added to that history, so a write never disturbs it |
| `DenialsMeanOutOfReach` | `DenialsAreExact` | `Complete`: until something matches, the goals refuted or still being refuted (`Doubted`) are such that none of the refuted ones follows from the goals outside. A call records that each edge kept so far and no longer to be followed leads only to doubted goals (`Refuting`), which is what makes its own no one more. When the stack is empty, doubted means refuted, and the goals outside are closed |

| `OrderDoesNotDecide` | `SameAnswerInAnyOrder` | `Determined`: an answer given without going on after a match is what the least set of goals closed under the edges says (`Backed`), and that set does not depend on an order. From `Sound` for what was allowed and `Complete` for what was not; an answer of the store as it was before a write is forgotten with the write |
| `LoopsEndTheirBranch` | `LoopsNeverExhaustDepth` | `Ladder`: the depth of a call is the number of goals from which edges are being followed below it, these are in progress, and they are all different, since a goal in progress is not entered again. `MaxDepth` is met only by more than `MaxDepth` different goals, never by a loop |

The argument of `DenialsMeanOutOfReach` is coinductive: a goal met again while in progress is answered no
because it is doubted, not because it has been refuted, and the doubt is settled for
all of them together when the stack is empty. It stops at the first match, where the
memo indeed stops being exact.

`PaymentWebhooksProofs`

| Theorem | Property | Argument |
|---|---|---|
| `InboxRepeatsNothing` | of any inbox that keeps `InboxPromise` | `InboxInv`: an event not excused has one attempt at most, and has taken effect once exactly when it is settled after an effect or that attempt has |
| `TypeCorrect` | `TypeOK` | with `Coherent` and `Owned`, since what a handler looks up must be of a type |
| `PaymentsStayApart` | `OwnMoneyOnly` | `Coherent` and `Owned`: every reference a row, a handler or a checkout holds is to something of its own organisation; a lookup by customer or subscription finds a row that was linked, metadata name one organisation with what they go with (`EventAssumption`), and the unique index refuses a link to somebody else's |
| `SettledEventsAreApplied` | | `Counted` and `Coherent`: a handler is at its mark only if it has written, or the event is empty or concerns nobody |
| `PaymentsFindTheirOrganisation` | `PaymentsAreNotOverlooked` | `Linked`: an organisation that is there and whose checkouts never crowded has one under way at most, which holds the customer that the row has or will have (`Alone`), so its customers at the processor are its row's before anything can be paid; a handler that looks in vain (`Sought`) does so for an organisation that is gone or was crowded |
| `NewestEventDecides` | `StatusIsNewest` | `Latest`: the event that last wrote an organisation is one of its own and stands in the row (`LastStands`), unless staff or an older event wrote after it, and no event that was applied to it is newer. An event names one organisation (`OneOrg`) |
| `WebhooksImplementInbox` | `InboxPromise` | each step of a handler is a step of its attempt, each other step a stutter |
| `NoUnexcusedRepeats` | | the inbox's theorem carried over by the refinement |

`StaffAccessProofs`

| Theorem | Property | Argument |
|---|---|---|
| `TypeCorrect` | `TypeOK` | with `Shape`, what a request at each step has read |
| `AuthorityIsHandedDownAlways` | `AuthorityIsHandedDown` | `Authority`, for every circle of people at once: what a membership of the circle confers, in force or not (`HeldOK`), what the subset rule has already let through for a caller of it (`AuthoredOK`), and what the role about to be given confers by now (`AssignedOK`) is warranted. A role that changes after the check changes by a request of an outsider, who then has issued it, or of the circle, for which it was checked |
| `RolesStayInTheirTenancyAlways` | `RolesStayInTheirTenancy` | a request carries a role of its own organisation from its reading; the foreign key and its cascade do the rest |
| `FirstStaffOnceAlways` | `FirstStaffOnce` | the marker and the seat are written in one transaction |
| `OnlyLatecomersAreDroppedAlways` | `OnlyLatecomersAreDropped` | a deletion goes on only from a look that found nobody (`RequestOK`) |

`AutomationRulesProofs`

| Theorem | Property | Argument |
|---|---|---|
| `RuleIsAsAskedAlways` | `RuleIsAsAsked` | `RuleInv`: the rule, and every row an update has read, is `Settled`, that is final under the rewriting and accepted by every check that looks at nothing but the rule; each part is `Row` of what was asked or undone. Rests on `Row` being idempotent and working on each part apart (`RowByPart`), the parameters with the trigger only where that is one of the legacy schedules, and on what was asked being in force as it is stored (`InForce`) |
| `StoredRulesStayEditableAlways` | `StoredRulesStayEditable` | a settled rule fails none of the checks but those of what it names |
| `MatchingIsTypedAlways` | `MatchingIsTyped` | by type and operator: what reads as a number or a time is compared as one, and two values of a type read alike (`TypedEqual`, `TypedOrder`) |
| `RulesDoAsAskedAlways` | `RulesDoAsAsked` | `RuleInv`, with `EventInv` (the payload of a customer has its columns and attributes apart) and the run's own part (the checks of the whole spec admit an e-mail only on what has a customer): the path an author wrote and the path that is stored look up the same value unless a column shadows it, and the two groups mean what `mode` and `items` did |

`FeatureChecksProofs`, of `ProductPlans` and `FeatureChecks` together

| Theorem | Property | Argument |
|---|---|---|
| `ListedIsChargedAlways` | `ListedIsCharged` | `PlanInv`: a request is fresh while nobody else has written its plan since it began (`stale`), and what a fresh request has read still stands. A price is stored only once Stripe is known to charge it (`Charged`, which no step takes back); a name that a product does not bear yet is on its way with a request (`Renames`), or its plan is excused. What a request has in hand at Stripe is in the account whose key it has read, or a call strayed (`Reached`), and what a row is linked to is in the account that is connected, but for plans that are excused (`RowsAreTheirs`) |
| `DuplicatesAreExcusedAlways` | `DuplicatesAreExcused` | what was made for a price is in its row or in the hands of a request that will store it (`For`, `Held`); two such requests are of a plan that is excused, and of a deleted plan one product is left |
| `ReferencesStandAlways` | `ReferencesStand` | types; rows and requests refer to what was made, and nothing made at Stripe disappears; one feature has the key, and its edges go with it; a deletion about to clear the choice sees in `stale` which plans have been chosen since |
| `StandingGroundsDecideAlways` | `StandingGroundsDecide` | `Knows`: of a check under way, every objection and title that has stood since its first statement, and is of a table it has read, is in what it read |

A step of one request is brought to the others in one lemma (`StepKeeps`): it is *mild*
(nothing that is referred to disappears, a name is only given by who read it as it
stands) and each other request is *overtaken* (left as it was, its plan untouched or
marked stale), and then what was true of each other request is true still. What is
assumed is that the marks for nothing are none of the things, that no plan is called
`grant`, and that there is a feature to have an id.

`RecordsProofs`, of `CustomerRecords` and `Connections`, which `Records` composes

| Theorem | Property | Argument |
|---|---|---|
| `StoredIsAskedAlways` | `StoredIsAsked` | types; `CustomersInv`: a request whose reading is still *fresh*, written over by nobody, will write that row merged with what it was sent (`Steady`); `ConnectionsInv`: the same of an update of a connection (`Writes`), so what a fresh one writes into a row that is `AsAsked` is what was asked of both |
| `AttributesAreTypedAlways` | `AttributesAreTyped` | `CustomersInv`: a key an ingest carries is still to be defined by it, or is defined, and what it has validated fits every definition that staff has not retyped since (`Steady`); a definition develops only from undefined to defined, or by staff (`Develop`) |
| `TriggersMissNothingAlways` | `TriggersMissNothing` | `CustomersInv`: of each attribute, what was told last is what is stored, or a request is still to announce its change (`HeardOrPending`); and whoever is to announce a customer knows it as it is (`Announces`), but where writes of it are muddled |
| `ConnectedIsEarnedAlways` | `ConnectedIsEarned` | `ConnectionsInv`: a verdict about to be recorded is of settings that answered, and they are the row's if nobody wrote it since (`Checks`); a database that is connected has answered, or the update of its settings is still at its probe (`HasAnswered`). What an update of an inbound hook carries has passed the check of the whole (`Earned`) when it was read, and is written as it stands |
| `SecretsServeOnlyTheirRowAlways` | `SecretsServeOnlyTheirRow` | `ConnectionsInv`: what a use has read goes together (`Knows`), as a row that is `AsAsked` holds a pair that was asked for; what was asked only grows |

Neither `CustomersInv` nor `ConnectionsInv` follows from the properties: these are about
rows, and it is what the requests under way have read, or will write, that the next
state depends on. Each write is brought to the other requests once and for all
(`WriteStep`, `WriteRow`): either they have not read that row, or they no longer hold a
fresh reading of it. A step of one side leaves the other as it is, so the conjunction
`RecordsInv` is inductive for the composition. What is assumed is that the marks for
nothing are none of the values, that requests and patches are of the types the handlers
decode, and, of customers, that default definitions are keys.

Only model-checked:

* The properties of `MerchantGraph`: a check there is a `RECURSIVE` operator, about which
  the prover's SMT backend can do nothing. `MCReachWalk` has one too, the least fixed
  point TLC compares with.
* `EveryJobSettles` and `EveryEventSettles`: liveness under fairness, and `ENABLED`, are
  beyond the prover.

What a function defined by recursion over data computes for every input cannot be proved
here either: the library's induction theorems take an operator as parameter. The
recursive functions of `ActionGraph` and `SetExpansion` are used in proofs only through
what is true of them by type.

## 5. Not modelled

* Capability templates chain a dozen customer-access requests in one; each of them is
  in `AppAccess`, whose instance with two requests is already large, and the chain is
  not.
* Of the merchant's graph: the instances map (a picture of edges for the console),
  expiry, and the rows, explanations and diagrams that `core/reach` makes of a schema
  and of a walk.
* Sign-in, sessions, recovery credentials and onboarding are one transaction or one
  statement each; the one race among them, the first login, is `BootstrapFirstStaff`.
* Email templates, branding, mail and activity logs are rendering and append-only I/O;
  routing, JSON, configuration, migrations, commands, the generated clients and the web
  console are input and output.
* Of modelled components: a failed read or a lost connection to Postgres ends a request
  as a lost request does and is not an action of its own; what a request does before
  its first statement (parsing, field validation) bounds the constants `Wish`, `Patch`,
  `Content`; the events that services other than customers publish; listings.
