--------------------------- MODULE PaymentWebhooks ---------------------------
(***************************************************************************)
(* How an organisation's subscription follows what it pays: the webhook    *)
(* of the payment processor with its inbox, checkouts that create the      *)
(* processor's customers, price links, manual overrides, and the deletion  *)
(* of organisations (internal/service/billing_payments.go, billing.go,     *)
(* internal/payments/stripe.go, queries/billing_payments.sql, migration    *)
(* 000015).                                                                *)
(*                                                                         *)
(* No handler runs in a transaction: every statement is a step.  The       *)
(* processor is not in the repository.  It delivers each event at least    *)
(* once, in any order, to any number of handlers at once.                  *)
(***************************************************************************)
EXTENDS Naturals

CONSTANTS
    Org, NoOrg,
    Plan, NoPlan,
    Price, NoPrice,         \* processor_price_ref
    Customer, NoCustomer,   \* the processor's customers
    Sub, NoSub,             \* the processor's subscriptions
    Owner,                  \* the organisation each of these belongs to
    Event,                  \* numbered as the processor emits them
    NoEvent,
    Content,                \* what ParseWebhook makes of each event
    Delivery,               \* webhook requests that are handled at once
    Checkout,               \* requests of staff, each used once
    FreePlan,
    Choice,                 \* plan and status an override may set
    Offer,                  \* the price links staff may make
    MaxFaults, MaxDeletes   \* bounds on lost requests and deleted organisations

NoRow == [plan |-> NoPlan, status |-> "none", ref |-> NoSub]

Statuses == {"trialing", "active", "past_due", "canceled"}

Contents ==
    [org : Org \cup {NoOrg}, customer : Customer \cup {NoCustomer}, ref : Sub \cup {NoSub},
     plan : Plan \cup {NoPlan}, price : Price \cup {NoPrice}, status : Statuses \cup {"none"}]

(* An event names things of one organisation. *)
OfOneOrganisation(c) ==
    \E o \in Org :
        /\ c.org \in {o, NoOrg}
        /\ c.customer # NoCustomer => Owner[c.customer] = o
        /\ c.ref # NoSub => Owner[c.ref] = o

ASSUME NoneAssumption ==
    /\ NoOrg \notin Org /\ NoPlan \notin Plan /\ NoPrice \notin Price
    /\ NoCustomer \notin Customer /\ NoSub \notin Sub /\ NoEvent \notin Event
ASSUME OwnerAssumption == Owner \in [Customer \cup Sub -> Org]
ASSUME EventAssumption ==
    /\ Event \subseteq Nat \ {0}
    /\ Content \in [Event -> Contents]
    /\ \A e \in Event : OfOneOrganisation(Content[e])
ASSUME PlanAssumption == FreePlan \in Plan /\ Choice \subseteq [plan : Plan, status : Statuses]
ASSUME OfferAssumption == Offer \subseteq Plan \X Price
ASSUME BoundAssumption == MaxFaults \in Nat /\ MaxDeletes \in Nat

VARIABLES
    orgs,           \* organisations that exist
    subscription,   \* subscriptions, one row for each organisation at most
    customer,       \* billing_customers: customer_ref per organisation
    price,          \* plan_prices: processor_price_ref per plan
    inbox,          \* processor_events
    processed,      \* those with processed_at
    delivery,       \* handlers of the webhook
    checkout,       \* CreateBillingCheckout requests
    known, opened,  \* the processor's customers that exist; those with a checkout
    faults, deletes,
    applied,        \* history: how often each event has written a subscription
    excused,        \* history: as in EventInbox
    dropped,        \* history: events settled because they concerned nobody
    last,           \* history: the newest event that wrote each organisation
    disordered,     \* history: organisations an event wrote after a newer one
    crowded,        \* history: organisations with two checkouts at once
    manual          \* history: organisations with an override

rows == <<orgs, subscription, customer, price>>
processor == <<known, opened>>
staff == <<checkout, crowded, manual>>
outcome == <<applied, excused, dropped, last, disordered>>
vars == <<rows, inbox, processed, delivery, processor, staff, faults, deletes, outcome>>

IdleDelivery ==
    [pc |-> "idle", event |-> NoEvent, org |-> NoOrg, plan |-> NoPlan, wrote |-> FALSE]

NewCheckout == [pc |-> "new", org |-> NoOrg, ref |-> NoCustomer]

(* Organisations come with the free plan, or without one when staff made them. *)
Init ==
    /\ orgs = Org
    /\ subscription \in [Org -> {NoRow, [plan |-> FreePlan, status |-> "active", ref |-> NoSub]}]
    /\ customer = [o \in Org |-> NoCustomer]
    /\ price = [p \in Plan |-> NoPrice]
    /\ inbox = {} /\ processed = {}
    /\ delivery = [d \in Delivery |-> IdleDelivery]
    /\ checkout = [k \in Checkout |-> NewCheckout]
    /\ known = {} /\ opened = {} /\ faults = 0 /\ deletes = 0
    /\ applied = [e \in Event |-> 0] /\ last = [o \in Org |-> 0]
    /\ excused = {} /\ dropped = {} /\ disordered = {}
    /\ crowded = {} /\ manual = {}

---------------------------------------------------------------------------
(* HandlePaymentWebhook *)

At(d, pc) == delivery[d].pc = pc

Goto(d, pc) == delivery' = [delivery EXCEPT ![d].pc = pc]

About(d) == Content[delivery[d].event]

(* The handler has returned, whatever it answered: a refusal and a lost answer
   both leave the event to be delivered again. *)
Return(d) == delivery' = [delivery EXCEPT ![d] = IdleDelivery]

(* Anything about a customer follows a checkout of that customer. *)
MayArrive(e) == Content[e].customer \in opened \cup {NoCustomer}
(* Mutant: the event counts as processed when it is stored. *)
Receive_Settled(d, e) ==
    /\ At(d, "idle") /\ MayArrive(e)
    /\ inbox' = inbox \cup {e} /\ processed' = processed \cup {e}
    /\ delivery' = [delivery EXCEPT ![d].pc = "read", ![d].event = e]
    /\ UNCHANGED <<rows, processor, staff, faults, deletes, outcome>>

(* InsertProcessorEvent does nothing for an event that is already there. *)
Receive(d, e) ==
    /\ At(d, "idle") /\ MayArrive(e)
    /\ inbox' = inbox \cup {e}
    /\ delivery' = [delivery EXCEPT ![d].pc = "read", ![d].event = e]
    /\ UNCHANGED <<rows, processed, processor, staff, faults, deletes, outcome>>

(* Where applyPaymentEvent starts to look for the organisation. *)
FirstLookup(c) ==
    IF c.org # NoOrg THEN "organisation"
    ELSE IF c.customer # NoCustomer THEN "byCustomer"
    ELSE IF c.ref # NoSub THEN "bySubscription" ELSE "nobody"

Contended(d, e) == \E c \in Delivery \ {d} : delivery[c].event = e /\ ~ At(c, "read")

(* A settled event is answered at once. *)
ReadInbox(d) ==
    /\ At(d, "read")
    /\ IF delivery[d].event \in processed
       THEN Return(d) /\ UNCHANGED excused
       ELSE /\ delivery' = [delivery EXCEPT ![d].pc = FirstLookup(About(d)),
                                ![d].org = About(d).org]
            /\ excused' = IF Contended(d, delivery[d].event)
                          THEN excused \cup {delivery[d].event} ELSE excused
    /\ UNCHANGED <<rows, inbox, processed, processor, staff, faults, deletes,
                   applied, dropped, last, disordered>>

Found(d, o) == delivery' = [delivery EXCEPT ![d].pc = "organisation", ![d].org = o]

(* Mutant: an organisation without a customer matches any. *)
ByCustomer_Unlinked(d) ==
    /\ At(d, "byCustomer")
    /\ \/ \E o \in orgs : customer[o] \in {About(d).customer, NoCustomer} /\ Found(d, o)
       \/ /\ \A o \in orgs : customer[o] # About(d).customer
          /\ Goto(d, IF About(d).ref # NoSub THEN "bySubscription" ELSE "nobody")
    /\ UNCHANGED <<rows, inbox, processed, processor, staff, faults, deletes, outcome>>

ByCustomer(d) ==
    /\ At(d, "byCustomer")
    /\ \/ \E o \in orgs : customer[o] = About(d).customer /\ Found(d, o)
       \/ /\ \A o \in orgs : customer[o] # About(d).customer
          /\ Goto(d, IF About(d).ref # NoSub THEN "bySubscription" ELSE "nobody")
    /\ UNCHANGED <<rows, inbox, processed, processor, staff, faults, deletes, outcome>>

BySubscription(d) ==
    /\ At(d, "bySubscription")
    /\ \/ \E o \in orgs : subscription[o].ref = About(d).ref /\ Found(d, o)
       \/ /\ \A o \in orgs : subscription[o].ref # About(d).ref
          /\ Goto(d, "nobody")
    /\ UNCHANGED <<rows, inbox, processed, processor, staff, faults, deletes, outcome>>

(* "Unknown / irrelevant event": acknowledged without domain change. *)
Nobody(d) ==
    /\ At(d, "nobody")
    /\ dropped' = dropped \cup {delivery[d].event}
    /\ Goto(d, "mark")
    /\ UNCHANGED <<rows, inbox, processed, processor, staff, faults, deletes,
                   applied, excused, last, disordered>>

(* The statement after the organisation, and its customer, are known. *)
AfterLink(c) ==
    IF c.status = "none" /\ c.ref = NoSub THEN "mark"
    ELSE IF c.plan # NoPlan THEN "write"
    ELSE IF c.price # NoPrice THEN "byPrice" ELSE "byCurrent"

CheckOrganisation(d) ==
    /\ At(d, "organisation")
    /\ IF delivery[d].org \in orgs
       THEN delivery' = [delivery EXCEPT ![d].plan = About(d).plan,
                ![d].pc = IF About(d).customer # NoCustomer THEN "link" ELSE AfterLink(About(d))]
       ELSE Return(d)
    /\ UNCHANGED <<rows, inbox, processed, processor, staff, faults, deletes, outcome>>

(* The unique (processor, customer_ref) and the foreign key. *)
Linkable(o, c) == o \in orgs /\ \A q \in Org \ {o} : customer[q] # c

(* Mutant: inserted rather than upserted, an organisation is linked once. *)
LinkCustomer_Once(d) ==
    LET o == delivery[d].org
    IN  /\ At(d, "link")
        /\ IF Linkable(o, About(d).customer) /\ customer[o] = NoCustomer
           THEN /\ customer' = [customer EXCEPT ![o] = About(d).customer]
                /\ Goto(d, AfterLink(About(d)))
           ELSE Return(d) /\ UNCHANGED customer
        /\ UNCHANGED <<orgs, subscription, price, inbox, processed, processor, staff,
                       faults, deletes, outcome>>

LinkCustomer(d) ==
    LET o == delivery[d].org
    IN  /\ At(d, "link")
        /\ IF Linkable(o, About(d).customer)
           THEN /\ customer' = [customer EXCEPT ![o] = About(d).customer]
                /\ Goto(d, AfterLink(About(d)))
           ELSE Return(d) /\ UNCHANGED customer
        /\ UNCHANGED <<orgs, subscription, price, inbox, processed, processor, staff,
                       faults, deletes, outcome>>

PlanKnown(d, p) == delivery' = [delivery EXCEPT ![d].pc = "write", ![d].plan = p]

ByPrice(d) ==
    /\ At(d, "byPrice")
    /\ \/ \E p \in Plan : price[p] = About(d).price /\ PlanKnown(d, p)
       \/ (\A p \in Plan : price[p] # About(d).price) /\ Goto(d, "byCurrent")
    /\ UNCHANGED <<rows, inbox, processed, processor, staff, faults, deletes, outcome>>

(* Without a row either, the event cannot be reconciled and is refused. *)
ByCurrent(d) ==
    LET row == subscription[delivery[d].org]
    IN  /\ At(d, "byCurrent")
        /\ IF row = NoRow THEN Return(d) ELSE PlanKnown(d, row.plan)
        /\ UNCHANGED <<rows, inbox, processed, processor, staff, faults, deletes, outcome>>

(* A subscription event without a status counts as active. *)
StatusOf(c) == IF c.status = "none" THEN "active" ELSE c.status

(* The unique (processor, subscription_ref) and the foreign key. *)
Writable(o, s) == o \in orgs /\ (s # NoSub => \A q \in Org \ {o} : subscription[q].ref # s)

(* Mutant: the status of a row that has this subscription stays. *)
Row_StatusKept(d) ==
    LET old == subscription[delivery[d].org]
    IN  [plan |-> delivery[d].plan, ref |-> About(d).ref,
         status |-> IF old.ref = About(d).ref THEN old.status ELSE StatusOf(About(d))]

Row(d) == [plan |-> delivery[d].plan, status |-> StatusOf(About(d)), ref |-> About(d).ref]

Wrote(d, o) ==
    LET e == delivery[d].event
    IN  /\ delivery' = [delivery EXCEPT ![d].pc = "mark", ![d].wrote = TRUE]
        /\ applied' = [applied EXCEPT ![e] = @ + 1]
        /\ disordered' = IF e < last[o] THEN disordered \cup {o} ELSE disordered
        /\ last' = [last EXCEPT ![o] = IF e > @ THEN e ELSE @]
        /\ UNCHANGED <<excused, dropped>>

WriteSubscription(d) ==
    LET o == delivery[d].org
    IN  /\ At(d, "write")
        /\ IF Writable(o, About(d).ref)
           THEN subscription' = [subscription EXCEPT ![o] = Row(d)] /\ Wrote(d, o)
           ELSE Return(d) /\ UNCHANGED <<subscription, outcome>>
        /\ UNCHANGED <<orgs, customer, price, inbox, processed, processor, staff,
                       faults, deletes>>

MarkProcessed(d) ==
    /\ At(d, "mark")
    /\ processed' = processed \cup {delivery[d].event}
    /\ Return(d)
    /\ UNCHANGED <<rows, inbox, processor, staff, faults, deletes, outcome>>

Handling(d) == delivery[d].pc \notin {"idle", "read"}

(* A statement fails, or the process dies: the event is not acknowledged. *)
LoseDelivery(d) ==
    /\ ~ At(d, "idle") /\ faults < MaxFaults
    /\ faults' = faults + 1
    /\ Return(d)
    /\ excused' = IF delivery[d].wrote THEN excused \cup {delivery[d].event} ELSE excused
    /\ UNCHANGED <<rows, inbox, processed, processor, staff, deletes,
                   applied, dropped, last, disordered>>

HandlerStep(d) ==
    \/ ReadInbox(d) \/ ByCustomer(d) \/ BySubscription(d) \/ Nobody(d)
    \/ CheckOrganisation(d) \/ LinkCustomer(d) \/ ByPrice(d) \/ ByCurrent(d)
    \/ WriteSubscription(d) \/ MarkProcessed(d)

---------------------------------------------------------------------------
(* CreateBillingCheckout *)

BeginCheckout(k, o) ==
    /\ checkout[k].pc = "new" /\ o \in orgs
    /\ \E p \in Plan : price[p] # NoPrice      \* refused for a plan without a price
    /\ checkout' = [checkout EXCEPT ![k] = [pc |-> "ensure", org |-> o, ref |-> customer[o]]]
    /\ crowded' = IF \E j \in Checkout : checkout[j].org = o /\ checkout[j].pc # "done"
                  THEN crowded \cup {o} ELSE crowded
    /\ UNCHANGED <<rows, inbox, processed, delivery, processor, manual, faults, deletes, outcome>>

(* Mutant: a new customer at every checkout. *)
EnsureCustomer_Always(k) ==
    /\ checkout[k].pc = "ensure"
    /\ \E c \in Customer \ known :
        /\ Owner[c] = checkout[k].org
        /\ known' = known \cup {c}
        /\ checkout' = [checkout EXCEPT ![k].pc = "store", ![k].ref = c]
    /\ UNCHANGED <<rows, inbox, processed, delivery, opened, crowded, manual, faults, deletes, outcome>>

(* The customer that was read is used again, or the processor makes one. *)
EnsureCustomer(k) ==
    /\ checkout[k].pc = "ensure"
    /\ \/ /\ checkout[k].ref # NoCustomer
          /\ checkout' = [checkout EXCEPT ![k].pc = "store"]
          /\ UNCHANGED known
       \/ /\ checkout[k].ref = NoCustomer
          /\ \E c \in Customer \ known :
                /\ Owner[c] = checkout[k].org
                /\ known' = known \cup {c}
                /\ checkout' = [checkout EXCEPT ![k].pc = "store", ![k].ref = c]
    /\ UNCHANGED <<rows, inbox, processed, delivery, opened, crowded, manual, faults, deletes, outcome>>

EndCheckout(k) == checkout' = [checkout EXCEPT ![k].pc = "done"]

StoreCustomer(k) ==
    LET o == checkout[k].org
    IN  /\ checkout[k].pc = "store"
        /\ IF Linkable(o, checkout[k].ref)
           THEN /\ customer' = [customer EXCEPT ![o] = checkout[k].ref]
                /\ checkout' = [checkout EXCEPT ![k].pc = "open"]
           ELSE EndCheckout(k) /\ UNCHANGED customer
        /\ UNCHANGED <<orgs, subscription, price, inbox, processed, delivery, processor,
                       crowded, manual, faults, deletes, outcome>>

(* CreateCheckout at the processor: what is paid there becomes events. *)
OpenSession(k) ==
    /\ checkout[k].pc = "open"
    /\ opened' = opened \cup {checkout[k].ref}
    /\ EndCheckout(k)
    /\ UNCHANGED <<rows, inbox, processed, delivery, known, crowded, manual, faults, deletes, outcome>>

LoseCheckout(k) ==
    /\ checkout[k].pc \in {"ensure", "store", "open"} /\ faults < MaxFaults
    /\ faults' = faults + 1
    /\ EndCheckout(k)
    /\ UNCHANGED <<rows, inbox, processed, delivery, processor, crowded, manual, deletes, outcome>>

---------------------------------------------------------------------------
(* UpsertSubscription, UpsertPlanPrice, DeleteOrganisation *)

(* Processor and subscription_ref stay.  The row that is read before only
   decides what the published lifecycle event is called. *)
UpsertSubscription(o) ==
    /\ o \in orgs
    /\ \E c \in Choice : subscription' =
            [subscription EXCEPT ![o].plan = c.plan, ![o].status = c.status]
    /\ manual' = manual \cup {o}
    /\ UNCHANGED <<orgs, customer, price, inbox, processed, delivery, processor,
                   checkout, crowded, faults, deletes, outcome>>

(* One price for a plan, one plan for a price. *)
UpsertPlanPrice(p, r) ==
    /\ \A q \in Plan \ {p} : price[q] # r
    /\ price' = [price EXCEPT ![p] = r]
    /\ UNCHANGED <<orgs, subscription, customer, inbox, processed, delivery, processor,
                   staff, faults, deletes, outcome>>

(* The cascades take its subscription and its billing customer. *)
DeleteOrganisation(o) ==
    /\ o \in orgs /\ deletes < MaxDeletes
    /\ deletes' = deletes + 1
    /\ orgs' = orgs \ {o}
    /\ subscription' = [subscription EXCEPT ![o] = NoRow]
    /\ customer' = [customer EXCEPT ![o] = NoCustomer]
    /\ UNCHANGED <<price, inbox, processed, delivery, processor, staff, faults, outcome>>

---------------------------------------------------------------------------
Next ==
    \/ \E d \in Delivery : (\E e \in Event : Receive(d, e)) \/ HandlerStep(d) \/ LoseDelivery(d)
    \/ \E k \in Checkout :
        \/ \E o \in Org : BeginCheckout(k, o)
        \/ EnsureCustomer(k) \/ StoreCustomer(k) \/ OpenSession(k) \/ LoseCheckout(k)
    \/ \E x \in Offer : UpsertPlanPrice(x[1], x[2])
    \/ \E o \in Org : UpsertSubscription(o) \/ DeleteOrganisation(o)

Spec == Init /\ [][Next]_vars

(* A handler that has started goes on, and the processor delivers an event
   again for as long as it is not acknowledged. *)
FairSpec ==
    /\ Spec
    /\ \A d \in Delivery : WF_vars(HandlerStep(d))
    /\ \A e \in Event : SF_vars(e \in inbox \ processed /\ \E d \in Delivery : Receive(d, e))

---------------------------------------------------------------------------
(* Properties *)

Deliveries ==
    [pc : {"idle", "read", "byCustomer", "bySubscription", "nobody", "organisation", "link",
           "byPrice", "byCurrent", "write", "mark"},
     event : Event \cup {NoEvent}, org : Org \cup {NoOrg}, plan : Plan \cup {NoPlan},
     wrote : BOOLEAN]

Checkouts ==
    [pc : {"new", "ensure", "store", "open", "done"}, org : Org \cup {NoOrg},
     ref : Customer \cup {NoCustomer}]

SubscriptionRows ==
    [plan : Plan \cup {NoPlan}, status : Statuses \cup {"none"}, ref : Sub \cup {NoSub}]

TypeOK ==
    /\ orgs \subseteq Org
    /\ subscription \in [Org -> SubscriptionRows]
    /\ customer \in [Org -> Customer \cup {NoCustomer}]
    /\ price \in [Plan -> Price \cup {NoPrice}]
    /\ inbox \subseteq Event /\ processed \subseteq inbox
    /\ delivery \in [Delivery -> Deliveries]
    /\ checkout \in [Checkout -> Checkouts]
    /\ known \subseteq Customer /\ opened \subseteq known
    /\ faults \in Nat /\ deletes \in Nat
    /\ applied \in [Event -> Nat] /\ last \in [Org -> Nat]
    /\ excused \subseteq Event /\ dropped \subseteq Event
    /\ disordered \cup crowded \cup manual \subseteq Org

(* An organisation is only ever written by what its own customers pay: every
   link, in a row or held by a handler, is to something that belongs to the
   organisation at the processor, however lookups and checkouts interleave. *)
OwnMoneyOnly ==
    /\ \A o \in Org :
        /\ customer[o] # NoCustomer => Owner[customer[o]] = o
        /\ subscription[o].ref # NoSub => Owner[subscription[o].ref] = o
    /\ \A d \in Delivery :
        LET c == Content[delivery[d].event]
        IN  At(d, "write") =>
                /\ c.customer # NoCustomer => Owner[c.customer] = delivery[d].org
                /\ c.ref # NoSub => Owner[c.ref] = delivery[d].org

(* An event that the processor need not send again has been applied, or there
   was nothing in it to apply. *)
Empty(c) == c.status = "none" /\ c.ref = NoSub

SettledIsApplied ==
    \A e \in processed : applied[e] > 0 \/ e \in dropped \/ Empty(Content[e])

(* An event is applied again only when two deliveries of it overlapped or one
   was lost between the write and the mark. *)
RepeatsAreExcused == \A e \in Event : applied[e] > 1 => e \in excused

(* What a customer pays after its checkout is not overlooked, unless two
   checkouts of one organisation ran at once and made it two customers, or the
   organisation is gone. *)
PaymentsAreNotOverlooked ==
    \A e \in dropped :
        LET c == Content[e].customer IN c # NoCustomer => Owner[c] \in crowded \cup (Org \ orgs)

(* The status an organisation has once all that arrived is settled is that of
   the newest event about it, provided that events were written in order and
   nobody overrode it.  An event one delivery of which found nobody counts only
   if another applied it. *)
Names(c, o) ==
    \/ c.org = o
    \/ c.customer # NoCustomer /\ Owner[c.customer] = o
    \/ c.ref # NoSub /\ Owner[c.ref] = o

Concerning(o) ==
    {e \in processed : /\ Names(Content[e], o) /\ ~ Empty(Content[e])
                       /\ e \in dropped => applied[e] > 0}

StatusIsNewest ==
    inbox = processed => \A o \in orgs \ (disordered \cup manual) : \A e \in Concerning(o) :
        (\A f \in Concerning(o) : f <= e) => subscription[o].status = StatusOf(Content[e])

(* Every event that arrives is settled in the end, if it can be reconciled for
   as long as its organisation exists. *)
Reconcilable(e) ==
    \/ Content[e].plan # NoPlan \/ Empty(Content[e])
    \/ \A o \in orgs : subscription[o] # NoRow

EveryEventSettles ==
    \A e \in Event : (e \in inbox /\ Reconcilable(e)) ~> (e \in processed \/ orgs # Org)

(* The inbox implements its promise. *)
Stage(d) ==
    IF ~ Handling(d) THEN "none"
    ELSE IF ~ At(d, "mark") THEN "open"
    ELSE IF delivery[d].wrote THEN "effective" ELSE "dismissed"

AboutNow == [d \in Delivery |-> IF Handling(d) THEN delivery[d].event ELSE NoEvent]
StageNow == [d \in Delivery |-> Stage(d)]

Inbox == INSTANCE EventInbox WITH
    Attempt <- Delivery, received <- inbox, settled <- processed, effects <- applied,
    about <- AboutNow, stage <- StageNow

InboxPromise == Inbox!Spec
=============================================================================
