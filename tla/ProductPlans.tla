---------------------------- MODULE ProductPlans ----------------------------
(***************************************************************************)
(* The plans that an organisation sells to its own customers, their prices,*)
(* and the catalogue of its Stripe account, which the two are pushed to    *)
(* and imported from (internal/service/product_plan_prices.go, the plans   *)
(* of product_features.go, internal/payments/catalog.go).                  *)
(*                                                                         *)
(* An organisation may connect one account of Stripe after another, and    *)
(* the key that a call is made with is one for the whole process           *)
(* (stripe.Key): every request sets it, KYC's own billing does, and a call *)
(* uses what was set last, so that it may reach another account.           *)
(*                                                                         *)
(* No operation spans the database and Stripe in a transaction: a price is *)
(* read, a product and a price are made at Stripe in calls of their own,   *)
(* and the row is then written with what came back.  The organisation, the *)
(* keys of plans and currencies are left out: one organisation, ids for    *)
(* keys, and a currency is part of an amount.                              *)
(***************************************************************************)
EXTENDS Naturals, FiniteSets

CONSTANTS
    Plan, Interval,
    Amount,                 \* in a currency: compared, never counted
    Name,
    Account,                \* of Stripe: the organisation's and everybody else's
    Product, Price,         \* ids that Stripe gives, in whatever account
    FirstProduct, FirstPrice,   \* what there is at first
    OldPrice,               \* one that FirstPrice has taken the place of
    None,
    Handler,                \* requests that can be served at a time
    Starts                  \* bound: how many plans there are at first, and requests to come

Kinds == {"catalog", "plans", "features", "checks", "strays"}

Statuses == {"active", "archived"}

PlanRows == [status : Statuses, name : Name]
NoPlan == [status |-> "new", name |-> None]
Gone == [status |-> "deleted", name |-> None]

PriceRows == [amount : Amount, status : Statuses,
              product : Product \cup {None}, price : Price \cup {None}]
NoPrice == [amount |-> None, status |-> "none", product |-> None, price |-> None]

\* A price that was saved before Stripe was connected.
Unlinked(a) == [amount |-> a, status |-> "active", product |-> None, price |-> None]

\* A price that was pushed, or was imported with its plan.
Linked(a) == [amount |-> a, status |-> "active", product |-> FirstProduct, price |-> FirstPrice]

\* At Stripe.  plan and interval: what KYC made a product for, None for the merchant's.
\* A price belongs to the account of its product.
Products == [name : Name, plan : Plan \cup {None}, interval : Interval \cup {None},
             account : Account]
Charges == [product : Product, interval : Interval, amount : Amount, active : BOOLEAN]
Nothing == [name |-> None]

ASSUME NoneAssumption ==
    None \notin Plan \cup Interval \cup Amount \cup Name \cup Account \cup Product \cup Price
ASSUME FirstAssumption ==
    FirstProduct \in Product /\ FirstPrice \in Price /\ OldPrice \in Price \ {FirstPrice}
ASSUME BoundAssumption == Starts \subseteq [plans : Nat, left : [Kinds -> Nat]]

VARIABLES
    plans,      \* product_plans
    prices,     \* product_plan_prices: by plan and interval
    active,     \* organisation_product_plans: the plan in use, or None
    connected,  \* organisation_integrations: the account whose key there is, or None
    products,   \* Stripe's products
    charges,    \* Stripe's prices
    handlers,   \* the requests under way
    asked,      \* history: amount and status last asked for, by plan and interval
    chosen,     \* history: the plan last chosen, None when that is deleted
    swept,      \* history: a deletion cleared a choice made since it looked
    crossed,    \* history: plans written from a reading that was no longer true
    lost,       \* history: plans on which a request did not come to its end
    offline,    \* history: linked plans changed while Stripe was not connected
    shared,     \* history: plans whose product was imported for another plan
    moved,      \* history: plans with links to an account that another one replaced
    strayed,    \* history: plans for which a call reached an account not its request's
    left        \* the requests still to come, by kind, and the calls that may stray

tables == <<plans, prices, active, connected>>
stripe == <<products, charges>>
accounts == <<shared, moved, strayed>>
excuses == <<swept, crossed, lost, offline, accounts>>
histories == <<asked, chosen, excuses>>
planVars == <<tables, stripe, handlers, histories, left>>

Idle == [pc |-> "idle", op |-> "none", plan |-> None, interval |-> None, amount |-> None,
         status |-> "active", name |-> None, account |-> None, product |-> None, price |-> None,
         pushed |-> FALSE, todo |-> {}, stale |-> {}]

Items == [plan : Plan, interval : Interval, row : PriceRows]

HandlerOK(r) ==
    /\ r.pc \in {"idle", "plan", "row", "product", "price", "store", "undo", "list", "rename",
                 "next", "import", "active", "clear", "delete", "activate"}
    /\ r.op \in {"none", "put", "create", "sync", "import", "name", "delete", "choose"}
    /\ r.plan \in Plan \cup {None} /\ r.interval \in Interval \cup {None}
    /\ r.amount \in Amount \cup {None} /\ r.status \in Statuses /\ r.name \in Name \cup {None}
    /\ r.account \in Account \cup {None}     \* whose key it has read
    /\ r.product \in Product \cup {None} /\ r.price \in Price \cup {None}
    /\ r.pushed \in BOOLEAN     \* Stripe has been asked for this price
    /\ r.todo \subseteq IF r.op = "sync" THEN Items
                        ELSE IF r.op = "import" THEN Price ELSE Product
    /\ r.stale \subseteq Plan   \* plans somebody else has written since it began

Exists(p) == p \in Plan /\ plans[p].status \in Statuses

PlansInit ==
    /\ \E s \in Starts, old \in SUBSET Plan, n \in [Plan -> Name] :
          /\ Cardinality(old) = s.plans
          /\ plans = [p \in Plan |-> IF p \in old THEN [status |-> "active", name |-> n[p]]
                                     ELSE NoPlan]
          /\ left = s.left
    /\ \E i \in Interval, a \in Amount, old \in {Nothing} \cup Charges :
          /\ charges = [x \in Price |->
                CASE x = FirstPrice -> [product |-> FirstProduct, interval |-> i, amount |-> a,
                                        active |-> TRUE]
                  [] x = OldPrice -> old
                  [] OTHER -> Nothing]
          /\ old # Nothing => /\ old.product = FirstProduct /\ old.interval = i
                              /\ old.amount # a /\ old.active
    /\ prices \in [Plan -> [Interval -> {NoPrice} \cup {Unlinked(a) : a \in Amount}
                                             \cup {Linked(a) : a \in Amount}]]
    /\ \A p, q \in Plan, i, j \in Interval :
          prices[p][i].price = FirstPrice =>
              /\ charges[FirstPrice].interval = i /\ charges[FirstPrice].amount = prices[p][i].amount
              /\ prices[q][j].price = FirstPrice => <<p, i>> = <<q, j>>
    /\ \A p \in Plan, i \in Interval : plans[p] = NoPlan => prices[p][i] = NoPrice
    /\ active \in {p \in Plan : plans[p] # NoPlan} \cup {None}
    /\ connected \in Account \cup {None}
    /\ \E made \in Products :
          /\ products = [x \in Product |-> IF x = FirstProduct THEN made ELSE Nothing]
          /\ \/ connected \in {made.account, None}
             \/ \* Somebody else's, which a call that strays may list.
                left["strays"] > 0 /\ \A p \in Plan, i \in Interval : prices[p][i].price = None
          /\ IF made.plan = None THEN made.interval = None /\ charges[OldPrice] = Nothing
             ELSE /\ made.interval # None /\ made.name = plans[made.plan].name
                  /\ prices[made.plan][made.interval].price = FirstPrice
    /\ \* Where nothing is asked of the catalogue, it starts with nothing to tell apart.
       left["catalog"] = 0 =>
          /\ connected # None
          /\ \A p \in Plan : /\ Exists(p) => plans[p].name = products[FirstProduct].name
                             /\ \A i \in Interval : prices[p][i] = NoPrice
    /\ handlers = [h \in Handler |-> Idle]
    /\ asked = [p \in Plan |-> [i \in Interval |-> <<prices[p][i].amount, prices[p][i].status>>]]
    /\ chosen = active /\ swept = FALSE
    /\ crossed = {} /\ lost = {} /\ offline = {}
    /\ shared = {} /\ moved = {} /\ strayed = {}
-----------------------------------------------------------------------------
At(h, pc) == handlers[h].pc = pc

\* The id that Stripe gives next, of a product or of a price.
IsNext(x, made) == made[x] = Nothing /\ x = CHOOSE y \in DOMAIN made : made[y] = Nothing

Busy(h) == ~At(h, "idle")

Spend(kind) == left[kind] > 0 /\ left' = [left EXCEPT ![kind] = @ - 1]

Begin(h, kind) == At(h, "idle") /\ Spend(kind)

Goto(h, r) == handlers' = [handlers EXCEPT ![h] = r]

\* A call for plan p that is made with the key of account own reaches account c.
Reaches(own, c, p) ==
    /\ IF c = own THEN UNCHANGED left ELSE Spend("strays")
    /\ strayed' = IF c = own THEN strayed ELSE strayed \cup {p}

\* h has written plan p: the others that are under way have older readings of it.
Overtake(h, p, r) ==
    handlers' = [g \in Handler |->
        IF g = h THEN r
        ELSE IF Busy(g) THEN [handlers[g] EXCEPT !.stale = @ \cup {p}] ELSE handlers[g]]

Crosses(h, p) == crossed' = crossed \cup ({p} \cap handlers[h].stale)

\* Where a request goes after the row of one price is written.
After(r) ==
    CASE r.op = "sync" -> [r EXCEPT !.pc = "next", !.plan = None, !.pushed = FALSE]
      [] r.op = "import" -> [r EXCEPT !.pc = "import", !.plan = None, !.pushed = FALSE]
      [] OTHER -> Idle

\* An error is returned; CreateProductPlan first deletes the plan it has made.
Failed(r) == IF r.op = "create" THEN [Idle EXCEPT !.pc = "undo", !.op = "create", !.plan = r.plan]
                                ELSE Idle

Fails(h) ==
    /\ Goto(h, Failed(handlers[h]))
    /\ lost' = IF handlers[h].plan = None THEN lost ELSE lost \cup {handlers[h].plan}
-----------------------------------------------------------------------------
(* A price: UpsertProductPlanPrice, EnsureProductPrice *)

PutPrice(h, p, i, a, st) ==
    /\ Begin(h, "catalog")
    /\ Exists(p)
    /\ Goto(h, [Idle EXCEPT !.pc = "row", !.op = "put", !.plan = p, !.interval = i,
                            !.amount = a, !.status = st, !.name = plans[p].name])
    /\ UNCHANGED <<tables, stripe, histories>>

\* CreateProductPlan inserts the plan before it asks for the price, if there is one.
CreateProductPlan(h, p, n, i, a) ==
    /\ Begin(h, "catalog")
    /\ plans[p] = NoPlan
    /\ plans' = [plans EXCEPT ![p] = [status |-> "active", name |-> n]]
    /\ \/ UNCHANGED handlers
       \/ Goto(h, [Idle EXCEPT !.pc = "plan", !.op = "create", !.plan = p, !.interval = i,
                               !.amount = a])
    /\ UNCHANGED <<prices, active, connected, stripe, histories>>

ReadPlan(h) ==
    LET r == handlers[h]
    IN  /\ At(h, "plan")
        /\ IF Exists(r.plan)
           THEN Goto(h, [r EXCEPT !.pc = "row", !.name = plans[r.plan].name]) /\ UNCHANGED lost
           ELSE Fails(h)
        /\ UNCHANGED <<tables, stripe, left, asked, chosen, swept, crossed, offline, accounts>>

ReadRow(h) ==
    LET r == handlers[h]
        row == prices[r.plan][r.interval]
    IN  /\ At(h, "row")
        /\ Goto(h, [r EXCEPT !.pc = "product", !.product = row.product, !.price = row.price])
        /\ UNCHANGED <<tables, stripe, left, histories>>

\* Only an active price is pushed, and only when Stripe is connected; a sync has made
\* sure of both before.
Pushes(r) == r.op = "sync" \/ (connected # None /\ r.status = "active")

\* The account whose key it is pushed with: a sync has read it at its beginning.
KeyOf(r) == IF r.op = "sync" THEN r.account ELSE connected

NewProduct(r, c) == [name |-> r.name, plan |-> r.plan, interval |-> r.interval, account |-> c]

\* Mutant: a product is made whether or not there is one.
EnsureProduct_Always(h) ==
    LET r == handlers[h]
    IN  /\ At(h, "product")
        /\ \E x \in Product, c \in Account :
              /\ IsNext(x, products) /\ Reaches(KeyOf(r), c, r.plan)
              /\ products' = [products EXCEPT ![x] = NewProduct(r, c)]
              /\ Goto(h, [r EXCEPT !.pc = "price", !.account = KeyOf(r), !.product = x])
              /\ Crosses(h, r.plan)
        /\ UNCHANGED <<tables, charges, asked, chosen, swept, lost, offline, shared, moved>>

\* An account does not know the products of another one: the call fails.
EnsureProduct(h) ==
    LET r == handlers[h]
    IN  /\ At(h, "product")
        /\ \/ /\ ~Pushes(r)
              /\ Goto(h, [r EXCEPT !.pc = "store"])
              /\ UNCHANGED <<products, crossed, strayed, left>>
           \/ /\ Pushes(r) /\ r.product = None
              /\ \E x \in Product, c \in Account :
                    /\ IsNext(x, products) /\ Reaches(KeyOf(r), c, r.plan)
                    /\ products' = [products EXCEPT ![x] = NewProduct(r, c)]
                    /\ Goto(h, [r EXCEPT !.pc = "price", !.account = KeyOf(r), !.product = x])
              /\ Crosses(h, r.plan)
           \/ /\ Pushes(r) /\ r.product # None
              /\ Reaches(KeyOf(r), products[r.product].account, r.plan)
              /\ products' = [products EXCEPT ![r.product].name = r.name]
              /\ Goto(h, [r EXCEPT !.pc = "price", !.account = KeyOf(r)])
              /\ Crosses(h, r.plan)
        /\ UNCHANGED <<tables, charges, asked, chosen, swept, lost, offline, shared, moved>>

\* Mutant: a price that is linked is used again whatever it charges.
Reusable_Linked(r) == r.price # None /\ charges[r.price].active

\* A price at Stripe cannot be changed: another amount or interval takes a new one.
Reusable(r) ==
    /\ r.price # None
    /\ charges[r.price].active
    /\ charges[r.price].amount = r.amount /\ charges[r.price].interval = r.interval

\* A linked price that cannot be looked at, as the call fails, is not used again either.
\* A new one is only made in the account that has the product.
EnsurePrice(h) ==
    LET r == handlers[h]
    IN  /\ At(h, "price")
        /\ Reaches(r.account, products[r.product].account, r.plan)
        /\ \/ /\ Reusable(r)
              /\ Goto(h, [r EXCEPT !.pc = "store", !.pushed = TRUE])
              /\ UNCHANGED charges
           \/ \E x \in Price :
                 /\ IsNext(x, charges)
                 /\ charges' = [charges EXCEPT ![x] =
                        [product |-> r.product, interval |-> r.interval,
                         amount |-> r.amount, active |-> TRUE]]
                 /\ Goto(h, [r EXCEPT !.pc = "store", !.price = x, !.pushed = TRUE])
        /\ UNCHANGED <<tables, products, asked, chosen, swept, crossed, lost, offline, shared, moved>>

\* The foreign key, and the unique index on the processor's price.
Storable(r) ==
    /\ Exists(r.plan)
    /\ r.price = None \/ \A p \in Plan, i \in Interval :
          <<p, i>> = <<r.plan, r.interval>> \/ prices[p][i].price # r.price

StorePrice(h) ==
    LET r == handlers[h]
    IN  /\ At(h, "store")
        /\ \/ /\ Storable(r)
              /\ prices' = [prices EXCEPT ![r.plan][r.interval] =
                     [amount |-> r.amount, status |-> r.status,
                      product |-> r.product, price |-> r.price]]
              /\ asked' = IF r.op = "sync" THEN asked
                          ELSE [asked EXCEPT ![r.plan][r.interval] = <<r.amount, r.status>>]
              /\ offline' = IF r.status = "active" /\ r.price # None /\ ~r.pushed
                            THEN offline \cup {r.plan} ELSE offline
              /\ Crosses(h, r.plan)
              /\ shared' = IF r.op = "import" THEN shared \cup ({products[r.product].plan} \ {None})
                           ELSE shared
              /\ moved' = IF r.pushed /\ r.account # connected THEN moved \cup {r.plan} ELSE moved
              /\ strayed' = IF r.op = "import" /\ products[r.product].account # r.account
                            THEN strayed \cup {r.plan} ELSE strayed
              /\ Overtake(h, r.plan, After(r))
              /\ UNCHANGED lost
           \/ ~Storable(r) /\ Fails(h) /\ UNCHANGED <<prices, asked, offline, crossed, accounts>>
        /\ UNCHANGED <<plans, active, connected, stripe, left, chosen, swept>>

\* The cascades take the plan's prices and the choice of it.
Erase(p) ==
    /\ plans' = [plans EXCEPT ![p] = Gone]
    /\ prices' = [prices EXCEPT ![p] = [i \in Interval |-> NoPrice]]
    /\ active' = IF active = p THEN None ELSE active
    /\ chosen' = IF chosen = p THEN None ELSE chosen

\* The compensation of CreateProductPlan.
UndoCreate(h) ==
    /\ At(h, "undo")
    /\ Erase(handlers[h].plan)
    /\ Goto(h, Idle)
    /\ UNCHANGED <<connected, stripe, left, asked, excuses>>
-----------------------------------------------------------------------------
(* Sync and import *)

Unsynced ==
    {x \in [plan : Plan, interval : Interval, row : {prices[p][i] : p \in Plan, i \in Interval}] :
        /\ x.row = prices[x.plan][x.interval]
        /\ x.row.status = "active" /\ (x.row.product = None \/ x.row.price = None)}

SyncProductPlansToStripe(h) ==
    /\ Begin(h, "catalog")
    /\ connected # None /\ Unsynced # {}
    /\ Goto(h, [Idle EXCEPT !.pc = "next", !.op = "sync", !.account = connected,
                            !.todo = Unsynced])
    /\ UNCHANGED <<tables, stripe, histories>>

\* The rows are those of the listing; the plan is read again.
NextUnsynced(h) ==
    LET r == handlers[h]
    IN  /\ At(h, "next")
        /\ \/ r.todo = {} /\ Goto(h, Idle)
           \/ \E x \in r.todo :
                 /\ Exists(x.plan)
                 /\ Goto(h, [r EXCEPT !.pc = "product", !.todo = @ \ {x}, !.plan = x.plan,
                        !.interval = x.interval, !.amount = x.row.amount,
                        !.name = plans[x.plan].name,
                        !.product = x.row.product, !.price = x.row.price])
           \/ (\E x \in r.todo : ~Exists(x.plan)) /\ Goto(h, Idle)
        /\ UNCHANGED <<tables, stripe, left, histories>>

\* ImportStripeCatalog lists what Stripe offers before it looks at the request's items:
\* what the account offers that the call reaches.
ImportStripeCatalog(h, refs) ==
    /\ At(h, "idle") /\ connected # None
    /\ left["catalog"] > 0
    /\ \E c \in Account, strays \in {0, 1} :
          /\ strays = IF c = connected THEN 0 ELSE 1
          /\ strays <= left["strays"]
          /\ left' = [left EXCEPT !["catalog"] = @ - 1, !["strays"] = @ - strays]
          /\ \A x \in refs : /\ charges[x] # Nothing /\ charges[x].active
                             /\ products[charges[x].product].account = c
    /\ Goto(h, [Idle EXCEPT !.pc = "import", !.op = "import", !.account = connected,
                            !.todo = refs])
    /\ UNCHANGED <<tables, stripe, histories>>

\* A price that is linked is skipped; another one gets a plan of its own.
ImportNext(h) ==
    LET r == handlers[h]
    IN  /\ At(h, "import")
        /\ \/ r.todo = {} /\ Goto(h, Idle) /\ UNCHANGED plans
           \/ \E x \in r.todo :
                 /\ \E p \in Plan, i \in Interval : prices[p][i].price = x
                 /\ Goto(h, [r EXCEPT !.todo = @ \ {x}])
                 /\ UNCHANGED plans
           \/ \E x \in r.todo, p \in Plan, n \in Name :
                 /\ \A q \in Plan, i \in Interval : prices[q][i].price # x
                 /\ plans[p] = NoPlan
                 /\ plans' = [plans EXCEPT ![p] = [status |-> "active", name |-> n]]
                 /\ Goto(h, [r EXCEPT !.pc = "store", !.todo = @ \ {x}, !.plan = p,
                        !.interval = charges[x].interval, !.amount = charges[x].amount,
                        !.product = charges[x].product, !.price = x, !.pushed = TRUE])
        /\ UNCHANGED <<prices, active, connected, stripe, left, histories>>
-----------------------------------------------------------------------------
(* Names and the life of a plan *)

\* UpdateProductPlan with a name, and syncProductPlanNameToStripe.
RenamePlan(h, p, n) ==
    /\ Begin(h, "catalog")
    /\ Exists(p)
    /\ plans' = [plans EXCEPT ![p].name = n]
    /\ Overtake(h, p, [Idle EXCEPT !.pc = "list", !.op = "name", !.plan = p, !.name = n])
    /\ UNCHANGED <<prices, active, connected, stripe, histories>>

ListLinked(h) ==
    LET r == handlers[h]
        linked == {prices[r.plan][i].product : i \in Interval} \ {None}
    IN  /\ At(h, "list")
        /\ IF connected # None
           THEN /\ Goto(h, [r EXCEPT !.pc = "rename", !.account = connected, !.todo = linked])
                /\ UNCHANGED offline
           ELSE /\ Goto(h, Idle)
                /\ offline' = IF linked = {} THEN offline ELSE offline \cup {r.plan}
        /\ UNCHANGED <<tables, stripe, left, asked, chosen, swept, crossed, lost, accounts>>

UpdateProductName(h) ==
    LET r == handlers[h]
    IN  /\ At(h, "rename")
        /\ \/ r.todo = {} /\ Goto(h, Idle) /\ UNCHANGED <<products, crossed, strayed, left>>
           \/ \E x \in r.todo :
                 /\ Reaches(r.account, products[x].account, r.plan)
                 /\ products' = [products EXCEPT ![x].name = r.name]
                 /\ Goto(h, [r EXCEPT !.todo = @ \ {x}])
                 /\ Crosses(h, r.plan)
        /\ UNCHANGED <<tables, charges, asked, chosen, swept, lost, offline, shared, moved>>

\* UpdateProductPlan with a status.
ArchivePlan(h, p, st) ==
    /\ Begin(h, "plans")
    /\ Exists(p)
    /\ plans' = [plans EXCEPT ![p].status = st]
    /\ UNCHANGED <<prices, active, connected, stripe, handlers, histories>>

\* SetActiveProductPlan reads the plan, and then stores the choice.
ChoosePlan(h, p) ==
    /\ Begin(h, "plans")
    /\ Exists(p) /\ plans[p].status = "active"
    /\ Goto(h, [Idle EXCEPT !.pc = "activate", !.op = "choose", !.plan = p])
    /\ UNCHANGED <<tables, stripe, histories>>

StoreChoice(h) ==
    LET p == handlers[h].plan
    IN  /\ At(h, "activate")
        /\ IF Exists(p)
           THEN active' = p /\ chosen' = p /\ Overtake(h, p, Idle)
           ELSE Goto(h, Idle) /\ UNCHANGED <<active, chosen>>
        /\ UNCHANGED <<plans, prices, connected, stripe, left, asked, excuses>>

ClearChoice(h) ==
    /\ Begin(h, "plans")
    /\ active' = None /\ chosen' = None
    /\ UNCHANGED <<plans, prices, connected, stripe, handlers, asked, excuses>>

DeletePlan(h, p) ==
    /\ Begin(h, "plans")
    /\ Exists(p)
    /\ Goto(h, [Idle EXCEPT !.pc = "active", !.op = "delete", !.plan = p])
    /\ UNCHANGED <<tables, stripe, histories>>

\* Mutant: the choice is cleared whichever plan it is.
ReadActive_Any(h) ==
    /\ At(h, "active")
    /\ Goto(h, [handlers[h] EXCEPT !.pc = IF active # None THEN "clear" ELSE "delete",
                                   !.stale = {}])
    /\ UNCHANGED <<tables, stripe, left, histories>>

ReadActive(h) ==
    /\ At(h, "active")
    /\ Goto(h, [handlers[h] EXCEPT !.pc = IF active = handlers[h].plan THEN "clear" ELSE "delete",
                                   !.stale = {}])
    /\ UNCHANGED <<tables, stripe, left, histories>>

\* ClearOrganisationProductPlan names the organisation, not the plan.
ClearActive(h) ==
    LET r == handlers[h]
    IN  /\ At(h, "clear")
        /\ active' = None
        /\ chosen' = IF chosen = r.plan THEN None ELSE chosen
        /\ swept' = (swept \/ active \in r.stale \ {r.plan})
        /\ Goto(h, [r EXCEPT !.pc = "delete"])
        /\ UNCHANGED <<plans, prices, connected, stripe, left, asked, crossed, lost, offline, accounts>>

FinishDelete(h) ==
    /\ At(h, "delete")
    /\ Erase(handlers[h].plan)
    /\ Goto(h, Idle)
    /\ UNCHANGED <<connected, stripe, left, asked, excuses>>
-----------------------------------------------------------------------------
\* UpsertStripeIntegration with a secret key, of the account there was or of another one,
\* and DeleteOrganisationIntegration.  The links of the prices stay.
Connect(h, account) ==
    /\ Begin(h, "catalog")
    /\ account # connected /\ connected' = account
    /\ moved' = IF account = None THEN moved
                ELSE moved \cup {p \in Plan : \E i \in Interval :
                        /\ prices[p][i].product # None
                        /\ products[prices[p][i].product].account # account}
    /\ UNCHANGED <<plans, prices, active, stripe, handlers, asked, chosen, swept, crossed, lost,
                   offline, shared, strayed>>

\* The merchant archives a price in Stripe's dashboard.
Retire(x) ==
    /\ Spend("catalog")
    /\ charges[x] # Nothing /\ charges[x].active
    /\ charges' = [charges EXCEPT ![x].active = FALSE]
    /\ UNCHANGED <<tables, products, handlers, histories>>

\* A call of Stripe or a statement returns an error.
CallFails(h) ==
    /\ handlers[h].pc \in {"product", "price", "store", "rename", "next", "import"}
    /\ Fails(h)
    /\ UNCHANGED <<tables, stripe, left, asked, chosen, swept, crossed, offline, accounts>>

\* The process ends.
Crash(h) ==
    /\ Busy(h)
    /\ lost' = IF handlers[h].plan = None THEN lost ELSE lost \cup {handlers[h].plan}
    /\ Goto(h, Idle)
    /\ UNCHANGED <<tables, stripe, left, asked, chosen, swept, crossed, offline, accounts>>

Pricing(h) ==
    \/ \E p \in Plan, i \in Interval, a \in Amount :
          \/ \E st \in Statuses : PutPrice(h, p, i, a, st)
          \/ \E n \in Name : CreateProductPlan(h, p, n, i, a)
    \/ ReadPlan(h) \/ ReadRow(h) \/ EnsureProduct(h) \/ EnsurePrice(h) \/ StorePrice(h)
    \/ UndoCreate(h)

Cataloguing(h) ==
    \/ SyncProductPlansToStripe(h) \/ NextUnsynced(h)
    \/ \E refs \in SUBSET Price : refs # {} /\ ImportStripeCatalog(h, refs)
    \/ ImportNext(h)
    \/ \E account \in Account \cup {None} : Connect(h, account)

Administering(h) ==
    \/ \E p \in Plan :
          \/ \E n \in Name : RenamePlan(h, p, n)
          \/ \E st \in Statuses : st # plans[p].status /\ ArchivePlan(h, p, st)
          \/ ChoosePlan(h, p) \/ DeletePlan(h, p)
    \/ ListLinked(h) \/ UpdateProductName(h) \/ StoreChoice(h) \/ ClearChoice(h)
    \/ ReadActive(h) \/ ClearActive(h) \/ FinishDelete(h)

PlansNext ==
    \/ \E h \in Handler :
          Pricing(h) \/ Cataloguing(h) \/ Administering(h) \/ CallFails(h) \/ Crash(h)
    \/ \E x \in Price : Retire(x)
-----------------------------------------------------------------------------
\* Types, and the references that the foreign keys keep.
TypeOK ==
    /\ plans \in [Plan -> PlanRows \cup {NoPlan, Gone}]
    /\ prices \in [Plan -> [Interval -> PriceRows \cup {NoPrice}]]
    /\ active \in Plan \cup {None} /\ connected \in Account \cup {None}
    /\ products \in [Product -> Products \cup {Nothing}]
    /\ charges \in [Price -> Charges \cup {Nothing}]
    /\ \A h \in Handler : HandlerOK(handlers[h])
    /\ chosen \in Plan \cup {None} /\ swept \in BOOLEAN
    /\ crossed \subseteq Plan /\ lost \subseteq Plan /\ offline \subseteq Plan
    /\ shared \subseteq Plan /\ moved \subseteq Plan /\ strayed \subseteq Plan
    /\ left \in [Kinds -> Nat]
    /\ active # None => Exists(active)
    /\ \A p \in Plan, i \in Interval : prices[p][i] # NoPrice => Exists(p)

Excused(p) == p \in crossed \cup lost

Settled(p) == ~Excused(p) /\ \A h \in Handler : Busy(h) => handlers[h].plan # p

\* What staff last asked a plan to cost is what its row says, and what Stripe charges
\* and shows for it: the linked price has the amount and the interval, and its product
\* the plan's name; and it stands in the account that is connected.  Not so once two
\* requests wrote the plan across one another, one of them was lost on the way, or it was
\* changed while Stripe was not connected (a sync only pushes what has no link).
\* A product the merchant made keeps its own name, and one that KYC made for the plan may
\* bear another plan's when a price that the plan no longer has was imported: the two
\* plans then have one product, and renaming either renames it.  The account is another
\* one when staff connected another (the rows keep their links), and when a call reached
\* another, as somebody else had set the process's key in between.
ListedIsCharged ==
    \A p \in Plan, i \in Interval :
        LET row == prices[p][i]
        IN  row # NoPrice =>
            /\ ~Excused(p) => asked[p][i] = <<row.amount, row.status>>
            /\ row.price # None /\ connected # None /\ p \notin crossed \cup moved \cup strayed =>
                  products[row.product].account = connected
            /\ Settled(p) /\ p \notin offline /\ row.status = "active" /\ row.price # None =>
                  /\ charges[row.price].amount = row.amount
                  /\ charges[row.price].interval = i
                  /\ p \notin shared /\ products[row.product].plan = p =>
                        products[row.product].name = plans[p].name

\* A price of a plan is one product at Stripe, however often it is saved, archived,
\* renamed and synced: a second one is made only by requests that ran across one
\* another or by one that ended between Stripe's answer and the row.
DuplicatesAreExcused ==
    \A p \in Plan, i \in Interval :
        Settled(p) =>
            Cardinality({x \in Product : products[x] # Nothing
                             /\ products[x].plan = p /\ products[x].interval = i}) <= 1

\* The plan in use is the one last chosen, until that is deleted or the choice cleared:
\* deleting another plan takes it away only when the choice fell between the deletion's
\* look and its statement, which clears the organisation's row whatever it names.
ChoiceStands == active = chosen \/ swept
=============================================================================
