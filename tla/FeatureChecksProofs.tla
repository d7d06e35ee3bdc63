------------------------- MODULE FeatureChecksProofs -------------------------
(***************************************************************************)
(* Proofs about the plans that an organisation sells, the features they    *)
(* carry and the checks of them, for any number of plans, intervals,       *)
(* features and requests that overlap.                                     *)
(*                                                                         *)
(* A request that has read a plan is fresh while nobody else has written   *)
(* the plan since it began (stale).  What a fresh request read still       *)
(* stands, and that is what the histories' excuses leave to be proved.     *)
(***************************************************************************)
EXTENDS FeatureChecks, FiniteSetTheorems, TLAPS

USE NoneAssumption, FirstAssumption

Working == {"product", "price", "store"}

Requests ==
    [pc : {"idle", "plan", "row", "product", "price", "store", "undo", "list", "rename",
           "next", "import", "active", "clear", "delete", "activate"},
     op : {"none", "put", "create", "sync", "import", "name", "delete", "choose"},
     plan : Plan \cup {None}, interval : Interval \cup {None}, amount : Amount \cup {None},
     status : Statuses, name : Name \cup {None}, account : Account \cup {None},
     product : Product \cup {None}, price : Price \cup {None}, pushed : BOOLEAN,
     todo : SUBSET (Items \cup Price \cup Product), stale : SUBSET Plan]

---------------------------------------------------------------------------
(* What is true of one request, whatever the others do. *)

(* What the step that a request has come to says of its fields. *)
FieldsFit(r) ==
    /\ r.pc = "idle" => r = Idle
    /\ r.pc \in {"plan", "row"} \cup Working =>
          r.plan \in Plan /\ r.interval \in Interval /\ r.amount \in Amount
    /\ r.pc \in {"row", "product", "price", "list", "rename"} => r.name \in Name
    /\ r.pc \in {"undo", "list", "rename", "active", "clear", "delete", "activate"} => r.plan \in Plan
    /\ r.pc = "plan" => r.op = "create"
    /\ r.op = "create" => r.plan \in Plan
    /\ r.pc = "row" => r.op \in {"put", "create"}
    /\ r.pc \in {"product", "price"} => r.op \in {"put", "create", "sync"}
    /\ r.pc = "store" => r.op \in {"put", "create", "sync", "import"}
    /\ r.pc = "next" => r.op = "sync"
    /\ r.pc = "import" => r.op = "import"
    /\ r.pc \in {"list", "rename"} => r.op = "name"
    /\ r.pc \in {"active", "clear", "delete"} => r.op = "delete"
    /\ r.pc = "price" => r.product # None
    /\ r.price # None => r.product # None
    /\ r.op = "sync" => r.status = "active" /\ r.todo \subseteq Items
    /\ r.op = "import" => r.todo \subseteq Price
    /\ r.op \notin {"sync", "import"} => r.todo \subseteq Product

(* What Stripe's ids in the tables and in the requests refer to is there, and so are the
   plans that requests and products refer to. *)
Made(x) == x = None \/ products[x] # Nothing
Offered(x) == x = None \/ charges[x] # Nothing
Known(p) == p = None \/ plans[p] # NoPlan

Refers(r) ==
    /\ Made(r.product) /\ Offered(r.price) /\ Known(r.plan)
    /\ r.op = "name" => \A x \in r.todo : Made(x)
    /\ r.op = "import" => \A x \in r.todo : Offered(x)
    /\ r.op = "sync" => \A x \in r.todo :
          Made(x.row.product) /\ Offered(x.row.price) /\ Known(x.plan)
             /\ (x.row.price # None => x.row.product # None)

(* What a fresh request has read is what there is. *)
Fresh(r) == Exists(r.plan) /\ r.plan \notin r.stale

NameStands(r) ==
    \/ r.pc \in {"row", "product", "price", "list", "rename"}
    \/ r.pc = "store" /\ r.op # "import"
    => (Fresh(r) => r.name = plans[r.plan].name)

RowStands(r) ==
    r.pc \in Working /\ Fresh(r) =>
        /\ prices[r.plan][r.interval].product \in {None, r.product}
        /\ r.pc = "product" \/ (r.pc = "store" /\ ~r.pushed) =>
              prices[r.plan][r.interval].product = r.product
        /\ r.op = "sync" => /\ prices[r.plan][r.interval].amount = r.amount
                            /\ prices[r.plan][r.interval].status = "active"

ListStands(r) ==
    r.op = "sync" =>
        /\ \A x \in r.todo :
              /\ Exists(x.plan) /\ x.plan \notin r.stale =>
                    prices[x.plan][x.interval] = x.row
              /\ x.row.status = "active"
              /\ r.pc \in Working => x.plan # r.plan \/ x.interval # r.interval
        /\ \A x, y \in r.todo : x.plan = y.plan /\ x.interval = y.interval => x = y

(* A product was made for the plan that it is used for, or for none, or else its plan is
   excused, or shares it. *)
Own(x, p) == x # None => products[x].plan \in {None, p} \cup crossed \cup shared

Owns(r) ==
    /\ r.pc \in Working /\ r.op # "import" => Own(r.product, r.plan)
    /\ r.pc = "store" /\ r.op = "import" => r.product # None /\ products[r.product].plan # r.plan
    /\ r.op = "name" => \A x \in r.todo : Own(x, r.plan)
    /\ r.op = "sync" => \A x \in r.todo : Own(x.row.product, x.plan)

(* What a price charges never changes; a request has made sure of it before it stores. *)
Charged(x, a, i) == charges[x].amount = a /\ charges[x].interval = i

Pushed(r) ==
    /\ r.pc = "store" /\ r.pushed => r.price # None /\ Charged(r.price, r.amount, r.interval)
    /\ r.pc = "store" /\ ~r.pushed => r.op \in {"put", "create"}
    /\ r.pc \in {"next", "import", "plan", "row", "product", "price"} => ~r.pushed

NamePushed(r) ==
    /\ r.pc = "price" \/ (r.pc = "store" /\ r.pushed /\ r.op # "import")
    /\ Fresh(r) /\ r.plan \notin crossed \cup shared /\ products[r.product].plan = r.plan
    => products[r.product].name = r.name

(* The product that a price was asked for is in the account whose key was read. *)
Reached(r) ==
    /\ r.pc = "price" \/ (r.pc = "store" /\ r.pushed /\ r.op # "import")
    /\ r.product # None
    => products[r.product].account = r.account \/ r.plan \in strayed

(* Who is about to clear the choice looked when it was this plan's, and sees in stale
   which plans have been chosen since. *)
ClearerKnows(r) == r.pc = "clear" => active \in {None, r.plan} \cup r.stale

Good(r) ==
    /\ FieldsFit(r) /\ Refers(r) /\ NameStands(r) /\ RowStands(r) /\ ListStands(r) /\ Owns(r)
    /\ Pushed(r) /\ NamePushed(r) /\ Reached(r) /\ ClearerKnows(r)

---------------------------------------------------------------------------
(* What is true of the tables. *)
RowsRefer ==
    /\ \A p \in Plan, i \in Interval :
          /\ Made(prices[p][i].product) /\ Offered(prices[p][i].price)
          /\ prices[p][i].price # None => prices[p][i].product # None
          /\ Own(prices[p][i].product, p)
    /\ \A x \in Price : charges[x] # Nothing => Made(charges[x].product)
    /\ \A x \in Product : products[x] # Nothing => Known(products[x].plan)

RowsAreAsked ==
    \A p \in Plan, i \in Interval :
        prices[p][i] # NoPrice /\ ~Excused(p) =>
            asked[p][i] = <<prices[p][i].amount, prices[p][i].status>>

RowsAreCharged ==
    \A p \in Plan, i \in Interval :
        LET row == prices[p][i]
        IN  p \notin offline /\ row.status = "active" /\ row.price # None =>
                Charged(row.price, row.amount, i)

(* A name that a product does not bear yet is on its way. *)
Renames(r, x, p) ==
    r.plan = p /\ r.name = plans[p].name /\ (r.pc = "list" \/ (r.pc = "rename" /\ x \in r.todo))

RowsAreNamed ==
    \A p \in Plan, i \in Interval :
        LET row == prices[p][i]
        IN  /\ ~Excused(p) /\ p \notin offline \cup shared /\ row.status = "active" /\ row.price # None
            /\ products[row.product].plan = p
            => \/ products[row.product].name = plans[p].name
               \/ \E h \in Handler : Renames(handlers[h], row.product, p)

(* What is linked stands in the account that is connected. *)
RowsAreTheirs ==
    \A p \in Plan, i \in Interval :
        LET x == prices[p][i].product
        IN  x # None /\ connected # None /\ p \notin crossed \cup moved \cup strayed =>
                products[x].account = connected

(* A product that was made for a price is in its row, or in the hands of a request that
   will put it there or be excused; after the plan's deletion one is left. *)
For(x, p, i) == products[x] # Nothing /\ products[x].plan = p /\ products[x].interval = i

Holds(r, x, p, i) ==
    r.pc \in {"price", "store"} /\ r.plan = p /\ r.interval = i /\ r.product = x

Held(x, p, i) == \E h \in Handler : Holds(handlers[h], x, p, i)

OneProduct ==
    \A p \in Plan, i \in Interval :
        ~Excused(p) =>
            /\ Exists(p) => \A x \in Product :
                  For(x, p, i) => Held(x, p, i) \/ prices[p][i].product = x
            /\ \A x, y \in Product :
                  For(x, p, i) /\ For(y, p, i) /\ ~Held(x, p, i) /\ ~Held(y, p, i) => x = y

Typed == /\ TypeOK /\ handlers \in [Handler -> Requests]
         /\ asked \in [Plan -> [Interval -> (Amount \cup {None}) \X (Statuses \cup {"none"})]]

PlanInv == /\ Typed /\ RowsRefer /\ RowsAreAsked /\ RowsAreCharged /\ RowsAreNamed /\ OneProduct
           /\ RowsAreTheirs /\ \A h \in Handler : Good(handlers[h])
---------------------------------------------------------------------------
(* What a step of PlansNext may do to what a request has read. *)

(* Nothing that is referred to disappears; a name is only given to a product by a request
   that read it from the product's plan as it stands, or at the price of an excuse. *)
Mild ==
    /\ \A p \in Plan : plans[p] # NoPlan => plans'[p] # NoPlan
    /\ \A x \in Product : products[x] # Nothing =>
          /\ products'[x] # Nothing
          /\ products'[x].plan = products[x].plan /\ products'[x].interval = products[x].interval
          /\ products'[x].account = products[x].account
          /\ \/ products'[x].name = products[x].name
             \/ products[x].plan \in crossed' \cup shared'
             \/ Exists(products[x].plan) => products'[x].name = plans[products[x].plan].name
    /\ \A x \in Price : charges[x] # Nothing =>
          /\ charges'[x] # Nothing
          /\ charges'[x].product = charges[x].product
          /\ charges'[x].amount = charges[x].amount /\ charges'[x].interval = charges[x].interval
    /\ crossed \subseteq crossed' /\ lost \subseteq lost' /\ offline \subseteq offline'
    /\ shared \subseteq shared' /\ moved \subseteq moved' /\ strayed \subseteq strayed'

(* A plan's row, name and prices as they were; or it is no more. *)
Untouched(p) ==
    Exists(p)' => Exists(p) /\ plans'[p].name = plans[p].name /\ prices'[p] = prices[p]

(* n is the request r after the step of another one. *)
Same(r, n) ==
    /\ n.pc = r.pc /\ n.op = r.op /\ n.plan = r.plan /\ n.interval = r.interval
    /\ n.amount = r.amount /\ n.status = r.status /\ n.name = r.name /\ n.product = r.product
    /\ n.account = r.account /\ n.price = r.price /\ n.pushed = r.pushed /\ n.todo = r.todo
    /\ r.stale \subseteq n.stale

Overtaken(r, n) ==
    /\ Same(r, n)
    /\ r.pc = "idle" => n = r
    /\ r.pc # "idle" => /\ \A p \in Plan : plans[p] # NoPlan /\ p \notin n.stale => Untouched(p)
                        /\ active' \in {None, active} \cup n.stale

LEMMA IdleGood == Good(Idle)
BY DEF Idle, Good, FieldsFit, Refers, NameStands, RowStands, ListStands, Owns, Pushed, NamePushed, Reached,
       ClearerKnows, Working, Made, Offered, Known, Statuses

LEMMA IdleTyped == Idle \in Requests
BY DEF Idle, Requests, Statuses

LEMMA Records ==
  /\ \A r \in PlanRows : r # NoPlan /\ r # Gone /\ r.status \in Statuses
  /\ NoPlan.status \notin Statuses /\ Gone.status \notin Statuses /\ Gone # NoPlan
  /\ \A r \in PriceRows : r # NoPrice
  /\ \A r \in Products : r # Nothing
  /\ \A r \in Charges : r # Nothing
  /\ NoPrice.price = None /\ NoPrice.product = None /\ NoPrice.status # "active"
<1>1. \A r \in Charges : r # Nothing
  <2> SUFFICES ASSUME NEW r \in Charges, r = Nothing PROVE FALSE
    OBVIOUS
  <2>1. "amount" \in DOMAIN r
    BY DEF Charges
  <2>2. DOMAIN Nothing = {"name"}
    BY DEF Nothing
  <2> QED BY <2>1, <2>2
<1>2. \A r \in Products : r # Nothing
  BY DEF Products, Nothing
<1>3. \A r \in PriceRows : r # NoPrice
  BY DEF PriceRows, NoPrice
<1>4. \A r \in PlanRows : r # NoPlan /\ r # Gone /\ r.status \in Statuses
  BY DEF PlanRows, NoPlan, Gone, Statuses
<1> QED BY <1>1, <1>2, <1>3, <1>4 DEF NoPlan, Gone, Statuses, NoPrice

(* What stands for a request still stands after the step of another one. *)
LEMMA Keeps ==
  ASSUME PlanInv, Mild, NEW r \in Requests, NEW n \in Requests, Good(r), Overtaken(r, n)
  PROVE Good(n)'
<1>1. r \in Requests /\ n \in Requests /\ Good(r)
  OBVIOUS
<1>2. CASE r.pc = "idle"
  <2>1. r = Idle /\ n = Idle
    BY <1>1, <1>2 DEF Good, FieldsFit, Overtaken
  <2>2. Good(Idle)'
    BY IdleGood DEF Idle, Good, FieldsFit, Refers, NameStands, RowStands, ListStands, Owns, Pushed,
                    NamePushed, Reached, ClearerKnows, Working, Made, Offered, Known, Statuses
  <2> QED BY <2>1, <2>2
<1>3. CASE r.pc # "idle"
  <2>0. /\ Same(r, n)
        /\ \A p \in Plan : plans[p] # NoPlan /\ p \notin n.stale => Untouched(p)
        /\ active' \in {None, active} \cup n.stale
    BY <1>3 DEF Overtaken
  <2>1. FieldsFit(n)
    BY <1>1, <1>3, <2>0 DEF Good, FieldsFit, Same
  <2>a. r.product \in Product \cup {None} /\ r.price \in Price \cup {None} /\ r.plan \in Plan \cup {None}
    BY <1>1 DEF Requests
  <2>2. Refers(n)'
    <3>1. Made(r.product)' /\ Offered(r.price)' /\ Known(r.plan)'
      BY <1>1, <2>a DEF Good, Refers, Made, Offered, Known, Mild
    <3>2. r.op = "name" => \A x \in r.todo : Made(x)'
      BY <1>1 DEF Good, FieldsFit, Refers, Made, Mild
    <3>3. r.op = "import" => \A x \in r.todo : Offered(x)'
      BY <1>1 DEF Good, FieldsFit, Refers, Offered, Mild
    <3>4. r.op = "sync" => \A x \in r.todo :
              Made(x.row.product)' /\ Offered(x.row.price)' /\ Known(x.plan)'
                 /\ (x.row.price # None => x.row.product # None)
      <4> SUFFICES ASSUME r.op = "sync", NEW x \in r.todo
                   PROVE Made(x.row.product)' /\ Offered(x.row.price)' /\ Known(x.plan)'
                           /\ (x.row.price # None => x.row.product # None)
        OBVIOUS
      <4>1. /\ x.row.product \in Product \cup {None} /\ x.row.price \in Price \cup {None}
            /\ x.plan \in Plan
        BY <1>1 DEF Good, FieldsFit, Items, PriceRows
      <4> QED BY <1>1, <4>1 DEF Good, Refers, Made, Offered, Known, Mild
    <3> QED BY <2>0, <3>1, <3>2, <3>3, <3>4 DEF Refers, Same, Made, Offered, Known
  <2>3. ASSUME Fresh(n)'
        PROVE Fresh(r) /\ plans'[r.plan].name = plans[r.plan].name /\ prices'[r.plan] = prices[r.plan]
    <3>1. r.plan \in Plan /\ plans[r.plan] # NoPlan /\ n.plan = r.plan /\ r.plan \notin r.stale
             /\ r.plan \notin n.stale /\ Exists(r.plan)'
      BY <1>1, <2>0, <2>3, <2>a DEF Fresh, Exists, Good, Refers, Known, Same
    <3> QED BY <2>0, <3>1 DEF Untouched, Fresh
  <2>4. NameStands(n)'
    BY <1>1, <2>0, <2>3 DEF Good, NameStands, Same
  <2>5. RowStands(n)'
    BY <1>1, <2>0, <2>3 DEF Good, RowStands, Same
  <2>6. ListStands(n)'
    <3> SUFFICES ASSUME n.op = "sync" PROVE ListStands(n)'
      BY DEF ListStands
    <3>1. ASSUME NEW x \in r.todo, Exists(x.plan)', x.plan \notin n.stale
          PROVE prices'[x.plan][x.interval] = x.row
      <4>1. x.plan \in Plan /\ plans[x.plan] # NoPlan /\ x.plan \notin r.stale
        BY <1>1, <2>0, <3>1 DEF Good, Refers, Known, Same, Exists
      <4>2. Exists(x.plan) /\ prices'[x.plan] = prices[x.plan]
        BY <2>0, <3>1, <4>1 DEF Untouched
      <4> QED BY <1>1, <2>0, <4>1, <4>2 DEF Good, ListStands, Same
    <3> QED BY <1>1, <2>0, <3>1 DEF Good, ListStands, Same, Exists
  <2>7. Owns(n)'
    <3>1. \A x \in Product \cup {None} : \A p : Made(x) /\ Own(x, p) => Own(x, p)'
      BY DEF Made, Own, Mild
    <3>2. r.op = "sync" => \A x \in r.todo : x.row.product \in Product \cup {None}
      BY <1>1 DEF Good, FieldsFit, Items, PriceRows
    <3>3. r.op = "name" => r.todo \subseteq Product
      BY <1>1 DEF Good, FieldsFit
    <3>4. r.pc = "store" /\ r.op = "import" =>
            r.product # None /\ products'[r.product].plan = products[r.product].plan
      BY <1>1, <2>a DEF Good, Owns, Refers, Made, Mild
    <3>5. /\ r.pc \in Working /\ r.op # "import" => Own(r.product, r.plan)'
          /\ r.op = "name" => \A x \in r.todo : Own(x, r.plan)'
          /\ r.op = "sync" => \A x \in r.todo : Own(x.row.product, x.plan)'
      BY <1>1, <2>a, <3>1, <3>2, <3>3 DEF Good, Owns, Refers
    <3> QED BY <1>1, <2>0, <3>4, <3>5 DEF Good, Owns, Same, Own
  <2>8. Pushed(n)'
    BY <1>1, <2>0, <2>a DEF Good, Pushed, Same, Charged, Refers, Offered, Mild
  <2>9. NamePushed(n)'
    <3> SUFFICES ASSUME r.pc = "price" \/ (r.pc = "store" /\ r.pushed /\ r.op # "import"), Fresh(n)',
                        r.plan \notin crossed' \cup shared', products'[r.product].plan = r.plan
                 PROVE products'[r.product].name = r.name
      BY <2>0 DEF NamePushed, Same
    <3>1. r.product \in Product /\ products[r.product] # Nothing
      BY <1>1, <2>a DEF Good, FieldsFit, Pushed, Refers, Made
    <3>2. products[r.product].plan = r.plan /\ r.plan \notin crossed \cup shared
      BY <3>1 DEF Mild
    <3>3. r.name = plans[r.plan].name /\ Fresh(r) /\ products[r.product].name = r.name
      BY <1>1, <2>3, <3>2 DEF Good, NameStands, NamePushed
    <3> QED BY <3>1, <3>2, <3>3 DEF Mild, Fresh
  <2>11. Reached(n)'
    BY <1>1, <2>0, <2>a DEF Good, Reached, Refers, Made, Same, Mild
  <2>10. ClearerKnows(n)'
    BY <1>1, <2>0 DEF Good, ClearerKnows, Same
  <2> QED BY <2>1, <2>2, <2>4, <2>5, <2>6, <2>7, <2>8, <2>9, <2>10, <2>11 DEF Good
<1> QED BY <1>2, <1>3
---------------------------------------------------------------------------
(* A step that stores no price, as the tables see it: at most the requests H move. *)

HandsOver(r, n) ==
    /\ \A x \in Product, p \in Plan, i \in Interval :
          Holds(r, x, p, i) => p \in lost' \/ Holds(n, x, p, i)
    /\ \A p \in Plan, i \in Interval :
          LET x == prices[p][i].product
          IN  x # None /\ Renames(r, x, p) =>
                \/ p \in lost' \cup crossed' \cup offline'
                \/ n.plan = p /\ n.name = plans'[p].name /\ n.pc = "rename" /\ x \in n.todo
                \/ products'[x].name = plans'[p].name

Moves(H) ==
    /\ \A g \in Handler \ H : Overtaken(handlers[g], handlers'[g])
    /\ \A h \in H : Good(handlers[h])' /\ HandsOver(handlers[h], handlers'[h])

TablesMove(H) ==
    /\ asked' = asked
    /\ \A p \in Plan : /\ Exists(p)' => Exists(p) \/ plans[p] = NoPlan
                       /\ \/ prices'[p] = prices[p]
                          \/ ~ Exists(p)' /\ \A i \in Interval : prices'[p][i] = NoPrice
                       /\ Exists(p) => \/ plans'[p].name = plans[p].name
                                       \/ ~ Exists(p)'
                                       \/ \E h \in H : /\ handlers'[h].plan = p
                                                       /\ handlers'[h].name = plans'[p].name
                                                       /\ handlers'[h].pc = "list"
    /\ \A x \in Price : charges'[x] # Nothing => charges[x] # Nothing \/ Made(charges[x].product)'
    /\ \A x \in Product : products'[x] # Nothing =>
          \/ products[x] # Nothing
          \/ /\ Known(products[x].plan)'
             /\ \E h \in H : Holds(handlers'[h], x, products'[x].plan, products'[x].interval)
    /\ \/ connected' \in {None, connected}
       \/ \A p \in Plan \ moved', i \in Interval :
             LET x == prices[p][i].product IN x # None => products[x].account = connected'

Step(H) == Typed' /\ Mild /\ Moves(H) /\ TablesMove(H)

LEMMA RowTyped ==
  ASSUME PlanInv, NEW p \in Plan, NEW i \in Interval
  PROVE /\ prices[p][i] \in PriceRows \cup {NoPrice}
        /\ prices[p][i].product \in Product \cup {None}
        /\ prices[p][i].price \in Price \cup {None}
        /\ prices[p][i] # NoPrice => Exists(p)
        /\ prices[p][i].status = "active" => prices[p][i] # NoPrice
<1>1. prices[p][i] \in PriceRows \cup {NoPrice} /\ (prices[p][i] # NoPrice => Exists(p))
  BY DEF PlanInv, Typed, TypeOK
<1> QED BY <1>1, Records DEF PriceRows

LEMMA GoodKept == ASSUME PlanInv, NEW H \in SUBSET Handler, Step(H), NEW g \in Handler
                  PROVE Good(handlers[g])'
<1>1. CASE g \in H
  BY <1>1 DEF Step, Moves
<1>2. CASE g \notin H
  <2> SUFFICES ASSUME NEW r, NEW n, r = handlers[g], n = handlers'[g] PROVE Good(handlers[g])'
    OBVIOUS
  <2>1. r \in Requests /\ n \in Requests /\ Good(r) /\ Overtaken(r, n)
    BY <1>2 DEF PlanInv, Typed, Step, Moves
  <2>2. Good(n)'
    BY <2>1, Keeps DEF Step
  <2> QED BY <2>2
<1> QED BY <1>1, <1>2

LEMMA RowsReferKept == ASSUME PlanInv, NEW H \in SUBSET Handler, Step(H) PROVE RowsRefer'
<1>1. ASSUME NEW p \in Plan, NEW i \in Interval
      PROVE /\ Made(prices[p][i].product)' /\ Offered(prices[p][i].price)'
            /\ prices'[p][i].price # None => prices'[p][i].product # None
            /\ Own(prices[p][i].product, p)'
  <2>1. CASE prices'[p][i] = NoPrice
    BY <2>1, Records DEF Made, Offered, Own
  <2>2. CASE prices'[p] = prices[p]
    BY <2>2, RowTyped DEF PlanInv, RowsRefer, Made, Offered, Own, Step, Mild
  <2> QED BY <2>1, <2>2 DEF Step, TablesMove
<1>2. ASSUME NEW x \in Price, charges'[x] # Nothing PROVE Made(charges[x].product)'
  <2>1. CASE charges[x] # Nothing
    <3>1. charges[x] \in Charges
      BY <2>1 DEF PlanInv, Typed, TypeOK
    <3>2. charges[x].product \in Product /\ charges'[x].product = charges[x].product
      BY <2>1, <3>1 DEF Charges, Step, Mild
    <3> QED BY <2>1, <3>2 DEF PlanInv, RowsRefer, Made, Step, Mild
  <2> QED BY <1>2, <2>1 DEF Step, TablesMove
<1>3. ASSUME NEW x \in Product, products'[x] # Nothing PROVE Known(products[x].plan)'
  <2>1. CASE products[x] # Nothing
    <3>1. products[x] \in Products
      BY <2>1 DEF PlanInv, Typed, TypeOK
    <3>2. products[x].plan \in Plan \cup {None} /\ products'[x].plan = products[x].plan
      BY <2>1, <3>1 DEF Products, Step, Mild
    <3> QED BY <2>1, <3>2 DEF PlanInv, RowsRefer, Known, Step, Mild
  <2> QED BY <1>3, <2>1 DEF Step, TablesMove
<1> QED BY <1>1, <1>2, <1>3 DEF RowsRefer

LEMMA RowsAreAskedKept == ASSUME PlanInv, NEW H \in SUBSET Handler, Step(H) PROVE RowsAreAsked'
BY DEF PlanInv, RowsAreAsked, Step, TablesMove, Mild, Excused

LEMMA RowsAreChargedKept == ASSUME PlanInv, NEW H \in SUBSET Handler, Step(H) PROVE RowsAreCharged'
<1> SUFFICES ASSUME NEW p \in Plan, NEW i \in Interval, p \notin offline',
                    prices'[p][i].status = "active", prices'[p][i].price # None
             PROVE Charged(prices[p][i].price, prices[p][i].amount, i)'
  BY DEF RowsAreCharged
<1>1. prices'[p] = prices[p]
  BY Records DEF Step, TablesMove
<1>2. prices[p][i].price \in Price /\ charges[prices[p][i].price] # Nothing
  BY <1>1, RowTyped DEF PlanInv, RowsRefer, Offered
<1> QED BY <1>1, <1>2 DEF PlanInv, RowsAreCharged, Charged, Step, Mild

LEMMA RowsAreNamedKept == ASSUME PlanInv, NEW H \in SUBSET Handler, Step(H) PROVE RowsAreNamed'
<1> SUFFICES ASSUME NEW p \in Plan, NEW i \in Interval, ~ Excused(p)', p \notin offline' \cup shared',
                    prices'[p][i].status = "active", prices'[p][i].price # None,
                    products'[prices'[p][i].product].plan = p
             PROVE \/ products'[prices'[p][i].product].name = plans'[p].name
                   \/ \E h \in Handler : Renames(handlers[h], prices[p][i].product, p)'
  BY DEF RowsAreNamed
<1> DEFINE x == prices[p][i].product
<1>1. prices'[p] = prices[p]
  BY Records DEF Step, TablesMove
<1>2. x \in Product /\ products[x] # Nothing /\ Exists(p)
  BY <1>1, RowTyped DEF PlanInv, RowsRefer, Made
<1>3. products[x].plan = p /\ products'[x].plan = p
  BY <1>1, <1>2 DEF Step, Mild
<1>4. p \notin crossed' /\ p \notin lost' /\ p \notin crossed /\ p \notin lost /\ p \notin offline
        /\ p \notin shared' /\ p \notin shared
  BY DEF Excused, Step, Mild
<1>5. Exists(p)'
  BY <1>1, <1>2, RowTyped, Records DEF Step, Typed, TypeOK
<1>6. CASE plans'[p].name # plans[p].name
  <2>1. PICK h \in H : /\ handlers'[h].plan = p /\ handlers'[h].name = plans'[p].name
                       /\ handlers'[h].pc = "list"
    BY <1>2, <1>5, <1>6 DEF Step, TablesMove
  <2> QED BY <2>1 DEF Renames
<1>7. CASE plans'[p].name = plans[p].name
  <2>1. CASE products[x].name = plans[p].name
    BY <1>1, <1>2, <1>3, <1>4, <1>7, <2>1 DEF Step, Mild
  <2>2. CASE \E g \in Handler : Renames(handlers[g], x, p)
    <3>1. PICK g \in Handler : Renames(handlers[g], x, p)
      BY <2>2
    <3>2. CASE g \in H
      BY <1>1, <1>2, <1>4, <3>1, <3>2 DEF Step, Moves, HandsOver, Renames
    <3>3. CASE g \notin H
      <4>1. Same(handlers[g], handlers'[g])
        BY <3>3 DEF Step, Moves, Overtaken
      <4>2. Renames(handlers[g], prices[p][i].product, p)'
        BY <1>1, <1>7, <3>1, <4>1 DEF Renames, Same
      <4> QED BY <4>2
    <3> QED BY <3>2, <3>3
  <2>3. products[x].name = plans[p].name \/ \E g \in Handler : Renames(handlers[g], x, p)
    BY <1>1, <1>3, <1>4 DEF PlanInv, RowsAreNamed, Excused
  <2> QED BY <2>1, <2>2, <2>3
<1> QED BY <1>6, <1>7

LEMMA OneProductKept == ASSUME PlanInv, NEW H \in SUBSET Handler, Step(H) PROVE OneProduct'
<1> SUFFICES ASSUME NEW p \in Plan, NEW i \in Interval, ~ Excused(p)'
             PROVE /\ Exists(p)' => \A x \in Product :
                        For(x, p, i)' => Held(x, p, i)' \/ prices'[p][i].product = x
                   /\ \A x, y \in Product :
                        For(x, p, i)' /\ For(y, p, i)' /\ ~ Held(x, p, i)' /\ ~ Held(y, p, i)' => x = y
  BY DEF OneProduct
<1>1. ~ Excused(p) /\ p \notin lost'
  BY DEF Excused, Step, Mild
<1>2. ASSUME NEW x \in Product, Held(x, p, i) PROVE Held(x, p, i)'
  <2>1. PICK g \in Handler : Holds(handlers[g], x, p, i)
    BY <1>2 DEF Held
  <2>2. Holds(handlers'[g], x, p, i)
    <3>1. CASE g \in H
      BY <1>1, <2>1, <3>1 DEF Step, Moves, HandsOver
    <3>2. CASE g \notin H
      BY <2>1, <3>2 DEF Step, Moves, Overtaken, Same, Holds
    <3> QED BY <3>1, <3>2
  <2> QED BY <2>2 DEF Held, Holds
<1>3. ASSUME NEW x \in Product, For(x, p, i)', ~ Held(x, p, i)' PROVE For(x, p, i) /\ ~ Held(x, p, i)
  <2>1. CASE products[x] # Nothing
    BY <1>2, <1>3, <2>1 DEF For, Step, Mild
  <2>2. CASE products[x] = Nothing
    BY <1>3, <2>2 DEF For, Held, Holds, Step, TablesMove
  <2> QED BY <2>1, <2>2
<1>4. ASSUME Exists(p)', NEW x \in Product, For(x, p, i)', ~ Held(x, p, i)'
      PROVE prices'[p][i].product = x
  <2>1. For(x, p, i) /\ ~ Held(x, p, i)
    BY <1>3, <1>4
  <2>2. plans[p] # NoPlan
    BY <2>1 DEF For, PlanInv, RowsRefer, Known
  <2>3. Exists(p) /\ prices'[p] = prices[p]
    BY <1>4, <2>2 DEF Step, TablesMove
  <2> QED BY <1>1, <2>1, <2>3 DEF PlanInv, OneProduct
<1>5. \A x, y \in Product :
          For(x, p, i)' /\ For(y, p, i)' /\ ~ Held(x, p, i)' /\ ~ Held(y, p, i)' => x = y
  BY <1>1, <1>3 DEF PlanInv, OneProduct
<1> QED BY <1>4, <1>5

LEMMA RowsAreTheirsKept == ASSUME PlanInv, NEW H \in SUBSET Handler, Step(H) PROVE RowsAreTheirs'
<1> SUFFICES ASSUME NEW p \in Plan, NEW i \in Interval, prices'[p][i].product # None, connected' # None,
                    p \notin crossed' \cup moved' \cup strayed'
             PROVE products'[prices'[p][i].product].account = connected'
  BY DEF RowsAreTheirs
<1> DEFINE x == prices[p][i].product
<1>1. prices'[p] = prices[p]
  BY Records DEF Step, TablesMove
<1>2. x \in Product /\ products[x] # Nothing
  BY <1>1, RowTyped DEF PlanInv, RowsRefer, Made
<1>3. products'[x].account = products[x].account
  BY <1>2 DEF Step, Mild
<1>4. p \notin crossed \cup moved \cup strayed /\ p \in Plan \ moved'
  BY DEF Step, Mild
<1>5. CASE connected' = connected
  <2>1. products[x].account = connected
    BY <1>1, <1>2, <1>4, <1>5 DEF PlanInv, RowsAreTheirs
  <2> QED BY <1>1, <1>3, <1>5, <2>1
<1>6. CASE connected' # connected
  <2>1. products[x].account = connected'
    BY <1>2, <1>4, <1>6 DEF Step, TablesMove
  <2> QED BY <1>1, <1>3, <2>1
<1> QED BY <1>5, <1>6

LEMMA StepKeeps == ASSUME PlanInv, NEW H \in SUBSET Handler, Step(H) PROVE PlanInv'
BY GoodKept, RowsReferKept, RowsAreAskedKept, RowsAreChargedKept, RowsAreNamedKept, OneProductKept, RowsAreTheirsKept
   DEF PlanInv, Step
---------------------------------------------------------------------------
LEMMA TypedOK == \A r \in Requests : FieldsFit(r) => HandlerOK(r)
BY DEF Requests, FieldsFit, HandlerOK

LEMMA LeftTyped == ASSUME TypeOK, NEW kind \in Kinds, Spend(kind) PROVE left' \in [Kinds -> Nat]
<1>1. left \in [Kinds -> Nat] /\ left[kind] \in Nat
  BY DEF TypeOK
<1> QED BY <1>1 DEF Spend

(* Which account a call reaches, and the history of it. *)
LEMMA ReachesTyped ==
  ASSUME PlanInv, NEW own, NEW c, NEW p \in Plan, Reaches(own, c, p)
  PROVE /\ left' \in [Kinds -> Nat] /\ strayed \subseteq strayed' /\ strayed' \subseteq Plan
        /\ c = own \/ p \in strayed'
<1>1. TypeOK
  BY DEF PlanInv, Typed
<1>2. CASE c = own
  BY <1>1, <1>2 DEF Reaches, TypeOK
<1>3. CASE c # own
  BY <1>1, <1>3, LeftTyped DEF Reaches, TypeOK, Kinds
<1> QED BY <1>2, <1>3

LEMMA MovedTyped ==
  ASSUME PlanInv, NEW h \in Handler, NEW n \in Requests, Goto(h, n)
  PROVE /\ handlers' \in [Handler -> Requests] /\ handlers'[h] = n
        /\ \A g \in Handler \ {h} : handlers'[g] = handlers[g]
BY DEF PlanInv, Typed, Goto

(* The types of what counts, and of the histories that no request reads. *)
Aside ==
    /\ left' \in [Kinds -> Nat] /\ swept' \in BOOLEAN /\ chosen' \in Plan \cup {None}
    /\ lost' \subseteq Plan /\ offline' \subseteq Plan /\ strayed' \subseteq Plan

LEMMA RequestGood ==
  ASSUME PlanInv, NEW h \in Handler PROVE handlers[h] \in Requests /\ Good(handlers[h])
BY DEF PlanInv, Typed

(* A step that moves one request and writes nothing that another one reads. *)
LEMMA Quiet ==
  ASSUME PlanInv, NEW h \in Handler, NEW n \in Requests, Goto(h, n), Good(n),
         HandsOver(handlers[h], n), Aside,
         UNCHANGED <<plans, prices, active, connected, stripe, asked, crossed, shared, moved>>,
         lost \subseteq lost', offline \subseteq offline', strayed \subseteq strayed'
  PROVE PlanInv'
<1>1. /\ handlers' \in [Handler -> Requests] /\ handlers'[h] = n
      /\ \A g \in Handler \ {h} : handlers'[g] = handlers[g]
  BY MovedTyped
<1>2. Typed'
  <2>1. \A g \in Handler : HandlerOK(handlers'[g])
    BY <1>1, TypedOK DEF PlanInv, Typed, TypeOK, Good
  <2>2. TypeOK'
    BY <2>1 DEF PlanInv, Typed, TypeOK, Aside, stripe, Exists, HandlerOK
  <2> QED BY <1>1, <2>2 DEF PlanInv, Typed
<1>3. Mild
  BY DEF Mild, stripe
<1>4. \A g \in Handler \ {h} : Overtaken(handlers[g], handlers'[g])
  BY <1>1 DEF Overtaken, Same, Untouched, Exists
<1>5. Good(n)'
  BY DEF Good, FieldsFit, Refers, NameStands, RowStands, ListStands, Owns, Pushed, NamePushed, Reached,
         ClearerKnows, Made, Offered, Known, Fresh, Exists, Own, Charged, stripe
<1>6. Good(handlers[h])'
  <2> SUFFICES ASSUME NEW m, m = handlers'[h] PROVE Good(handlers[h])'
    OBVIOUS
  <2>1. Good(m)'
    BY <1>1, <1>5
  <2> QED BY <2>1
<1>7. TablesMove({h})
  BY DEF TablesMove, stripe, Exists
<1>8. Step({h})
  BY <1>1, <1>2, <1>3, <1>4, <1>6, <1>7 DEF Step, Moves
<1> QED BY <1>8, StepKeeps

LEMMA LetsGo ==
  ASSUME NEW r, NEW n, r.pc \notin {"price", "store", "list", "rename"} PROVE HandsOver(r, n)
BY DEF HandsOver, Holds, Renames

(* A request that leaves a plan on the way makes it excused. *)
LEMMA Leaves ==
  ASSUME NEW r \in Requests, NEW n, r.plan = None \/ r.plan \in lost' PROVE HandsOver(r, n)
BY DEF HandsOver, Holds, Renames, Requests

LEMMA QuietAside ==
  ASSUME PlanInv, UNCHANGED <<left, swept, chosen, lost, offline, strayed>> PROVE Aside
BY DEF PlanInv, Typed, TypeOK, Aside
---------------------------------------------------------------------------
(* The steps of PlansNext, one by one; first those that begin a request. *)
LEMMA IdleBegins ==
  ASSUME PlanInv, NEW h \in Handler, At(h, "idle"), left' \in [Kinds -> Nat], NEW n \in Requests, Goto(h, n),
         Good(n), UNCHANGED <<tables, stripe, histories>>
  PROVE PlanInv'
<1>1. Aside
  BY DEF PlanInv, Typed, TypeOK, Aside, tables, histories, excuses, accounts
<1>2. HandsOver(handlers[h], n)
  BY LetsGo DEF At
<1> QED BY <1>1, <1>2, Quiet DEF tables, histories, excuses, accounts

LEMMA BeginQuiet ==
  ASSUME PlanInv, NEW h \in Handler, NEW kind \in Kinds, Begin(h, kind), NEW n \in Requests, Goto(h, n),
         Good(n), UNCHANGED <<tables, stripe, histories>>
  PROVE PlanInv'
BY LeftTyped, IdleBegins DEF Begin, PlanInv, Typed

LEMMA PutPriceStep ==
  ASSUME PlanInv, NEW h \in Handler, NEW p \in Plan, NEW i \in Interval, NEW a \in Amount, NEW st \in Statuses,
         PutPrice(h, p, i, a, st)
  PROVE PlanInv'
<1> DEFINE n == [Idle EXCEPT !.pc = "row", !.op = "put", !.plan = p, !.interval = i,
                             !.amount = a, !.status = st, !.name = plans[p].name]
<1>1. plans[p] \in PlanRows /\ plans[p] # NoPlan
  BY Records DEF PutPrice, Exists, PlanInv, Typed, TypeOK
<1>2. n \in Requests
  BY <1>1 DEF Idle, Requests, PlanRows, Statuses
<1>3. Good(n)
  BY <1>1 DEF Idle, Good, FieldsFit, Refers, NameStands, RowStands, ListStands, Owns, Pushed, NamePushed,
         Reached,
         ClearerKnows, Working, Made, Offered, Known, Statuses, PlanRows
<1> QED BY <1>2, <1>3, BeginQuiet DEF PutPrice, Kinds

LEMMA SyncStep ==
  ASSUME PlanInv, NEW h \in Handler, SyncProductPlansToStripe(h) PROVE PlanInv'
<1> DEFINE n == [Idle EXCEPT !.pc = "next", !.op = "sync", !.account = connected, !.todo = Unsynced]
<1>1. ASSUME NEW x \in Unsynced
      PROVE /\ x \in Items /\ x.row = prices[x.plan][x.interval] /\ x.row.status = "active"
            /\ x.plan \in Plan /\ x.interval \in Interval
  <2>1. x.plan \in Plan /\ x.interval \in Interval /\ x.row = prices[x.plan][x.interval]
           /\ x.row.status = "active" /\ x \in [plan : Plan, interval : Interval, row : {x.row}]
    BY DEF Unsynced
  <2>2. x.row \in PriceRows
    BY <2>1, RowTyped
  <2> QED BY <2>1, <2>2 DEF Items
<1>2. n \in Requests
  <2>1. connected \in Account \cup {None}
    BY DEF PlanInv, Typed, TypeOK
  <2> QED BY <1>1, <2>1 DEF Idle, Requests, Statuses
<1>3. ASSUME NEW x \in Unsynced
      PROVE /\ Made(x.row.product) /\ Offered(x.row.price) /\ Known(x.plan)
            /\ x.row.price # None => x.row.product # None
            /\ Own(x.row.product, x.plan)
  <2>1. plans[x.plan].status \in Statuses
    BY <1>1, RowTyped DEF Exists
  <2>2. Known(x.plan)
    BY <2>1, Records DEF Known
  <2> QED BY <1>1, <2>2 DEF PlanInv, RowsRefer
<1>4. \A x, y \in Unsynced : x.plan = y.plan /\ x.interval = y.interval => x = y
  <2> SUFFICES ASSUME NEW x \in Unsynced, NEW y \in Unsynced, x.plan = y.plan, x.interval = y.interval
               PROVE x = y
    OBVIOUS
  <2>1. x \in Items /\ y \in Items /\ x.row = y.row
    BY <1>1
  <2> QED BY <2>1 DEF Items
<1>5. Good(n)
  <2> HIDE DEF Unsynced
  <2>1. ListStands(n) /\ Refers(n) /\ Owns(n)
    BY <1>1, <1>3, <1>4 DEF Idle, ListStands, Refers, Owns, Working, Made, Offered, Known
  <2>2. FieldsFit(n)
    BY <1>1 DEF Idle, FieldsFit, Working
  <2> QED BY <2>1, <2>2 DEF Idle, Good, NameStands, RowStands, Pushed, NamePushed, Reached, ClearerKnows,
         Working
<1> QED BY <1>2, <1>5, BeginQuiet DEF SyncProductPlansToStripe, Kinds

LEMMA ImportStep ==
  ASSUME PlanInv, NEW h \in Handler, NEW refs \in SUBSET Price, ImportStripeCatalog(h, refs)
  PROVE PlanInv'
<1> DEFINE n == [Idle EXCEPT !.pc = "import", !.op = "import", !.account = connected, !.todo = refs]
<1>0. left \in [Kinds -> Nat] /\ connected \in Account \cup {None}
  BY DEF PlanInv, Typed, TypeOK
<1>1. n \in Requests
  BY <1>0 DEF Idle, Requests, Statuses
<1>2. Good(n)
  BY DEF ImportStripeCatalog, Idle, Good, FieldsFit, Refers, NameStands, RowStands, ListStands, Owns, Pushed,
         NamePushed, Reached, ClearerKnows, Working, Made, Offered, Known, Statuses
<1>3. left' \in [Kinds -> Nat]
  <2>1. PICK strays \in {0, 1} :
            /\ left["catalog"] > 0 /\ strays <= left["strays"]
            /\ left' = [left EXCEPT !["catalog"] = @ - 1, !["strays"] = @ - strays]
    BY DEF ImportStripeCatalog
  <2>2. left["catalog"] \in Nat /\ left["strays"] \in Nat
    BY <1>0 DEF Kinds
  <2>3. left["catalog"] - 1 \in Nat /\ left["strays"] - strays \in Nat
    BY <2>1, <2>2
  <2> QED BY <1>0, <2>1, <2>3 DEF Kinds
<1> QED BY <1>1, <1>2, <1>3, IdleBegins DEF ImportStripeCatalog

LEMMA ChooseStep == ASSUME PlanInv, NEW h \in Handler, NEW p \in Plan, ChoosePlan(h, p) PROVE PlanInv'
<1> DEFINE n == [Idle EXCEPT !.pc = "activate", !.op = "choose", !.plan = p]
<1>1. n \in Requests
  BY DEF Idle, Requests, Statuses
<1>2. Good(n)
  BY Records DEF ChoosePlan, Exists, Idle, Good, FieldsFit, Refers, NameStands, RowStands, ListStands, Owns,
         Pushed, NamePushed, Reached, ClearerKnows, Working, Made, Offered, Known, Statuses
<1> QED BY <1>1, <1>2, BeginQuiet DEF ChoosePlan, Kinds

LEMMA DeleteStep == ASSUME PlanInv, NEW h \in Handler, NEW p \in Plan, DeletePlan(h, p) PROVE PlanInv'
<1> DEFINE n == [Idle EXCEPT !.pc = "active", !.op = "delete", !.plan = p]
<1>1. n \in Requests
  BY DEF Idle, Requests, Statuses
<1>2. Good(n)
  BY Records DEF DeletePlan, Exists, Idle, Good, FieldsFit, Refers, NameStands, RowStands, ListStands, Owns,
         Pushed, NamePushed, Reached, ClearerKnows, Working, Made, Offered, Known, Statuses
<1> QED BY <1>1, <1>2, BeginQuiet DEF DeletePlan, Kinds

(* A request ends, or has read what it needs for its next step. *)
LEMMA EndQuiet ==
  ASSUME PlanInv, NEW h \in Handler, Goto(h, Idle), HandsOver(handlers[h], Idle),
         UNCHANGED <<tables, stripe, left, asked, chosen, swept, crossed, shared, moved, strayed>>,
         lost' \in SUBSET Plan, lost \subseteq lost', offline' \in SUBSET Plan, offline \subseteq offline'
  PROVE PlanInv'
<1>1. Aside
  BY DEF PlanInv, Typed, TypeOK, Aside
<1> QED BY <1>1, IdleGood, IdleTyped, Quiet DEF tables

LEMMA FailsStep ==
  ASSUME PlanInv, NEW h \in Handler, Fails(h),
         UNCHANGED <<tables, stripe, left, asked, chosen, swept, crossed, offline, shared, moved, strayed>>
  PROVE PlanInv'
<1> DEFINE r == handlers[h]
           n == Failed(r)
<1>1. r \in Requests /\ Good(r)
  BY RequestGood
<1>2. lost' \subseteq Plan /\ lost \subseteq lost' /\ (r.plan = None \/ r.plan \in lost')
  BY <1>1 DEF Fails, Requests, PlanInv, Typed, TypeOK
<1>3. n \in Requests /\ Good(n)
  <2>1. CASE r.op # "create"
    BY <2>1, IdleGood, IdleTyped DEF Failed
  <2>2. CASE r.op = "create"
    <3>1. r.plan \in Plan /\ Known(r.plan)
      BY <1>1, <2>2 DEF Good, FieldsFit, Refers
    <3>2. n = [Idle EXCEPT !.pc = "undo", !.op = "create", !.plan = r.plan]
      BY <2>2 DEF Failed
    <3>3. n \in Requests
      BY <3>1, <3>2 DEF Idle, Requests, Statuses
    <3> HIDE DEF r, n
    <3>4. Good(n)
      BY <3>1, <3>2 DEF Idle, Good, FieldsFit, Refers, NameStands, RowStands, ListStands, Owns,
         Pushed, NamePushed, Reached, ClearerKnows, Working, Made, Offered, Known, Statuses
    <3> QED BY <3>3, <3>4
  <2> QED BY <2>1, <2>2
<1>4. Aside
  BY <1>2 DEF PlanInv, Typed, TypeOK, Aside, tables
<1>5. HandsOver(r, n)
  BY <1>1, <1>2, Leaves
<1>6. Goto(h, n)
  BY DEF Fails
<1> QED BY <1>2, <1>3, <1>4, <1>5, <1>6, Quiet DEF tables

LEMMA CrashStep == ASSUME PlanInv, NEW h \in Handler, Crash(h) PROVE PlanInv'
<1>1. handlers[h] \in Requests
  BY RequestGood
<1>2. lost' \subseteq Plan /\ lost \subseteq lost' /\ (handlers[h].plan = None \/ handlers[h].plan \in lost')
  BY <1>1 DEF Crash, Requests, PlanInv, Typed, TypeOK
<1>3. offline \subseteq Plan
  BY DEF PlanInv, Typed, TypeOK
<1> QED BY <1>1, <1>2, <1>3, Leaves, EndQuiet DEF Crash, accounts

LEMMA StandsStill ==
  ASSUME PlanInv, NEW h \in Handler, NEW n \in Requests, Goto(h, n), Good(n), HandsOver(handlers[h], n),
         UNCHANGED <<tables, stripe, left, histories>>
  PROVE PlanInv'
BY QuietAside, Quiet DEF tables, histories, excuses, accounts

LEMMA ReadPlanStep == ASSUME PlanInv, NEW h \in Handler, ReadPlan(h) PROVE PlanInv'
<1>1. CASE ~ Exists(handlers[h].plan)
  BY <1>1, FailsStep DEF ReadPlan, accounts
<1>2. CASE Exists(handlers[h].plan)
  <2>0. PICK r : r = handlers[h]
    OBVIOUS
  <2> DEFINE n == [r EXCEPT !.pc = "row", !.name = plans[r.plan].name]
  <2>1. r \in Requests /\ Good(r) /\ r.pc = "plan"
    BY <2>0, RequestGood DEF ReadPlan, At
  <2>2. plans[r.plan] \in PlanRows
    BY <1>2, <2>0, Records DEF PlanInv, Typed, TypeOK, Exists
  <2>3. n \in Requests
    BY <2>1, <2>2 DEF Requests, PlanRows
  <2>4. /\ n.pc = "row" /\ n.op = "create" /\ n.plan = r.plan /\ n.name = plans[r.plan].name
        /\ n.interval = r.interval /\ n.amount = r.amount /\ n.product = r.product /\ n.price = r.price
        /\ n.pushed = r.pushed /\ n.todo = r.todo /\ n.stale = r.stale /\ n.status = r.status
    BY <2>1 DEF Requests, Good, FieldsFit
  <2> HIDE DEF n
  <2>5. Good(n)
    BY <2>1, <2>2, <2>4 DEF Good, FieldsFit, Refers, NameStands, RowStands, ListStands, Owns,
         Pushed, NamePushed, Reached, ClearerKnows, Working, Made, Offered, Known, PlanRows
  <2>6. Goto(h, n)
    BY <1>2, <2>0 DEF ReadPlan, n
  <2>7. HandsOver(r, n)
    BY <2>1, LetsGo
  <2> QED BY <1>2, <2>0, <2>3, <2>5, <2>6, <2>7, StandsStill DEF ReadPlan, histories, excuses, accounts
<1> QED BY <1>1, <1>2

LEMMA ReadRowStep == ASSUME PlanInv, NEW h \in Handler, ReadRow(h) PROVE PlanInv'
<1>0. PICK r : r = handlers[h]
  OBVIOUS
<1> DEFINE row == prices[r.plan][r.interval]
           n == [r EXCEPT !.pc = "product", !.product = row.product, !.price = row.price]
<1>1. r \in Requests /\ Good(r) /\ r.pc = "row"
  BY <1>0, RequestGood DEF ReadRow, At
<1>2. /\ r.plan \in Plan /\ r.interval \in Interval /\ row.product \in Product \cup {None}
      /\ row.price \in Price \cup {None}
      /\ Made(row.product) /\ Offered(row.price) /\ Own(row.product, r.plan)
      /\ row.price # None => row.product # None
  <2>1. r.plan \in Plan /\ r.interval \in Interval
    BY <1>1 DEF Good, FieldsFit
  <2> QED BY <2>1, RowTyped DEF PlanInv, RowsRefer
<1> HIDE DEF row
<1>3. n \in Requests
  BY <1>1, <1>2 DEF Requests
<1>4. /\ n.pc = "product" /\ n.op = r.op /\ n.plan = r.plan /\ n.name = r.name
      /\ n.interval = r.interval /\ n.amount = r.amount /\ n.product = row.product /\ n.price = row.price
      /\ n.pushed = r.pushed /\ n.todo = r.todo /\ n.stale = r.stale /\ n.status = r.status
  BY <1>1 DEF Requests
<1> HIDE DEF n
<1>5. Good(n)
  <2>1. r.op \in {"put", "create"}
    BY <1>1 DEF Good, FieldsFit
  <2>2. FieldsFit(n)
    BY <1>1, <1>2, <1>4, <2>1 DEF Good, FieldsFit, Working
  <2>3. Refers(n)
    BY <1>1, <1>2, <1>4, <2>1 DEF Good, Refers
  <2>4. NameStands(n) /\ RowStands(n) /\ ListStands(n)
    BY <1>1, <1>2, <1>4, <2>1 DEF Good, NameStands, RowStands, ListStands, Fresh, row
  <2>5. Owns(n) /\ Pushed(n) /\ NamePushed(n) /\ Reached(n) /\ ClearerKnows(n)
    BY <1>1, <1>2, <1>4, <2>1 DEF Good, Owns, Pushed, NamePushed, Reached, ClearerKnows
  <2> QED BY <2>2, <2>3, <2>4, <2>5 DEF Good
<1>6. Goto(h, n)
  BY <1>0 DEF ReadRow, n, row
<1>7. HandsOver(r, n)
  BY <1>1, LetsGo
<1> QED BY <1>0, <1>3, <1>5, <1>6, <1>7, StandsStill DEF ReadRow

(* A request gives a product the name that it read from its plan. *)
LEMMA Renaming ==
  ASSUME PlanInv, NEW r \in Requests, NEW x \in Product, r.plan \in Plan, r.name \in Name,
         products[x] # Nothing, Own(x, r.plan), Fresh(r) => r.name = plans[r.plan].name,
         products' = [products EXCEPT ![x].name = r.name],
         crossed' = crossed \cup ({r.plan} \cap r.stale),
         strayed \subseteq strayed', UNCHANGED <<plans, prices, charges, lost, offline, shared, moved>>
  PROVE /\ Mild
        /\ products' \in [Product -> Products \cup {Nothing}] /\ crossed' \subseteq Plan
        /\ products'[x].name = r.name /\ products'[x].plan = products[x].plan
        /\ \A y \in Product : products'[y] # Nothing => products[y] # Nothing
<1>1. products \in [Product -> Products \cup {Nothing}] /\ crossed \subseteq Plan /\ products[x] \in Products
  BY DEF PlanInv, Typed, TypeOK
<1> DEFINE m == [products[x] EXCEPT !.name = r.name]
<1>2. m \in Products /\ m.name = r.name /\ m.plan = products[x].plan /\ m.interval = products[x].interval
         /\ m.account = products[x].account
  BY <1>1 DEF Products
<1>3. products' = [products EXCEPT ![x] = m]
  OBVIOUS
<1> HIDE DEF m
<1>4. /\ products'[x] = m /\ m # Nothing
      /\ \A y \in Product : y # x => products'[y] = products[y]
      /\ products' \in [Product -> Products \cup {Nothing}]
  BY <1>1, <1>2, <1>3, Records
<1>5. \/ products[x].plan \in crossed' \cup shared'
      \/ Exists(products[x].plan) => r.name = plans[products[x].plan].name
  BY DEF Own, Fresh, Exists
<1>6. Mild
  BY <1>2, <1>4, <1>5 DEF Mild
<1> QED BY <1>1, <1>2, <1>4, <1>6

(* A step of h alone, after which the tables are as they were. *)
LEMMA OthersStay ==
  ASSUME PlanInv, NEW h \in Handler, NEW n \in Requests, Goto(h, n), UNCHANGED <<plans, prices, active>>
  PROVE \A g \in Handler \ {h} : Overtaken(handlers[g], handlers'[g])
<1>1. \A g \in Handler \ {h} : handlers'[g] = handlers[g]
  BY MovedTyped
<1> QED BY <1>1 DEF Overtaken, Same, Untouched, Exists

LEMMA MoverMoves ==
  ASSUME PlanInv, NEW h \in Handler, NEW n \in Requests, handlers'[h] = n, Good(n)',
         HandsOver(handlers[h], n), \A g \in Handler \ {h} : Overtaken(handlers[g], handlers'[g])
  PROVE Moves({h})
<1>1. Good(handlers[h])'
  <2> SUFFICES ASSUME NEW m, m = handlers'[h] PROVE Good(handlers[h])'
    OBVIOUS
  <2>1. Good(m)'
    OBVIOUS
  <2> QED BY <2>1
<1> QED BY <1>1 DEF Moves

LEMMA EnsureProductStep == ASSUME PlanInv, NEW h \in Handler, EnsureProduct(h) PROVE PlanInv'
<1>0. PICK r : r = handlers[h]
  OBVIOUS
<1>1. r \in Requests /\ Good(r) /\ r.pc = "product"
  BY <1>0, RequestGood DEF EnsureProduct, At
<1>2. /\ r.plan \in Plan /\ r.interval \in Interval /\ r.name \in Name /\ ~ r.pushed
      /\ r.op \in {"put", "create", "sync"} /\ KeyOf(r) \in Account \cup {None}
  <2>1. connected \in Account \cup {None} /\ r.account \in Account \cup {None}
    BY <1>1 DEF PlanInv, Typed, TypeOK, Requests
  <2> QED BY <1>1, <2>1 DEF Good, FieldsFit, Pushed, Working, KeyOf
<1>3. CASE ~ Pushes(r) /\ Goto(h, [r EXCEPT !.pc = "store"]) /\ UNCHANGED <<products, crossed, strayed, left>>
  <2> DEFINE n == [r EXCEPT !.pc = "store"]
  <2>1. n \in Requests
    BY <1>1 DEF Requests
  <2>2. n.pc = "store" /\ n.op = r.op /\ n.plan = r.plan /\ n.name = r.name
      /\ n.interval = r.interval /\ n.amount = r.amount /\ n.product = r.product /\ n.price = r.price
      /\ n.pushed = r.pushed /\ n.todo = r.todo /\ n.stale = r.stale /\ n.status = r.status
    BY <1>1 DEF Requests
  <2> HIDE DEF n
  <2>3. r.op \in {"put", "create"}
    BY <1>2, <1>3 DEF Pushes
  <2>4. FieldsFit(n) /\ Refers(n)
    BY <1>1, <1>2, <2>2, <2>3 DEF Good, FieldsFit, Refers, Working
  <2>5. NameStands(n) /\ RowStands(n) /\ ListStands(n)
    BY <1>1, <1>2, <2>2, <2>3 DEF Good, NameStands, RowStands, ListStands, Fresh, Working
  <2>6. Owns(n) /\ Pushed(n) /\ NamePushed(n) /\ Reached(n) /\ ClearerKnows(n)
    BY <1>1, <1>2, <2>2, <2>3 DEF Good, Owns, Pushed, NamePushed, Reached, ClearerKnows, Working
  <2>7. HandsOver(r, n)
    BY <1>1, LetsGo
  <2>8. Goto(h, n)
    BY <1>3 DEF n
  <2> QED BY <1>0, <1>3, <2>1, <2>4, <2>5, <2>6, <2>7, <2>8, StandsStill
          DEF EnsureProduct, Good, stripe, histories, excuses, accounts
<1>k. PICK key : key = KeyOf(r)
  OBVIOUS
<1>4. ASSUME Pushes(r), r.product = None, NEW x \in Product, NEW c \in Account, IsNext(x, products),
             Reaches(key, c, r.plan), products' = [products EXCEPT ![x] = NewProduct(r, c)],
             Goto(h, [r EXCEPT !.pc = "price", !.account = key, !.product = x]), Crosses(h, r.plan)
      PROVE PlanInv'
  <2> DEFINE n == [r EXCEPT !.pc = "price", !.account = key, !.product = x]
             m == NewProduct(r, c)
  <2>1. n \in Requests
    BY <1>1, <1>2, <1>k DEF Requests
  <2>2. n.pc = "price" /\ n.op = r.op /\ n.plan = r.plan /\ n.name = r.name
      /\ n.interval = r.interval /\ n.amount = r.amount /\ n.product = x /\ n.price = r.price
      /\ n.pushed = r.pushed /\ n.todo = r.todo /\ n.stale = r.stale /\ n.status = r.status
      /\ n.account = key
    BY <1>1, <1>2, <1>k DEF Requests
  <2>3. m \in Products /\ m # Nothing /\ m.name = r.name /\ m.plan = r.plan /\ m.interval = r.interval
           /\ m.account = c
    BY <1>2, Records DEF Products, NewProduct
  <2>4. products' = [products EXCEPT ![x] = m] /\ Goto(h, n)
    BY <1>4
  <2> HIDE DEF n, m
  <2>5. products \in [Product -> Products \cup {Nothing}] /\ products[x] = Nothing
    BY <1>4 DEF IsNext, PlanInv, Typed, TypeOK
  <2>6. /\ products'[x] = m /\ \A y \in Product : y # x => products'[y] = products[y]
        /\ products' \in [Product -> Products \cup {Nothing}]
    BY <2>3, <2>4, <2>5
  <2>7. /\ handlers' \in [Handler -> Requests] /\ handlers'[h] = n
        /\ \A g \in Handler \ {h} : handlers'[g] = handlers[g]
    BY <2>1, <2>4, MovedTyped
  <2>8. /\ crossed' = crossed \cup ({r.plan} \cap r.stale) /\ crossed' \subseteq Plan
        /\ UNCHANGED <<plans, prices, active, connected, charges, asked, chosen, swept, lost, offline,
                       shared, moved>>
    BY <1>0, <1>2, <1>4 DEF EnsureProduct, Crosses, tables, PlanInv, Typed, TypeOK
  <2>r. left' \in [Kinds -> Nat] /\ strayed \subseteq strayed' /\ strayed' \subseteq Plan
           /\ (c = key \/ r.plan \in strayed')
    BY <1>2, <1>4, ReachesTyped
  <2>9. FieldsFit(n)
    BY <1>1, <1>2, <2>2 DEF Good, FieldsFit, Working
  <2>10. Typed'
    <3>1. \A g \in Handler : HandlerOK(handlers'[g])
      BY <2>1, <2>7, <2>9, TypedOK DEF PlanInv, Typed, TypeOK
    <3>2. TypeOK'
      BY <2>6, <2>8, <2>r, <3>1 DEF PlanInv, Typed, TypeOK, Exists, HandlerOK
    <3> QED BY <2>7, <2>8, <3>2 DEF PlanInv, Typed
  <2>11. Mild
    BY <2>5, <2>6, <2>8, <2>r DEF Mild
  <2>12. Good(n)'
    <3>1. Refers(n)'
      <4>1. \A y : Made(y) /\ y \in Product \cup {None} => Made(y)'
        BY <2>3, <2>6 DEF Made
      <4>2. r.op = "sync" => \A y \in r.todo : y.row.product \in Product \cup {None}
        BY <1>1 DEF Good, FieldsFit, Items, PriceRows
      <4>3. Made(x)' /\ Offered(r.price)' /\ Known(r.plan)'
        BY <1>1, <2>3, <2>6, <2>8 DEF Good, Refers, Made, Offered, Known
      <4>4. r.op = "sync" => \A y \in r.todo :
              Made(y.row.product)' /\ Offered(y.row.price)' /\ Known(y.plan)'
                 /\ (y.row.price # None => y.row.product # None)
        BY <1>1, <2>8, <4>1, <4>2 DEF Good, Refers, Offered, Known
      <4> QED BY <1>2, <2>2, <4>3, <4>4 DEF Refers, Made, Offered, Known
    <3>2. NameStands(n)' /\ ClearerKnows(n)'
      BY <1>1, <1>2, <2>2, <2>8 DEF Good, NameStands, ClearerKnows, Fresh, Exists
    <3>3. RowStands(n)'
      BY <1>1, <1>2, <1>4, <2>2, <2>8 DEF Good, RowStands, Fresh, Exists, Working
    <3>4. ListStands(n)'
      BY <1>1, <1>2, <2>2, <2>8 DEF Good, ListStands, Exists, Working
    <3>5. Owns(n)'
      <4>1. r.op = "sync" => \A y \in r.todo : y.row.product \in Product \cup {None} /\ Made(y.row.product)
        BY <1>1 DEF Good, FieldsFit, Refers, Items, PriceRows
      <4>2. r.op = "sync" => \A y \in r.todo : Own(y.row.product, y.plan)'
        BY <1>1, <2>5, <2>6, <2>8, <4>1 DEF Good, Owns, Own, Made
      <4> QED BY <1>2, <2>2, <2>3, <2>6, <4>2 DEF Owns, Own
    <3>6. Pushed(n)' /\ NamePushed(n)' /\ Reached(n)'
      BY <1>2, <2>2, <2>3, <2>6, <2>r DEF Pushed, NamePushed, Reached
    <3> QED BY <2>9, <3>1, <3>2, <3>3, <3>4, <3>5, <3>6 DEF Good, FieldsFit
  <2>13. TablesMove({h})
    <3>1. Known(r.plan)'
      BY <1>1, <2>8 DEF Good, Refers, Known
    <3>2. Known(products[x].plan)'
      BY <2>3, <2>6, <3>1 DEF Known
    <3>3. Holds(handlers'[h], x, products'[x].plan, products'[x].interval)
      BY <2>2, <2>3, <2>6, <2>7 DEF Holds
    <3> QED BY <2>6, <2>8, <3>2, <3>3 DEF TablesMove, Exists
  <2>14. Moves({h})
    <3>1. HandsOver(r, n)
      BY <1>1, LetsGo
    <3> QED BY <1>0, <2>1, <2>4, <2>7, <2>8, <2>12, <3>1, OthersStay, MoverMoves
  <2> QED BY <2>10, <2>11, <2>13, <2>14, StepKeeps DEF Step
<1>5. CASE Pushes(r) /\ r.product # None /\ products' = [products EXCEPT ![r.product].name = r.name]
             /\ Reaches(key, products[r.product].account, r.plan)
             /\ Goto(h, [r EXCEPT !.pc = "price", !.account = key]) /\ Crosses(h, r.plan)
  <2> DEFINE n == [r EXCEPT !.pc = "price", !.account = key]
  <2>1. n \in Requests
    BY <1>1, <1>2, <1>k DEF Requests
  <2>2. n.pc = "price" /\ n.op = r.op /\ n.plan = r.plan /\ n.name = r.name
      /\ n.interval = r.interval /\ n.amount = r.amount /\ n.product = r.product /\ n.price = r.price
      /\ n.pushed = r.pushed /\ n.todo = r.todo /\ n.stale = r.stale /\ n.status = r.status
      /\ n.account = key
    BY <1>1, <1>2, <1>k DEF Requests
  <2> HIDE DEF n
  <2>3. r.product \in Product /\ products[r.product] # Nothing /\ Own(r.product, r.plan)
    BY <1>1, <1>2, <1>5 DEF Requests, Good, Refers, Made, Owns, Working
  <2>4. /\ crossed' = crossed \cup ({r.plan} \cap r.stale)
        /\ UNCHANGED <<plans, prices, active, connected, charges, asked, chosen, swept, lost, offline,
                       shared, moved>>
    BY <1>0, <1>2, <1>5 DEF EnsureProduct, Crosses, tables
  <2>r. left' \in [Kinds -> Nat] /\ strayed \subseteq strayed' /\ strayed' \subseteq Plan
           /\ (products[r.product].account = key \/ r.plan \in strayed')
    BY <1>2, <1>5, ReachesTyped
  <2>5. Fresh(r) => r.name = plans[r.plan].name
    BY <1>1 DEF Good, NameStands
  <2>6. /\ Mild
        /\ products' \in [Product -> Products \cup {Nothing}] /\ crossed' \subseteq Plan
        /\ products'[r.product].name = r.name /\ products'[r.product].plan = products[r.product].plan
        /\ \A y \in Product : products'[y] # Nothing => products[y] # Nothing
    BY <1>1, <1>2, <1>5, <2>3, <2>4, <2>5, <2>r, Renaming
  <2>7. /\ handlers' \in [Handler -> Requests] /\ handlers'[h] = n
        /\ \A g \in Handler \ {h} : handlers'[g] = handlers[g]
    BY <1>5, <2>1, MovedTyped DEF n
  <2>9. FieldsFit(n)
    BY <1>1, <1>2, <1>5, <2>2 DEF Good, FieldsFit, Working
  <2>10. Typed'
    <3>1. \A g \in Handler : HandlerOK(handlers'[g])
      BY <2>1, <2>7, <2>9, TypedOK DEF PlanInv, Typed, TypeOK
    <3>2. TypeOK'
      BY <2>4, <2>6, <2>r, <3>1 DEF PlanInv, Typed, TypeOK, Exists, HandlerOK
    <3> QED BY <2>4, <2>7, <3>2 DEF PlanInv, Typed
  <2>12. Good(n)'
    <3>0. Good(r)'
      <4>1. active' = active /\ \A p \in Plan : Untouched(p)
        BY <2>4 DEF Untouched, Exists
      <4>2. Overtaken(r, r)
        BY <2>4, <4>1 DEF Overtaken, Same
      <4> QED BY <1>1, <2>6, <4>2, Keeps
    <3>1. Refers(n)' /\ NameStands(n)' /\ ClearerKnows(n)'
      BY <1>1, <1>2, <2>2, <3>0 DEF Good, Refers, NameStands, ClearerKnows, Fresh
    <3>2. RowStands(n)' /\ ListStands(n)' /\ Owns(n)'
      BY <1>1, <1>2, <2>2, <3>0 DEF Good, RowStands, ListStands, Owns, Fresh, Working
    <3>3. Pushed(n)' /\ NamePushed(n)' /\ Reached(n)'
      <4>1. products'[r.product].account = products[r.product].account
        BY <2>3, <2>6 DEF Mild
      <4> QED BY <1>2, <2>2, <2>6, <2>r, <4>1 DEF Pushed, NamePushed, Reached
    <3> QED BY <2>9, <3>1, <3>2, <3>3 DEF Good, FieldsFit
  <2>13. TablesMove({h})
    BY <2>4, <2>6 DEF TablesMove, Exists
  <2>14. Moves({h})
    <3>1. HandsOver(r, n)
      BY <1>1, LetsGo
    <3> QED BY <1>0, <1>5, <2>1, <2>4, <2>7, <2>12, <3>1, OthersStay, MoverMoves DEF n
  <2> QED BY <2>6, <2>10, <2>13, <2>14, StepKeeps DEF Step
<1> QED BY <1>0, <1>k, <1>3, <1>4, <1>5 DEF EnsureProduct

LEMMA EnsurePriceStep == ASSUME PlanInv, NEW h \in Handler, EnsurePrice(h) PROVE PlanInv'
<1>0. PICK r : r = handlers[h]
  OBVIOUS
<1>1. r \in Requests /\ Good(r) /\ r.pc = "price"
  BY <1>0, RequestGood DEF EnsurePrice, At
<1>2. /\ r.plan \in Plan /\ r.interval \in Interval /\ r.amount \in Amount /\ r.name \in Name
      /\ r.op \in {"put", "create", "sync"} /\ r.product \in Product /\ Made(r.product) /\ ~ r.pushed
  BY <1>1 DEF Good, Pushed, FieldsFit, Refers, Requests, Working
<1>a. left' \in [Kinds -> Nat] /\ strayed \subseteq strayed' /\ strayed' \subseteq Plan
  <2>1. Reaches(r.account, products[r.product].account, r.plan)
    BY <1>0 DEF EnsurePrice
  <2> QED BY <1>2, <2>1, ReachesTyped
<1>3. ASSUME NEW x \in Price, NEW n, n = [r EXCEPT !.pc = "store", !.price = x, !.pushed = TRUE],
             Offered(x), Charged(x, r.amount, r.interval)
      PROVE /\ n \in Requests /\ Good(n)
            /\ n.price = x /\ HandsOver(r, n)
  <2>1. n \in Requests
    BY <1>1, <1>3 DEF Requests
  <2>2. /\ n.pc = "store" /\ n.op = r.op /\ n.plan = r.plan /\ n.name = r.name
        /\ n.interval = r.interval /\ n.amount = r.amount /\ n.product = r.product /\ n.price = x
        /\ n.pushed = TRUE /\ n.todo = r.todo /\ n.stale = r.stale /\ n.status = r.status /\ n.account = r.account
    BY <1>1, <1>3 DEF Requests
  <2>3. FieldsFit(n) /\ Refers(n)
    BY <1>1, <1>2, <1>3, <2>2 DEF Good, FieldsFit, Refers, Working
  <2>4. NameStands(n) /\ RowStands(n) /\ ListStands(n)
    BY <1>1, <1>2, <2>2 DEF Good, NameStands, RowStands, ListStands, Fresh, Working
  <2>5. Owns(n) /\ Pushed(n) /\ NamePushed(n) /\ Reached(n) /\ ClearerKnows(n)
    BY <1>1, <1>2, <1>3, <2>2 DEF Good, Owns, Pushed, NamePushed, Reached, ClearerKnows, Working, Charged, Fresh
  <2>6. HandsOver(r, n)
    BY <1>1, <2>2 DEF HandsOver, Holds, Renames
  <2> QED BY <2>1, <2>2, <2>3, <2>4, <2>5, <2>6 DEF Good
<1>4. CASE Reusable(r) /\ Goto(h, [r EXCEPT !.pc = "store", !.pushed = TRUE]) /\ UNCHANGED charges
  <2> DEFINE n == [r EXCEPT !.pc = "store", !.price = r.price, !.pushed = TRUE]
  <2>1. r.price \in Price /\ Offered(r.price) /\ Charged(r.price, r.amount, r.interval)
    BY <1>1, <1>4 DEF Reusable, Requests, Good, Refers, Charged
  <2>2. n = [r EXCEPT !.pc = "store", !.pushed = TRUE]
    BY <1>1 DEF Requests
  <2>3. Goto(h, n)
    BY <1>4, <2>2
  <2>4. n \in Requests /\ Good(n) /\ HandsOver(r, n)
    BY <1>3, <2>1
  <2> HIDE DEF n
  <2>5. UNCHANGED <<plans, prices, active, connected, stripe, asked, chosen, swept, crossed, lost,
                    offline, shared, moved>>
    BY <1>4 DEF EnsurePrice, tables, stripe
  <2>6. Aside
    BY <1>a, <2>5 DEF Aside, PlanInv, Typed, TypeOK
  <2> QED BY <1>0, <1>a, <2>3, <2>4, <2>5, <2>6, Quiet
<1>5. ASSUME NEW x \in Price, IsNext(x, charges),
             charges' = [charges EXCEPT ![x] = [product |-> r.product, interval |-> r.interval,
                                                amount |-> r.amount, active |-> TRUE]],
             Goto(h, [r EXCEPT !.pc = "store", !.price = x, !.pushed = TRUE])
      PROVE PlanInv'
  <2> DEFINE n == [r EXCEPT !.pc = "store", !.price = x, !.pushed = TRUE]
             m == [product |-> r.product, interval |-> r.interval, amount |-> r.amount, active |-> TRUE]
  <2>1. n \in Requests
    BY <1>1 DEF Requests
  <2>2. /\ n.pc = "store" /\ n.op = r.op /\ n.plan = r.plan /\ n.name = r.name
        /\ n.interval = r.interval /\ n.amount = r.amount /\ n.product = r.product /\ n.price = x
        /\ n.pushed = TRUE /\ n.todo = r.todo /\ n.stale = r.stale /\ n.status = r.status /\ n.account = r.account
    BY <1>1 DEF Requests
  <2>3. m \in Charges /\ m # Nothing /\ m.product = r.product /\ m.amount = r.amount /\ m.interval = r.interval
    BY <1>2, Records DEF Charges
  <2>4. charges' = [charges EXCEPT ![x] = m] /\ Goto(h, n)
    BY <1>5
  <2> HIDE DEF n, m
  <2>5. charges \in [Price -> Charges \cup {Nothing}] /\ charges[x] = Nothing
    BY <1>5 DEF IsNext, PlanInv, Typed, TypeOK
  <2>6. /\ charges'[x] = m /\ \A y \in Price : y # x => charges'[y] = charges[y]
        /\ charges' \in [Price -> Charges \cup {Nothing}]
    BY <2>3, <2>4, <2>5
  <2>7. /\ handlers' \in [Handler -> Requests] /\ handlers'[h] = n
        /\ \A g \in Handler \ {h} : handlers'[g] = handlers[g]
    BY <2>1, <2>4, MovedTyped
  <2>8. UNCHANGED <<plans, prices, active, connected, products, asked, chosen, swept, lost, offline,
                    crossed, shared, moved>>
    BY DEF EnsurePrice, tables, histories, excuses, accounts
  <2>9. FieldsFit(n)
    BY <1>1, <1>2, <2>2 DEF Good, FieldsFit, Working
  <2>10. Typed'
    <3>1. \A g \in Handler : HandlerOK(handlers'[g])
      BY <2>1, <2>7, <2>9, TypedOK DEF PlanInv, Typed, TypeOK
    <3>2. TypeOK'
      BY <1>a, <2>6, <2>8, <3>1 DEF PlanInv, Typed, TypeOK, Exists, HandlerOK
    <3> QED BY <2>7, <2>8, <3>2 DEF PlanInv, Typed
  <2>11. Mild
    BY <1>a, <2>5, <2>6, <2>8 DEF Mild
  <2>12. Good(n)'
    <3>0. Good(r)'
      <4>1. active' = active /\ \A p \in Plan : Untouched(p)
        BY <2>8 DEF Untouched, Exists
      <4>2. Overtaken(r, r)
        BY <2>8, <4>1 DEF Overtaken, Same
      <4> QED BY <1>1, <2>11, <4>2, Keeps
    <3>1. Refers(n)' /\ NameStands(n)' /\ ClearerKnows(n)'
      BY <1>1, <1>2, <2>2, <2>3, <2>6, <3>0 DEF Good, Refers, Offered, NameStands, ClearerKnows, Fresh
    <3>2. RowStands(n)' /\ ListStands(n)' /\ Owns(n)'
      BY <1>1, <1>2, <2>2, <3>0 DEF Good, RowStands, ListStands, Owns, Fresh, Working
    <3>3. Pushed(n)' /\ NamePushed(n)' /\ Reached(n)'
      BY <1>1, <1>2, <2>2, <2>3, <2>6, <3>0 DEF Good, Pushed, NamePushed, Reached, Charged, Fresh
    <3> QED BY <2>9, <3>1, <3>2, <3>3 DEF Good, FieldsFit
  <2>13. TablesMove({h})
    <3>1. Made(charges[x].product)'
      BY <1>2, <2>3, <2>6, <2>8 DEF Made
    <3> QED BY <2>6, <2>8, <3>1 DEF TablesMove, Exists
  <2>14. Moves({h})
    <3>1. HandsOver(r, n)
      BY <1>1, <2>2 DEF HandsOver, Holds, Renames
    <3> QED BY <1>0, <2>1, <2>4, <2>7, <2>8, <2>12, <3>1, OthersStay, MoverMoves
  <2> QED BY <2>10, <2>11, <2>13, <2>14, StepKeeps DEF Step
<1> QED BY <1>0, <1>4, <1>5 DEF EnsurePrice

(* The plan's row and prices go, and the choice of it. *)
LEMMA EraseStep ==
  ASSUME PlanInv, NEW h \in Handler, At(h, "undo") \/ At(h, "delete"), Erase(handlers[h].plan), Goto(h, Idle),
         UNCHANGED <<connected, stripe, left, asked, excuses>>
  PROVE PlanInv'
<1>0. PICK r : r = handlers[h]
  OBVIOUS
<1>1. r \in Requests /\ r.pc \in {"undo", "delete"} /\ r.plan \in Plan
  BY <1>0, RequestGood DEF Good, FieldsFit, At
<1> DEFINE p == r.plan
<1>2. /\ plans' = [plans EXCEPT ![p] = Gone]
      /\ prices' = [prices EXCEPT ![p] = [i \in Interval |-> NoPrice]]
      /\ active' = (IF active = p THEN None ELSE active) /\ chosen' = (IF chosen = p THEN None ELSE chosen)
      /\ UNCHANGED <<connected, products, charges, left, asked, swept, crossed, lost, offline, shared,
                     moved, strayed>>
  BY <1>0 DEF Erase, stripe, excuses, accounts
<1>3. /\ handlers' \in [Handler -> Requests] /\ handlers'[h] = Idle
      /\ \A g \in Handler \ {h} : handlers'[g] = handlers[g]
  BY IdleTyped, MovedTyped
<1>4. /\ plans \in [Plan -> PlanRows \cup {NoPlan, Gone}]
      /\ prices \in [Plan -> [Interval -> PriceRows \cup {NoPrice}]]
  BY DEF PlanInv, Typed, TypeOK
<1>5. /\ plans' \in [Plan -> PlanRows \cup {NoPlan, Gone}]
      /\ prices' \in [Plan -> [Interval -> PriceRows \cup {NoPrice}]]
      /\ plans'[p] = Gone /\ \A q \in Plan \ {p} : plans'[q] = plans[q] /\ prices'[q] = prices[q]
      /\ \A i \in Interval : prices'[p][i] = NoPrice
  BY <1>1, <1>2, <1>4
<1>6. ~ Exists(p)' /\ \A q \in Plan \ {p} : Exists(q)' <=> Exists(q)
  BY <1>5, Records DEF Exists
<1>7. Typed'
  <2>1. \A g \in Handler : HandlerOK(handlers'[g])
    <3>1. HandlerOK(Idle)
      BY IdleTyped, IdleGood, TypedOK DEF Good
    <3> QED BY <1>3, <3>1 DEF PlanInv, Typed, TypeOK
  <2>2. active' \in Plan \cup {None} /\ (active' # None => Exists(active)')
    <3>1. active \in Plan \cup {None} /\ (active # None => Exists(active))
      BY DEF PlanInv, Typed, TypeOK
    <3> QED BY <1>2, <1>5, <3>1 DEF Exists
  <2>3. \A q \in Plan, i \in Interval : prices'[q][i] # NoPrice => Exists(q)'
    BY <1>5, <1>6 DEF PlanInv, Typed, TypeOK
  <2>4. TypeOK'
    BY <1>2, <1>5, <2>1, <2>2, <2>3 DEF PlanInv, Typed, TypeOK, HandlerOK
  <2> QED BY <1>2, <1>3, <2>4 DEF PlanInv, Typed
<1>8. Mild
  BY <1>2, <1>5, Records DEF Mild
<1>9. \A g \in Handler \ {h} : Overtaken(handlers[g], handlers'[g])
  BY <1>2, <1>3, <1>5, <1>6 DEF Overtaken, Same, Untouched
<1>10. TablesMove({h})
  BY <1>2, <1>5, <1>6, Records DEF TablesMove
<1>11. Moves({h})
  <2>1. Good(Idle)'
    BY IdleGood DEF Idle, Good, FieldsFit, Refers, NameStands, RowStands, ListStands, Owns, Pushed,
                    NamePushed, Reached, ClearerKnows, Working, Made, Offered, Known, Statuses
  <2>2. HandsOver(r, Idle)
    BY <1>1, LetsGo
  <2> QED BY <1>0, <1>3, <1>9, <2>1, <2>2, IdleTyped, MoverMoves
<1> QED BY <1>7, <1>8, <1>10, <1>11, StepKeeps DEF Step

LEMMA OvertakeMoves ==
  ASSUME PlanInv, NEW h \in Handler, NEW p \in Plan, NEW n \in Requests, Overtake(h, p, n)
  PROVE /\ handlers' \in [Handler -> Requests] /\ handlers'[h] = n
        /\ \A g \in Handler \ {h} :
              IF Busy(g) THEN Same(handlers[g], handlers'[g]) /\ p \in handlers'[g].stale
              ELSE handlers'[g] = handlers[g]
<1>1. handlers' = [g \in Handler |-> IF g = h THEN n
                     ELSE IF Busy(g) THEN [handlers[g] EXCEPT !.stale = @ \cup {p}] ELSE handlers[g]]
  BY DEF Overtake
<1>2. ASSUME NEW m \in Requests
      PROVE /\ [m EXCEPT !.stale = @ \cup {p}] \in Requests
            /\ Same(m, [m EXCEPT !.stale = @ \cup {p}]) /\ p \in [m EXCEPT !.stale = @ \cup {p}].stale
  BY DEF Requests, Same
<1>3. handlers \in [Handler -> Requests]
  BY DEF PlanInv, Typed
<1> QED BY <1>1, <1>2, <1>3

LEMMA OvertakeOvertakes ==
  ASSUME PlanInv, NEW h \in Handler, NEW p \in Plan, NEW n \in Requests, Overtake(h, p, n),
         \A q \in Plan : q # p => Untouched(q), active' \in {None, active, p}
  PROVE \A g \in Handler \ {h} : Overtaken(handlers[g], handlers'[g])
<1> SUFFICES ASSUME NEW g \in Handler \ {h} PROVE Overtaken(handlers[g], handlers'[g])
  OBVIOUS
<1>1. IF Busy(g) THEN Same(handlers[g], handlers'[g]) /\ p \in handlers'[g].stale
      ELSE handlers'[g] = handlers[g]
  BY OvertakeMoves
<1>2. CASE ~ Busy(g)
  BY <1>1, <1>2 DEF Overtaken, Busy, At, Same
<1>3. CASE Busy(g)
  BY <1>1, <1>3 DEF Overtaken, Busy, At
<1> QED BY <1>2, <1>3

(* The row of a price is written: what was asked, what is charged and what it is called. *)
LEMMA StoreStep ==
  ASSUME PlanInv, NEW h \in Handler, NEW r, r = handlers[h], StorePrice(h), Storable(r)
  PROVE PlanInv'
<1>1. r \in Requests /\ Good(r) /\ r.pc = "store"
  BY RequestGood DEF StorePrice, At
<1>2. /\ r.plan \in Plan /\ r.interval \in Interval /\ r.amount \in Amount /\ r.status \in Statuses
      /\ r.product \in Product \cup {None} /\ r.price \in Price \cup {None} /\ Made(r.product) /\ Offered(r.price)
      /\ r.op \in {"put", "create", "sync", "import"} /\ (r.price # None => r.product # None) /\ Exists(r.plan)
      /\ r.stale \subseteq Plan
  BY <1>1 DEF Good, FieldsFit, Refers, Requests, Working, Storable
<1> DEFINE p == r.plan
           i == r.interval
           row == [amount |-> r.amount, status |-> r.status, product |-> r.product, price |-> r.price]
           n == After(r)
           past == IF r.op = "import" THEN {products[r.product].plan} \ {None} ELSE {}
<1>3. /\ prices' = [prices EXCEPT ![p][i] = row]
      /\ asked' = IF r.op = "sync" THEN asked ELSE [asked EXCEPT ![p][i] = <<r.amount, r.status>>]
      /\ offline' = IF r.status = "active" /\ r.price # None /\ ~r.pushed THEN offline \cup {p} ELSE offline
      /\ crossed' = crossed \cup ({p} \cap r.stale) /\ shared' = shared \cup past
      /\ moved' = IF r.pushed /\ r.account # connected THEN moved \cup {p} ELSE moved
      /\ strayed' = IF r.op = "import" /\ products[r.product].account # r.account
                    THEN strayed \cup {p} ELSE strayed
      /\ Overtake(h, p, n)
      /\ UNCHANGED <<plans, active, connected, products, charges, left, chosen, swept, lost>>
  BY DEF StorePrice, Crosses, stripe
<1>4. n \in Requests /\ n.stale \subseteq r.stale /\ n.pc \in {"next", "import", "idle"} /\ n.plan = None
      /\ (n = Idle \/ (n.op = r.op /\ n.todo = r.todo /\ n.status = r.status /\ n.stale = r.stale /\ n.name = r.name
                       /\ n.product = r.product /\ n.price = r.price /\ n.pushed = FALSE
                       /\ n.pc = (IF r.op = "sync" THEN "next" ELSE "import")
                       /\ r.op \in {"sync", "import"}))
  <2>1. CASE r.op = "sync"
    <3>1. n = [r EXCEPT !.pc = "next", !.plan = None, !.pushed = FALSE]
      BY <2>1 DEF After
    <3> QED BY <1>1, <2>1, <3>1 DEF Requests
  <2>2. CASE r.op = "import"
    <3>1. n = [r EXCEPT !.pc = "import", !.plan = None, !.pushed = FALSE]
      BY <2>2 DEF After
    <3> QED BY <1>1, <2>2, <3>1 DEF Requests
  <2>3. CASE r.op \notin {"sync", "import"}
    <3>1. n = Idle
      BY <2>3 DEF After
    <3> QED BY <3>1, IdleTyped DEF Idle
  <2> QED BY <2>1, <2>2, <2>3
<1>5. row \in PriceRows /\ row # NoPrice /\ row.amount = r.amount /\ row.status = r.status
         /\ row.product = r.product /\ row.price = r.price
  BY <1>2, Records DEF PriceRows
<1> HIDE DEF n, row
<1>6. /\ prices \in [Plan -> [Interval -> PriceRows \cup {NoPrice}]]
      /\ handlers \in [Handler -> Requests] /\ products \in [Product -> Products \cup {Nothing}]
      /\ asked \in [Plan -> [Interval -> (Amount \cup {None}) \X (Statuses \cup {"none"})]]
      /\ crossed \subseteq Plan /\ offline \subseteq Plan /\ lost \subseteq Plan
      /\ shared \subseteq Plan /\ moved \subseteq Plan /\ strayed \subseteq Plan
  BY DEF PlanInv, Typed, TypeOK
<1>7. /\ prices' \in [Plan -> [Interval -> PriceRows \cup {NoPrice}]]
      /\ prices'[p][i] = row
      /\ \A q \in Plan, j \in Interval : q # p \/ j # i => prices'[q][j] = prices[q][j]
      /\ \A q \in Plan : q # p => prices'[q] = prices[q]
  BY <1>2, <1>3, <1>5, <1>6
<1>8. /\ asked' \in [Plan -> [Interval -> (Amount \cup {None}) \X (Statuses \cup {"none"})]]
      /\ r.op # "sync" => asked'[p][i] = <<r.amount, r.status>>
      /\ r.op = "sync" => asked' = asked
      /\ \A q \in Plan, j \in Interval : q # p \/ j # i => asked'[q][j] = asked[q][j]
  BY <1>2, <1>3, <1>6
<1>9. /\ past \subseteq Plan /\ crossed' \subseteq Plan /\ offline' \subseteq Plan
      /\ shared' \subseteq Plan /\ moved' \subseteq Plan /\ strayed' \subseteq Plan
  <2>1. r.op = "import" => products[r.product] \in Products
    BY <1>1, <1>2, <1>6 DEF Good, Owns, Made
  <2>2. past \subseteq Plan
    BY <2>1 DEF Products
  <2> QED BY <1>2, <1>3, <1>6, <2>2
<1>10. /\ handlers' \in [Handler -> Requests] /\ handlers'[h] = n
       /\ \A g \in Handler \ {h} :
             IF Busy(g) THEN Same(handlers[g], handlers'[g]) /\ p \in handlers'[g].stale
             ELSE handlers'[g] = handlers[g]
  BY <1>2, <1>3, <1>4, OvertakeMoves
<1>11. \A g \in Handler \ {h} : Overtaken(handlers[g], handlers'[g])
  <2>1. \A q \in Plan : q # p => Untouched(q)
    BY <1>3, <1>7 DEF Untouched, Exists
  <2> QED BY <1>2, <1>3, <1>4, <2>1, OvertakeOvertakes
<1>12. Mild
  BY <1>3 DEF Mild
<1>13. Good(n)'
  <2>1. FieldsFit(n)
    BY <1>1, <1>4, IdleGood DEF Good, FieldsFit, Working
  <2>2. Refers(n)'
    BY <1>1, <1>3, <1>4 DEF Idle, Good, Refers, Made, Offered, Known
  <2>3. NameStands(n)' /\ RowStands(n)' /\ Pushed(n)' /\ NamePushed(n)' /\ Reached(n)'
           /\ ClearerKnows(n)'
    BY <1>4 DEF Idle, NameStands, RowStands, Pushed, NamePushed, Reached, ClearerKnows, Working
  <2>4. ListStands(n)'
    <3>1. CASE n = Idle
      BY <3>1 DEF Idle, ListStands
    <3>2. CASE r.op = "sync"
      <4>1. \A x \in r.todo : x.plan \in Plan /\ x.interval \in Interval
        BY <1>1, <3>2 DEF Good, FieldsFit, Items
      <4> QED BY <1>1, <1>3, <1>4, <1>7, <3>2, <4>1 DEF Idle, Good, ListStands, Exists, Working
    <3> QED BY <1>4, <3>1, <3>2 DEF ListStands
  <2>5. Owns(n)'
    <3>1. n.pc \notin Working /\ n.op # "name"
      BY <1>4 DEF Idle, Working
    <3>2. n.op = "sync" => r.op = "sync" /\ n.todo = r.todo
      BY <1>4 DEF Idle
    <3>3. r.op = "sync" => \A x \in r.todo : Own(x.row.product, x.plan)'
      BY <1>1, <1>3 DEF Good, Owns, Own
    <3> QED BY <3>1, <3>2, <3>3 DEF Owns, Working
  <2> QED BY <2>1, <2>2, <2>3, <2>4, <2>5 DEF Good, FieldsFit
<1>14. ASSUME NEW g \in Handler PROVE Good(handlers[g])'
  <2> SUFFICES ASSUME NEW a, NEW b, a = handlers[g], b = handlers'[g] PROVE Good(handlers[g])'
    OBVIOUS
  <2>1. a \in Requests /\ b \in Requests /\ Good(a) /\ (g # h => Overtaken(a, b)) /\ (g = h => b = n)
    BY <1>10, <1>11, RequestGood
  <2>2. CASE g = h
    <3>1. PICK m : m = n
      OBVIOUS
    <3>2. Good(b)'
      BY <1>13, <2>1, <2>2
    <3> QED BY <3>2
  <2>3. CASE g # h
    <3>1. Good(b)'
      BY <1>12, <2>1, <2>3, Keeps
    <3> QED BY <3>1
  <2> QED BY <2>2, <2>3
<1>15. Typed'
  <2>1. \A g \in Handler : HandlerOK(handlers'[g])
    BY <1>10, <1>14, TypedOK DEF Good, FieldsFit
  <2>2. \A q \in Plan, j \in Interval : prices'[q][j] # NoPrice => Exists(q)'
    BY <1>2, <1>3, <1>7 DEF PlanInv, Typed, TypeOK, Exists
  <2>3. TypeOK'
    BY <1>3, <1>7, <1>9, <2>1, <2>2 DEF PlanInv, Typed, TypeOK, Exists, HandlerOK
  <2> QED BY <1>8, <1>10, <2>3 DEF Typed
<1>16. RowsRefer'
  <2>1. Own(r.product, p)'
    BY <1>1, <1>2, <1>3 DEF Good, Owns, Own, Working
  <2>2. \A q \in Plan, j \in Interval :
          /\ Made(prices[q][j].product)' /\ Offered(prices[q][j].price)'
          /\ prices'[q][j].price # None => prices'[q][j].product # None
          /\ Own(prices[q][j].product, q)'
    <3> SUFFICES ASSUME NEW q \in Plan, NEW j \in Interval
                 PROVE /\ Made(prices[q][j].product)' /\ Offered(prices[q][j].price)'
                       /\ prices'[q][j].price # None => prices'[q][j].product # None
                       /\ Own(prices[q][j].product, q)'
      OBVIOUS
    <3>1. CASE q = p /\ j = i
      <4>1. prices'[q][j] = row
        BY <1>7, <3>1
      <4>2. Made(r.product)' /\ Offered(r.price)'
        BY <1>2, <1>3 DEF Made, Offered
      <4> QED BY <1>2, <1>5, <2>1, <3>1, <4>1, <4>2 DEF Made, Offered, Own
    <3>2. CASE q # p \/ j # i
      <4>1. prices'[q][j] = prices[q][j]
        BY <1>7, <3>2
      <4>2. /\ Made(prices[q][j].product) /\ Offered(prices[q][j].price) /\ Own(prices[q][j].product, q)
            /\ prices[q][j].price # None => prices[q][j].product # None
        BY DEF PlanInv, RowsRefer
      <4>3. crossed \subseteq crossed' /\ shared \subseteq shared' /\ products' = products /\ charges' = charges
        BY <1>3
      <4> QED BY <4>1, <4>2, <4>3 DEF Made, Offered, Own
    <3> QED BY <3>1, <3>2
  <2> QED BY <1>3, <2>2 DEF PlanInv, RowsRefer, Made, Known
<1>17. RowsAreAsked'
  <2> SUFFICES ASSUME NEW q \in Plan, NEW j \in Interval, prices'[q][j] # NoPrice, ~ Excused(q)'
               PROVE asked'[q][j] = <<prices'[q][j].amount, prices'[q][j].status>>
    BY DEF RowsAreAsked
  <2>1. ~ Excused(q)
    BY <1>3 DEF Excused
  <2>2. CASE q # p \/ j # i
    BY <1>7, <1>8, <2>1, <2>2 DEF PlanInv, RowsAreAsked
  <2>3. CASE q = p /\ j = i /\ r.op # "sync"
    BY <1>5, <1>7, <1>8, <2>3
  <2>4. CASE q = p /\ j = i /\ r.op = "sync"
    <3>1. Fresh(r)
      BY <1>2, <1>3, <2>4 DEF Fresh, Excused
    <3>2. prices[p][i].amount = r.amount /\ prices[p][i].status = "active" /\ r.status = "active"
      BY <1>1, <2>4, <3>1 DEF Good, RowStands, FieldsFit, Working
    <3>3. prices[p][i] # NoPrice
      BY <3>2, Records
    <3> QED BY <1>2, <1>5, <1>7, <1>8, <2>1, <2>4, <3>2, <3>3 DEF PlanInv, RowsAreAsked
  <2> QED BY <2>2, <2>3, <2>4
<1>18. RowsAreCharged'
  <2>1. p \notin offline' /\ row.status = "active" /\ row.price # None => Charged(row.price, row.amount, i)
    BY <1>1, <1>3, <1>5 DEF Good, Pushed
  <2>2. ASSUME NEW q \in Plan, NEW j \in Interval, q \notin offline', prices'[q][j].status = "active",
               prices'[q][j].price # None
        PROVE Charged(prices'[q][j].price, prices'[q][j].amount, j)
    <3>1. CASE q = p /\ j = i
      BY <1>5, <1>7, <2>1, <2>2, <3>1
    <3>2. CASE q # p \/ j # i
      <4>1. prices'[q][j] = prices[q][j] /\ q \notin offline
        BY <1>3, <1>7, <2>2, <3>2
      <4> QED BY <2>2, <4>1 DEF PlanInv, RowsAreCharged
    <3> QED BY <3>1, <3>2
  <2> QED BY <1>3, <2>2 DEF RowsAreCharged, Charged
<1>19. RowsAreNamed'
  <2> SUFFICES ASSUME NEW q \in Plan, NEW j \in Interval, ~ Excused(q)', q \notin offline' \cup shared',
                      prices'[q][j].status = "active", prices'[q][j].price # None,
                      products[prices'[q][j].product].plan = q
               PROVE \/ products[prices'[q][j].product].name = plans[q].name
                     \/ \E g \in Handler : Renames(handlers[g], prices[q][j].product, q)'
    BY <1>3 DEF RowsAreNamed
  <2>1. ~ Excused(q) /\ q \notin offline \cup shared
    BY <1>3 DEF Excused
  <2>2. CASE q # p \/ j # i
    <3>1. prices'[q][j] = prices[q][j]
      BY <1>7, <2>2
    <3>2. CASE \E g \in Handler : Renames(handlers[g], prices[q][j].product, q)
      <4>1. PICK g \in Handler : Renames(handlers[g], prices[q][j].product, q)
        BY <3>2
      <4>2. g # h
        BY <1>1, <4>1 DEF Renames
      <4>3. Same(handlers[g], handlers'[g])
        BY <1>11, <4>2 DEF Overtaken
      <4>4. Renames(handlers[g], prices[q][j].product, q)'
        BY <1>3, <3>1, <4>1, <4>3 DEF Renames, Same
      <4> QED BY <4>4
    <3> QED BY <2>1, <3>1, <3>2 DEF PlanInv, RowsAreNamed
  <2>3. CASE q = p /\ j = i
    <3>1. Fresh(r) /\ p \notin crossed \cup shared
      BY <1>2, <1>3, <2>1, <2>3 DEF Fresh, Excused
    <3>2. r.pushed
      <4>1. prices'[q][j] = row
        BY <1>7, <2>3
      <4>2. r.status = "active" /\ r.price # None
        BY <1>5, <4>1
      <4> QED BY <1>3, <2>3, <4>2
    <3>3. products[r.product].plan = p
      BY <1>5, <1>7, <2>3
    <3>4. r.op # "import"
      BY <1>1, <3>3 DEF Good, Owns
    <3>5. products[r.product].name = r.name /\ r.name = plans[p].name
      BY <1>1, <3>1, <3>2, <3>3, <3>4 DEF Good, NamePushed, Reached, NameStands
    <3> QED BY <1>5, <1>7, <2>3, <3>5
  <2> QED BY <2>2, <2>3
<1>20. OneProduct'
  <2> SUFFICES ASSUME NEW q \in Plan, NEW j \in Interval, ~ Excused(q)'
               PROVE /\ Exists(q) => \A x \in Product :
                          For(x, q, j) => Held(x, q, j)' \/ prices'[q][j].product = x
                     /\ \A x, y \in Product :
                          For(x, q, j) /\ For(y, q, j) /\ ~ Held(x, q, j)' /\ ~ Held(y, q, j)' => x = y
    BY <1>3 DEF OneProduct, For, Exists
  <2>1. ~ Excused(q)
    BY <1>3 DEF Excused
  <2>2. ASSUME NEW x \in Product, Held(x, q, j), ~ Held(x, q, j)' PROVE q = p /\ j = i /\ x = r.product
    <3>1. PICK g \in Handler : Holds(handlers[g], x, q, j)
      BY <2>2 DEF Held
    <3>2. CASE g = h
      BY <3>1, <3>2 DEF Holds
    <3>3. CASE g # h
      BY <1>11, <2>2, <3>1, <3>3 DEF Overtaken, Same, Held, Holds
    <3> QED BY <3>2, <3>3
  <2>3. CASE q # p \/ j # i
    BY <1>7, <2>1, <2>2, <2>3 DEF PlanInv, OneProduct
  <2>4. CASE q = p /\ j = i
    <3>1. prices[p][i].product \in {None, r.product}
      BY <1>1, <1>2, <1>3, <2>4 DEF Good, RowStands, Fresh, Excused, Working
    <3>2. \A x \in Product : For(x, p, i) => Held(x, p, i)' \/ r.product = x
      BY <1>2, <2>1, <2>2, <2>4, <3>1 DEF PlanInv, OneProduct
    <3> QED BY <1>5, <1>7, <2>4, <3>2
  <2> QED BY <2>3, <2>4
<1>21. RowsAreTheirs'
  <2> SUFFICES ASSUME NEW q \in Plan, NEW j \in Interval, prices'[q][j].product # None, connected # None,
                      q \notin crossed' \cup moved' \cup strayed'
               PROVE products[prices'[q][j].product].account = connected
    BY <1>3 DEF RowsAreTheirs
  <2>1. q \notin crossed \cup moved \cup strayed
    BY <1>3
  <2>2. CASE q # p \/ j # i
    BY <1>7, <2>1, <2>2 DEF PlanInv, RowsAreTheirs
  <2>3. CASE q = p /\ j = i /\ r.pushed
    <3>1. prices'[q][j].product = r.product /\ r.product # None
      BY <1>5, <1>7, <2>3
    <3>2. r.account = connected
      BY <1>3, <2>3
    <3>3. products[r.product].account = r.account
      BY <1>1, <1>3, <2>1, <2>3, <3>1 DEF Good, Reached
    <3> QED BY <3>1, <3>2, <3>3
  <2>4. CASE q = p /\ j = i /\ ~ r.pushed
    <3>1. Fresh(r)
      BY <1>2, <1>3, <2>4 DEF Fresh
    <3>2. prices[p][i].product = r.product
      BY <1>1, <2>4, <3>1 DEF Good, RowStands, Working
    <3>3. prices'[q][j].product = prices[p][i].product
      BY <1>5, <1>7, <2>4, <3>2
    <3> QED BY <2>1, <2>4, <3>3 DEF PlanInv, RowsAreTheirs
  <2> QED BY <2>2, <2>3, <2>4
<1> QED BY <1>14, <1>15, <1>16, <1>17, <1>18, <1>19, <1>20, <1>21 DEF PlanInv

LEMMA StorePriceStep == ASSUME PlanInv, NEW h \in Handler, StorePrice(h) PROVE PlanInv'
<1>1. PICK r : r = handlers[h]
  OBVIOUS
<1>2. CASE Storable(r)
  BY <1>1, <1>2, StoreStep
<1>3. CASE ~ Storable(r)
  BY <1>1, <1>3, FailsStep DEF StorePrice, tables, accounts
<1> QED BY <1>2, <1>3

(* The steps that nobody is moved by. *)
LEMMA NobodyMoves ==
  ASSUME PlanInv, UNCHANGED handlers, \A p \in Plan : plans[p] # NoPlan => Untouched(p),
         active' \in {None, active}
  PROVE Moves({})
BY DEF Moves, Overtaken, Same

LEMMA ArchiveStep ==
  ASSUME PlanInv, NEW h \in Handler, NEW p \in Plan, NEW st \in Statuses, ArchivePlan(h, p, st) PROVE PlanInv'
<1>1. plans \in [Plan -> PlanRows \cup {NoPlan, Gone}] /\ plans[p] \in PlanRows
  BY Records DEF ArchivePlan, Exists, PlanInv, Typed, TypeOK
<1> DEFINE m == [plans[p] EXCEPT !.status = st]
<1>2. m \in PlanRows /\ m.name = plans[p].name /\ m.status = st
  BY <1>1 DEF PlanRows
<1>3. plans' = [plans EXCEPT ![p] = m]
  BY DEF ArchivePlan
<1> HIDE DEF m
<1>4. /\ plans' \in [Plan -> PlanRows \cup {NoPlan, Gone}] /\ plans'[p] = m
      /\ \A q \in Plan : q # p => plans'[q] = plans[q]
  BY <1>1, <1>2, <1>3
<1>5. \A q \in Plan : (Exists(q)' <=> Exists(q)) /\ plans'[q].name = plans[q].name
                       /\ (plans'[q] = NoPlan <=> plans[q] = NoPlan)
  BY <1>1, <1>2, <1>4, Records DEF Exists, ArchivePlan
<1>6. /\ UNCHANGED <<prices, active, connected, products, charges, handlers, asked, chosen, swept,
                     crossed, lost, offline, shared, moved, strayed>>
      /\ left' \in [Kinds -> Nat]
  BY LeftTyped DEF ArchivePlan, Begin, stripe, histories, excuses, accounts, PlanInv, Typed, Kinds
<1>7. Typed'
  <2>1. TypeOK'
    BY <1>4, <1>5, <1>6 DEF PlanInv, Typed, TypeOK, HandlerOK
  <2> QED BY <1>6, <2>1 DEF PlanInv, Typed
<1>8. Mild /\ TablesMove({}) /\ \A q \in Plan : Untouched(q)
  BY <1>5, <1>6 DEF Mild, TablesMove, Untouched
<1> QED BY <1>6, <1>7, <1>8, NobodyMoves, StepKeeps DEF Step

LEMMA ConnectStep ==
  ASSUME PlanInv, NEW h \in Handler, NEW account \in Account \cup {None}, Connect(h, account) PROVE PlanInv'
<1>1. /\ UNCHANGED <<plans, prices, active, products, charges, handlers, asked, chosen, swept, crossed,
                     lost, offline, shared, strayed>>
      /\ left' \in [Kinds -> Nat] /\ connected' = account /\ moved \subseteq moved' /\ moved' \subseteq Plan
  BY LeftTyped DEF Connect, Begin, stripe, histories, excuses, accounts, PlanInv, Typed, TypeOK, Kinds
<1>2. Typed'
  <2>1. TypeOK'
    BY <1>1 DEF PlanInv, Typed, TypeOK, HandlerOK, Exists
  <2> QED BY <1>1, <2>1 DEF PlanInv, Typed
<1>3. Mild /\ \A q \in Plan : Untouched(q)
  BY <1>1 DEF Mild, Untouched, Exists
<1>4. ASSUME account = None PROVE TablesMove({})
  BY <1>1, <1>4 DEF TablesMove, Exists
<1>5. ASSUME account # None PROVE TablesMove({})
  <2>1. \A p \in Plan \ moved', i \in Interval :
            prices[p][i].product # None => products[prices[p][i].product].account = connected'
    BY <1>1, <1>5 DEF Connect
  <2> QED BY <1>1, <2>1 DEF TablesMove, Exists
<1>6. TablesMove({})
  BY <1>4, <1>5
<1> QED BY <1>1, <1>2, <1>3, <1>6, NobodyMoves, StepKeeps DEF Step

LEMMA ClearChoiceStep == ASSUME PlanInv, NEW h \in Handler, ClearChoice(h) PROVE PlanInv'
<1>1. /\ UNCHANGED <<plans, prices, connected, products, charges, handlers, asked, swept, crossed,
                     lost, offline, shared, moved, strayed>>
      /\ left' \in [Kinds -> Nat] /\ active' = None /\ chosen' = None
  BY LeftTyped DEF ClearChoice, Begin, stripe, histories, excuses, accounts, PlanInv, Typed, TypeOK, Kinds
<1>2. Typed'
  <2>1. TypeOK'
    BY <1>1 DEF PlanInv, Typed, TypeOK, HandlerOK, Exists
  <2> QED BY <1>1, <2>1 DEF PlanInv, Typed
<1>3. Mild /\ TablesMove({}) /\ \A q \in Plan : Untouched(q)
  BY <1>1 DEF Mild, TablesMove, Untouched, Exists
<1> QED BY <1>1, <1>2, <1>3, NobodyMoves, StepKeeps DEF Step

LEMMA RetireStep == ASSUME PlanInv, NEW x \in Price, Retire(x) PROVE PlanInv'
<1>1. charges \in [Price -> Charges \cup {Nothing}] /\ charges[x] \in Charges
  BY DEF Retire, PlanInv, Typed, TypeOK
<1> DEFINE m == [charges[x] EXCEPT !.active = FALSE]
<1>2. /\ m \in Charges /\ m.product = charges[x].product /\ m.amount = charges[x].amount
      /\ m.interval = charges[x].interval
  BY <1>1 DEF Charges
<1>3. charges' = [charges EXCEPT ![x] = m]
  BY DEF Retire
<1> HIDE DEF m
<1>4. /\ charges' \in [Price -> Charges \cup {Nothing}] /\ charges'[x] = m /\ m # Nothing
      /\ \A y \in Price : y # x => charges'[y] = charges[y]
  BY <1>1, <1>2, <1>3, Records
<1>5. /\ UNCHANGED <<plans, prices, active, connected, products, handlers, asked, chosen, swept,
                     crossed, lost, offline, shared, moved, strayed>>
      /\ left' \in [Kinds -> Nat]
  BY LeftTyped DEF Retire, tables, histories, excuses, accounts, PlanInv, Typed, Kinds
<1>6. Typed'
  <2>1. TypeOK'
    BY <1>4, <1>5 DEF PlanInv, Typed, TypeOK, HandlerOK, Exists
  <2> QED BY <1>5, <2>1 DEF PlanInv, Typed
<1>7. Mild /\ TablesMove({}) /\ \A q \in Plan : Untouched(q)
  BY <1>1, <1>2, <1>4, <1>5, Records DEF Mild, TablesMove, Untouched, Exists, Retire
<1> QED BY <1>5, <1>6, <1>7, NobodyMoves, StepKeeps DEF Step

LEMMA IdleStaysGood == Good(Idle)'
BY IdleGood DEF Idle, Good, FieldsFit, Refers, NameStands, RowStands, ListStands, Owns, Pushed, NamePushed,
       Reached,
                ClearerKnows, Working, Made, Offered, Known, Statuses

(* A plan is renamed, and who wrote the name will write it to its products. *)
LEMMA RenameStep ==
  ASSUME PlanInv, NEW h \in Handler, NEW p \in Plan, NEW x \in Name, RenamePlan(h, p, x) PROVE PlanInv'
<1> DEFINE n == [Idle EXCEPT !.pc = "list", !.op = "name", !.plan = p, !.name = x]
           m == [plans[p] EXCEPT !.name = x]
<1>1. plans \in [Plan -> PlanRows \cup {NoPlan, Gone}] /\ plans[p] \in PlanRows
  BY Records DEF RenamePlan, Exists, PlanInv, Typed, TypeOK
<1>2. m \in PlanRows /\ m.name = x /\ m.status = plans[p].status
  BY <1>1 DEF PlanRows
<1>3. plans' = [plans EXCEPT ![p] = m] /\ Overtake(h, p, n)
  BY DEF RenamePlan
<1>4. n \in Requests
  BY DEF Idle, Requests, Statuses
<1>5. n.pc = "list" /\ n.op = "name" /\ n.plan = p /\ n.name = x /\ n.product = None /\ n.price = None
      /\ n.interval = None /\ n.amount = None /\ n.todo = {} /\ n.stale = {} /\ n.pushed = FALSE
  BY DEF Idle
<1> HIDE DEF n, m
<1>6. /\ plans' \in [Plan -> PlanRows \cup {NoPlan, Gone}] /\ plans'[p] = m
      /\ \A q \in Plan : q # p => plans'[q] = plans[q]
  BY <1>1, <1>2, <1>3
<1>7. /\ \A q \in Plan : (Exists(q)' <=> Exists(q)) /\ (plans'[q] = NoPlan <=> plans[q] = NoPlan)
      /\ plans'[p] # NoPlan
  BY <1>1, <1>2, <1>6, Records DEF Exists
<1>8. /\ UNCHANGED <<prices, active, connected, products, charges, asked, chosen, swept, crossed, lost,
                     offline, shared, moved, strayed>>
      /\ left' \in [Kinds -> Nat]
  BY LeftTyped DEF RenamePlan, Begin, stripe, histories, excuses, accounts, PlanInv, Typed, Kinds
<1>9. handlers' \in [Handler -> Requests] /\ handlers'[h] = n
      /\ \A g \in Handler \ {h} :
             IF Busy(g) THEN Same(handlers[g], handlers'[g]) /\ p \in handlers'[g].stale
             ELSE handlers'[g] = handlers[g]
  BY <1>3, <1>4, OvertakeMoves
<1>10. \A g \in Handler \ {h} : Overtaken(handlers[g], handlers'[g])
  <2>1. \A q \in Plan : q # p => Untouched(q)
    BY <1>6, <1>7, <1>8 DEF Untouched
  <2> QED BY <1>3, <1>4, <1>8, <2>1, OvertakeOvertakes
<1>11. Good(n)'
  BY <1>2, <1>5, <1>6, <1>7 DEF Good, FieldsFit, Refers, NameStands, RowStands, ListStands, Owns, Pushed,
         NamePushed, Reached, ClearerKnows, Working, Made, Offered, Known, Statuses
<1>12. Mild
  BY <1>7, <1>8 DEF Mild
<1>13. Moves({h})
  <2>1. HandsOver(handlers[h], n)
    BY LetsGo DEF RenamePlan, Begin, At
  <2> QED BY <1>4, <1>9, <1>10, <1>11, <2>1, MoverMoves
<1>14. TablesMove({h})
  BY <1>2, <1>5, <1>6, <1>7, <1>8, <1>9 DEF TablesMove
<1>15. Typed'
  <2>1. \A g \in Handler : HandlerOK(handlers'[g])
    <3> SUFFICES ASSUME NEW g \in Handler PROVE HandlerOK(handlers'[g])
      OBVIOUS
    <3>1. CASE g = h
      BY <1>4, <1>9, <1>11, <3>1, TypedOK DEF Good, FieldsFit
    <3>2. CASE g # h
      <4>1. Same(handlers[g], handlers'[g])
        BY <1>10, <3>2 DEF Overtaken
      <4>2. FieldsFit(handlers'[g]) \/ handlers'[g] = handlers[g]
        BY <1>9, <3>2, <4>1, RequestGood DEF Good, FieldsFit, Same, Busy, At
      <4> QED BY <1>9, <4>2, TypedOK, RequestGood DEF Good
    <3> QED BY <3>1, <3>2
  <2>2. TypeOK'
    BY <1>6, <1>7, <1>8, <2>1 DEF PlanInv, Typed, TypeOK, HandlerOK
  <2> QED BY <1>8, <1>9, <2>2 DEF PlanInv, Typed
<1> QED BY <1>12, <1>13, <1>14, <1>15, StepKeeps DEF Step

LEMMA OvertakenTyped ==
  ASSUME PlanInv, NEW g \in Handler, handlers' \in [Handler -> Requests], Overtaken(handlers[g], handlers'[g])
  PROVE HandlerOK(handlers'[g])
<1>1. Same(handlers[g], handlers'[g]) /\ (handlers[g].pc = "idle" => handlers'[g] = handlers[g])
  BY DEF Overtaken
<1>2. FieldsFit(handlers'[g])
  BY <1>1, RequestGood DEF Good, FieldsFit, Same
<1> QED BY <1>2, TypedOK

LEMMA StoreChoiceStep == ASSUME PlanInv, NEW h \in Handler, StoreChoice(h) PROVE PlanInv'
<1>0. PICK p : p = handlers[h].plan
  OBVIOUS
<1>1. p \in Plan /\ handlers[h].pc = "activate"
  BY <1>0, RequestGood DEF Good, FieldsFit, StoreChoice, At
<1>2. CASE ~ Exists(p)
  <2>1. HandsOver(handlers[h], Idle)
    BY <1>1, LetsGo
  <2> QED BY <1>0, <1>2, <2>1, EndQuiet DEF StoreChoice, tables, excuses, accounts, PlanInv, Typed, TypeOK
<1>3. CASE Exists(p)
  <2>1. /\ active' = p /\ chosen' = p /\ Overtake(h, p, Idle)
        /\ UNCHANGED <<plans, prices, connected, products, charges, left, asked, swept, crossed, lost,
                       offline, shared, moved, strayed>>
    BY <1>0, <1>3 DEF StoreChoice, stripe, excuses, accounts
  <2>2. handlers' \in [Handler -> Requests] /\ handlers'[h] = Idle
    BY <1>1, <2>1, IdleTyped, OvertakeMoves
  <2>3. \A q \in Plan : Untouched(q)
    BY <2>1 DEF Untouched, Exists
  <2>4. \A g \in Handler \ {h} : Overtaken(handlers[g], handlers'[g])
    BY <1>1, <2>1, <2>3, IdleTyped, OvertakeOvertakes
  <2>5. Moves({h})
    <3>1. HandsOver(handlers[h], Idle)
      BY <1>1, LetsGo
    <3> QED BY <2>2, <2>4, <3>1, IdleTyped, IdleStaysGood, MoverMoves
  <2>6. Mild /\ TablesMove({h})
    BY <2>1 DEF Mild, TablesMove, Exists
  <2>7. Typed'
    <3>1. \A g \in Handler : HandlerOK(handlers'[g])
      <4>1. HandlerOK(Idle)
        BY IdleTyped, IdleGood, TypedOK DEF Good
      <4> QED BY <2>2, <2>4, <4>1, OvertakenTyped
    <3>2. TypeOK'
      BY <1>1, <1>3, <2>1, <3>1 DEF PlanInv, Typed, TypeOK, HandlerOK, Exists
    <3> QED BY <2>1, <2>2, <3>2 DEF PlanInv, Typed
  <2> QED BY <2>5, <2>6, <2>7, StepKeeps DEF Step
<1> QED BY <1>2, <1>3

LEMMA ReadActiveStep == ASSUME PlanInv, NEW h \in Handler, ReadActive(h) PROVE PlanInv'
<1>0. PICK r : r = handlers[h]
  OBVIOUS
<1>1. r \in Requests /\ Good(r) /\ r.pc = "active"
  BY <1>0, RequestGood DEF ReadActive, At
<1>2. PICK c : c = IF active = r.plan THEN "clear" ELSE "delete"
  OBVIOUS
<1> DEFINE n == [r EXCEPT !.pc = c, !.stale = {}]
<1>9. c \in {"clear", "delete"}
  BY <1>2
<1>3. n \in Requests
  BY <1>1, <1>9 DEF Requests
<1>4. /\ n.pc = c /\ n.op = r.op /\ n.plan = r.plan /\ n.todo = r.todo /\ n.stale = {} /\ n.product = r.product
      /\ n.price = r.price
  BY <1>1 DEF Requests
<1> HIDE DEF n
<1>5. r.op = "delete" /\ r.plan \in Plan
  BY <1>1 DEF Good, FieldsFit
<1>6. Good(n)
  BY <1>1, <1>2, <1>4, <1>5 DEF Good, FieldsFit, Refers, NameStands, RowStands, ListStands, Owns, Pushed,
         NamePushed, Reached, ClearerKnows, Working
<1>7. HandsOver(r, n)
  BY <1>1, LetsGo
<1>8. Goto(h, n)
  BY <1>0, <1>2 DEF ReadActive, n
<1> QED BY <1>0, <1>3, <1>6, <1>7, <1>8, StandsStill DEF ReadActive

LEMMA ClearActiveStep == ASSUME PlanInv, NEW h \in Handler, ClearActive(h) PROVE PlanInv'
<1>0. PICK r : r = handlers[h]
  OBVIOUS
<1>1. r \in Requests /\ Good(r) /\ r.pc = "clear"
  BY <1>0, RequestGood DEF ClearActive, At
<1> DEFINE n == [r EXCEPT !.pc = "delete"]
<1>2. n \in Requests
  BY <1>1 DEF Requests
<1>3. /\ n.pc = "delete" /\ n.op = r.op /\ n.plan = r.plan /\ n.todo = r.todo /\ n.product = r.product
      /\ n.price = r.price
  BY <1>1 DEF Requests
<1> HIDE DEF n
<1>4. r.op = "delete" /\ r.plan \in Plan
  BY <1>1 DEF Good, FieldsFit
<1>5. /\ active' = None /\ chosen' \in {None, chosen} /\ swept' \in BOOLEAN /\ Goto(h, n)
      /\ UNCHANGED <<plans, prices, connected, products, charges, left, asked, crossed, lost, offline,
                     shared, moved, strayed>>
  BY <1>0 DEF ClearActive, n, stripe, accounts, PlanInv, Typed, TypeOK
<1>6. Good(n)'
  BY <1>1, <1>3, <1>4, <1>5 DEF Good, FieldsFit, Refers, NameStands, RowStands, ListStands, Owns, Pushed,
         NamePushed, Reached, ClearerKnows, Working, Made, Offered, Known
<1>7. /\ handlers' \in [Handler -> Requests] /\ handlers'[h] = n
      /\ \A g \in Handler \ {h} : handlers'[g] = handlers[g]
  BY <1>2, <1>5, MovedTyped
<1>8. \A g \in Handler \ {h} : Overtaken(handlers[g], handlers'[g])
  BY <1>5, <1>7 DEF Overtaken, Same, Untouched, Exists
<1>9. Moves({h})
  <2>1. HandsOver(r, n)
    BY <1>1, LetsGo
  <2> QED BY <1>0, <1>2, <1>6, <1>7, <1>8, <2>1, MoverMoves
<1>10. Mild /\ TablesMove({h})
  BY <1>5 DEF Mild, TablesMove, Exists
<1>11. Typed'
  <2>1. \A g \in Handler : HandlerOK(handlers'[g])
    <3>1. FieldsFit(n)
      BY <1>6 DEF Good, FieldsFit
    <3> QED BY <1>2, <1>7, <1>8, <3>1, TypedOK, OvertakenTyped
  <2>2. TypeOK'
    BY <1>5, <2>1 DEF PlanInv, Typed, TypeOK, HandlerOK, Exists
  <2> QED BY <1>5, <1>7, <2>2 DEF PlanInv, Typed
<1> QED BY <1>9, <1>10, <1>11, StepKeeps DEF Step

LEMMA NextUnsyncedStep == ASSUME PlanInv, NEW h \in Handler, NextUnsynced(h) PROVE PlanInv'
<1>0. PICK r : r = handlers[h]
  OBVIOUS
<1>1. r \in Requests /\ Good(r) /\ r.pc = "next" /\ r.op = "sync"
  BY <1>0, RequestGood DEF NextUnsynced, At, Good, FieldsFit
<1>2. \A n : HandsOver(r, n)
  BY <1>1, LetsGo
<1>3. ASSUME Goto(h, Idle) PROVE PlanInv'
  BY <1>0, <1>2, <1>3, IdleTyped, IdleGood, StandsStill DEF NextUnsynced
<1>4. ASSUME NEW x \in r.todo, Exists(x.plan), NEW n,
             n = [r EXCEPT !.pc = "product", !.todo = @ \ {x}, !.plan = x.plan,
                           !.interval = x.interval, !.amount = x.row.amount, !.name = plans[x.plan].name,
                           !.product = x.row.product, !.price = x.row.price],
             Goto(h, n)
      PROVE PlanInv'
  <2>1. r.todo \subseteq Items /\ x \in Items /\ r.status = "active" /\ ~ r.pushed
    BY <1>1 DEF Good, FieldsFit, Pushed
  <2>2. /\ x.plan \in Plan /\ x.interval \in Interval /\ x.row.amount \in Amount
        /\ x.row.product \in Product \cup {None} /\ x.row.price \in Price \cup {None}
        /\ plans[x.plan].name \in Name
    <3>1. x.plan \in Plan /\ x.interval \in Interval /\ x.row \in PriceRows
      BY <2>1 DEF Items
    <3>2. plans[x.plan] \in PlanRows
      BY <1>4, <3>1, Records DEF PlanInv, Typed, TypeOK, Exists
    <3> QED BY <3>1, <3>2 DEF PriceRows, PlanRows
  <2>3. n \in Requests
    BY <1>1, <1>4, <2>2 DEF Requests
  <2>4. /\ n.pc = "product" /\ n.op = "sync" /\ n.plan = x.plan /\ n.interval = x.interval
        /\ n.amount = x.row.amount /\ n.name = plans[x.plan].name /\ n.product = x.row.product
        /\ n.price = x.row.price /\ n.todo = r.todo \ {x} /\ n.stale = r.stale /\ n.pushed = r.pushed
        /\ n.status = r.status
    BY <1>1, <1>4 DEF Requests
  <2>5. FieldsFit(n) /\ Refers(n)
    BY <1>1, <2>1, <2>2, <2>4 DEF Good, FieldsFit, Refers, Working
  <2>6. RowStands(n) /\ NameStands(n)
    BY <1>1, <2>4 DEF Good, ListStands, RowStands, NameStands, Fresh
  <2>7. ListStands(n)
    BY <1>1, <2>4 DEF Good, ListStands
  <2>8. Owns(n) /\ Pushed(n) /\ NamePushed(n) /\ Reached(n) /\ ClearerKnows(n)
    BY <1>1, <2>1, <2>4 DEF Good, Owns, Pushed, NamePushed, Reached, ClearerKnows
  <2>9. Good(n)
    BY <2>5, <2>6, <2>7, <2>8 DEF Good
  <2> QED BY <1>0, <1>2, <1>4, <2>3, <2>9, StandsStill DEF NextUnsynced
<1> QED BY <1>0, <1>3, <1>4 DEF NextUnsynced

(* A plan that is new: nobody has read it yet. *)
LEMMA NewPlan ==
  ASSUME PlanInv, NEW p \in Plan, NEW x \in Name, plans[p] = NoPlan,
         plans' = [plans EXCEPT ![p] = [status |-> "active", name |-> x]],
         UNCHANGED <<prices, active, connected, stripe, histories>>
  PROVE /\ Mild /\ \A H : TablesMove(H)
        /\ plans' \in [Plan -> PlanRows \cup {NoPlan, Gone}]
        /\ \A q \in Plan : plans[q] # NoPlan => Untouched(q)
        /\ \A q \in Plan : plans[q] # NoPlan => plans'[q] = plans[q]
        /\ active' # None => Exists(active)'
        /\ \A q \in Plan, i \in Interval : prices'[q][i] # NoPrice => Exists(q)'
        /\ Exists(p)' /\ plans'[p] # NoPlan /\ \A i \in Interval : prices[p][i] = NoPrice
<1> DEFINE m == [status |-> "active", name |-> x]
<1>1. m \in PlanRows
  BY DEF PlanRows, Statuses
<1>2. plans \in [Plan -> PlanRows \cup {NoPlan, Gone}]
  BY DEF PlanInv, Typed, TypeOK
<1> HIDE DEF m
<1>3. /\ plans'[p] = m /\ \A q \in Plan : q # p => plans'[q] = plans[q]
      /\ plans' \in [Plan -> PlanRows \cup {NoPlan, Gone}]
  BY <1>1, <1>2 DEF m
<1>4. m # NoPlan /\ m.status \in Statuses /\ ~ Exists(p)
  BY <1>1, Records DEF Exists
<1>5. UNCHANGED <<prices, active, connected, products, charges, asked, chosen, swept, crossed, lost,
                  offline, shared, moved, strayed>>
  BY DEF stripe, histories, excuses, accounts
<1>6. Mild
  BY <1>3, <1>4, <1>5 DEF Mild, Exists
<1>7. \A H : TablesMove(H)
  BY <1>3, <1>4, <1>5 DEF TablesMove, Exists
<1>8. \A q \in Plan : plans[q] # NoPlan => Untouched(q)
  BY <1>3, <1>5 DEF Untouched, Exists
<1>9. \A i \in Interval : prices[p][i] = NoPrice
  BY <1>4, RowTyped
<1>10. /\ active' # None => Exists(active)'
       /\ \A q \in Plan, i \in Interval : prices'[q][i] # NoPrice => Exists(q)'
  <2>1. /\ active # None => active \in Plan /\ Exists(active)
        /\ \A q \in Plan, i \in Interval : prices[q][i] # NoPrice => Exists(q)
    BY DEF PlanInv, Typed, TypeOK
  <2> QED BY <1>3, <1>4, <1>5, <2>1 DEF Exists
<1> QED BY <1>3, <1>4, <1>6, <1>7, <1>8, <1>9, <1>10 DEF Exists

(* ... except for who makes it. *)
LEMMA NewPlanMade ==
  ASSUME PlanInv, NEW h \in Handler, NEW p \in Plan, NEW x \in Name, NEW n \in Requests, plans[p] = NoPlan,
         plans' = [plans EXCEPT ![p] = [status |-> "active", name |-> x]],
         UNCHANGED <<prices, active, connected, stripe, histories>>,
         left' \in [Kinds -> Nat], Goto(h, n), Good(n)', HandsOver(handlers[h], n)
  PROVE PlanInv'
<1>1. /\ handlers' \in [Handler -> Requests] /\ handlers'[h] = n
      /\ \A g \in Handler \ {h} : handlers'[g] = handlers[g]
  BY MovedTyped
<1>2. UNCHANGED <<prices, active, connected, products, charges, asked, chosen, swept, crossed, lost,
                  offline, shared, moved, strayed>>
  BY DEF stripe, histories, excuses, accounts
<1>3. \A g \in Handler \ {h} : Overtaken(handlers[g], handlers'[g])
  BY <1>1, <1>2, NewPlan DEF Overtaken, Same
<1>4. Typed'
  <2>1. \A g \in Handler : HandlerOK(handlers'[g])
    <3>1. FieldsFit(n)
      BY DEF Good, FieldsFit
    <3> QED BY <1>1, <1>3, <3>1, TypedOK, OvertakenTyped
  <2>2. /\ plans' \in [Plan -> PlanRows \cup {NoPlan, Gone}]
        /\ active' # None => Exists(active)'
        /\ \A q \in Plan, i \in Interval : prices'[q][i] # NoPrice => Exists(q)'
    BY NewPlan
  <2>3. TypeOK
    BY DEF PlanInv, Typed
  <2>4. TypeOK'
    BY <1>2, <2>1, <2>2, <2>3 DEF TypeOK, HandlerOK
  <2> QED BY <1>1, <1>2, <2>4 DEF PlanInv, Typed
<1>5. Moves({h})
  BY <1>1, <1>3, MoverMoves
<1> QED BY <1>4, <1>5, NewPlan, StepKeeps DEF Step

LEMMA CreateStep ==
  ASSUME PlanInv, NEW h \in Handler, NEW p \in Plan, NEW x \in Name, NEW i \in Interval, NEW a \in Amount,
         CreateProductPlan(h, p, x, i, a)
  PROVE PlanInv'
<1>1. /\ plans[p] = NoPlan /\ plans' = [plans EXCEPT ![p] = [status |-> "active", name |-> x]]
      /\ UNCHANGED <<prices, active, connected, stripe, histories>> /\ left' \in [Kinds -> Nat]
  BY LeftTyped DEF CreateProductPlan, Begin, PlanInv, Typed, Kinds
<1>2. CASE UNCHANGED handlers
  <2>1. UNCHANGED <<prices, active, connected, products, charges, asked, chosen, swept, crossed, lost,
                    offline, shared, moved, strayed>>
    BY <1>1 DEF stripe, histories, excuses, accounts
  <2>2. Typed'
    <3>1. /\ plans' \in [Plan -> PlanRows \cup {NoPlan, Gone}]
          /\ active' # None => Exists(active)'
          /\ \A q \in Plan, j \in Interval : prices'[q][j] # NoPrice => Exists(q)'
      BY <1>1, NewPlan
    <3>2. TypeOK
      BY DEF PlanInv, Typed
    <3>3. TypeOK'
      BY <1>1, <1>2, <2>1, <3>1, <3>2 DEF TypeOK, HandlerOK
    <3> QED BY <1>2, <2>1, <3>3 DEF PlanInv, Typed
  <2>3. Moves({})
    BY <1>1, <1>2, <2>1, NewPlan, NobodyMoves
  <2>4. Mild /\ TablesMove({})
    BY <1>1, NewPlan
  <2> QED BY <2>2, <2>3, <2>4, StepKeeps DEF Step
<1>3. ASSUME NEW n, n = [Idle EXCEPT !.pc = "plan", !.op = "create", !.plan = p, !.interval = i, !.amount = a],
             Goto(h, n)
      PROVE PlanInv'
  <2>1. n \in Requests
    BY <1>3 DEF Idle, Requests, Statuses
  <2>2. /\ n.pc = "plan" /\ n.op = "create" /\ n.plan = p /\ n.interval = i /\ n.amount = a /\ n.product = None
        /\ n.price = None /\ n.pushed = FALSE /\ n.todo = {}
    BY <1>3 DEF Idle
  <2>3. plans'[p] # NoPlan
    BY <1>1, NewPlan
  <2>4. Good(n)'
    BY <2>2, <2>3 DEF Good, FieldsFit, Refers, NameStands, RowStands, ListStands, Owns, Pushed,
         NamePushed, Reached, ClearerKnows, Working, Made, Offered, Known
  <2>5. HandsOver(handlers[h], n)
    BY LetsGo DEF CreateProductPlan, Begin, At
  <2> QED BY <1>1, <1>3, <2>1, <2>4, <2>5, NewPlanMade
<1> QED BY <1>2, <1>3 DEF CreateProductPlan

LEMMA ImportNextStep == ASSUME PlanInv, NEW h \in Handler, ImportNext(h) PROVE PlanInv'
<1>0. PICK r : r = handlers[h]
  OBVIOUS
<1>1. r \in Requests /\ Good(r) /\ r.pc = "import" /\ r.op = "import" /\ r.todo \subseteq Price /\ ~ r.pushed
  BY <1>0, RequestGood DEF ImportNext, At, Good, FieldsFit, Pushed
<1>2. \A n : HandsOver(r, n)
  BY <1>1, LetsGo
<1>3. CASE Goto(h, Idle) /\ UNCHANGED plans
  BY <1>0, <1>2, <1>3, IdleTyped, IdleGood, StandsStill DEF ImportNext, tables
<1>4. ASSUME NEW x \in r.todo, NEW n, n = [r EXCEPT !.todo = @ \ {x}], Goto(h, n), UNCHANGED plans
      PROVE PlanInv'
  <2>1. n \in Requests
    BY <1>1, <1>4 DEF Requests
  <2>2. /\ n.pc = "import" /\ n.op = "import" /\ n.plan = r.plan /\ n.interval = r.interval
        /\ n.amount = r.amount /\ n.name = r.name /\ n.product = r.product
        /\ n.price = r.price /\ n.todo = r.todo \ {x} /\ n.stale = r.stale /\ n.pushed = r.pushed
        /\ n.status = r.status
    BY <1>1, <1>4 DEF Requests
  <2>3. Good(n)
    BY <1>1, <2>2 DEF Good, FieldsFit, Refers, NameStands, RowStands, ListStands, Owns, Pushed,
         NamePushed, Reached, ClearerKnows, Working
  <2> QED BY <1>0, <1>2, <1>4, <2>1, <2>3, StandsStill DEF ImportNext, tables
<1>5. ASSUME NEW x \in r.todo, NEW p \in Plan, NEW y \in Name, plans[p] = NoPlan,
             plans' = [plans EXCEPT ![p] = [status |-> "active", name |-> y]], NEW n,
             n = [r EXCEPT !.pc = "store", !.todo = @ \ {x}, !.plan = p,
                        !.interval = charges[x].interval, !.amount = charges[x].amount,
                        !.product = charges[x].product, !.price = x, !.pushed = TRUE],
             Goto(h, n)
      PROVE PlanInv'
  <2>1. x \in Price /\ x # None /\ charges[x] # Nothing
    BY <1>1 DEF Good, Refers, Offered
  <2>2. charges[x].product \in Product /\ charges[x].interval \in Interval /\ charges[x].amount \in Amount
    <3>1. charges[x] \in Charges
      BY <2>1 DEF PlanInv, Typed, TypeOK
    <3> QED BY <3>1 DEF Charges
  <2>3. Made(charges[x].product) /\ products[charges[x].product] # Nothing
    BY <2>1, <2>2 DEF PlanInv, RowsRefer, Made
  <2>4. products[charges[x].product].plan # p
    BY <1>5, <2>2, <2>3 DEF PlanInv, RowsRefer, Known
  <2>5. n \in Requests
    BY <1>1, <1>5, <2>1, <2>2 DEF Requests
  <2>6. /\ n.pc = "store" /\ n.op = "import" /\ n.plan = p /\ n.interval = charges[x].interval
        /\ n.amount = charges[x].amount /\ n.product = charges[x].product
        /\ n.price = x /\ n.todo = r.todo \ {x} /\ n.pushed = TRUE
    BY <1>1, <1>5 DEF Requests
  <2>7. UNCHANGED <<prices, active, connected, stripe, left, histories>>
    BY <1>5 DEF ImportNext
  <2>8. plans'[p] # NoPlan /\ \A i \in Interval : prices[p][i] = NoPrice
    BY <1>5, <2>7, NewPlan
  <2>9. FieldsFit(n)
    BY <1>1, <2>1, <2>2, <2>6 DEF FieldsFit, Working
  <2>10. Refers(n)'
    BY <1>1, <2>1, <2>3, <2>6, <2>7, <2>8 DEF Good, Refers, Made, Offered, Known, stripe
  <2>11. RowStands(n)'
    BY <2>2, <2>6, <2>7, <2>8, Records DEF RowStands
  <2>12. /\ NameStands(n)' /\ ListStands(n)' /\ Owns(n)' /\ Pushed(n)'
          /\ NamePushed(n)' /\ Reached(n)' /\ ClearerKnows(n)'
    BY <2>1, <2>2, <2>4, <2>6, <2>7 DEF NameStands, ListStands, Owns, Pushed, NamePushed, Reached, ClearerKnows,
       Charged, stripe
  <2>13. Good(n)'
    BY <2>9, <2>10, <2>11, <2>12 DEF Good, FieldsFit
  <2>14. left' \in [Kinds -> Nat]
    BY <2>7 DEF PlanInv, Typed, TypeOK
  <2> QED BY <1>0, <1>2, <1>5, <2>5, <2>7, <2>13, <2>14, NewPlanMade
<1> QED BY <1>0, <1>3, <1>4, <1>5 DEF ImportNext

LEMMA ListLinkedStep == ASSUME PlanInv, NEW h \in Handler, ListLinked(h) PROVE PlanInv'
<1>0. PICK r : r = handlers[h]
  OBVIOUS
<1>1. r \in Requests /\ Good(r) /\ r.pc = "list" /\ r.op = "name" /\ r.plan \in Plan /\ r.name \in Name
  BY <1>0, RequestGood DEF ListLinked, At, Good, FieldsFit
<1>2. PICK linked : linked = {prices[r.plan][i].product : i \in Interval} \ {None}
  OBVIOUS
<1>3. /\ linked \subseteq Product /\ \A x \in linked : Made(x) /\ Own(x, r.plan)
      /\ \A i \in Interval : prices[r.plan][i].product # None => prices[r.plan][i].product \in linked
  BY <1>1, <1>2, RowTyped DEF PlanInv, RowsRefer
<1>a. connected \in Account \cup {None}
  BY DEF PlanInv, Typed, TypeOK
<1>4. CASE connected # None
  <2> DEFINE n == [r EXCEPT !.pc = "rename", !.account = connected, !.todo = linked]
  <2>1. n \in Requests
    BY <1>1, <1>3, <1>a DEF Requests
  <2>2. /\ n.pc = "rename" /\ n.op = "name" /\ n.plan = r.plan /\ n.name = r.name /\ n.product = r.product
        /\ n.price = r.price /\ n.todo = linked /\ n.stale = r.stale
    BY <1>1 DEF Requests
  <2>3. Goto(h, n) /\ UNCHANGED offline
    BY <1>0, <1>2, <1>4 DEF ListLinked
  <2> HIDE DEF n
  <2>4. Good(n)
    BY <1>1, <1>3, <2>2 DEF Good, FieldsFit, Refers, NameStands, RowStands, ListStands, Owns, Pushed,
         NamePushed, Reached, ClearerKnows, Working, Fresh
  <2>5. UNCHANGED <<tables, stripe, left, histories>>
    BY <2>3 DEF ListLinked, histories, excuses, accounts
  <2>6. HandsOver(r, n)
    BY <1>1, <1>3, <2>2, <2>5 DEF HandsOver, Holds, Renames, tables
  <2> QED BY <1>0, <2>1, <2>3, <2>4, <2>5, <2>6, StandsStill
<1>5. CASE connected = None
  <2>1. Goto(h, Idle) /\ offline' = IF linked = {} THEN offline ELSE offline \cup {r.plan}
    BY <1>0, <1>2, <1>5 DEF ListLinked
  <2>2. UNCHANGED <<tables, stripe, left, asked, chosen, swept, crossed, lost, shared, moved, strayed>>
    BY DEF ListLinked, accounts
  <2>3. HandsOver(r, Idle)
    BY <1>1, <1>3, <2>1 DEF HandsOver, Holds, Renames
  <2> QED BY <1>0, <1>1, <2>1, <2>2, <2>3, EndQuiet DEF PlanInv, Typed, TypeOK
<1> QED BY <1>4, <1>5

LEMMA UpdateProductNameStep == ASSUME PlanInv, NEW h \in Handler, UpdateProductName(h) PROVE PlanInv'
<1>0. PICK r : r = handlers[h]
  OBVIOUS
<1>1. r \in Requests /\ Good(r) /\ r.pc = "rename" /\ r.op = "name" /\ r.plan \in Plan /\ r.name \in Name
         /\ r.todo \subseteq Product
  BY <1>0, RequestGood DEF UpdateProductName, At, Good, FieldsFit
<1>2. UNCHANGED <<plans, prices, active, connected, charges, asked, chosen, swept, lost, offline,
                  shared, moved>>
  BY DEF UpdateProductName, tables
<1>3. CASE r.todo = {} /\ Goto(h, Idle) /\ UNCHANGED <<products, crossed, strayed, left>>
  <2>1. HandsOver(r, Idle)
    BY <1>1, <1>3 DEF HandsOver, Holds, Renames
  <2> QED BY <1>0, <1>2, <1>3, <2>1, EndQuiet DEF tables, stripe, PlanInv, Typed, TypeOK
<1>4. ASSUME NEW x \in r.todo, Reaches(r.account, products[x].account, r.plan),
             products' = [products EXCEPT ![x].name = r.name], NEW n,
             n = [r EXCEPT !.todo = @ \ {x}], Goto(h, n), Crosses(h, r.plan)
      PROVE PlanInv'
  <2>1. n \in Requests
    BY <1>1, <1>4 DEF Requests
  <2>2. /\ n.pc = "rename" /\ n.op = "name" /\ n.plan = r.plan /\ n.name = r.name /\ n.product = r.product
        /\ n.price = r.price /\ n.todo = r.todo \ {x} /\ n.stale = r.stale
    BY <1>1, <1>4 DEF Requests
  <2>3. x \in Product /\ products[x] # Nothing /\ Own(x, r.plan)
    BY <1>1 DEF Good, Refers, Made, Owns
  <2>4. crossed' = crossed \cup ({r.plan} \cap r.stale)
    BY <1>0, <1>4 DEF Crosses
  <2>r. left' \in [Kinds -> Nat] /\ strayed \subseteq strayed' /\ strayed' \subseteq Plan
    BY <1>1, <1>4, ReachesTyped
  <2>5. Fresh(r) => r.name = plans[r.plan].name
    BY <1>1 DEF Good, NameStands
  <2>6. /\ Mild
        /\ products' \in [Product -> Products \cup {Nothing}] /\ crossed' \subseteq Plan
        /\ products'[x].name = r.name /\ products'[x].plan = products[x].plan
        /\ \A y \in Product : products'[y] # Nothing => products[y] # Nothing
    BY <1>1, <1>2, <1>4, <2>3, <2>4, <2>5, <2>r, Renaming
  <2>7. /\ handlers' \in [Handler -> Requests] /\ handlers'[h] = n
        /\ \A g \in Handler \ {h} : handlers'[g] = handlers[g]
    BY <1>4, <2>1, MovedTyped
  <2>8. Good(n)'
    <3>1. Good(r)'
      <4>1. active' = active /\ \A p \in Plan : Untouched(p)
        BY <1>2 DEF Untouched, Exists
      <4>2. Overtaken(r, r)
        BY <1>2, <4>1 DEF Overtaken, Same
      <4> QED BY <1>1, <2>6, <4>2, Keeps
    <3>2. FieldsFit(n)
      BY <1>1, <2>2 DEF Good, FieldsFit, Working
    <3>3. Refers(n)' /\ NameStands(n)' /\ Owns(n)'
      BY <1>1, <2>2, <3>1 DEF Good, Refers, NameStands, Owns, Fresh, Working
    <3>4. /\ RowStands(n)' /\ ListStands(n)' /\ Pushed(n)' /\ NamePushed(n)' /\ Reached(n)'
          /\ ClearerKnows(n)'
      BY <2>2 DEF RowStands, ListStands, Pushed, NamePushed, Reached, ClearerKnows, Working
    <3> QED BY <3>2, <3>3, <3>4 DEF Good, FieldsFit
  <2>9. \A g \in Handler \ {h} : Overtaken(handlers[g], handlers'[g])
    BY <1>2, <1>4, <2>1, OthersStay
  <2>10. Moves({h})
    <3>1. HandsOver(r, n)
      BY <1>1, <1>2, <2>2, <2>6 DEF HandsOver, Holds, Renames
    <3> QED BY <1>0, <2>1, <2>7, <2>8, <2>9, <3>1, MoverMoves
  <2>11. TablesMove({h})
    BY <1>2, <2>6 DEF TablesMove, Exists
  <2>12. Typed'
    <3>1. \A g \in Handler : HandlerOK(handlers'[g])
      <4>1. FieldsFit(n)
        BY <2>8 DEF Good, FieldsFit
      <4> QED BY <2>1, <2>7, <2>9, <4>1, TypedOK, OvertakenTyped
    <3>2. TypeOK'
      BY <1>2, <2>6, <2>r, <3>1 DEF PlanInv, Typed, TypeOK, Exists, HandlerOK
    <3> QED BY <1>2, <2>7, <3>2 DEF PlanInv, Typed
  <2> QED BY <2>6, <2>10, <2>11, <2>12, StepKeeps DEF Step
<1> QED BY <1>0, <1>3, <1>4 DEF UpdateProductName

LEMMA PlansNextKeeps == ASSUME PlanInv, PlansNext PROVE PlanInv'
<1>1. ASSUME NEW h \in Handler, Pricing(h) PROVE PlanInv'
  <2>1. ASSUME NEW p \in Plan, NEW i \in Interval, NEW a \in Amount, NEW st \in Statuses, PutPrice(h, p, i, a, st)
        PROVE PlanInv'
    BY <2>1, PutPriceStep
  <2>2. ASSUME NEW p \in Plan, NEW i \in Interval, NEW a \in Amount, NEW n \in Name,
               CreateProductPlan(h, p, n, i, a)
        PROVE PlanInv'
    BY <2>2, CreateStep
  <2>3. CASE ReadPlan(h)
    BY <2>3, ReadPlanStep
  <2>4. CASE ReadRow(h)
    BY <2>4, ReadRowStep
  <2>5. CASE EnsureProduct(h)
    BY <2>5, EnsureProductStep
  <2>6. CASE EnsurePrice(h)
    BY <2>6, EnsurePriceStep
  <2>7. CASE StorePrice(h)
    BY <2>7, StorePriceStep
  <2>8. CASE UndoCreate(h)
    BY <2>8, EraseStep DEF UndoCreate
  <2> QED BY <1>1, <2>1, <2>2, <2>3, <2>4, <2>5, <2>6, <2>7, <2>8 DEF Pricing
<1>2. ASSUME NEW h \in Handler, Cataloguing(h) PROVE PlanInv'
  <2>1. CASE SyncProductPlansToStripe(h)
    BY <2>1, SyncStep
  <2>2. CASE NextUnsynced(h)
    BY <2>2, NextUnsyncedStep
  <2>3. ASSUME NEW refs \in SUBSET Price, ImportStripeCatalog(h, refs) PROVE PlanInv'
    BY <2>3, ImportStep
  <2>4. CASE ImportNext(h)
    BY <2>4, ImportNextStep
  <2>5. ASSUME NEW account \in Account \cup {None}, Connect(h, account) PROVE PlanInv'
    BY <2>5, ConnectStep
  <2> QED BY <1>2, <2>1, <2>2, <2>3, <2>4, <2>5 DEF Cataloguing
<1>3. ASSUME NEW h \in Handler, Administering(h) PROVE PlanInv'
  <2>1. ASSUME NEW p \in Plan, NEW n \in Name, RenamePlan(h, p, n) PROVE PlanInv'
    BY <2>1, RenameStep
  <2>2. ASSUME NEW p \in Plan, NEW st \in Statuses, ArchivePlan(h, p, st) PROVE PlanInv'
    BY <2>2, ArchiveStep
  <2>3. ASSUME NEW p \in Plan, ChoosePlan(h, p) PROVE PlanInv'
    BY <2>3, ChooseStep
  <2>4. ASSUME NEW p \in Plan, DeletePlan(h, p) PROVE PlanInv'
    BY <2>4, DeleteStep
  <2>5. CASE ListLinked(h)
    BY <2>5, ListLinkedStep
  <2>6. CASE UpdateProductName(h)
    BY <2>6, UpdateProductNameStep
  <2>7. CASE StoreChoice(h)
    BY <2>7, StoreChoiceStep
  <2>8. CASE ClearChoice(h)
    BY <2>8, ClearChoiceStep
  <2>9. CASE ReadActive(h)
    BY <2>9, ReadActiveStep
  <2>10. CASE ClearActive(h)
    BY <2>10, ClearActiveStep
  <2>11. CASE FinishDelete(h)
    BY <2>11, EraseStep DEF FinishDelete
  <2> QED BY <1>3, <2>1, <2>2, <2>3, <2>4, <2>5, <2>6, <2>7, <2>8, <2>9, <2>10, <2>11 DEF Administering
<1>4. ASSUME NEW h \in Handler, CallFails(h) PROVE PlanInv'
  BY <1>4, FailsStep DEF CallFails, accounts
<1>5. ASSUME NEW h \in Handler, Crash(h) PROVE PlanInv'
  BY <1>5, CrashStep
<1>6. ASSUME NEW x \in Price, Retire(x) PROVE PlanInv'
  BY <1>6, RetireStep
<1> QED BY <1>1, <1>2, <1>3, <1>4, <1>5, <1>6 DEF PlansNext

(* Checks and edits of features leave the plans, and what is told of them, alone. *)
LEMMA PlansAtRest ==
  ASSUME PlanInv, UNCHANGED <<tables, stripe, handlers, histories>>, left' \in [Kinds -> Nat]
  PROVE PlanInv'
<1>1. UNCHANGED <<plans, prices, active, connected, products, charges, handlers, asked, chosen, swept,
                  crossed, lost, offline, shared, moved, strayed>>
  BY DEF tables, stripe, histories, excuses, accounts
<1>2. Typed'
  <2>1. TypeOK'
    BY <1>1 DEF PlanInv, Typed, TypeOK, HandlerOK, Exists
  <2> QED BY <1>1, <2>1 DEF PlanInv, Typed
<1>3. Mild /\ TablesMove({}) /\ \A q \in Plan : Untouched(q)
  BY <1>1 DEF Mild, TablesMove, Untouched, Exists
<1> QED BY <1>1, <1>2, <1>3, NobodyMoves, StepKeeps DEF Step

LEMMA PlansInitially == ASSUME PlansInit PROVE PlanInv
<1>1. PICK s \in Starts, old \in SUBSET Plan, n \in [Plan -> Name] :
          /\ Cardinality(old) = s.plans
          /\ plans = [p \in Plan |-> IF p \in old THEN [status |-> "active", name |-> n[p]] ELSE NoPlan]
          /\ left = s.left
  BY Zenon DEF PlansInit
<1>2. PICK i0 \in Interval, a0 \in Amount, former \in {Nothing} \cup Charges :
          /\ charges = [x \in Price |->
                CASE x = FirstPrice -> [product |-> FirstProduct, interval |-> i0, amount |-> a0,
                                        active |-> TRUE]
                  [] x = OldPrice -> former
                  [] OTHER -> Nothing]
          /\ former # Nothing => former.product = FirstProduct
  <2>1. PICK i0 \in Interval, a0 \in Amount, former \in {Nothing} \cup Charges :
          /\ charges = [x \in Price |->
                CASE x = FirstPrice -> [product |-> FirstProduct, interval |-> i0, amount |-> a0,
                                        active |-> TRUE]
                  [] x = OldPrice -> former
                  [] OTHER -> Nothing]
          /\ former # Nothing => /\ former.product = FirstProduct /\ former.interval = i0
                                 /\ former.amount # a0 /\ former.active
    BY Zenon DEF PlansInit
  <2> QED BY Zenon, <2>1
<1>3. PICK made \in Products :
          /\ products = [x \in Product |-> IF x = FirstProduct THEN made ELSE Nothing]
          /\ \/ connected \in {made.account, None}
             \/ left["strays"] > 0 /\ \A p \in Plan, i \in Interval : prices[p][i].price = None
          /\ IF made.plan = None THEN made.interval = None /\ charges[OldPrice] = Nothing
             ELSE /\ made.interval # None /\ made.name = plans[made.plan].name
                  /\ prices[made.plan][made.interval].price = FirstPrice
  BY Zenon DEF PlansInit
<1> DEFINE Row0 == {NoPrice} \cup {Unlinked(a) : a \in Amount} \cup {Linked(a) : a \in Amount}
<1>4. /\ prices \in [Plan -> [Interval -> Row0]]
      /\ \A p, q \in Plan, i, j \in Interval :
          prices[p][i].price = FirstPrice =>
              /\ charges[FirstPrice].interval = i /\ charges[FirstPrice].amount = prices[p][i].amount
              /\ prices[q][j].price = FirstPrice => <<p, i>> = <<q, j>>
      /\ \A p \in Plan, i \in Interval : plans[p] = NoPlan => prices[p][i] = NoPrice
      /\ active \in {p \in Plan : plans[p] # NoPlan} \cup {None} /\ connected \in Account \cup {None}
      /\ handlers = [h \in Handler |-> Idle]
      /\ asked = [p \in Plan |-> [i \in Interval |-> <<prices[p][i].amount, prices[p][i].status>>]]
      /\ chosen = active /\ swept = FALSE /\ crossed = {} /\ lost = {} /\ offline = {}
      /\ shared = {} /\ moved = {} /\ strayed = {}
  <2>1. prices \in [Plan -> [Interval -> Row0]]
    BY DEF PlansInit
  <2>2. \A p, q \in Plan, i, j \in Interval :
          prices[p][i].price = FirstPrice =>
              /\ charges[FirstPrice].interval = i /\ charges[FirstPrice].amount = prices[p][i].amount
              /\ prices[q][j].price = FirstPrice => <<p, i>> = <<q, j>>
    BY Zenon DEF PlansInit
  <2>3. /\ \A p \in Plan, i \in Interval : plans[p] = NoPlan => prices[p][i] = NoPrice
        /\ active \in {p \in Plan : plans[p] # NoPlan} \cup {None} /\ connected \in Account \cup {None}
        /\ handlers = [h \in Handler |-> Idle]
        /\ asked = [p \in Plan |-> [i \in Interval |-> <<prices[p][i].amount, prices[p][i].status>>]]
        /\ chosen = active /\ swept = FALSE /\ crossed = {} /\ lost = {} /\ offline = {}
        /\ shared = {} /\ moved = {} /\ strayed = {}
    BY Zenon DEF PlansInit
  <2> QED BY <2>1, <2>2, <2>3
<1>5. /\ plans \in [Plan -> PlanRows \cup {NoPlan, Gone}]
      /\ \A p \in Plan : plans[p] # NoPlan => plans[p] \in PlanRows /\ Exists(p)
  <2>1. \A p \in Plan : plans[p] \in PlanRows \cup {NoPlan}
    BY <1>1 DEF PlanRows, Statuses
  <2> QED BY <1>1, <2>1, Records DEF Exists
<1>6. charges \in [Price -> Charges \cup {Nothing}] /\ products \in [Product -> Products \cup {Nothing}]
  <2> DEFINE first == [product |-> FirstProduct, interval |-> i0, amount |-> a0, active |-> TRUE]
  <2>1. first \in Charges
    BY DEF Charges
  <2>2. \A x \in Price : charges[x] \in {first, former, Nothing}
    BY <1>2
  <2> HIDE DEF first
  <2>3. charges \in [Price -> Charges \cup {Nothing}]
    BY <1>2, <2>1, <2>2
  <2> QED BY <1>3, <2>3
<1>7. /\ products[FirstProduct] = made /\ products[FirstProduct] # Nothing
      /\ charges[FirstPrice].product = FirstProduct /\ charges[FirstPrice] # Nothing
      /\ \A x \in Product : x # FirstProduct => products[x] = Nothing
      /\ \A x \in Price : charges[x] # Nothing => charges[x].product = FirstProduct
  <2> DEFINE first == [product |-> FirstProduct, interval |-> i0, amount |-> a0, active |-> TRUE]
  <2>1. first \in Charges /\ first.product = FirstProduct
    BY DEF Charges
  <2>2. /\ charges[FirstPrice] = first
        /\ \A x \in Price : charges[x] \in {first, former, Nothing}
    BY <1>2
  <2> HIDE DEF first
  <2> QED BY <1>2, <1>3, <2>1, <2>2, Records
<1>8. ASSUME NEW p \in Plan, NEW i \in Interval
      PROVE /\ prices[p][i] \in PriceRows \cup {NoPrice}
            /\ \/ prices[p][i].product = None /\ prices[p][i].price = None
               \/ prices[p][i].product = FirstProduct /\ prices[p][i].price = FirstPrice
            /\ prices[p][i].amount \in Amount \cup {None} /\ prices[p][i].status \in Statuses \cup {"none"}
  <2>1. prices[p][i] \in Row0
    <3> HIDE DEF Row0
    <3> QED BY <1>4
  <2>2. CASE prices[p][i] = NoPrice
    BY <2>2 DEF NoPrice
  <2>3. ASSUME NEW a \in Amount, prices[p][i] = Unlinked(a) \/ prices[p][i] = Linked(a)
        PROVE /\ prices[p][i] \in PriceRows
              /\ \/ prices[p][i].product = None /\ prices[p][i].price = None
                 \/ prices[p][i].product = FirstProduct /\ prices[p][i].price = FirstPrice
              /\ prices[p][i].amount \in Amount /\ prices[p][i].status \in Statuses
    BY <2>3 DEF Unlinked, Linked, PriceRows, Statuses
  <2> QED BY <2>1, <2>2, <2>3
<1>9. \A p \in Plan, i \in Interval : prices[p][i] # NoPrice => Exists(p)
  BY <1>4, <1>5
<1>10. made.plan # None => made.plan \in Plan /\ made.interval \in Interval /\ plans[made.plan] # NoPlan
  <2>1. made.plan # None => made.plan \in Plan /\ made.interval \in Interval
    BY <1>3 DEF Products
  <2> QED BY <1>3, <1>4, <2>1, Records
<1>11. Typed
  <2>1. handlers \in [Handler -> Requests] /\ \A h \in Handler : HandlerOK(handlers[h])
    BY <1>4, IdleTyped, IdleGood, TypedOK DEF Good
  <2>2. left \in [Kinds -> Nat]
    BY <1>1, BoundAssumption
  <2>3. asked \in [Plan -> [Interval -> (Amount \cup {None}) \X (Statuses \cup {"none"})]]
    BY <1>4, <1>8
  <2>4. prices \in [Plan -> [Interval -> PriceRows \cup {NoPrice}]]
    BY <1>4, <1>8
  <2>5. active \in Plan \cup {None} /\ (active # None => Exists(active))
    BY <1>4, <1>5
  <2>6. TypeOK
    BY <1>4, <1>5, <1>6, <1>9, <2>1, <2>2, <2>4, <2>5 DEF TypeOK
  <2> QED BY <2>1, <2>3, <2>6 DEF Typed
<1>12. RowsRefer
  <2>1. ASSUME NEW p \in Plan, NEW i \in Interval
        PROVE /\ Made(prices[p][i].product) /\ Offered(prices[p][i].price)
              /\ prices[p][i].price # None => prices[p][i].product # None
              /\ Own(prices[p][i].product, p)
    <3>1. Made(prices[p][i].product) /\ Offered(prices[p][i].price)
             /\ (prices[p][i].price # None => prices[p][i].product # None)
      BY <1>7, <1>8 DEF Made, Offered
    <3>2. Own(prices[p][i].product, p)
      BY <1>3, <1>4, <1>7, <1>8, <1>10 DEF Own
    <3> QED BY <3>1, <3>2
  <2>2. \A x \in Price : charges[x] # Nothing => Made(charges[x].product)
    BY <1>7 DEF Made
  <2>3. \A x \in Product : products[x] # Nothing => Known(products[x].plan)
    BY <1>7, <1>10 DEF Known
  <2> QED BY <2>1, <2>2, <2>3 DEF RowsRefer
<1>13. RowsAreAsked
  BY <1>4 DEF RowsAreAsked
<1>14. RowsAreCharged
  BY <1>4, <1>8 DEF RowsAreCharged, Charged
<1>15. RowsAreNamed
  BY <1>3, <1>7, <1>8, Records DEF RowsAreNamed
<1>16. OneProduct
  <2>1. \A x \in Product, p \in Plan, i \in Interval : For(x, p, i) => x = FirstProduct /\ prices[p][i].product = x
    BY <1>3, <1>7, <1>8 DEF For
  <2> QED BY <2>1 DEF OneProduct
<1>17. \A h \in Handler : Good(handlers[h])
  BY <1>4, IdleGood
<1>18. RowsAreTheirs
  BY <1>3, <1>7, <1>8 DEF RowsAreTheirs
<1> QED BY <1>11, <1>12, <1>13, <1>14, <1>15, <1>16, <1>17, <1>18 DEF PlanInv
---------------------------------------------------------------------------
(* The features, the edits and the check that is under way. *)
Grounds == {"suspended", "missing", "disabled", "denied", "unplanned", "excluded", "outside"}

Waiting == {"feature", "plan", "keys", "effects", "evaluate"}

CheckRows ==
    [pc : Waiting \cup {"idle", "done"}, subject : Subjects \cup {"nobody"}, feature : Feature \cup {None},
     enabled : BOOLEAN, rollout : Rollouts \cup {"off"}, plan : Plan \cup {None}, carries : BOOLEAN,
     answer : {"none", "allowed", "denied", "error"}, against : SUBSET Grounds,
     titles : SUBSET ((Plan \cup {"grant"}) \X {"include", "rollout"})]

OneKey == \A f, g \in Live : f = g

KeyTyped ==
    /\ serving \in BOOLEAN
    /\ features \in [Feature -> Rows \cup {Unborn, Dead}] /\ OneKey
    /\ carried \in [Plan -> SUBSET Live]
    /\ effects \in [Feature -> {"none", "grant", "deny"}]
    /\ included \in [Feature -> {"none", "include", "exclude"}]
    /\ \A f \in Feature \ Live : effects[f] = "none" /\ included[f] = "none"
    /\ edit \in EditRequests \cup {NoEdit}

FeaturesTyped == KeyTyped /\ check \in CheckRows

(* What a check has read cannot be told from what there is, as far as grounds that have
   stood since it began go: the feature is the one it found, an objection that its
   readings should have shown is in them, and so is a title. *)
Knows(c) ==
    /\ c.pc \in Waiting =>
          /\ c.against \subseteq Objections(c.subject) /\ c.titles \subseteq Titles(c.subject)
          /\ "suspended" \notin c.against
    /\ c.pc \in {"feature", "plan", "keys"} => ~ c.carries
    /\ c.pc \in Waiting \ {"feature"} =>
          /\ "missing" \notin c.against
          /\ "disabled" \in c.against => ~ c.enabled
          /\ "outside" \in c.against => ~ InRollout(c.rollout, c.subject)
          /\ "excluded" \in c.against \/ "outside" \in c.against \/ c.titles # {} => c.feature \in Live
          /\ \A t \in c.titles : c.enabled /\ (t[2] = "rollout" => InRollout(c.rollout, c.subject))
    /\ c.pc = "keys" => \A t \in c.titles : t[1] # "grant" => t[1] = c.plan
    /\ c.pc = "effects" => /\ \A t \in c.titles : t[1] # "grant" => c.carries
                           /\ "unplanned" \in c.against => ~ c.carries
    /\ c.pc = "evaluate" => "denied" \notin c.against /\ "unplanned" \notin c.against

FeatureInv == PlanInv /\ ChoiceStands /\ FeaturesTyped /\ Knows(check) /\ StandingGroundsDecide

LEMMA RowsAre == /\ \A r \in Rows : r # Unborn /\ r # Dead /\ r.enabled \in BOOLEAN /\ r.rollout \in Rollouts
                 /\ Unborn \notin Rows /\ Dead \notin Rows
<1>1. \A r \in Rows : r # Unborn /\ r # Dead
  <2> SUFFICES ASSUME NEW r \in Rows, r = Unborn \/ r = Dead PROVE FALSE
    OBVIOUS
  <2>1. "enabled" \in DOMAIN r
    BY DEF Rows
  <2>2. DOMAIN Unborn = {"rollout"} /\ DOMAIN Dead = {"rollout"}
    BY DEF Unborn, Dead
  <2> QED BY <2>1, <2>2
<1> QED BY <1>1 DEF Rows

(* The objections and the titles, member by member. *)
Objects(o, s) ==
    /\ o = "suspended" => ~ serving
    /\ o = "missing" => Live = {}
    /\ o = "disabled" => \E f \in Live : ~ features[f].enabled
    /\ o = "denied" => \E f \in Live : effects[f] = "deny"
    /\ o = "unplanned" => \A f \in Live : effects[f] # "grant" /\ \A p \in Plan : ~ Has(p, f)
    /\ o = "excluded" => \E f \in Live : Excludes(f, s)
    /\ o = "outside" => \E f \in Live : ~ Includes(f, s) /\ ~ InRollout(features[f].rollout, s)

Entitles(t, s) ==
    \E f \in Live :
        /\ serving /\ features[f].enabled /\ effects[f] # "deny" /\ ~ Excludes(f, s)
        /\ \/ t[1] = "grant" /\ effects[f] = "grant"
           \/ t[1] = active /\ Has(t[1], f)
        /\ \/ t[2] = "include" /\ Includes(f, s)
           \/ t[2] = "rollout" /\ InRollout(features[f].rollout, s)

LEMMA ObjectionsAre == ASSUME NEW s, NEW o PROVE o \in Objections(s) => o \in Grounds /\ Objects(o, s)
BY DEF Objections, Grounds, Objects

LEMMA TitlesAre ==
  ASSUME NEW s, NEW t PROVE t \in Titles(s) => t \in (Plan \cup {"grant"}) \X {"include", "rollout"} /\ Entitles(t, s)
BY DEF Titles, Entitles

(* Statements that change nothing a ground is about. *)
LEMMA GroundsStay ==
  ASSUME UNCHANGED <<plans, active, serving, features, carried, effects, included>>, NEW s
  PROVE Objections(s)' = Objections(s) /\ Titles(s)' = Titles(s)
<1>1. Live' = Live /\ \A p, f : Has(p, f)' = Has(p, f)
  BY DEF Live, Has, Exists
<1>2. \A f : Excludes(f, s)' = Excludes(f, s) /\ Includes(f, s)' = Includes(f, s)
  BY DEF Excludes, Includes
<1>3. Objections(s)' = Objections(s)
  BY <1>1, <1>2 DEF Objections
<1>4. Titles(s)' = Titles(s)
  BY <1>1, <1>2 DEF Titles
<1> QED BY <1>3, <1>4

(* The choice of a plan is changed by the requests that say so and by a plan's deletion. *)
LEMMA EraseKeepsChoice == ASSUME ChoiceStands, NEW p, Erase(p), UNCHANGED swept PROVE ChoiceStands'
BY DEF Erase, ChoiceStands

LEMMA ChoiceKept == ASSUME PlanInv, ChoiceStands, PlansNext PROVE ChoiceStands'
<1>1. ASSUME UNCHANGED <<active, chosen, swept>> PROVE ChoiceStands'
  BY <1>1 DEF ChoiceStands
<1>2. ASSUME NEW h \in Handler, Pricing(h) PROVE ChoiceStands'
  <2>1. CASE UndoCreate(h)
    BY <2>1, EraseKeepsChoice DEF UndoCreate, excuses, accounts
  <2>2. CASE ~ UndoCreate(h)
    <3>1. ASSUME NEW p \in Plan, NEW i \in Interval, NEW a \in Amount, NEW st \in Statuses, PutPrice(h, p, i, a, st)
          PROVE UNCHANGED <<active, chosen, swept>>
      BY <3>1 DEF PutPrice, tables, histories, excuses, accounts
    <3>2. ASSUME NEW p \in Plan, NEW i \in Interval, NEW a \in Amount, NEW n \in Name,
                 CreateProductPlan(h, p, n, i, a)
          PROVE UNCHANGED <<active, chosen, swept>>
      BY <3>2 DEF CreateProductPlan, histories, excuses, accounts
    <3>3. CASE ReadPlan(h) \/ ReadRow(h)
      BY <1>1, <3>3 DEF ReadPlan, ReadRow, tables, histories, excuses, accounts
    <3>4. CASE EnsureProduct(h) \/ EnsurePrice(h)
      BY <1>1, <3>4 DEF EnsureProduct, EnsurePrice, tables, histories, excuses, accounts
    <3>5. CASE StorePrice(h)
      BY <1>1, <3>5 DEF StorePrice
    <3> QED BY <1>1, <1>2, <2>2, <3>1, <3>2, <3>3, <3>4, <3>5 DEF Pricing, ChoiceStands
  <2> QED BY <2>1, <2>2
<1>3. ASSUME NEW h \in Handler, Cataloguing(h) PROVE ChoiceStands'
  <2>1. CASE SyncProductPlansToStripe(h) \/ NextUnsynced(h)
    BY <1>1, <2>1 DEF SyncProductPlansToStripe, NextUnsynced, tables, histories, excuses, accounts
  <2>2. ASSUME NEW refs \in SUBSET Price, ImportStripeCatalog(h, refs) PROVE ChoiceStands'
    BY <1>1, <2>2 DEF ImportStripeCatalog, tables, histories, excuses, accounts
  <2>3. CASE ImportNext(h)
    BY <1>1, <2>3 DEF ImportNext, histories, excuses, accounts
  <2>4. ASSUME NEW account \in Account \cup {None}, Connect(h, account) PROVE ChoiceStands'
    BY <1>1, <2>4 DEF Connect
  <2> QED BY <1>3, <2>1, <2>2, <2>3, <2>4 DEF Cataloguing
<1>4. ASSUME NEW h \in Handler, Administering(h) PROVE ChoiceStands'
  <2>1. ASSUME NEW p \in Plan, NEW n \in Name, RenamePlan(h, p, n) PROVE ChoiceStands'
    BY <1>1, <2>1 DEF RenamePlan, histories, excuses, accounts
  <2>2. ASSUME NEW p \in Plan, NEW st \in Statuses, ArchivePlan(h, p, st) PROVE ChoiceStands'
    BY <1>1, <2>2 DEF ArchivePlan, histories, excuses, accounts
  <2>3. ASSUME NEW p \in Plan, ChoosePlan(h, p) \/ DeletePlan(h, p) PROVE ChoiceStands'
    BY <1>1, <2>3 DEF ChoosePlan, DeletePlan, tables, histories, excuses, accounts
  <2>4. CASE ListLinked(h) \/ UpdateProductName(h) \/ ReadActive(h)
    BY <1>1, <2>4 DEF ListLinked, UpdateProductName, ReadActive, tables, histories, excuses, accounts
  <2>5. CASE StoreChoice(h)
    BY <2>5 DEF StoreChoice, ChoiceStands, excuses, accounts
  <2>6. CASE ClearChoice(h)
    BY <2>6 DEF ClearChoice, ChoiceStands
  <2>7. CASE ClearActive(h)
    <3>1. PICK r : r = handlers[h]
      OBVIOUS
    <3>2. /\ active' = None /\ chosen' = IF chosen = r.plan THEN None ELSE chosen
          /\ swept' = (swept \/ active \in r.stale \ {r.plan})
      BY <2>7, <3>1 DEF ClearActive
    <3>3. active \in {None, r.plan} \cup r.stale
      BY <2>7, <3>1, RequestGood DEF ClearActive, At, Good, ClearerKnows
    <3>4. swept \in BOOLEAN
      BY DEF PlanInv, Typed, TypeOK
    <3> QED BY <3>2, <3>3, <3>4 DEF ChoiceStands
  <2>8. CASE FinishDelete(h)
    BY <2>8, EraseKeepsChoice DEF FinishDelete, excuses, accounts
  <2> QED BY <1>4, <2>1, <2>2, <2>3, <2>4, <2>5, <2>6, <2>7, <2>8 DEF Administering
<1>5. ASSUME NEW h \in Handler, CallFails(h) \/ Crash(h) PROVE ChoiceStands'
  BY <1>1, <1>5 DEF CallFails, Crash, tables
<1>6. ASSUME NEW x \in Price, Retire(x) PROVE ChoiceStands'
  BY <1>1, <1>6 DEF Retire, tables, histories, excuses, accounts
<1> QED BY <1>2, <1>3, <1>4, <1>5, <1>6 DEF PlansNext
---------------------------------------------------------------------------
(* What a step does to the feature that has the key: it stays, it goes, or there was none. *)
FeatureStays == Live # {} /\ Live' # {} => Live \subseteq Live'

LEMMA WatchedTyped ==
  ASSUME NEW c \in CheckRows, Watch(c)
  PROVE /\ check' \in CheckRows
        /\ check' = [c EXCEPT !.against = @ \cap Objections(c.subject)', !.titles = @ \cap Titles(c.subject)']
<1>1. check' = [c EXCEPT !.against = @ \cap Objections(c.subject)', !.titles = @ \cap Titles(c.subject)']
  BY DEF Watch
<1> QED BY <1>1 DEF CheckRows

(* A check keeps knowing what it knew when others write. *)
LEMMA WatchKeeps ==
  ASSUME FeaturesTyped, FeatureStays, Knows(check), StandingGroundsDecide, Watching
  PROVE check' \in CheckRows /\ Knows(check)' /\ StandingGroundsDecide'
<1>1. check \in CheckRows
  BY DEF FeaturesTyped
<1>2. CASE check.pc \in {"idle", "done"}
  <2>1. check' = check
    BY <1>2 DEF Watching
  <2> QED BY <1>1, <1>2, <2>1 DEF Knows, Waiting, StandingGroundsDecide
<1>3. CASE check.pc \notin {"idle", "done"}
  <2>0. PICK c : c = check
    OBVIOUS
  <2>1. Watch(c) /\ c \in CheckRows /\ c.pc \in Waiting /\ Knows(c)
    BY <1>1, <1>3, <2>0 DEF Watching, CheckRows
  <2>2. PICK n : n = check'
    OBVIOUS
  <2>3. /\ n \in CheckRows
        /\ n = [c EXCEPT !.against = @ \cap Objections(c.subject)', !.titles = @ \cap Titles(c.subject)']
    BY <2>1, <2>2, WatchedTyped
  <2>4. /\ n.pc = c.pc /\ n.subject = c.subject /\ n.feature = c.feature /\ n.enabled = c.enabled
        /\ n.rollout = c.rollout /\ n.plan = c.plan /\ n.carries = c.carries
        /\ n.against = c.against \cap Objections(c.subject)' /\ n.titles = c.titles \cap Titles(c.subject)'
    BY <2>1, <2>3 DEF CheckRows
  <2>5. ASSUME c.feature \in Live, "excluded" \in n.against \/ "outside" \in n.against \/ n.titles # {}
        PROVE c.feature \in Live'
    <3>1. Live' # {}
      <4>1. CASE "excluded" \in n.against \/ "outside" \in n.against
        <5>1. "excluded" \in Objections(c.subject)' \/ "outside" \in Objections(c.subject)'
          BY <2>4, <4>1
        <5> QED BY <5>1 DEF Objections
      <4>2. CASE n.titles # {}
        <5>1. PICK t : t \in Titles(c.subject)'
          BY <2>4, <4>2
        <5> QED BY <5>1 DEF Titles
      <4> QED BY <2>5, <4>1, <4>2
    <3> QED BY <2>5, <3>1 DEF FeatureStays
  <2>6. Knows(n)'
    <3>1. /\ n.against \subseteq Objections(n.subject)' /\ n.titles \subseteq Titles(n.subject)'
          /\ n.against \subseteq c.against /\ n.titles \subseteq c.titles
      BY <2>4
    <3>2. n.pc \in Waiting => /\ n.against \subseteq Objections(n.subject)' /\ n.titles \subseteq Titles(n.subject)'
                              /\ "suspended" \notin n.against
      BY <2>1, <3>1 DEF Knows
    <3>3. n.pc \in {"feature", "plan", "keys"} => ~ n.carries
      BY <2>1, <2>4 DEF Knows
    <3>4. n.pc \in Waiting \ {"feature"} =>
          /\ "missing" \notin n.against
          /\ "disabled" \in n.against => ~ n.enabled
          /\ "outside" \in n.against => ~ InRollout(n.rollout, n.subject)
          /\ "excluded" \in n.against \/ "outside" \in n.against \/ n.titles # {} => n.feature \in Live'
          /\ \A t \in n.titles : n.enabled /\ (t[2] = "rollout" => InRollout(n.rollout, n.subject))
      BY <2>1, <2>4, <2>5, <3>1 DEF Knows
    <3>5. /\ n.pc = "keys" => \A t \in n.titles : t[1] # "grant" => t[1] = n.plan
          /\ n.pc = "effects" => /\ \A t \in n.titles : t[1] # "grant" => n.carries
                                 /\ "unplanned" \in n.against => ~ n.carries
          /\ n.pc = "evaluate" => "denied" \notin n.against /\ "unplanned" \notin n.against
      BY <2>1, <2>4, <3>1 DEF Knows
    <3> QED BY <3>2, <3>3, <3>4, <3>5 DEF Knows, InRollout
  <2>7. Knows(check)'
    <3> SUFFICES ASSUME NEW m, m = check' PROVE Knows(check)'
      OBVIOUS
    <3>1. Knows(m)'
      BY <2>2, <2>6
    <3> QED BY <3>1
  <2>8. StandingGroundsDecide'
    BY <1>3, <2>0, <2>2, <2>4 DEF StandingGroundsDecide
  <2> QED BY <2>2, <2>3, <2>7, <2>8
<1> QED BY <1>2, <1>3
---------------------------------------------------------------------------
(* The steps of a check.  The grounds that stood still stand, as it only reads. *)

LEMMA ReadingKeepsGrounds ==
  ASSUME UNCHANGED Unchecked, NEW s PROVE Objections(s)' = Objections(s) /\ Titles(s)' = Titles(s) /\ Live' = Live
<1>1. UNCHANGED <<plans, active, serving, features, carried, effects, included>>
  BY DEF Unchecked, planVars, tables, featureTables
<1> QED BY <1>1, GroundsStay DEF Live

(* It goes on with what it has read. *)
LEMMA GoesOn ==
  ASSUME UNCHANGED Unchecked, NEW c \in CheckRows, NEW n \in CheckRows, c = check, Knows(c), c.pc \in Waiting, Watch(n),
         n.pc \in Waiting, n.subject = c.subject, n.against = c.against, n.titles = c.titles, Knows(n)
  PROVE check' \in CheckRows /\ Knows(check)' /\ StandingGroundsDecide'
<1>1. check' = [n EXCEPT !.against = @ \cap Objections(n.subject)', !.titles = @ \cap Titles(n.subject)']
  BY WatchedTyped
<1>2. n.against \cap Objections(n.subject)' = n.against /\ n.titles \cap Titles(n.subject)' = n.titles
  BY ReadingKeepsGrounds DEF Knows
<1>3. check' = n
  <2> DEFINE m == [n EXCEPT !.against = n.against, !.titles = n.titles]
  <2>1. check' = m
    BY <1>1, <1>2
  <2>2. m = n
    BY DEF CheckRows
  <2> QED BY <2>1, <2>2
<1>4. Knows(check)'
  <2> SUFFICES ASSUME NEW m, m = check' PROVE Knows(check)'
    OBVIOUS
  <2>1. Knows(n)'
    BY ReadingKeepsGrounds DEF Knows, InRollout
  <2> QED BY <1>3, <2>1
<1> QED BY <1>3, <1>4 DEF StandingGroundsDecide, Waiting

LEMMA AnswerRow ==
  ASSUME NEW s \in Subjects \cup {"nobody"}, NEW a \in {"allowed", "denied", "error"},
         NEW g \in SUBSET Grounds, NEW t \in SUBSET ((Plan \cup {"grant"}) \X {"include", "rollout"})
  PROVE [NoCheck EXCEPT !.pc = "done", !.subject = s, !.answer = a, !.against = g, !.titles = t] \in CheckRows
<1> DEFINE P == Waiting \cup {"idle", "done"}
           S == Subjects \cup {"nobody"}
           F == Feature \cup {None}
           O == Rollouts \cup {"off"}
           L == Plan \cup {None}
           A == {"none", "allowed", "denied", "error"}
           G == SUBSET Grounds
           T == SUBSET ((Plan \cup {"grant"}) \X {"include", "rollout"})
           R == [pc : P, subject : S, feature : F, enabled : BOOLEAN, rollout : O, plan : L,
                 carries : BOOLEAN, answer : A, against : G, titles : T]
           d == "done"
           n == NoCheck
<1>1. R = CheckRows
  BY DEF CheckRows
<1>2. n \in R
  BY <1>1 DEF NoCheck, CheckRows
<1>3. d \in P /\ s \in S /\ a \in A /\ g \in G /\ t \in T
  OBVIOUS
<1>4. [n EXCEPT !.pc = d, !.subject = s, !.answer = a, !.against = g, !.titles = t] \in R
  <2> HIDE DEF P, S, F, O, L, A, G, T, d, n
  <2> QED BY <1>2, <1>3
<1> QED BY <1>1, <1>4

(* It answers, and no ground that stands speaks against the answer. *)
LEMMA Answers ==
  ASSUME UNCHANGED Unchecked, NEW c \in CheckRows, c = check, Knows(c), c.pc \in Waiting,
         NEW a \in {"allowed", "denied", "error"}, Answer(a),
         c.against # {} => a # "allowed", c.titles # {} => a = "allowed"
  PROVE check' \in CheckRows /\ Knows(check)' /\ StandingGroundsDecide'
<1> DEFINE n == [NoCheck EXCEPT !.pc = "done", !.subject = c.subject, !.answer = a,
                                !.against = c.against, !.titles = c.titles]
<1>1. Watch(n) /\ n \in CheckRows
  <2>1. /\ c.subject \in Subjects \cup {"nobody"} /\ c.against \subseteq Grounds
        /\ c.titles \subseteq (Plan \cup {"grant"}) \X {"include", "rollout"}
    BY DEF CheckRows
  <2>2. n \in CheckRows
    BY <2>1, AnswerRow
  <2>3. Watch(n)
    BY DEF Answer
  <2> QED BY <2>2, <2>3
<1>2. n.pc = "done" /\ n.answer = a /\ n.against = c.against /\ n.titles = c.titles
  BY DEF NoCheck
<1> HIDE DEF n
<1>3. /\ check' \in CheckRows
      /\ check' = [n EXCEPT !.against = @ \cap Objections(n.subject)', !.titles = @ \cap Titles(n.subject)']
  BY <1>1, WatchedTyped
<1>4. check'.pc = "done" /\ check'.answer = a /\ check'.against \subseteq c.against /\ check'.titles \subseteq c.titles
  BY <1>1, <1>2, <1>3 DEF CheckRows
<1> QED BY <1>3, <1>4 DEF Knows, Waiting, StandingGroundsDecide

LEMMA TheFeature == ASSUME FeaturesTyped, NEW f \in Live, NEW g \in Live PROVE f = g
BY DEF FeaturesTyped, KeyTyped, OneKey

LEMMA ReadFeatureStep ==
  ASSUME FeaturesTyped, Knows(check), ReadFeature
  PROVE check' \in CheckRows /\ Knows(check)' /\ StandingGroundsDecide'
<1>0. PICK c : c = check
  OBVIOUS
<1>1. c \in CheckRows /\ c.pc = "feature" /\ c.pc \in Waiting /\ Knows(c) /\ UNCHANGED Unchecked
  BY <1>0 DEF FeaturesTyped, ReadFeature, Checks, Waiting
<1>2. CASE Live = {} /\ Answer("error")
  <2>1. c.titles = {}
    BY <1>1, <1>2 DEF Knows, Titles
  <2> QED BY <1>0, <1>1, <1>2, <2>1, Answers
<1>3. ASSUME NEW f \in Live, NEW n,
             n = [c EXCEPT !.pc = "plan", !.feature = f, !.enabled = features[f].enabled,
                           !.rollout = features[f].rollout], Watch(n)
      PROVE check' \in CheckRows /\ Knows(check)' /\ StandingGroundsDecide'
  <2>1. f \in Feature /\ features[f].enabled \in BOOLEAN /\ features[f].rollout \in Rollouts
    BY RowsAre DEF Live
  <2>2. n \in CheckRows
    BY <1>1, <1>3, <2>1 DEF CheckRows, Waiting
  <2>3. /\ n.pc = "plan" /\ n.subject = c.subject /\ n.feature = f /\ n.enabled = features[f].enabled
        /\ n.rollout = features[f].rollout /\ n.carries = c.carries
        /\ n.against = c.against /\ n.titles = c.titles
    BY <1>1, <1>3 DEF CheckRows
  <2>4. \A o \in n.against : Objects(o, n.subject)
    BY <1>1, <2>3, ObjectionsAre DEF Knows
  <2>5. \A t \in n.titles : Entitles(t, n.subject)
    BY <1>1, <2>3, TitlesAre DEF Knows
  <2>6. /\ "missing" \notin n.against
        /\ "disabled" \in n.against => ~ n.enabled
        /\ "outside" \in n.against => ~ InRollout(n.rollout, n.subject)
    BY <1>3, <2>3, <2>4, TheFeature DEF Objects
  <2>7. \A t \in n.titles : n.enabled /\ (t[2] = "rollout" => InRollout(n.rollout, n.subject))
    BY <1>3, <2>3, <2>5, TheFeature DEF Entitles
  <2>8. Knows(n)
    BY <1>1, <1>3, <2>3, <2>6, <2>7 DEF Knows, Waiting
  <2> QED BY <1>0, <1>1, <1>3, <2>2, <2>3, <2>8, GoesOn DEF Waiting
<1> QED BY <1>0, <1>2, <1>3 DEF ReadFeature

LEMMA ReadPlanInUseStep ==
  ASSUME PlanInv, FeaturesTyped, Knows(check), ReadPlanInUse
  PROVE check' \in CheckRows /\ Knows(check)' /\ StandingGroundsDecide'
<1>0. PICK c : c = check
  OBVIOUS
<1>1. c \in CheckRows /\ c.pc = "plan" /\ c.pc \in Waiting /\ Knows(c) /\ UNCHANGED Unchecked
  BY <1>0 DEF FeaturesTyped, ReadPlanInUse, Checks, Waiting
<1>2. active \in Plan \cup {None}
  BY DEF PlanInv, Typed, TypeOK
<1>3. PICK l : l = IF active = None THEN "effects" ELSE "keys"
  OBVIOUS
<1>4. l \in {"effects", "keys"}
  BY <1>3
<1> DEFINE n == [c EXCEPT !.pc = l, !.plan = active]
<1>5. n \in CheckRows /\ Watch(n)
  BY <1>0, <1>1, <1>2, <1>3, <1>4 DEF CheckRows, Waiting, ReadPlanInUse
<1>6. /\ n.pc = l /\ n.subject = c.subject /\ n.feature = c.feature /\ n.enabled = c.enabled /\ n.plan = active
      /\ n.rollout = c.rollout /\ n.carries = c.carries /\ n.against = c.against /\ n.titles = c.titles
  BY <1>1 DEF CheckRows
<1> HIDE DEF n
<1>7. \A t \in n.titles : t[1] # "grant" => t[1] = active /\ active # None
  <2>1. \A t \in n.titles : Entitles(t, n.subject)
    BY <1>1, <1>6, TitlesAre DEF Knows
  <2> QED BY <2>1 DEF Entitles, Has, Exists
<1>8. Knows(n)
  BY <1>1, <1>3, <1>4, <1>6, <1>7 DEF Knows, Waiting
<1> QED BY <1>0, <1>1, <1>4, <1>5, <1>6, <1>8, GoesOn DEF Waiting

LEMMA ReadKeysStep ==
  ASSUME FeaturesTyped, Knows(check), ReadKeys
  PROVE check' \in CheckRows /\ Knows(check)' /\ StandingGroundsDecide'
<1>0. PICK c : c = check
  OBVIOUS
<1>1. c \in CheckRows /\ c.pc = "keys" /\ c.pc \in Waiting /\ Knows(c) /\ UNCHANGED Unchecked
  BY <1>0 DEF FeaturesTyped, ReadKeys, Checks, Waiting
<1>2. PICK b \in BOOLEAN : b = \E f \in Live : Has(c.plan, f)
  OBVIOUS
<1> DEFINE n == [c EXCEPT !.pc = "effects", !.plan = None, !.carries = b]
<1>3. n \in CheckRows
  BY <1>1 DEF CheckRows, Waiting
<1>4. Watch(n)
  BY <1>0, <1>2 DEF ReadKeys
<1>5. /\ n.pc = "effects" /\ n.subject = c.subject /\ n.feature = c.feature /\ n.enabled = c.enabled
      /\ n.rollout = c.rollout /\ n.carries = b /\ n.against = c.against /\ n.titles = c.titles
  BY <1>1 DEF CheckRows
<1> HIDE DEF n
<1>6. \A t \in n.titles : t[1] # "grant" => b
  <2>1. \A t \in n.titles : Entitles(t, n.subject)
    BY <1>1, <1>5, TitlesAre DEF Knows
  <2>2. \A t \in n.titles : t[1] # "grant" => t[1] = c.plan
    BY <1>1, <1>5 DEF Knows
  <2> QED BY <1>2, <2>1, <2>2 DEF Entitles
<1>7. "unplanned" \in n.against => ~ b
  <2>1. "unplanned" \in n.against => Objects("unplanned", n.subject)
    BY <1>1, <1>5, ObjectionsAre DEF Knows
  <2> QED BY <1>2, <2>1 DEF Objects, Has, Exists
<1>8. Knows(n)
  BY <1>1, <1>5, <1>6, <1>7 DEF Knows, Waiting
<1> QED BY <1>0, <1>1, <1>3, <1>4, <1>5, <1>8, GoesOn DEF Waiting

LEMMA ReadEffectsStep ==
  ASSUME FeaturesTyped, Knows(check), ReadEffects
  PROVE check' \in CheckRows /\ Knows(check)' /\ StandingGroundsDecide'
<1>0. PICK c : c = check
  OBVIOUS
<1>1. c \in CheckRows /\ c.pc = "effects" /\ c.pc \in Waiting /\ Knows(c) /\ UNCHANGED Unchecked
  BY <1>0 DEF FeaturesTyped, ReadEffects, Checks, Waiting
<1>2. \A o \in c.against : Objects(o, c.subject)
  BY <1>1, ObjectionsAre DEF Knows
<1>3. \A t \in c.titles : Entitles(t, c.subject) /\ t[2] \in {"include", "rollout"}
  BY <1>1, TitlesAre DEF Knows
<1>4. c.titles # {} => EffectiveKeys(c.carries)
  <2> SUFFICES ASSUME NEW t \in c.titles PROVE EffectiveKeys(c.carries)
    OBVIOUS
  <2>1. PICK f \in Live : /\ effects[f] # "deny"
                          /\ \/ t[1] = "grant" /\ effects[f] = "grant"
                             \/ t[1] = active /\ Has(t[1], f)
    BY <1>3 DEF Entitles
  <2>2. \A g \in Live : effects[g] # "deny"
    BY <2>1, TheFeature
  <2>3. c.carries \/ \E g \in Live : effects[g] = "grant"
    <3>1. CASE t[1] = "grant"
      BY <2>1, <3>1, FeatureAssumption DEF Has, Exists
    <3>2. CASE t[1] # "grant"
      BY <1>1, <3>2 DEF Knows
    <3> QED BY <3>1, <3>2
  <2> QED BY <2>2, <2>3 DEF EffectiveKeys
<1>5. CASE ~ EffectiveKeys(c.carries) /\ Answer("denied")
  BY <1>0, <1>1, <1>4, <1>5, Answers
<1>6. CASE c.rollout = "some" /\ c.subject = "nobody" /\ Answer("error")
  <2>1. c.titles = {}
    <3> SUFFICES ASSUME NEW t \in c.titles PROVE FALSE
      OBVIOUS
    <3>1. t[2] = "include"
      BY <1>1, <1>3, <1>6 DEF Knows, InRollout, Waiting
    <3> QED BY <1>3, <1>6, <3>1 DEF Entitles, Includes
  <2> QED BY <1>0, <1>1, <1>6, <2>1, Answers
<1>7. ASSUME NEW n, n = [c EXCEPT !.pc = "evaluate", !.carries = FALSE], Watch(n), EffectiveKeys(c.carries)
      PROVE check' \in CheckRows /\ Knows(check)' /\ StandingGroundsDecide'
  <2>1. n \in CheckRows
    BY <1>1, <1>7 DEF CheckRows, Waiting
  <2>2. /\ n.pc = "evaluate" /\ n.subject = c.subject /\ n.feature = c.feature /\ n.enabled = c.enabled
        /\ n.rollout = c.rollout /\ n.against = c.against /\ n.titles = c.titles
    BY <1>1, <1>7 DEF CheckRows
  <2>3. "denied" \notin c.against
    BY <1>2, <1>7 DEF Objects, EffectiveKeys
  <2>4. "unplanned" \notin c.against
    BY <1>1, <1>2, <1>7 DEF Objects, EffectiveKeys, Knows
  <2>5. Knows(n)
    BY <1>1, <2>2, <2>3, <2>4 DEF Knows, Waiting
  <2> QED BY <1>0, <1>1, <1>7, <2>1, <2>2, <2>5, GoesOn DEF Waiting
<1> QED BY <1>0, <1>5, <1>6, <1>7 DEF ReadEffects

LEMMA ReadOverrideStep ==
  ASSUME FeaturesTyped, Knows(check), ReadOverride
  PROVE check' \in CheckRows /\ Knows(check)' /\ StandingGroundsDecide'
<1>0. PICK c : c = check
  OBVIOUS
<1>1. c \in CheckRows /\ c.pc = "evaluate" /\ c.pc \in Waiting /\ Knows(c) /\ UNCHANGED Unchecked
  BY <1>0 DEF FeaturesTyped, ReadOverride, Checks, Waiting
<1>2. PICK override : override = IF c.subject = "nobody" THEN "none" ELSE included[c.feature]
  OBVIOUS
<1>3. PICK a : a = IF Evaluate(c.enabled, c.rollout, c.subject, override) THEN "allowed" ELSE "denied"
  OBVIOUS
<1>4. Answer(a)
  BY <1>0, <1>2, <1>3 DEF ReadOverride
<1>5. \A o \in c.against : Objects(o, c.subject) /\ o \in Grounds
  BY <1>1, ObjectionsAre DEF Knows
<1>6. \A t \in c.titles : Entitles(t, c.subject) /\ t[2] \in {"include", "rollout"}
  BY <1>1, TitlesAre DEF Knows
<1>7. c.against # {} => ~ Evaluate(c.enabled, c.rollout, c.subject, override)
  <2> SUFFICES ASSUME NEW o \in c.against PROVE ~ Evaluate(c.enabled, c.rollout, c.subject, override)
    OBVIOUS
  <2>1. o \in {"disabled", "excluded", "outside"}
    BY <1>1, <1>5 DEF Knows, Waiting, Grounds
  <2>2. CASE o = "disabled"
    BY <1>1, <2>2 DEF Knows, Waiting, Evaluate
  <2>3. CASE o = "excluded"
    <3>1. PICK f \in Live : Excludes(f, c.subject)
      BY <1>5, <2>3 DEF Objects
    <3>2. f = c.feature
      BY <1>1, <2>3, TheFeature DEF Knows, Waiting
    <3> QED BY <1>2, <3>1, <3>2 DEF Excludes, Evaluate
  <2>4. CASE o = "outside"
    <3>1. PICK f \in Live : ~ Includes(f, c.subject)
      BY <1>5, <2>4 DEF Objects
    <3>2. f = c.feature /\ ~ InRollout(c.rollout, c.subject)
      BY <1>1, <2>4, TheFeature DEF Knows, Waiting
    <3> QED BY <1>2, <3>1, <3>2 DEF Includes, Evaluate
  <2> QED BY <2>1, <2>2, <2>3, <2>4
<1>8. c.titles # {} => Evaluate(c.enabled, c.rollout, c.subject, override)
  <2> SUFFICES ASSUME NEW t \in c.titles PROVE Evaluate(c.enabled, c.rollout, c.subject, override)
    OBVIOUS
  <2>1. c.feature \in Live /\ c.enabled /\ (t[2] = "rollout" => InRollout(c.rollout, c.subject))
    BY <1>1 DEF Knows, Waiting
  <2>2. PICK f \in Live : ~ Excludes(f, c.subject) /\ (t[2] = "rollout" \/ Includes(f, c.subject))
    BY <1>6 DEF Entitles
  <2>3. f = c.feature
    BY <2>1, TheFeature
  <2> QED BY <1>2, <2>1, <2>2, <2>3 DEF Evaluate, Excludes, Includes
<1>9. a \in {"allowed", "denied", "error"} /\ (c.against # {} => a # "allowed") /\ (c.titles # {} => a = "allowed")
  BY <1>3, <1>7, <1>8
<1> QED BY <1>0, <1>1, <1>4, <1>9, Answers
---------------------------------------------------------------------------
(* The edits: one feature has the key, and what refers to it goes with it. *)

LEMMA EditTyped ==
  ASSUME NEW e \in EditRequests
  PROVE /\ e.kind \in {"plan", "organisation", "subject"} /\ e.feature \in Feature \cup {None}
        /\ e.kind = "plan" => e.plan \in Plan /\ e.effect = "none"
        /\ e.kind = "organisation" => e.effect \in {"none", "grant", "deny"}
        /\ e.kind = "subject" => e.feature \in Feature /\ e.effect \in {"include", "exclude", "none"}
        /\ e.feature = None /\ e.kind = "organisation" => e.effect = "none"
BY FeatureAssumption DEF EditRequests

LEMMA CreateFeatureStep ==
  ASSUME KeyTyped, NEW f \in Feature, NEW row \in Rows, CreateProductFeature(f, row)
  PROVE KeyTyped' /\ FeatureStays
<1>1. /\ Live = {} /\ features' = [features EXCEPT ![f] = row]
      /\ UNCHANGED <<serving, carried, effects, included, edit>>
  BY DEF CreateProductFeature
<1>2. features \in [Feature -> Rows \cup {Unborn, Dead}]
  BY DEF KeyTyped
<1>3. features' \in [Feature -> Rows \cup {Unborn, Dead}] /\ Live' = {f}
  BY <1>1, <1>2 DEF Live
<1> QED BY <1>1, <1>3 DEF KeyTyped, OneKey, FeatureStays

LEMMA UpdateFeatureStep ==
  ASSUME KeyTyped, NEW f \in Feature, NEW row \in Rows, UpdateProductFeature(f, row)
  PROVE KeyTyped' /\ FeatureStays
<1>1. /\ f \in Live /\ features' = [features EXCEPT ![f] = row]
      /\ UNCHANGED <<serving, carried, effects, included, edit>>
  BY DEF UpdateProductFeature
<1>2. features \in [Feature -> Rows \cup {Unborn, Dead}]
  BY DEF KeyTyped
<1>3. features' \in [Feature -> Rows \cup {Unborn, Dead}] /\ Live' = Live
  BY <1>1, <1>2 DEF Live
<1> QED BY <1>1, <1>3 DEF KeyTyped, OneKey, FeatureStays

LEMMA DeleteFeatureStep ==
  ASSUME KeyTyped, NEW f \in Feature, DeleteProductFeature(f)
  PROVE KeyTyped' /\ FeatureStays
<1>1. /\ f \in Live /\ effects[f] = "none" /\ features' = [features EXCEPT ![f] = Dead]
      /\ carried' = [p \in Plan |-> carried[p] \ {f}]
      /\ included' = [included EXCEPT ![f] = "none"]
      /\ UNCHANGED <<serving, effects, edit>>
  BY DEF DeleteProductFeature
<1>2. /\ features \in [Feature -> Rows \cup {Unborn, Dead}] /\ carried \in [Plan -> SUBSET Live]
      /\ included \in [Feature -> {"none", "include", "exclude"}]
      /\ \A g \in Feature \ Live : effects[g] = "none" /\ included[g] = "none"
      /\ \A g \in Live : g = f
  BY <1>1 DEF KeyTyped, OneKey
<1>3. features' \in [Feature -> Rows \cup {Unborn, Dead}] /\ Live' = {}
  BY <1>1, <1>2, RowsAre DEF Live
<1>4. carried' \in [Plan -> SUBSET Live']
  BY <1>1, <1>2
<1>5. /\ included' \in [Feature -> {"none", "include", "exclude"}]
      /\ \A g \in Feature : effects[g] = "none" /\ included'[g] = "none"
  BY <1>1, <1>2
<1> QED BY <1>1, <1>3, <1>4, <1>5 DEF KeyTyped, OneKey, FeatureStays

LEMMA SetStatusStep == ASSUME KeyTyped, SetStatus PROVE KeyTyped' /\ FeatureStays
<1>1. Live' = Live
  BY DEF SetStatus, Live
<1> QED BY <1>1 DEF SetStatus, KeyTyped, OneKey, FeatureStays

LEMMA BeginEditStep == ASSUME KeyTyped, NEW e \in EditRequests, BeginEdit(e) PROVE KeyTyped'
<1>1. Live' = Live
  BY DEF BeginEdit, featureTables, Live
<1> QED BY <1>1 DEF BeginEdit, featureTables, KeyTyped, OneKey

LEMMA CommitEditStep == ASSUME KeyTyped, CommitEdit PROVE KeyTyped' /\ FeatureStays
<1>0. PICK e : e = edit
  OBVIOUS
<1>1. e \in EditRequests /\ edit' = NoEdit /\ UNCHANGED <<serving, features>> /\ Live' = Live
  BY <1>0 DEF CommitEdit, KeyTyped, Live
<1>2. /\ carried \in [Plan -> SUBSET Live] /\ effects \in [Feature -> {"none", "grant", "deny"}]
      /\ included \in [Feature -> {"none", "include", "exclude"}]
      /\ \A f \in Feature \ Live : effects[f] = "none" /\ included[f] = "none"
  BY DEF KeyTyped
<1>3. /\ carried' \in [Plan -> SUBSET Live] /\ effects' \in [Feature -> {"none", "grant", "deny"}]
      /\ included' \in [Feature -> {"none", "include", "exclude"}]
      /\ \A f \in Feature \ Live : effects'[f] = "none" /\ included'[f] = "none"
  <2>1. CASE UNCHANGED <<carried, effects, included>>
    BY <1>2, <2>1
  <2>2. CASE Writable(e) /\ Replace(e)
    <3>1. CASE e.kind = "plan"
      <4>1. e.feature \in Live \cup {None}
        BY <2>2, <3>1 DEF Writable
      <4>2. /\ carried' = IF Exists(e.plan) THEN [carried EXCEPT ![e.plan] = {e.feature} \ {None}] ELSE carried
            /\ UNCHANGED <<effects, included>>
        BY <2>2, <3>1 DEF Replace
      <4>3. carried' \in [Plan -> SUBSET Live]
        BY <1>2, <4>1, <4>2
      <4> QED BY <1>2, <4>2, <4>3
    <3>2. CASE e.kind = "organisation"
      <4>1. e.feature \in Live \cup {None}
        BY <2>2, <3>2 DEF Writable
      <4>2. /\ effects' = [f \in Feature |-> IF f = e.feature THEN e.effect ELSE "none"]
            /\ UNCHANGED <<carried, included>>
        BY <2>2, <3>2 DEF Replace
      <4>3. e.effect \in {"none", "grant", "deny"} /\ None \notin Feature
        BY <1>1, <3>2, EditTyped, FeatureAssumption
      <4> QED BY <1>2, <4>1, <4>2, <4>3
    <3>3. CASE e.kind = "subject"
      <4>1. e.feature \in Feature /\ e.effect \in {"include", "exclude", "none"}
               /\ (e.feature \in Live \/ e.effect = "none")
        BY <1>1, <2>2, <3>3, EditTyped, FeatureAssumption DEF Writable
      <4>2. included' = [included EXCEPT ![e.feature] = e.effect] /\ UNCHANGED <<carried, effects>>
        BY <2>2, <3>3 DEF Replace
      <4> QED BY <1>2, <4>1, <4>2
    <3> QED BY <1>1, <3>1, <3>2, <3>3, EditTyped
  <2> QED BY <1>0, <2>1, <2>2 DEF CommitEdit
<1> QED BY <1>1, <1>3 DEF KeyTyped, OneKey, FeatureStays

LEMMA PlanStepKey == ASSUME KeyTyped, PlanStep PROVE KeyTyped' /\ FeatureStays
<1>1. /\ carried' = [p \in Plan |-> IF Exists(p)' THEN carried[p] ELSE {}]
      /\ UNCHANGED <<serving, features, effects, included, edit>> /\ Live' = Live
  BY DEF PlanStep, Live
<1>2. carried' \in [Plan -> SUBSET Live]
  BY <1>1 DEF KeyTyped
<1> QED BY <1>1, <1>2 DEF KeyTyped, OneKey, FeatureStays

LEMMA StartCheckStep ==
  ASSUME KeyTyped, NEW s \in Subjects, StartCheck(s)
  PROVE check' \in CheckRows /\ Knows(check)' /\ StandingGroundsDecide'
<1>1. PICK l : l = IF serving THEN "feature" ELSE "done"
  OBVIOUS
<1>2. PICK a : a = IF serving THEN "none" ELSE "denied"
  OBVIOUS
<1>0. PICK n : n = [NoCheck EXCEPT !.pc = l, !.subject = s, !.answer = a,
                                   !.against = Objections(s), !.titles = Titles(s)]
  OBVIOUS
<1>3. check' = n
  BY <1>0, <1>1, <1>2 DEF StartCheck
<1>4. Objections(s) \subseteq Grounds /\ Titles(s) \subseteq (Plan \cup {"grant"}) \X {"include", "rollout"}
  BY DEF Objections, Titles, Grounds
<1>5. n \in CheckRows
  BY <1>0, <1>1, <1>2, <1>4 DEF NoCheck, CheckRows, Waiting
<1>6. n.pc = l /\ n.subject = s /\ n.answer = a /\ n.against = Objections(s) /\ n.titles = Titles(s) /\ ~ n.carries
  BY <1>0 DEF NoCheck
<1>7. Objections(s)' = Objections(s) /\ Titles(s)' = Titles(s)
  <2>1. UNCHANGED <<plans, active, serving, features, carried, effects, included>>
    BY DEF StartCheck, tables, featureTables
  <2> QED BY <2>1, GroundsStay
<1>8. Knows(n)'
  <2>1. serving => "suspended" \notin Objections(s)
    BY ObjectionsAre DEF Objects
  <2>2. n.against = Objections(n.subject)' /\ n.titles = Titles(n.subject)'
    BY <1>6, <1>7
  <2>3. n.pc = "done" \/ (n.pc = "feature" /\ "suspended" \notin n.against)
    BY <1>1, <1>6, <2>1
  <2> QED BY <1>6, <2>2, <2>3 DEF Knows, Waiting
<1>9. Knows(check)'
  <2> SUFFICES ASSUME NEW m, m = check' PROVE Knows(check)'
    OBVIOUS
  <2>1. Knows(m)'
    BY <1>3, <1>8
  <2> QED BY <2>1
<1>10. StandingGroundsDecide'
  <2>1. ~ serving => Titles(s) = {}
    BY DEF Titles
  <2> QED BY <1>1, <1>2, <1>3, <1>6, <2>1 DEF StandingGroundsDecide
<1> QED BY <1>3, <1>5, <1>9, <1>10
---------------------------------------------------------------------------
(* All together. *)

LEMMA FeatureEdits ==
  ASSUME FeatureInv, FeatureStep
  PROVE /\ PlanInv' /\ ChoiceStands' /\ KeyTyped'
        /\ \/ Watching /\ FeatureStays
           \/ UNCHANGED <<check, plans, active, featureTables>>
<1> USE DEF FeatureInv, FeaturesTyped
<1>1. ASSUME Edits PROVE PlanInv' /\ ChoiceStands'
  <2>1. left' \in [Kinds -> Nat]
    BY <1>1, LeftTyped DEF Edits, PlanInv, Typed, Kinds
  <2> QED BY <1>1, <2>1, PlansAtRest DEF Edits, ChoiceStands, tables, histories, excuses, accounts
<1>2. ASSUME NEW f \in Feature, NEW row \in Rows, CreateProductFeature(f, row)
      PROVE PlanInv' /\ ChoiceStands' /\ KeyTyped' /\ Watching /\ FeatureStays
  BY <1>1, <1>2, CreateFeatureStep DEF CreateProductFeature
<1>3. ASSUME NEW f \in Feature, NEW row \in Rows, UpdateProductFeature(f, row)
      PROVE PlanInv' /\ ChoiceStands' /\ KeyTyped' /\ Watching /\ FeatureStays
  BY <1>1, <1>3, UpdateFeatureStep DEF UpdateProductFeature
<1>4. ASSUME NEW f \in Feature, DeleteProductFeature(f)
      PROVE PlanInv' /\ ChoiceStands' /\ KeyTyped' /\ Watching /\ FeatureStays
  BY <1>1, <1>4, DeleteFeatureStep DEF DeleteProductFeature
<1>5. ASSUME SetStatus
      PROVE PlanInv' /\ ChoiceStands' /\ KeyTyped' /\ Watching /\ FeatureStays
  BY <1>1, <1>5, SetStatusStep DEF SetStatus
<1>6. ASSUME NEW e \in EditRequests, BeginEdit(e)
      PROVE PlanInv' /\ ChoiceStands' /\ KeyTyped' /\ UNCHANGED <<check, plans, active, featureTables>>
  BY <1>1, <1>6, BeginEditStep DEF BeginEdit, Edits, tables
<1>7. ASSUME CommitEdit
      PROVE PlanInv' /\ ChoiceStands' /\ KeyTyped' /\ Watching /\ FeatureStays
  <2>1. PlanInv' /\ ChoiceStands'
    <3>1. UNCHANGED <<tables, stripe, handlers, histories, left>>
      BY <1>7 DEF CommitEdit, planVars
    <3>2. left' \in [Kinds -> Nat]
      BY <3>1 DEF PlanInv, Typed, TypeOK
    <3> QED BY <3>1, <3>2, PlansAtRest DEF ChoiceStands, tables, histories, excuses, accounts
  <2> QED BY <1>7, <2>1, CommitEditStep DEF CommitEdit
<1> QED BY <1>2, <1>3, <1>4, <1>5, <1>6, <1>7 DEF FeatureStep

LEMMA TablesAtRest == ASSUME FeatureInv, UNCHANGED Unchecked PROVE PlanInv' /\ ChoiceStands' /\ KeyTyped'
<1>1. PlanInv' /\ ChoiceStands'
  <2>1. UNCHANGED <<tables, stripe, handlers, histories, left>>
    BY DEF Unchecked, planVars
  <2>2. left' \in [Kinds -> Nat]
    BY <2>1 DEF FeatureInv, PlanInv, Typed, TypeOK
  <2> QED BY <2>1, <2>2, PlansAtRest DEF FeatureInv, ChoiceStands, tables, histories, excuses, accounts
<1>2. KeyTyped'
  <2>1. UNCHANGED <<serving, features, carried, effects, included, edit>>
    BY DEF Unchecked, featureTables
  <2> QED BY <2>1 DEF FeatureInv, FeaturesTyped, KeyTyped, OneKey, Live
<1> QED BY <1>1, <1>2

LEMMA CheckAtRest ==
  ASSUME FeatureInv, UNCHANGED <<check, plans, active, featureTables>>
  PROVE check' \in CheckRows /\ Knows(check)' /\ StandingGroundsDecide'
<1>1. \A s : Objections(s)' = Objections(s) /\ Titles(s)' = Titles(s)
  BY GroundsStay DEF featureTables
<1>2. Live' = Live
  BY DEF featureTables, Live
<1>3. Knows(check)'
  <2>0. PICK c : c = check
    OBVIOUS
  <2>1. Knows(c)'
    BY <1>1, <1>2, <2>0 DEF FeatureInv, Knows, InRollout
  <2> SUFFICES ASSUME NEW m, m = check' PROVE Knows(check)'
    OBVIOUS
  <2>2. Knows(m)'
    BY <2>0, <2>1
  <2> QED BY <2>2
<1>4. check' \in CheckRows /\ StandingGroundsDecide'
  BY DEF FeatureInv, FeaturesTyped, StandingGroundsDecide
<1> QED BY <1>3, <1>4

LEMMA FeatureInductive == ASSUME FeatureInv, Next PROVE FeatureInv'
<1>1. CASE PlanStep
  <2>1. PlanInv' /\ ChoiceStands'
    BY <1>1, PlansNextKeeps, ChoiceKept DEF FeatureInv, PlanStep
  <2>2. KeyTyped' /\ FeatureStays
    BY <1>1, PlanStepKey DEF FeatureInv, FeaturesTyped
  <2>3. check' \in CheckRows /\ Knows(check)' /\ StandingGroundsDecide'
    BY <1>1, <2>2, WatchKeeps DEF FeatureInv, PlanStep
  <2> QED BY <2>1, <2>2, <2>3 DEF FeatureInv, FeaturesTyped
<1>2. CASE FeatureStep
  <2>1. PlanInv' /\ ChoiceStands' /\ KeyTyped'
    BY <1>2, FeatureEdits
  <2>2. CASE Watching /\ FeatureStays
    <3>1. check' \in CheckRows /\ Knows(check)' /\ StandingGroundsDecide'
      BY <2>2, WatchKeeps DEF FeatureInv
    <3> QED BY <2>1, <3>1 DEF FeatureInv, FeaturesTyped
  <2>3. CASE UNCHANGED <<check, plans, active, featureTables>>
    BY <2>1, <2>3, CheckAtRest DEF FeatureInv, FeaturesTyped
  <2> QED BY <1>2, <2>2, <2>3, FeatureEdits
<1>3. CASE CheckStep
  <2>1. UNCHANGED Unchecked
    BY <1>3 DEF CheckStep, ReadFeature, ReadPlanInUse, ReadKeys, ReadEffects, ReadOverride
  <2>2. check' \in CheckRows /\ Knows(check)' /\ StandingGroundsDecide'
    BY <1>3, ReadFeatureStep, ReadPlanInUseStep, ReadKeysStep, ReadEffectsStep, ReadOverrideStep
       DEF FeatureInv, CheckStep
  <2> QED BY <2>1, <2>2, TablesAtRest DEF FeatureInv, FeaturesTyped
<1>4. ASSUME NEW s \in Subjects, StartCheck(s) PROVE FeatureInv'
  <2>1. check' \in CheckRows /\ Knows(check)' /\ StandingGroundsDecide'
    BY <1>4, StartCheckStep DEF FeatureInv, FeaturesTyped
  <2>2. left' \in [Kinds -> Nat]
    BY <1>4, LeftTyped DEF StartCheck, FeatureInv, PlanInv, Typed, Kinds
  <2>3. PlanInv' /\ ChoiceStands'
    BY <1>4, <2>2, PlansAtRest DEF StartCheck, FeatureInv, ChoiceStands, tables, histories, excuses, accounts
  <2>4. KeyTyped'
    BY <1>4 DEF StartCheck, featureTables, FeatureInv, FeaturesTyped, KeyTyped, OneKey, Live
  <2> QED BY <2>1, <2>3, <2>4 DEF FeatureInv, FeaturesTyped
<1> QED BY <1>1, <1>2, <1>3, <1>4 DEF Next

LEMMA FeatureInitially == ASSUME Init PROVE FeatureInv
<1>1. PlanInv
  BY PlansInitially DEF Init
<1>2. ChoiceStands
  BY DEF Init, PlansInit, ChoiceStands
<1>3. check \in CheckRows /\ Knows(check) /\ StandingGroundsDecide
  BY DEF Init, NoCheck, CheckRows, Waiting, Knows, StandingGroundsDecide
<1>4. KeyTyped
  <2>0. serving = TRUE /\ edit = NoEdit
    BY DEF Init
  <2>1. CASE /\ features = [f \in Feature |-> Unborn]
             /\ carried = [p \in Plan |-> {}]
             /\ effects = [f \in Feature |-> "none"] /\ included = [f \in Feature |-> "none"]
    BY <2>0, <2>1, RowsAre DEF KeyTyped, OneKey, Live
  <2>2. CASE \E f \in {CHOOSE g \in Feature : TRUE}, row \in Rows, e \in {"none", "grant"},
                i \in {"none", "include"}, holders \in SUBSET Plan :
                /\ row.enabled
                /\ features = [g \in Feature |-> IF g = f THEN row ELSE Unborn]
                /\ holders \subseteq {p \in Plan : Exists(p)}
                /\ carried = [p \in Plan |-> IF p \in holders THEN {f} ELSE {}]
                /\ effects = [g \in Feature |-> IF g = f THEN e ELSE "none"]
                /\ included = [g \in Feature |-> IF g = f THEN i ELSE "none"]
    <3>0. PICK f \in {CHOOSE g \in Feature : TRUE}, row \in Rows, e \in {"none", "grant"},
               i \in {"none", "include"}, holders \in SUBSET Plan :
                /\ row.enabled
                /\ features = [g \in Feature |-> IF g = f THEN row ELSE Unborn]
                /\ holders \subseteq {p \in Plan : Exists(p)}
                /\ carried = [p \in Plan |-> IF p \in holders THEN {f} ELSE {}]
                /\ effects = [g \in Feature |-> IF g = f THEN e ELSE "none"]
                /\ included = [g \in Feature |-> IF g = f THEN i ELSE "none"]
      BY Zenon, <2>2
    <3>1. f \in Feature
      BY FeatureAssumption
    <3>2. Live = {f}
      BY <3>0, <3>1, RowsAre DEF Live
    <3> QED BY <2>0, <3>0, <3>1, <3>2 DEF KeyTyped, OneKey
  <2> QED BY Zenon, <2>1, <2>2 DEF Init
<1> QED BY <1>1, <1>2, <1>3, <1>4 DEF FeatureInv, FeaturesTyped

LEMMA FeatureInvariant == Spec => []FeatureInv
<1>1. Init => FeatureInv
  BY FeatureInitially
<1>2. FeatureInv /\ [Next]_vars => FeatureInv'
  <2>1. ASSUME FeatureInv, UNCHANGED vars PROVE FeatureInv'
    <3>1. UNCHANGED Unchecked /\ check' = check
      BY <2>1 DEF vars, Unchecked
    <3>2. UNCHANGED <<check, plans, active, featureTables>>
      BY <3>1 DEF Unchecked, planVars, tables
    <3> QED BY <2>1, <3>1, <3>2, TablesAtRest, CheckAtRest DEF FeatureInv, FeaturesTyped
  <2> QED BY <2>1, FeatureInductive
<1> QED BY <1>1, <1>2, PTL DEF Spec

LEMMA AtMostOne == ASSUME NEW S, \A x, y \in S : x = y PROVE Cardinality(S) <= 1
<1>1. CASE S = {}
  BY <1>1, FS_EmptySet
<1>2. CASE S # {}
  <2>1. PICK x : S = {x}
    BY <1>2
  <2>2. Cardinality(S) = 1
    BY <2>1, FS_Singleton
  <2> QED BY <2>2
<1> QED BY <1>1, <1>2
---------------------------------------------------------------------------
(* What staff last asked a plan to cost is what its row says and what Stripe charges and
   shows, in the account that is connected, unless the plan is excused: the service keeps
   this by asking Stripe for a price before it writes the row (UpsertProductPlanPrice,
   SyncProductPlansToStripe). *)
THEOREM ListedIsChargedAlways == Spec => []ListedIsCharged
<1>1. FeatureInv => ListedIsCharged
  <2> SUFFICES ASSUME PlanInv, NEW p \in Plan, NEW i \in Interval, prices[p][i] # NoPrice
               PROVE LET row == prices[p][i]
                     IN  /\ ~ Excused(p) => asked[p][i] = <<row.amount, row.status>>
                         /\ row.price # None /\ connected # None
                               /\ p \notin crossed \cup moved \cup strayed =>
                                  products[row.product].account = connected
                         /\ Settled(p) /\ p \notin offline /\ row.status = "active" /\ row.price # None =>
                               /\ charges[row.price].amount = row.amount
                               /\ charges[row.price].interval = i
                               /\ p \notin shared /\ products[row.product].plan = p =>
                                     products[row.product].name = plans[p].name
    BY DEF FeatureInv, ListedIsCharged
  <2> DEFINE row == prices[p][i]
  <2>1. ~ Excused(p) => asked[p][i] = <<row.amount, row.status>>
    BY DEF PlanInv, RowsAreAsked
  <2>2. p \notin offline /\ row.status = "active" /\ row.price # None =>
           charges[row.price].amount = row.amount /\ charges[row.price].interval = i
    BY DEF PlanInv, RowsAreCharged, Charged
  <2>4. row.price # None /\ connected # None /\ p \notin crossed \cup moved \cup strayed =>
           products[row.product].account = connected
    BY DEF PlanInv, RowsRefer, RowsAreTheirs
  <2>3. ASSUME Settled(p), p \notin offline, p \notin shared, row.status = "active", row.price # None,
               products[row.product].plan = p
        PROVE products[row.product].name = plans[p].name
    <3>1. ~ Excused(p)
      BY <2>3 DEF Settled
    <3>2. \A h \in Handler : ~ Renames(handlers[h], row.product, p)
      BY <2>3 DEF Settled, Renames, Busy, At
    <3> QED BY <2>3, <3>1, <3>2 DEF PlanInv, RowsAreNamed
  <2> QED BY <2>1, <2>2, <2>3, <2>4
<1> QED BY <1>1, FeatureInvariant, PTL

(* A price of a plan is one product at Stripe, however often it is saved, archived, renamed
   and synced: EnsureProduct makes one only for a row that has none, and the row, or the
   request that will write it, holds what was made. *)
THEOREM DuplicatesAreExcusedAlways == Spec => []DuplicatesAreExcused
<1>1. FeatureInv => DuplicatesAreExcused
  <2> SUFFICES ASSUME PlanInv, NEW p \in Plan, NEW i \in Interval, Settled(p)
               PROVE Cardinality({x \in Product : products[x] # Nothing
                                     /\ products[x].plan = p /\ products[x].interval = i}) <= 1
    BY DEF FeatureInv, DuplicatesAreExcused
  <2> DEFINE S == {x \in Product : products[x] # Nothing /\ products[x].plan = p /\ products[x].interval = i}
  <2>1. \A x \in S : x \in Product /\ For(x, p, i) /\ ~ Held(x, p, i)
    BY DEF Settled, For, Held, Holds, Busy, At
  <2>2. \A x, y \in S : x = y
    BY <2>1 DEF PlanInv, OneProduct, Settled
  <2> HIDE DEF S
  <2>3. Cardinality(S) <= 1
    BY <2>2, AtMostOne
  <2> QED BY <2>3 DEF S
<1> QED BY <1>1, FeatureInvariant, PTL

(* Every reference is to a plan, a product or a feature that is there, and the plan in use
   is the one last chosen, unless a deletion swept a choice that was made after its look
   (SetActiveProductPlan, ClearOrganisationProductPlan, DeleteProductPlan). *)
THEOREM ReferencesStandAlways == Spec => []ReferencesStand
<1>1. FeatureInv => ReferencesStand
  <2> SUFFICES ASSUME FeatureInv PROVE ReferencesStand
    OBVIOUS
  <2>1. Cardinality(Live) <= 1
    BY AtMostOne DEF FeatureInv, FeaturesTyped, KeyTyped, OneKey
  <2>2. check.pc \in Waiting \cup {"idle", "done"} /\ check.answer \in {"none", "allowed", "denied", "error"}
    BY DEF FeatureInv, FeaturesTyped, CheckRows
  <2>3. TypesOK
    BY <2>1, <2>2 DEF FeatureInv, FeaturesTyped, KeyTyped, PlanInv, Typed, TypesOK, Waiting
  <2> QED BY <2>3 DEF FeatureInv, ReferencesStand
<1> QED BY <1>1, FeatureInvariant, PTL

(* A check that reads seven tables in as many statements is not wrong about what stood
   from its first statement to its last (CheckEntitlementWithSubject). *)
THEOREM StandingGroundsDecideAlways == Spec => []StandingGroundsDecide
BY FeatureInvariant, PTL DEF FeatureInv
=============================================================================
