------------------------ MODULE PaymentWebhooksProofs ------------------------
(***************************************************************************)
(* Proofs about PaymentWebhooks, for any sets of organisations, plans,     *)
(* events, webhook requests and checkouts.                                 *)
(***************************************************************************)
EXTENDS PaymentWebhooks, TLAPS

USE NoneAssumption, OwnerAssumption, EventAssumption, PlanAssumption, OfferAssumption

LEMMA AboutTyped ==
  ASSUME TypeOK, NEW d \in Delivery, delivery[d].event \in Event
  PROVE About(d) \in Contents
BY DEF About

LEMMA FirstLookupTyped ==
  \A c : FirstLookup(c) \in {"organisation", "byCustomer", "bySubscription", "nobody"}
BY DEF FirstLookup

LEMMA AfterLinkTyped == \A c : AfterLink(c) \in {"mark", "write", "byPrice", "byCurrent"}
BY DEF AfterLink

---------------------------------------------------------------------------
Seeking == {"organisation", "link", "byPrice", "byCurrent", "write"}

(* What an event names belongs to an organisation. *)
BelongsTo(c, o) ==
    /\ c.customer # NoCustomer => Owner[c.customer] = o
    /\ c.ref # NoSub => Owner[c.ref] = o

(* A request at work has its event, and its organisation once it found one. *)
Coherent(d) ==
    /\ At(d, "idle") <=> delivery[d].event = NoEvent
    /\ ~ At(d, "idle") => delivery[d].event \in inbox /\ MayArrive(delivery[d].event)
    /\ delivery[d].wrote => At(d, "mark")
    /\ delivery[d].pc \in Seeking =>
            delivery[d].org \in Org /\ BelongsTo(About(d), delivery[d].org)
    /\ At(d, "byCustomer") => About(d).customer # NoCustomer
    /\ At(d, "bySubscription") => About(d).ref # NoSub
    /\ At(d, "mark") =>
            \/ delivery[d].wrote \/ Empty(About(d)) \/ delivery[d].event \in dropped

(* A checkout holds a customer of its own organisation. *)
Held(k) ==
    LET c == checkout[k]
    IN  /\ c.pc # "new" => c.org \in Org
        /\ c.ref # NoCustomer => c.ref \in known /\ Owner[c.ref] = c.org
        /\ c.pc \in {"store", "open"} => c.ref # NoCustomer

Owned ==
    /\ \A k \in Checkout : Held(k)
    /\ \A o \in Org : customer[o] # NoCustomer =>
            customer[o] \in known /\ Owner[customer[o]] = o
    /\ \A o \in Org : subscription[o].ref # NoSub => Owner[subscription[o].ref] = o

LEMMA InitType == Init => TypeOK
BY DEF Init, TypeOK, Deliveries, Checkouts, SubscriptionRows, IdleDelivery, NewCheckout,
       NoRow, Statuses

(* The steps of one delivery change its record and nothing else of delivery. *)
LEMMA ReturnTyped ==
  ASSUME TypeOK, NEW d \in Delivery, Return(d)
  PROVE delivery' \in [Delivery -> Deliveries]
BY DEF TypeOK, Return, IdleDelivery, Deliveries

LEMMA GotoTyped ==
  ASSUME TypeOK, NEW d \in Delivery,
         NEW pc \in {"byCustomer", "bySubscription", "nobody", "organisation", "link",
                     "byPrice", "byCurrent", "write", "mark"},
         Goto(d, pc)
  PROVE delivery' \in [Delivery -> Deliveries]
BY DEF TypeOK, Goto, Deliveries

Quietly == UNCHANGED <<rows, inbox, processed, processor, staff, faults, deletes>>

LEMMA FoundTyped ==
  ASSUME TypeOK, NEW d \in Delivery, NEW o \in orgs, Found(d, o)
  PROVE delivery' \in [Delivery -> Deliveries]
<1>1. o \in Org /\ delivery[d] \in Deliveries
  BY DEF TypeOK
<1>2. [delivery[d] EXCEPT !.pc = "organisation", !.org = o] \in Deliveries
  BY <1>1 DEF Deliveries
<1> QED BY <1>2 DEF TypeOK, Found

LEMMA TypeStep == TypeOK /\ (\A d \in Delivery : Coherent(d)) /\ Owned /\ [Next]_vars => TypeOK'
<1> SUFFICES ASSUME TypeOK, \A d \in Delivery : Coherent(d), Owned, [Next]_vars PROVE TypeOK'
  OBVIOUS
<1> USE DEF rows, processor, staff, outcome
<1>d. \A d \in Delivery :
        /\ ~ At(d, "idle") => delivery[d].event \in inbox /\ delivery[d].event \in Event
        /\ delivery[d].pc \in Seeking => delivery[d].org \in Org
  BY DEF Coherent, TypeOK
<1>1. ASSUME NEW d \in Delivery, NEW e \in Event, Receive(d, e) PROVE TypeOK'
  <2>1. delivery[d] \in Deliveries
    BY DEF TypeOK
  <2>2. delivery' = [delivery EXCEPT ![d] = [delivery[d] EXCEPT !.pc = "read", !.event = e]]
    BY <1>1 DEF Receive, TypeOK
  <2>3. [delivery[d] EXCEPT !.pc = "read", !.event = e] \in Deliveries
    BY <2>1 DEF Deliveries
  <2>4. delivery' \in [Delivery -> Deliveries]
    BY <2>2, <2>3 DEF TypeOK
  <2> QED BY <1>1, <2>4 DEF TypeOK, Receive
<1>2. ASSUME NEW d \in Delivery, ReadInbox(d) PROVE TypeOK'
  <2>1. delivery[d].event \in Event
    BY <1>d, <1>2 DEF ReadInbox, At
  <2>2. About(d).org \in Org \cup {NoOrg}
    BY <2>1, AboutTyped DEF Contents
  <2>3. delivery' \in [Delivery -> Deliveries]
    BY <1>2, <2>2, FirstLookupTyped, ReturnTyped DEF ReadInbox, TypeOK, Deliveries
  <2> QED BY <1>2, <2>1, <2>3 DEF TypeOK, ReadInbox
<1>3. ASSUME NEW d \in Delivery, ByCustomer(d) PROVE TypeOK'
  BY <1>3, GotoTyped, FoundTyped DEF TypeOK, ByCustomer
<1>4. ASSUME NEW d \in Delivery, BySubscription(d) PROVE TypeOK'
  BY <1>4, GotoTyped, FoundTyped DEF TypeOK, BySubscription
<1>5. ASSUME NEW d \in Delivery, Nobody(d) PROVE TypeOK'
  <2>1. delivery[d].event \in Event
    BY <1>d, <1>5 DEF Nobody, At
  <2> QED BY <1>5, <2>1, GotoTyped DEF TypeOK, Nobody
<1>6. ASSUME NEW d \in Delivery, CheckOrganisation(d) PROVE TypeOK'
  <2>1. About(d).plan \in Plan \cup {NoPlan}
    BY <1>d, <1>6, AboutTyped DEF CheckOrganisation, At, Contents
  <2>2. delivery' \in [Delivery -> Deliveries]
    BY <1>6, <2>1, AfterLinkTyped, ReturnTyped DEF CheckOrganisation, TypeOK, Deliveries
  <2> QED BY <1>6, <2>2 DEF TypeOK, CheckOrganisation
<1>7. ASSUME NEW d \in Delivery, LinkCustomer(d) PROVE TypeOK'
  <2>1. About(d).customer \in Customer \cup {NoCustomer}
    BY <1>d, <1>7, AboutTyped DEF LinkCustomer, At, Contents
  <2>2. delivery' \in [Delivery -> Deliveries]
    BY <1>7, AfterLinkTyped, GotoTyped, ReturnTyped DEF LinkCustomer
  <2> QED BY <1>7, <2>1, <2>2 DEF TypeOK, LinkCustomer
<1>8. ASSUME NEW d \in Delivery, ByPrice(d) PROVE TypeOK'
  BY <1>8, GotoTyped DEF TypeOK, ByPrice, PlanKnown, Deliveries
<1>9. ASSUME NEW d \in Delivery, ByCurrent(d) PROVE TypeOK'
  <2>1. subscription[delivery[d].org].plan \in Plan \cup {NoPlan}
    BY <1>d, <1>9 DEF TypeOK, SubscriptionRows, ByCurrent, At, Seeking
  <2> QED BY <1>9, <2>1, ReturnTyped DEF TypeOK, ByCurrent, PlanKnown, Deliveries
<1>10. ASSUME NEW d \in Delivery, WriteSubscription(d) PROVE TypeOK'
  <2>1. delivery[d].event \in Event /\ delivery[d].org \in Org
    BY <1>d, <1>10 DEF WriteSubscription, At, Seeking
  <2>2. CASE ~ Writable(delivery[d].org, About(d).ref)
    BY <1>10, <2>2, ReturnTyped DEF TypeOK, WriteSubscription
  <2>3. CASE Writable(delivery[d].org, About(d).ref)
    <3>1. Row(d) \in SubscriptionRows
      BY <2>1, AboutTyped DEF Row, StatusOf, SubscriptionRows, TypeOK, Deliveries, Contents, Statuses
    <3>2. subscription' \in [Org -> SubscriptionRows]
      BY <1>10, <2>3, <3>1 DEF WriteSubscription, TypeOK
    <3>3. Wrote(d, delivery[d].org)
      BY <1>10, <2>3 DEF WriteSubscription
    <3>4. delivery' \in [Delivery -> Deliveries]
      <4>1. [delivery[d] EXCEPT !.pc = "mark", !.wrote = TRUE] \in Deliveries
        <5>1. delivery[d] \in Deliveries
          BY DEF TypeOK
        <5> QED BY <5>1 DEF Deliveries
      <4> QED BY <3>3, <4>1 DEF Wrote, TypeOK
    <3>5. applied' \in [Event -> Nat] /\ disordered' \subseteq Org
      BY <2>1, <3>3 DEF Wrote, TypeOK
    <3>6. last' \in [Org -> Nat]
      <4>1. delivery[d].event \in Nat /\ last[delivery[d].org] \in Nat
        BY <2>1 DEF TypeOK
      <4> QED BY <2>1, <3>3, <4>1 DEF Wrote, TypeOK
    <3> QED BY <1>10, <3>2, <3>3, <3>4, <3>5, <3>6 DEF TypeOK, WriteSubscription, Wrote
  <2> QED BY <2>2, <2>3
<1>11. ASSUME NEW d \in Delivery, MarkProcessed(d) PROVE TypeOK'
  BY <1>d, <1>11, ReturnTyped DEF TypeOK, MarkProcessed, At
<1>12. ASSUME NEW d \in Delivery, LoseDelivery(d) PROVE TypeOK'
  <2>1. delivery[d].event \in Event
    BY <1>d, <1>12 DEF LoseDelivery, At
  <2>2. delivery' \in [Delivery -> Deliveries] /\ excused' \subseteq Event
    BY <1>12, <2>1, ReturnTyped DEF TypeOK, LoseDelivery
  <2> QED BY <1>12, <2>2 DEF TypeOK, LoseDelivery
<1>13. ASSUME NEW k \in Checkout, NEW o \in Org, BeginCheckout(k, o) PROVE TypeOK'
  <2>1. checkout' \in [Checkout -> Checkouts]
    BY <1>13 DEF TypeOK, BeginCheckout, Checkouts
  <2> QED BY <1>13, <2>1 DEF TypeOK, BeginCheckout
<1>14. ASSUME NEW k \in Checkout, EnsureCustomer(k) PROVE TypeOK'
  <2>1. checkout' \in [Checkout -> Checkouts]
    BY <1>14 DEF TypeOK, EnsureCustomer, Checkouts
  <2> QED BY <1>14, <2>1 DEF TypeOK, EnsureCustomer
<1>15. ASSUME NEW k \in Checkout, StoreCustomer(k) PROVE TypeOK'
  BY <1>15 DEF TypeOK, StoreCustomer, EndCheckout, Checkouts
<1>16. ASSUME NEW k \in Checkout, OpenSession(k) PROVE TypeOK'
  BY <1>16 DEF Owned, Held, TypeOK, OpenSession, EndCheckout, Checkouts
<1>17. ASSUME NEW k \in Checkout, LoseCheckout(k) PROVE TypeOK'
  BY <1>17 DEF TypeOK, LoseCheckout, EndCheckout, Checkouts
<1>18. ASSUME NEW p \in Plan, NEW r \in Price, UpsertPlanPrice(p, r) PROVE TypeOK'
  BY <1>18 DEF TypeOK, UpsertPlanPrice
<1>19. ASSUME NEW o \in Org, UpsertSubscription(o) PROVE TypeOK'
  <2>1. subscription' \in [Org -> SubscriptionRows]
    <3>1. PICK c \in Choice :
              subscription' = [subscription EXCEPT ![o].plan = c.plan, ![o].status = c.status]
      BY <1>19 DEF UpsertSubscription
    <3>2. c.plan \in Plan /\ c.status \in Statuses
      OBVIOUS
    <3>3. [subscription[o] EXCEPT !.plan = c.plan, !.status = c.status] \in SubscriptionRows
      <4>1. subscription[o] \in SubscriptionRows
        BY DEF TypeOK
      <4> QED BY <3>2, <4>1 DEF SubscriptionRows
    <3>4. subscription' = [subscription EXCEPT ![o] =
                              [subscription[o] EXCEPT !.plan = c.plan, !.status = c.status]]
      BY <3>1 DEF TypeOK
    <3> QED BY <3>3, <3>4 DEF TypeOK
  <2> QED BY <1>19, <2>1 DEF TypeOK, UpsertSubscription
<1>20. ASSUME NEW o \in Org, DeleteOrganisation(o) PROVE TypeOK'
  <2>1. NoRow \in SubscriptionRows
    BY DEF NoRow, SubscriptionRows
  <2> QED BY <1>20, <2>1 DEF TypeOK, DeleteOrganisation
<1>21. CASE UNCHANGED vars
  BY <1>21 DEF TypeOK, vars
<1> QED
  BY <1>1, <1>2, <1>3, <1>4, <1>5, <1>6, <1>7, <1>8, <1>9, <1>10, <1>11, <1>12, <1>13, <1>14,
     <1>15, <1>16, <1>17, <1>18, <1>19, <1>20, <1>21 DEF Next, HandlerStep

---------------------------------------------------------------------------
LEMMA OneOwner ==
  ASSUME NEW e \in Event, NEW o \in Org,
         \/ Content[e].org = o
         \/ Content[e].customer # NoCustomer /\ Owner[Content[e].customer] = o
         \/ Content[e].ref # NoSub /\ Owner[Content[e].ref] = o
  PROVE BelongsTo(Content[e], o)
BY DEF OfOneOrganisation, BelongsTo

(* A delivery that a step leaves alone stays coherent. *)
LEMMA Untouched ==
  ASSUME NEW x, Coherent(x), delivery'[x] = delivery[x], inbox \subseteq inbox',
         dropped \subseteq dropped', opened \subseteq opened'
  PROVE Coherent(x)'
BY DEF Coherent, MayArrive, At, About, MayArrive

LEMMA OthersUntouched ==
  ASSUME TypeOK, NEW d \in Delivery, NEW r, delivery' = [delivery EXCEPT ![d] = r],
         \A x \in Delivery : Coherent(x), inbox \subseteq inbox', dropped \subseteq dropped',
         opened \subseteq opened', Coherent(d)'
  PROVE \A x \in Delivery : Coherent(x)'
<1> SUFFICES ASSUME NEW x \in Delivery, x # d PROVE Coherent(x)'
  OBVIOUS
<1>1. delivery'[x] = delivery[x]
  BY DEF TypeOK
<1> QED BY <1>1, Untouched

LEMMA ReturnedIsCoherent ==
  ASSUME TypeOK, NEW d \in Delivery, Return(d)
  PROVE Coherent(d)'
<1>1. delivery'[d] = IdleDelivery
  BY DEF TypeOK, Return
<1> QED BY <1>1 DEF Coherent, MayArrive, At, IdleDelivery, Seeking

(* The record that a step leaves in a delivery is coherent. *)
LEMMA MovedIsCoherent ==
  ASSUME TypeOK, NEW d \in Delivery, Coherent(d), NEW pc, Goto(d, pc),
         pc \in {"byCustomer", "bySubscription", "nobody", "organisation", "link",
                "byPrice", "byCurrent", "write", "mark"},
         ~ At(d, "idle"), ~ delivery[d].wrote,
         inbox \subseteq inbox', dropped \subseteq dropped', opened \subseteq opened',
         pc \in Seeking => delivery[d].pc \in Seeking,
         pc = "byCustomer" => About(d).customer # NoCustomer,
         pc = "bySubscription" => About(d).ref # NoSub,
         pc = "mark" => Empty(About(d)) \/ delivery[d].event \in dropped'
  PROVE Coherent(d)'
<1>1. /\ delivery'[d].pc = pc /\ delivery'[d].event = delivery[d].event
      /\ delivery'[d].org = delivery[d].org /\ delivery'[d].wrote = delivery[d].wrote
  BY DEF TypeOK, Goto, Deliveries
<1> QED BY <1>1 DEF Coherent, MayArrive, At, About, Seeking

LEMMA CoherentStep ==
  TypeOK /\ (\A d \in Delivery : Coherent(d)) /\ Owned /\ [Next]_vars
      => \A d \in Delivery : Coherent(d)'
<1> SUFFICES ASSUME TypeOK, \A d \in Delivery : Coherent(d), Owned, [Next]_vars
             PROVE \A d \in Delivery : Coherent(d)'
  OBVIOUS
<1> DEFINE Kept == inbox \subseteq inbox' /\ dropped \subseteq dropped' /\ opened \subseteq opened'
<1> USE DEF rows, processor, staff, outcome
<1>0. ASSUME delivery' = delivery, Kept PROVE \A d \in Delivery : Coherent(d)'
  BY <1>0, Untouched
<1>r. ASSUME NEW d \in Delivery, Return(d), Kept PROVE \A x \in Delivery : Coherent(x)'
  BY <1>r, ReturnedIsCoherent, OthersUntouched DEF Return
<1>g. ASSUME NEW d \in Delivery, NEW pc, Goto(d, pc), Kept, Coherent(d)'
      PROVE \A x \in Delivery : Coherent(x)'
  <2>1. delivery' = [delivery EXCEPT ![d] = [delivery[d] EXCEPT !.pc = pc]]
    BY <1>g DEF Goto, TypeOK
  <2> QED BY <1>g, <2>1, OthersUntouched
<1>f. ASSUME NEW d \in Delivery, NEW o \in orgs, Found(d, o), Kept, ~ At(d, "idle"),
             ~ delivery[d].wrote, BelongsTo(About(d), o)
      PROVE \A x \in Delivery : Coherent(x)'
  <2>1. delivery' = [delivery EXCEPT ![d] =
                        [delivery[d] EXCEPT !.pc = "organisation", !.org = o]]
    BY <1>f DEF Found, TypeOK
  <2>2. /\ delivery'[d].pc = "organisation" /\ delivery'[d].event = delivery[d].event
        /\ delivery'[d].org = o /\ delivery'[d].wrote = delivery[d].wrote
    BY <2>1 DEF TypeOK, Deliveries
  <2>3. o \in Org
    BY DEF TypeOK
  <2>4. Coherent(d)'
    BY <1>f, <2>2, <2>3 DEF Coherent, MayArrive, At, About, Seeking
  <2> QED BY <1>f, <2>1, <2>4, OthersUntouched
<1>d. \A d \in Delivery :
        /\ ~ At(d, "idle") => delivery[d].event \in Event
        /\ delivery[d].wrote => At(d, "mark")
        /\ delivery[d].pc \in Seeking =>
              delivery[d].org \in Org /\ BelongsTo(About(d), delivery[d].org)
  BY DEF Coherent, TypeOK
<1>1. ASSUME NEW d \in Delivery, NEW e \in Event, Receive(d, e)
      PROVE \A x \in Delivery : Coherent(x)'
  <2>1. delivery' = [delivery EXCEPT ![d] = [delivery[d] EXCEPT !.pc = "read", !.event = e]]
    BY <1>1 DEF Receive, TypeOK
  <2>2. /\ delivery'[d].pc = "read" /\ delivery'[d].event = e
        /\ delivery'[d].wrote = delivery[d].wrote
    BY <2>1 DEF TypeOK, Deliveries
  <2>3. Coherent(d)'
    BY <1>1, <1>d, <2>2 DEF Receive, Coherent, MayArrive, At, Seeking
  <2> QED BY <1>1, <2>1, <2>3, OthersUntouched DEF Receive
<1>2. ASSUME NEW d \in Delivery, ReadInbox(d) PROVE \A x \in Delivery : Coherent(x)'
  <2>1. Kept /\ ~ At(d, "idle") /\ ~ delivery[d].wrote /\ delivery[d].event \in Event
    BY <1>2, <1>d DEF ReadInbox, At
  <2>2. CASE Return(d)
    BY <1>r, <2>1, <2>2
  <2>3. CASE ~ Return(d)
    <3>1. delivery' = [delivery EXCEPT ![d] = [delivery[d] EXCEPT
                            !.pc = FirstLookup(About(d)), !.org = About(d).org]]
      BY <1>2, <2>3 DEF ReadInbox, TypeOK
    <3>2. /\ delivery'[d].pc = FirstLookup(About(d)) /\ delivery'[d].event = delivery[d].event
          /\ delivery'[d].org = About(d).org /\ delivery'[d].wrote = delivery[d].wrote
      BY <3>1 DEF TypeOK, Deliveries
    <3>3. About(d)' = About(d)
      BY <3>2 DEF About
    <3>4. About(d).org # NoOrg => About(d).org \in Org /\ BelongsTo(About(d), About(d).org)
      BY <2>1, AboutTyped, OneOwner DEF About, Contents
    <3>5. FirstLookup(About(d)) \in Seeking => About(d).org # NoOrg
      BY DEF FirstLookup, Seeking
    <3>6. Coherent(d)'
      BY <2>1, <3>2, <3>3, <3>4, <3>5 DEF Coherent, MayArrive, At, FirstLookup, Seeking
    <3> QED BY <2>1, <3>1, <3>6, OthersUntouched
  <2> QED BY <2>2, <2>3
<1>3. ASSUME NEW d \in Delivery, ByCustomer(d) PROVE \A x \in Delivery : Coherent(x)'
  <2>1. Kept /\ ~ At(d, "idle") /\ ~ delivery[d].wrote /\ delivery[d].event \in Event
        /\ About(d).customer # NoCustomer
    BY <1>3, <1>d DEF ByCustomer, At, Coherent
  <2>2. ASSUME NEW o \in orgs, customer[o] = About(d).customer, Found(d, o)
        PROVE \A x \in Delivery : Coherent(x)'
    <3>1. o \in Org /\ Owner[About(d).customer] = o
      BY <2>1, <2>2 DEF Owned, TypeOK
    <3>2. BelongsTo(About(d), o)
      BY <2>1, <3>1, OneOwner DEF About
    <3> QED BY <1>f, <2>1, <2>2, <3>2
  <2>3. ASSUME Goto(d, IF About(d).ref # NoSub THEN "bySubscription" ELSE "nobody")
        PROVE \A x \in Delivery : Coherent(x)'
    <3>1. Coherent(d)'
      BY <2>1, <2>3, MovedIsCoherent DEF Seeking
    <3> QED BY <1>g, <2>1, <2>3, <3>1
  <2> QED BY <1>3, <2>2, <2>3 DEF ByCustomer
<1>4. ASSUME NEW d \in Delivery, BySubscription(d) PROVE \A x \in Delivery : Coherent(x)'
  <2>1. Kept /\ ~ At(d, "idle") /\ ~ delivery[d].wrote /\ delivery[d].event \in Event
        /\ About(d).ref # NoSub
    BY <1>4, <1>d DEF BySubscription, At, Coherent
  <2>2. ASSUME NEW o \in orgs, subscription[o].ref = About(d).ref, Found(d, o)
        PROVE \A x \in Delivery : Coherent(x)'
    <3>1. o \in Org /\ Owner[About(d).ref] = o
      BY <2>1, <2>2 DEF Owned, TypeOK
    <3>2. BelongsTo(About(d), o)
      BY <2>1, <3>1, OneOwner DEF About
    <3> QED BY <1>f, <2>1, <2>2, <3>2
  <2>3. ASSUME Goto(d, "nobody") PROVE \A x \in Delivery : Coherent(x)'
    <3>1. Coherent(d)'
      BY <2>1, <2>3, MovedIsCoherent DEF Seeking
    <3> QED BY <1>g, <2>1, <2>3, <3>1
  <2> QED BY <1>4, <2>2, <2>3 DEF BySubscription
<1>5. ASSUME NEW d \in Delivery, Nobody(d) PROVE \A x \in Delivery : Coherent(x)'
  <2>1. Kept /\ ~ At(d, "idle") /\ ~ delivery[d].wrote /\ delivery[d].event \in dropped'
    BY <1>5, <1>d DEF Nobody, At
  <2>2. Coherent(d)'
    BY <1>5, <2>1, MovedIsCoherent DEF Nobody, Seeking
  <2> QED BY <1>5, <1>g, <2>1, <2>2 DEF Nobody
<1>6. ASSUME NEW d \in Delivery, CheckOrganisation(d) PROVE \A x \in Delivery : Coherent(x)'
  <2>1. Kept /\ ~ At(d, "idle") /\ ~ delivery[d].wrote /\ delivery[d].pc \in Seeking
    BY <1>6, <1>d DEF CheckOrganisation, At, Seeking
  <2>2. CASE delivery[d].org \notin orgs
    BY <1>6, <1>r, <2>1, <2>2 DEF CheckOrganisation
  <2>3. CASE delivery[d].org \in orgs
    <3> DEFINE pc == IF About(d).customer # NoCustomer THEN "link" ELSE AfterLink(About(d))
    <3>1. delivery' = [delivery EXCEPT ![d] = [delivery[d] EXCEPT
                            !.plan = About(d).plan, !.pc = pc]]
      BY <1>6, <2>3 DEF CheckOrganisation, TypeOK
    <3>2. /\ delivery'[d].pc = pc /\ delivery'[d].event = delivery[d].event
          /\ delivery'[d].org = delivery[d].org /\ delivery'[d].wrote = delivery[d].wrote
      BY <3>1 DEF TypeOK, Deliveries
    <3>3. About(d)' = About(d)
      BY <3>2 DEF About
    <3>4. pc = "mark" => Empty(About(d))
      BY DEF AfterLink, Empty
    <3>5. pc \in {"link", "mark", "write", "byPrice", "byCurrent"}
      BY AfterLinkTyped
    <3> HIDE DEF pc
    <3>6. Coherent(d)'
      BY <2>1, <3>2, <3>3, <3>4, <3>5 DEF Coherent, MayArrive, At, Seeking
    <3> QED BY <2>1, <3>1, <3>6, OthersUntouched
  <2> QED BY <2>2, <2>3
<1>7. ASSUME NEW d \in Delivery, LinkCustomer(d) PROVE \A x \in Delivery : Coherent(x)'
  <2>1. Kept /\ ~ At(d, "idle") /\ ~ delivery[d].wrote /\ delivery[d].pc \in Seeking
    BY <1>7, <1>d DEF LinkCustomer, At, Seeking
  <2>2. ASSUME Goto(d, AfterLink(About(d))) PROVE \A x \in Delivery : Coherent(x)'
    <3>1. AfterLink(About(d)) = "mark" => Empty(About(d))
      BY DEF AfterLink, Empty
    <3>2. Coherent(d)'
      BY <2>1, <2>2, <3>1, AfterLinkTyped, MovedIsCoherent
    <3> QED BY <1>g, <2>1, <2>2, <3>2
  <2> QED BY <1>7, <1>r, <2>1, <2>2 DEF LinkCustomer
<1>p. ASSUME NEW d \in Delivery, NEW p, PlanKnown(d, p), Kept, ~ At(d, "idle"),
             ~ delivery[d].wrote, delivery[d].pc \in Seeking
      PROVE \A x \in Delivery : Coherent(x)'
  <2>1. delivery' = [delivery EXCEPT ![d] = [delivery[d] EXCEPT !.pc = "write", !.plan = p]]
    BY <1>p DEF PlanKnown, TypeOK
  <2>2. /\ delivery'[d].pc = "write" /\ delivery'[d].event = delivery[d].event
        /\ delivery'[d].org = delivery[d].org /\ delivery'[d].wrote = delivery[d].wrote
    BY <2>1 DEF TypeOK, Deliveries
  <2>3. Coherent(d)'
    BY <1>p, <2>2 DEF Coherent, MayArrive, At, About, Seeking
  <2> QED BY <1>p, <2>1, <2>3, OthersUntouched
<1>8. ASSUME NEW d \in Delivery, ByPrice(d) PROVE \A x \in Delivery : Coherent(x)'
  <2>1. Kept /\ ~ At(d, "idle") /\ ~ delivery[d].wrote /\ delivery[d].pc \in Seeking
    BY <1>8, <1>d DEF ByPrice, At, Seeking
  <2>2. ASSUME Goto(d, "byCurrent") PROVE \A x \in Delivery : Coherent(x)'
    BY <1>g, <2>1, <2>2, MovedIsCoherent
  <2> QED BY <1>8, <1>p, <2>1, <2>2 DEF ByPrice
<1>9. ASSUME NEW d \in Delivery, ByCurrent(d) PROVE \A x \in Delivery : Coherent(x)'
  <2>1. Kept /\ ~ At(d, "idle") /\ ~ delivery[d].wrote /\ delivery[d].pc \in Seeking
    BY <1>9, <1>d DEF ByCurrent, At, Seeking
  <2> QED BY <1>9, <1>p, <1>r, <2>1 DEF ByCurrent
<1>10. ASSUME NEW d \in Delivery, WriteSubscription(d) PROVE \A x \in Delivery : Coherent(x)'
  <2>1. Kept
    BY <1>10 DEF WriteSubscription, Wrote
  <2>2. ASSUME Wrote(d, delivery[d].org) PROVE \A x \in Delivery : Coherent(x)'
    <3>1. delivery' = [delivery EXCEPT ![d] = [delivery[d] EXCEPT !.pc = "mark", !.wrote = TRUE]]
      BY <2>2 DEF Wrote, TypeOK
    <3>2. /\ delivery'[d].pc = "mark" /\ delivery'[d].event = delivery[d].event
          /\ delivery'[d].wrote
      BY <3>1 DEF TypeOK, Deliveries
    <3>3. Coherent(d)'
      BY <1>10, <2>1, <3>2 DEF WriteSubscription, Coherent, MayArrive, At, Seeking
    <3> QED BY <2>1, <3>1, <3>3, OthersUntouched
  <2> QED BY <1>10, <1>r, <2>1, <2>2 DEF WriteSubscription
<1>11. ASSUME NEW d \in Delivery, MarkProcessed(d) PROVE \A x \in Delivery : Coherent(x)'
  BY <1>11, <1>r DEF MarkProcessed
<1>12. ASSUME NEW d \in Delivery, LoseDelivery(d) PROVE \A x \in Delivery : Coherent(x)'
  BY <1>12, <1>r DEF LoseDelivery
<1>13. ASSUME NEW k \in Checkout, NEW o \in Org, BeginCheckout(k, o) PROVE \A d \in Delivery : Coherent(d)'
  BY <1>0, <1>13 DEF BeginCheckout
<1>14. ASSUME NEW k \in Checkout, EnsureCustomer(k) PROVE \A d \in Delivery : Coherent(d)'
  BY <1>0, <1>14 DEF EnsureCustomer
<1>15. ASSUME NEW k \in Checkout, StoreCustomer(k) PROVE \A d \in Delivery : Coherent(d)'
  BY <1>0, <1>15 DEF StoreCustomer
<1>16. ASSUME NEW k \in Checkout, OpenSession(k) \/ LoseCheckout(k)
       PROVE \A d \in Delivery : Coherent(d)'
  BY <1>0, <1>16 DEF OpenSession, LoseCheckout
<1>17. ASSUME NEW p \in Plan, NEW r \in Price, UpsertPlanPrice(p, r)
       PROVE \A d \in Delivery : Coherent(d)'
  BY <1>0, <1>17 DEF UpsertPlanPrice
<1>18. ASSUME NEW o \in Org, UpsertSubscription(o) \/ DeleteOrganisation(o)
       PROVE \A d \in Delivery : Coherent(d)'
  BY <1>0, <1>18 DEF UpsertSubscription, DeleteOrganisation
<1>19. CASE UNCHANGED vars
  BY <1>0, <1>19 DEF vars
<1> QED
  BY <1>1, <1>2, <1>3, <1>4, <1>5, <1>6, <1>7, <1>8, <1>9, <1>10, <1>11, <1>12, <1>13, <1>14,
     <1>15, <1>16, <1>17, <1>18, <1>19 DEF Next, HandlerStep

---------------------------------------------------------------------------
LEMMA OwnedStep ==
  TypeOK /\ (\A d \in Delivery : Coherent(d)) /\ Owned /\ [Next]_vars => Owned'
<1> SUFFICES ASSUME TypeOK, \A d \in Delivery : Coherent(d), Owned, [Next]_vars PROVE Owned'
  OBVIOUS
<1> USE DEF rows, processor, staff, outcome
<1>0. ASSUME UNCHANGED <<checkout, known, customer, subscription>> PROVE Owned'
  BY <1>0 DEF Owned, Held
<1>d. ASSUME NEW d \in Delivery, delivery[d].pc \in Seeking
      PROVE /\ delivery[d].org \in Org /\ BelongsTo(About(d), delivery[d].org)
  BY <1>d DEF Coherent
<1>1. ASSUME NEW d \in Delivery, LinkCustomer(d) PROVE Owned'
  <2>1. delivery[d].org \in Org /\ BelongsTo(About(d), delivery[d].org)
    BY <1>d, <1>1 DEF LinkCustomer, At, Seeking
  <2>2. About(d).customer # NoCustomer => About(d).customer \in known
    BY <1>1 DEF LinkCustomer, Coherent, MayArrive, At, About, TypeOK
  <2>3. UNCHANGED <<checkout, known, subscription>>
    BY <1>1 DEF LinkCustomer
  <2>4. \/ UNCHANGED customer
        \/ customer' = [customer EXCEPT ![delivery[d].org] = About(d).customer]
    BY <1>1 DEF LinkCustomer
  <2>5. \A o \in Org : customer'[o] # NoCustomer =>
            customer'[o] \in known /\ Owner[customer'[o]] = o
    BY <2>1, <2>2, <2>4 DEF Owned, BelongsTo, TypeOK
  <2> QED BY <2>3, <2>5 DEF Owned, Held
<1>2. ASSUME NEW d \in Delivery, WriteSubscription(d) PROVE Owned'
  <2>1. delivery[d].org \in Org /\ BelongsTo(About(d), delivery[d].org)
    BY <1>d, <1>2 DEF WriteSubscription, At, Seeking
  <2>2. UNCHANGED <<checkout, known, customer>>
    BY <1>2 DEF WriteSubscription
  <2>3. \/ UNCHANGED subscription
        \/ subscription' = [subscription EXCEPT ![delivery[d].org] = Row(d)]
    BY <1>2 DEF WriteSubscription
  <2>4. Row(d).ref = About(d).ref
    BY DEF Row
  <2>5. \A o \in Org : subscription'[o].ref # NoSub => Owner[subscription'[o].ref] = o
    BY <2>1, <2>3, <2>4 DEF Owned, BelongsTo, TypeOK
  <2> QED BY <2>2, <2>5 DEF Owned, Held
<1>k. ASSUME NEW k \in Checkout, NEW r, checkout' = [checkout EXCEPT ![k] = r],
             known \subseteq known', UNCHANGED <<customer, subscription>>, Held(k)'
      PROVE Owned'
  <2>1. ASSUME NEW j \in Checkout, j # k PROVE Held(j)'
    <3>1. checkout'[j] = checkout[j]
      BY <1>k, <2>1 DEF TypeOK
    <3> QED BY <1>k, <3>1 DEF Owned, Held
  <2> QED BY <1>k, <2>1 DEF Owned
<1>3. ASSUME NEW k \in Checkout, NEW o \in Org, BeginCheckout(k, o) PROVE Owned'
  <2>1. checkout'[k] = [pc |-> "ensure", org |-> o, ref |-> customer[o]]
    BY <1>3 DEF BeginCheckout, TypeOK
  <2>2. Held(k)'
    BY <1>3, <2>1 DEF BeginCheckout, Held, Owned
  <2> QED BY <1>3, <1>k, <2>2 DEF BeginCheckout
<1>4. ASSUME NEW k \in Checkout, EnsureCustomer(k) PROVE Owned'
  <2>1. checkout[k].pc = "ensure" /\ Held(k) /\ checkout[k] \in Checkouts
    BY <1>4 DEF EnsureCustomer, Owned, TypeOK
  <2>2. CASE /\ checkout[k].ref # NoCustomer
             /\ checkout' = [checkout EXCEPT ![k].pc = "store"]
             /\ UNCHANGED known
    <3>1. checkout' = [checkout EXCEPT ![k] = [checkout[k] EXCEPT !.pc = "store"]]
      BY <2>2 DEF TypeOK
    <3>2. /\ checkout'[k].pc = "store" /\ checkout'[k].org = checkout[k].org
          /\ checkout'[k].ref = checkout[k].ref
      BY <3>1 DEF TypeOK, Checkouts
    <3>3. Held(k)'
      BY <2>1, <2>2, <3>2 DEF Held
    <3> QED BY <1>4, <1>k, <2>2, <3>1, <3>3 DEF EnsureCustomer
  <2>3. ASSUME NEW c \in Customer \ known, Owner[c] = checkout[k].org,
               known' = known \cup {c},
               checkout' = [checkout EXCEPT ![k].pc = "store", ![k].ref = c]
        PROVE Owned'
    <3>1. checkout' = [checkout EXCEPT ![k] = [checkout[k] EXCEPT !.pc = "store", !.ref = c]]
      BY <2>3 DEF TypeOK
    <3>2. /\ checkout'[k].pc = "store" /\ checkout'[k].org = checkout[k].org
          /\ checkout'[k].ref = c
      BY <3>1 DEF TypeOK, Checkouts
    <3>3. Held(k)'
      BY <2>1, <2>3, <3>2 DEF Held
    <3> QED BY <1>4, <1>k, <2>3, <3>1, <3>3 DEF EnsureCustomer
  <2> QED BY <1>4, <2>2, <2>3 DEF EnsureCustomer
<1>m. ASSUME NEW k \in Checkout, NEW pc \in {"open", "done"},
             checkout' = [checkout EXCEPT ![k].pc = pc], UNCHANGED known,
             pc = "open" => checkout[k].ref # NoCustomer, checkout[k].pc # "new"
      PROVE /\ Held(k)' /\ checkout'[k].org = checkout[k].org
            /\ checkout' = [checkout EXCEPT ![k] = [checkout[k] EXCEPT !.pc = pc]]
  <2>1. checkout' = [checkout EXCEPT ![k] = [checkout[k] EXCEPT !.pc = pc]]
    BY <1>m DEF TypeOK
  <2>2. /\ checkout'[k].pc = pc /\ checkout'[k].org = checkout[k].org
        /\ checkout'[k].ref = checkout[k].ref
    BY <2>1 DEF TypeOK, Checkouts
  <2> QED BY <1>m, <2>1, <2>2 DEF Held, Owned
<1>5. ASSUME NEW k \in Checkout, StoreCustomer(k) PROVE Owned'
  <2>1. Held(k) /\ checkout[k].pc = "store"
    BY <1>5 DEF StoreCustomer, Owned
  <2>2. CASE Linkable(checkout[k].org, checkout[k].ref)
    <3>1. checkout' = [checkout EXCEPT ![k].pc = "open"] /\ UNCHANGED <<known, subscription>>
          /\ customer' = [customer EXCEPT ![checkout[k].org] = checkout[k].ref]
      BY <1>5, <2>2 DEF StoreCustomer
    <3>2. Held(k)' /\ \A j \in Checkout \ {k} : Held(j)'
      <4>1. \A j \in Checkout \ {k} : checkout'[j] = checkout[j]
        BY <3>1 DEF TypeOK
      <4>2. Held(k)'
        BY <1>m, <2>1, <3>1 DEF Held
      <4> QED BY <3>1, <4>1, <4>2 DEF Owned, Held
    <3>3. \A o \in Org : customer'[o] # NoCustomer =>
            customer'[o] \in known /\ Owner[customer'[o]] = o
      BY <2>1, <3>1 DEF Owned, Held, TypeOK
    <3> QED BY <3>1, <3>2, <3>3 DEF Owned
  <2>3. CASE ~ Linkable(checkout[k].org, checkout[k].ref)
    BY <1>5, <1>k, <1>m, <2>1, <2>3 DEF StoreCustomer, EndCheckout
  <2> QED BY <2>2, <2>3
<1>6. ASSUME NEW k \in Checkout, OpenSession(k) PROVE Owned'
  BY <1>6, <1>k, <1>m DEF OpenSession, EndCheckout
<1>7. ASSUME NEW k \in Checkout, LoseCheckout(k) PROVE Owned'
  BY <1>7, <1>k, <1>m DEF LoseCheckout, EndCheckout
<1>8. ASSUME NEW o \in Org, UpsertSubscription(o) PROVE Owned'
  <2>1. \A q \in Org : subscription'[q].ref = subscription[q].ref
    BY <1>8 DEF UpsertSubscription, TypeOK, SubscriptionRows
  <2> QED BY <1>8, <2>1 DEF UpsertSubscription, Owned, Held
<1>9. ASSUME NEW o \in Org, DeleteOrganisation(o) PROVE Owned'
  <2>1. \A q \in Org : /\ subscription'[q].ref \in {subscription[q].ref, NoSub}
                       /\ customer'[q] \in {customer[q], NoCustomer}
    BY <1>9 DEF DeleteOrganisation, TypeOK, NoRow
  <2> QED BY <1>9, <2>1 DEF DeleteOrganisation, Owned, Held
<1>10. CASE UNCHANGED vars
  BY <1>0, <1>10 DEF vars
<1> QED
  BY <1>0, <1>1, <1>2, <1>3, <1>4, <1>5, <1>6, <1>7, <1>8, <1>9, <1>10
     DEF Next, HandlerStep, Receive, ReadInbox, ByCustomer, BySubscription, Nobody,
         CheckOrganisation, ByPrice, ByCurrent, MarkProcessed, LoseDelivery, UpsertPlanPrice

---------------------------------------------------------------------------
IInv == TypeOK /\ (\A d \in Delivery : Coherent(d)) /\ Owned

LEMMA InitInv == Init => IInv
<1> SUFFICES ASSUME Init PROVE IInv
  OBVIOUS
<1>1. \A o \in Org : subscription[o].ref = NoSub
  <2>1. \A o \in Org :
            subscription[o] \in {NoRow, [plan |-> FreePlan, status |-> "active", ref |-> NoSub]}
    BY DEF Init
  <2>2. NoRow.ref = NoSub /\ [plan |-> FreePlan, status |-> "active", ref |-> NoSub].ref = NoSub
    BY DEF NoRow
  <2> QED BY <2>1, <2>2
<1>2. \A d \in Delivery : Coherent(d)
  <2>1. \A d \in Delivery : delivery[d] = IdleDelivery
    BY DEF Init
  <2> QED BY <2>1 DEF IdleDelivery, Coherent, At, Seeking
<1>3. \A k \in Checkout : Held(k)
  <2>1. \A k \in Checkout : checkout[k] = NewCheckout
    BY DEF Init
  <2> QED BY <2>1 DEF Held, NewCheckout
<1> QED BY InitType, <1>1, <1>2, <1>3 DEF IInv, Init, Owned

LEMMA InvStep == IInv /\ [Next]_vars => IInv'
BY TypeStep, CoherentStep, OwnedStep DEF IInv

LEMMA Invariance == Spec => []IInv
BY InitInv, InvStep, PTL DEF Spec

(* Type correctness of the tables, the handlers and the checkouts. *)
THEOREM TypeCorrect == Spec => []TypeOK
BY Invariance, PTL DEF IInv

(* However deliveries, checkouts, overrides and deletions interleave, an
   organisation is written by what its own customers pay and by nothing else. *)
THEOREM PaymentsStayApart == Spec => []OwnMoneyOnly
<1>1. IInv => OwnMoneyOnly
  <2>1. ASSUME IInv, NEW d \in Delivery, At(d, "write")
        PROVE BelongsTo(About(d), delivery[d].org)
    BY <2>1 DEF IInv, Coherent, At, Seeking
  <2>2. IInv => \A o \in Org :
            /\ customer[o] # NoCustomer => Owner[customer[o]] = o
            /\ subscription[o].ref # NoSub => Owner[subscription[o].ref] = o
    BY DEF IInv, Owned
  <2> QED BY <2>1, <2>2 DEF OwnMoneyOnly, BelongsTo, About
<1> QED BY Invariance, <1>1, PTL

---------------------------------------------------------------------------
(* An event that wrote has been counted: what is settled was applied. *)
Counted == \A d \in Delivery : delivery[d].wrote => applied[delivery[d].event] > 0

LEMMA CountedStep == IInv /\ Counted /\ [Next]_vars => Counted'
<1> SUFFICES ASSUME IInv, Counted, [Next]_vars PROVE Counted'
  OBVIOUS
<1> USE DEF rows, processor, staff, outcome
<1>t. TypeOK
  BY DEF IInv
<1>0. ASSUME UNCHANGED <<delivery, applied>> PROVE Counted'
  BY <1>0 DEF Counted
<1>e. ASSUME NEW d \in Delivery, NEW r, delivery' = [delivery EXCEPT ![d] = r],
             r.wrote = delivery[d].wrote, r.event = delivery[d].event, UNCHANGED applied
      PROVE Counted'
  BY <1>e, <1>t DEF Counted, TypeOK
<1>g. ASSUME NEW d \in Delivery, NEW pc, Goto(d, pc), UNCHANGED applied PROVE Counted'
  <2>1. delivery' = [delivery EXCEPT ![d] = [delivery[d] EXCEPT !.pc = pc]]
    BY <1>g, <1>t DEF Goto, TypeOK
  <2>2. [delivery[d] EXCEPT !.pc = pc].wrote = delivery[d].wrote
        /\ [delivery[d] EXCEPT !.pc = pc].event = delivery[d].event
    BY <1>t DEF TypeOK, Deliveries
  <2> QED BY <1>e, <1>g, <2>1, <2>2
<1>r. ASSUME NEW d \in Delivery, Return(d), UNCHANGED applied PROVE Counted'
  <2>1. ~ delivery'[d].wrote /\ \A x \in Delivery \ {d} : delivery'[x] = delivery[x]
    BY <1>r, <1>t DEF Return, IdleDelivery, TypeOK
  <2> QED BY <1>r, <2>1 DEF Counted
<1>1. ASSUME NEW d \in Delivery, NEW e \in Event, Receive(d, e) PROVE Counted'
  <2>1. delivery' = [delivery EXCEPT ![d] = [delivery[d] EXCEPT !.pc = "read", !.event = e]]
    BY <1>1, <1>t DEF Receive, TypeOK
  <2>2. delivery'[d].wrote = delivery[d].wrote /\ ~ delivery[d].wrote
    BY <1>1, <1>t, <2>1 DEF Receive, IInv, Coherent, At, TypeOK, Deliveries
  <2>3. \A x \in Delivery \ {d} : delivery'[x] = delivery[x]
    BY <1>t, <2>1 DEF TypeOK
  <2> QED BY <1>1, <2>2, <2>3 DEF Receive, Counted
<1>3. ASSUME NEW d \in Delivery, ReadInbox(d) PROVE Counted'
  <2>1. CASE delivery[d].event \in processed
    BY <1>3, <1>r, <2>1 DEF ReadInbox
  <2>2. CASE delivery[d].event \notin processed
    <3>1. delivery' = [delivery EXCEPT ![d] = [delivery[d] EXCEPT
                        !.pc = FirstLookup(About(d)), !.org = About(d).org]]
      BY <1>3, <1>t, <2>2 DEF ReadInbox, TypeOK
    <3> DEFINE r == [delivery[d] EXCEPT !.pc = FirstLookup(About(d)), !.org = About(d).org]
    <3>2. r.wrote = delivery[d].wrote /\ r.event = delivery[d].event
      BY <1>t DEF TypeOK, Deliveries
    <3> QED BY <1>3, <1>e, <3>1, <3>2 DEF ReadInbox
  <2> QED BY <2>1, <2>2
<1>f. ASSUME NEW d \in Delivery, NEW o, Found(d, o), UNCHANGED applied PROVE Counted'
  <2> DEFINE r == [delivery[d] EXCEPT !.pc = "organisation", !.org = o]
  <2>1. delivery' = [delivery EXCEPT ![d] = r]
    BY <1>f, <1>t DEF Found, TypeOK
  <2>2. r.wrote = delivery[d].wrote /\ r.event = delivery[d].event
    BY <1>t DEF TypeOK, Deliveries
  <2> QED BY <1>f, <1>e, <2>1, <2>2
<1>p. ASSUME NEW d \in Delivery, NEW p, PlanKnown(d, p), UNCHANGED applied PROVE Counted'
  <2> DEFINE r == [delivery[d] EXCEPT !.pc = "write", !.plan = p]
  <2>1. delivery' = [delivery EXCEPT ![d] = r]
    BY <1>p, <1>t DEF PlanKnown, TypeOK
  <2>2. r.wrote = delivery[d].wrote /\ r.event = delivery[d].event
    BY <1>t DEF TypeOK, Deliveries
  <2> QED BY <1>p, <1>e, <2>1, <2>2
<1>4. ASSUME NEW d \in Delivery, ByCustomer(d) PROVE Counted'
  BY <1>4, <1>f, <1>g DEF ByCustomer
<1>5. ASSUME NEW d \in Delivery, BySubscription(d) PROVE Counted'
  BY <1>5, <1>f, <1>g DEF BySubscription
<1>6. ASSUME NEW d \in Delivery, Nobody(d) PROVE Counted'
  BY <1>6, <1>g DEF Nobody
<1>7. ASSUME NEW d \in Delivery, CheckOrganisation(d) PROVE Counted'
  <2>1. CASE delivery[d].org \notin orgs
    BY <1>7, <1>r, <2>1 DEF CheckOrganisation
  <2>2. CASE delivery[d].org \in orgs
    <3> DEFINE r == [delivery[d] EXCEPT !.plan = About(d).plan,
                !.pc = IF About(d).customer # NoCustomer THEN "link" ELSE AfterLink(About(d))]
    <3>1. delivery' = [delivery EXCEPT ![d] = r]
      BY <1>7, <1>t, <2>2 DEF CheckOrganisation, TypeOK
    <3>2. r.wrote = delivery[d].wrote /\ r.event = delivery[d].event
      BY <1>t DEF TypeOK, Deliveries
    <3> QED BY <1>7, <1>e, <3>1, <3>2 DEF CheckOrganisation
  <2> QED BY <2>1, <2>2
<1>8. ASSUME NEW d \in Delivery, LinkCustomer(d) PROVE Counted'
  BY <1>8, <1>g, <1>r DEF LinkCustomer
<1>9. ASSUME NEW d \in Delivery, ByPrice(d) \/ ByCurrent(d) PROVE Counted'
  BY <1>9, <1>g, <1>p, <1>r DEF ByPrice, ByCurrent
<1>10. ASSUME NEW d \in Delivery, WriteSubscription(d) PROVE Counted'
  <2>1. CASE UNCHANGED applied /\ Return(d)
    BY <1>r, <2>1
  <2>2. CASE Wrote(d, delivery[d].org)
    <3>1. delivery[d].event \in Event
      BY <1>10, <1>t DEF WriteSubscription, IInv, Coherent, At, TypeOK
    <3>2. /\ \A e \in Event : applied'[e] >= applied[e]
          /\ applied'[delivery[d].event] > 0
      BY <1>t, <2>2, <3>1 DEF Wrote, TypeOK
    <3>3. /\ delivery'[d].event = delivery[d].event
          /\ \A x \in Delivery \ {d} : delivery'[x] = delivery[x]
      BY <1>t, <2>2 DEF Wrote, TypeOK, Deliveries
    <3>4. \A x \in Delivery : delivery[x].wrote => delivery[x].event \in Event
      BY <1>t DEF IInv, Coherent, At, TypeOK
    <3>5. \A e \in Event : applied[e] \in Nat /\ applied'[e] \in Nat
      BY <1>t, <2>2, <3>1 DEF Wrote, TypeOK
    <3>6. ASSUME NEW x \in Delivery, x # d, delivery'[x].wrote PROVE applied'[delivery'[x].event] > 0
      <4>1. delivery[x].wrote /\ delivery'[x].event = delivery[x].event
        BY <3>3, <3>6
      <4>2. PICK e \in Event : e = delivery[x].event
        BY <3>4, <4>1
      <4>3. applied[e] > 0
        BY <4>1, <4>2 DEF Counted
      <4>4. applied'[e] > 0
        <5>1. applied'[e] >= applied[e]
          BY <3>2
        <5>2. applied[e] \in Nat /\ applied'[e] \in Nat
          BY <3>5
        <5> QED BY <4>3, <5>1, <5>2
      <4> QED BY <4>1, <4>2, <4>4
    <3> QED BY <3>2, <3>3, <3>6 DEF Counted
  <2> QED BY <1>10, <2>1, <2>2 DEF WriteSubscription
<1>11. ASSUME NEW d \in Delivery, MarkProcessed(d) \/ LoseDelivery(d) PROVE Counted'
  BY <1>11, <1>r DEF MarkProcessed, LoseDelivery
<1>12. CASE UNCHANGED vars
  BY <1>0, <1>12 DEF vars
<1> QED
  BY <1>0, <1>1, <1>3, <1>4, <1>5, <1>6, <1>7, <1>8, <1>9, <1>10, <1>11, <1>12
     DEF Next, HandlerStep, BeginCheckout, EnsureCustomer, StoreCustomer, OpenSession,
         LoseCheckout, UpsertPlanPrice, UpsertSubscription, DeleteOrganisation

LEMMA SettledStep == IInv /\ Counted /\ SettledIsApplied /\ [Next]_vars => SettledIsApplied'
<1> SUFFICES ASSUME IInv, Counted, SettledIsApplied, [Next]_vars PROVE SettledIsApplied'
  OBVIOUS
<1> USE DEF rows, processor, staff, outcome
<1>0. ASSUME UNCHANGED <<processed, applied>>, dropped \subseteq dropped' PROVE SettledIsApplied'
  BY <1>0 DEF SettledIsApplied
<1>1. ASSUME NEW d \in Delivery, MarkProcessed(d) PROVE SettledIsApplied'
  <2>1. \/ applied[delivery[d].event] > 0 \/ delivery[d].event \in dropped
        \/ Empty(Content[delivery[d].event])
    BY <1>1 DEF MarkProcessed, IInv, Coherent, Counted, About
  <2> QED BY <1>1, <2>1 DEF MarkProcessed, SettledIsApplied
<1>2. ASSUME NEW d \in Delivery, WriteSubscription(d) PROVE SettledIsApplied'
  <2>1. delivery[d].event \in Event
    BY <1>2 DEF WriteSubscription, IInv, Coherent, At, TypeOK
  <2>2. \A e \in Event : applied[e] \in Nat /\ applied'[e] \in Nat /\ applied'[e] >= applied[e]
    BY <1>2, <2>1 DEF WriteSubscription, Wrote, IInv, TypeOK
  <2>3. processed \subseteq Event
    BY DEF IInv, TypeOK
  <2> QED BY <1>2, <2>2, <2>3 DEF WriteSubscription, Wrote, SettledIsApplied
<1>3. CASE UNCHANGED vars
  BY <1>0, <1>3 DEF vars
<1> QED
  BY <1>0, <1>1, <1>2, <1>3
     DEF Next, HandlerStep, Receive, ReadInbox, ByCustomer, BySubscription, Nobody,
         CheckOrganisation, LinkCustomer, ByPrice, ByCurrent, LoseDelivery, BeginCheckout,
         EnsureCustomer, StoreCustomer, OpenSession, LoseCheckout, UpsertPlanPrice,
         UpsertSubscription, DeleteOrganisation

(* An event that the processor need not send again was applied, or there was
   nothing in it to apply, or it concerned nobody. *)
THEOREM SettledEventsAreApplied == Spec => []SettledIsApplied
<1>1. Init => Counted /\ SettledIsApplied
  BY DEF Init, Counted, SettledIsApplied, IdleDelivery
<1> QED BY <1>1, Invariance, CountedStep, SettledStep, PTL DEF Spec

---------------------------------------------------------------------------
(* The refinement of EventInbox *)

LEMMA InitRefines == Init => Inbox!Init
<1> SUFFICES ASSUME Init PROVE Inbox!Init
  OBVIOUS
<1>1. \A d \in Delivery : ~ Handling(d)
  BY DEF Init, IdleDelivery, Handling
<1> QED BY <1>1 DEF Init, Inbox!Init, Stage, AboutNow, StageNow


(* What the abstract attempt sees of a record. *)
EventIn(r) == IF r.pc \notin {"idle", "read"} THEN r.event ELSE NoEvent
StageIn(r) ==
    IF r.pc \in {"idle", "read"} THEN "none"
    ELSE IF r.pc # "mark" THEN "open" ELSE IF r.wrote THEN "effective" ELSE "dismissed"

LEMMA OneAttemptMoves ==
  ASSUME TypeOK, NEW d \in Delivery, NEW r, delivery' = [delivery EXCEPT ![d] = r]
  PROVE /\ AboutNow' = [AboutNow EXCEPT ![d] = EventIn(r)]
        /\ StageNow' = [StageNow EXCEPT ![d] = StageIn(r)]
<1>1. \A x \in Delivery : delivery'[x] = IF x = d THEN r ELSE delivery[x]
  BY DEF TypeOK
<1>2. \A x \in Delivery : AboutNow'[x] = IF x = d THEN EventIn(r) ELSE AboutNow[x]
  BY <1>1 DEF AboutNow, EventIn, Handling
<1>3. \A x \in Delivery : StageNow'[x] = IF x = d THEN StageIn(r) ELSE StageNow[x]
  BY <1>1 DEF StageNow, StageIn, Stage, Handling, At
<1>4. /\ AboutNow' = [x \in Delivery |-> AboutNow'[x]]
      /\ StageNow' = [x \in Delivery |-> StageNow'[x]]
      /\ DOMAIN AboutNow = Delivery /\ DOMAIN StageNow = Delivery
  BY DEF AboutNow, StageNow
<1> QED BY <1>2, <1>3, <1>4

LEMMA NowAt ==
  ASSUME NEW d \in Delivery
  PROVE AboutNow[d] = EventIn(delivery[d]) /\ StageNow[d] = StageIn(delivery[d])
BY DEF AboutNow, StageNow, EventIn, StageIn, Stage, Handling, At

LEMMA NotSeen ==
  ASSUME TypeOK, NEW d \in Delivery, NEW r, delivery' = [delivery EXCEPT ![d] = r]
  PROVE /\ EventIn(r) = EventIn(delivery[d]) => AboutNow' = AboutNow
        /\ StageIn(r) = StageIn(delivery[d]) => StageNow' = StageNow
<1>1. /\ AboutNow' = [AboutNow EXCEPT ![d] = EventIn(r)]
      /\ StageNow' = [StageNow EXCEPT ![d] = StageIn(r)]
  BY OneAttemptMoves
<1>2. /\ AboutNow = [x \in Delivery |-> AboutNow[x]]
      /\ StageNow = [x \in Delivery |-> StageNow[x]]
  BY DEF AboutNow, StageNow
<1> QED BY <1>1, <1>2, NowAt

Same == UNCHANGED <<inbox, processed, applied, excused>>

LEMMA NothingSeen ==
  ASSUME UNCHANGED <<inbox, processed, applied, excused, delivery>>
  PROVE UNCHANGED Inbox!vars
BY DEF Inbox!vars, AboutNow, StageNow, Handling, Stage, At

LEMMA Stutters ==
  ASSUME TypeOK, NEW d \in Delivery, NEW r, delivery' = [delivery EXCEPT ![d] = r],
         EventIn(r) = EventIn(delivery[d]), StageIn(r) = StageIn(delivery[d]), Same
  PROVE UNCHANGED Inbox!vars
<1>1. AboutNow' = AboutNow /\ StageNow' = StageNow
  BY NotSeen
<1> QED BY <1>1 DEF Inbox!vars, AboutNow, StageNow, Same

LEMMA Dismisses ==
  ASSUME TypeOK, NEW d \in Delivery, NEW r, delivery' = [delivery EXCEPT ![d] = r],
         EventIn(r) = EventIn(delivery[d]), EventIn(r) # NoEvent,
         StageIn(delivery[d]) = "open", StageIn(r) = "dismissed", Same
  PROVE Inbox!Dismiss(d)
<1>1. AboutNow' = AboutNow /\ StageNow' = [StageNow EXCEPT ![d] = "dismissed"]
  BY NotSeen, OneAttemptMoves
<1>2. AboutNow[d] # NoEvent /\ StageNow[d] = "open"
  BY NowAt
<1> QED BY <1>1, <1>2 DEF Inbox!Dismiss, AboutNow, StageNow, Same

LEMMA GivesUp ==
  ASSUME TypeOK, NEW d \in Delivery, Return(d), EventIn(delivery[d]) # NoEvent,
         UNCHANGED <<inbox, processed, applied>>,
         excused' = IF StageIn(delivery[d]) = "effective"
                      THEN excused \cup {EventIn(delivery[d])} ELSE excused
  PROVE Inbox!GiveUp(d)
<1>1. EventIn(IdleDelivery) = NoEvent /\ StageIn(IdleDelivery) = "none"
  BY DEF EventIn, StageIn, IdleDelivery
<1>2. /\ AboutNow' = [AboutNow EXCEPT ![d] = NoEvent]
      /\ StageNow' = [StageNow EXCEPT ![d] = "none"]
  BY <1>1, OneAttemptMoves DEF Return
<1>3. AboutNow[d] = EventIn(delivery[d]) /\ StageNow[d] = StageIn(delivery[d])
  BY NowAt
<1>4. excused' = IF StageNow[d] = "effective" THEN excused \cup {AboutNow[d]} ELSE excused
  BY <1>3
<1> QED BY <1>2, <1>3, <1>4 DEF Inbox!GiveUp, Inbox!Leave, AboutNow, StageNow

(* A step between two statements of one handler. *)
LEMMA MovesOn ==
  ASSUME IInv, NEW d \in Delivery, NEW r, delivery' = [delivery EXCEPT ![d] = r],
         delivery[d].pc \notin {"idle", "read", "mark"}, r.pc \notin {"idle", "read"},
         r.event = delivery[d].event, r.wrote = delivery[d].wrote, Same
  PROVE Inbox!Next \/ UNCHANGED Inbox!vars
<1>1. TypeOK /\ ~ delivery[d].wrote /\ delivery[d].event # NoEvent
  <2>1. TypeOK /\ Coherent(d)
    BY DEF IInv
  <2> QED BY <2>1 DEF Coherent, At
<1>2. CASE r.pc = "mark"
  <2>1. Inbox!Dismiss(d)
    BY <1>1, <1>2, Dismisses DEF EventIn, StageIn
  <2> QED BY <2>1 DEF Inbox!Next
<1>3. CASE r.pc # "mark"
  BY <1>1, <1>3, Stutters DEF EventIn, StageIn
<1> QED BY <1>2, <1>3

(* A handler that is refused returns without having written. *)
LEMMA Refuses ==
  ASSUME IInv, NEW d \in Delivery, Return(d), delivery[d].pc \notin {"idle", "read", "mark"}, Same
  PROVE Inbox!Next \/ UNCHANGED Inbox!vars
<1>1. TypeOK /\ delivery[d].event # NoEvent
  <2>1. TypeOK /\ Coherent(d)
    BY DEF IInv
  <2> QED BY <2>1 DEF Coherent, At
<1>2. Inbox!GiveUp(d)
  BY <1>1, GivesUp DEF EventIn, StageIn, Same
<1> QED BY <1>2 DEF Inbox!Next

LEMMA StepRefines == IInv /\ [Next]_vars => [Inbox!Next]_Inbox!vars
<1> SUFFICES ASSUME IInv, [Next]_vars PROVE Inbox!Next \/ UNCHANGED Inbox!vars
  OBVIOUS
<1> USE DEF rows, processor, staff, outcome
<1>t. TypeOK
  BY DEF IInv
<1>c. ASSUME NEW d \in Delivery
      PROVE /\ At(d, "idle") <=> delivery[d].event = NoEvent
            /\ ~ At(d, "idle") => delivery[d].event \in inbox /\ delivery[d].event \in Event
            /\ delivery[d].wrote => At(d, "mark")
  BY DEF IInv, TypeOK, Coherent
<1>g. ASSUME NEW d \in Delivery, NEW pc, Goto(d, pc), pc \notin {"idle", "read"},
             delivery[d].pc \notin {"idle", "read", "mark"}, Same
      PROVE Inbox!Next \/ UNCHANGED Inbox!vars
  <2> DEFINE r == [delivery[d] EXCEPT !.pc = pc]
  <2>1. delivery' = [delivery EXCEPT ![d] = r]
    BY <1>g, <1>t DEF Goto, TypeOK
  <2>2. r.pc = pc /\ r.event = delivery[d].event /\ r.wrote = delivery[d].wrote
    BY <1>t DEF TypeOK, Deliveries
  <2> HIDE DEF r
  <2> QED BY <1>g, <2>1, <2>2, MovesOn
<1>f. ASSUME NEW d \in Delivery, NEW o, Found(d, o),
             delivery[d].pc \notin {"idle", "read", "mark"}, Same
      PROVE Inbox!Next \/ UNCHANGED Inbox!vars
  <2> DEFINE r == [delivery[d] EXCEPT !.pc = "organisation", !.org = o]
  <2>1. delivery' = [delivery EXCEPT ![d] = r]
    BY <1>f, <1>t DEF Found, TypeOK
  <2>2. r.pc = "organisation" /\ r.event = delivery[d].event /\ r.wrote = delivery[d].wrote
    BY <1>t DEF TypeOK, Deliveries
  <2> HIDE DEF r
  <2> QED BY <1>f, <2>1, <2>2, MovesOn
<1>p. ASSUME NEW d \in Delivery, NEW p, PlanKnown(d, p),
             delivery[d].pc \notin {"idle", "read", "mark"}, Same
      PROVE Inbox!Next \/ UNCHANGED Inbox!vars
  <2> DEFINE r == [delivery[d] EXCEPT !.pc = "write", !.plan = p]
  <2>1. delivery' = [delivery EXCEPT ![d] = r]
    BY <1>p, <1>t DEF PlanKnown, TypeOK
  <2>2. r.pc = "write" /\ r.event = delivery[d].event /\ r.wrote = delivery[d].wrote
    BY <1>t DEF TypeOK, Deliveries
  <2> HIDE DEF r
  <2> QED BY <1>p, <2>1, <2>2, MovesOn
<1>1. ASSUME NEW d \in Delivery, NEW e \in Event, Receive(d, e)
      PROVE Inbox!Next \/ UNCHANGED Inbox!vars
  <2> DEFINE r == [delivery[d] EXCEPT !.pc = "read", !.event = e]
  <2>1. delivery' = [delivery EXCEPT ![d] = r]
    BY <1>1, <1>t DEF Receive, TypeOK
  <2>2. r.pc = "read" /\ delivery[d].pc = "idle"
    BY <1>1, <1>t DEF Receive, At, TypeOK, Deliveries
  <2>3. EventIn(r) = EventIn(delivery[d]) /\ StageIn(r) = StageIn(delivery[d])
    BY <2>2 DEF EventIn, StageIn
  <2>4. AboutNow' = AboutNow /\ StageNow' = StageNow
    BY <1>t, <2>1, <2>3, NotSeen
  <2>5. Inbox!Receive(e)
    BY <1>1, <2>4 DEF Receive, Inbox!Receive, AboutNow, StageNow
  <2> QED BY <2>5 DEF Inbox!Next
<1>2. ASSUME NEW d \in Delivery, ReadInbox(d)
      PROVE Inbox!Next \/ UNCHANGED Inbox!vars
  <2>1. delivery[d].pc = "read" /\ delivery[d].event \in inbox /\ delivery[d].event \in Event
    BY <1>2, <1>c DEF ReadInbox, At
  <2>2. EventIn(delivery[d]) = NoEvent /\ StageIn(delivery[d]) = "none"
    BY <2>1 DEF EventIn, StageIn
  <2>3. CASE delivery[d].event \in processed
    <3>1. Return(d) /\ Same
      BY <1>2, <2>3 DEF ReadInbox, Same
    <3>2. EventIn(IdleDelivery) = NoEvent /\ StageIn(IdleDelivery) = "none"
      BY DEF IdleDelivery, EventIn, StageIn
    <3> QED BY <1>t, <2>2, <3>1, <3>2, Stutters DEF Return
  <2>4. CASE delivery[d].event \notin processed
    <3>0. PICK e \in Event : e = delivery[d].event
      BY <2>1
    <3> DEFINE r == [delivery[d] EXCEPT !.pc = FirstLookup(About(d)), !.org = About(d).org]
    <3>1. delivery' = [delivery EXCEPT ![d] = r]
      BY <1>2, <1>t, <2>4 DEF ReadInbox, TypeOK
    <3>2. r.pc = FirstLookup(About(d)) /\ r.event = e
      BY <1>t, <3>0 DEF TypeOK, Deliveries
    <3>3. EventIn(r) = e /\ StageIn(r) = "open"
      BY <3>2, FirstLookupTyped DEF EventIn, StageIn
    <3>4. /\ AboutNow' = [AboutNow EXCEPT ![d] = e]
          /\ StageNow' = [StageNow EXCEPT ![d] = "open"]
      BY <1>t, <3>1, <3>3, OneAttemptMoves
    <3>5. Contended(d, e) <=> Inbox!Contended(d, e)
      <4>1. ASSUME NEW c \in Delivery
            PROVE delivery[c].event = e /\ ~ At(c, "read") <=> AboutNow[c] = e
        BY <1>c DEF AboutNow, Handling, At
      <4> QED BY <4>1 DEF Contended, Inbox!Contended, AboutNow
    <3>6. AboutNow[d] = NoEvent
      BY <2>2, NowAt
    <3>7. Inbox!Begin(d, e)
      BY <1>2, <2>1, <2>4, <3>0, <3>4, <3>5, <3>6 DEF ReadInbox, Inbox!Begin, AboutNow, StageNow
    <3> QED BY <3>7 DEF Inbox!Next
  <2> QED BY <2>3, <2>4
<1>3. ASSUME NEW d \in Delivery, ByCustomer(d) \/ BySubscription(d)
      PROVE Inbox!Next \/ UNCHANGED Inbox!vars
  <2>1. delivery[d].pc \notin {"idle", "read", "mark"} /\ Same
    BY <1>3 DEF ByCustomer, BySubscription, At, Same
  <2> QED BY <1>3, <1>f, <1>g, <2>1 DEF ByCustomer, BySubscription
<1>4. ASSUME NEW d \in Delivery, Nobody(d) PROVE Inbox!Next \/ UNCHANGED Inbox!vars
  <2>1. delivery[d].pc \notin {"idle", "read", "mark"} /\ Same
    BY <1>4 DEF Nobody, At, Same
  <2> QED BY <1>4, <1>g, <2>1 DEF Nobody
<1>5. ASSUME NEW d \in Delivery, CheckOrganisation(d) PROVE Inbox!Next \/ UNCHANGED Inbox!vars
  <2>1. delivery[d].pc \notin {"idle", "read", "mark"} /\ Same
    BY <1>5 DEF CheckOrganisation, At, Same
  <2>2. CASE delivery[d].org \notin orgs
    BY <1>5, <2>1, <2>2, Refuses DEF CheckOrganisation
  <2>3. CASE delivery[d].org \in orgs
    <3> DEFINE pc == IF About(d).customer # NoCustomer THEN "link" ELSE AfterLink(About(d))
               r == [delivery[d] EXCEPT !.plan = About(d).plan, !.pc = pc]
    <3>1. delivery' = [delivery EXCEPT ![d] = r]
      BY <1>5, <1>t, <2>3 DEF CheckOrganisation, TypeOK
    <3>2. r.pc = pc /\ r.event = delivery[d].event /\ r.wrote = delivery[d].wrote
      BY <1>t DEF TypeOK, Deliveries
    <3>3. pc \notin {"idle", "read"}
      BY AfterLinkTyped
    <3> HIDE DEF pc, r
    <3> QED BY <2>1, <3>1, <3>2, <3>3, MovesOn
  <2> QED BY <2>2, <2>3
<1>6. ASSUME NEW d \in Delivery, LinkCustomer(d) PROVE Inbox!Next \/ UNCHANGED Inbox!vars
  <2>1. delivery[d].pc \notin {"idle", "read", "mark"} /\ Same
    BY <1>6 DEF LinkCustomer, At, Same
  <2>2. AfterLink(About(d)) \notin {"idle", "read"}
    BY AfterLinkTyped
  <2> QED BY <1>6, <1>g, <2>1, <2>2, Refuses DEF LinkCustomer
<1>7. ASSUME NEW d \in Delivery, ByPrice(d) \/ ByCurrent(d)
      PROVE Inbox!Next \/ UNCHANGED Inbox!vars
  <2>1. delivery[d].pc \notin {"idle", "read", "mark"} /\ Same
    BY <1>7 DEF ByPrice, ByCurrent, At, Same
  <2> QED BY <1>7, <1>g, <1>p, <2>1, Refuses DEF ByPrice, ByCurrent
<1>8. ASSUME NEW d \in Delivery, WriteSubscription(d)
      PROVE Inbox!Next \/ UNCHANGED Inbox!vars
  <2>1. delivery[d].pc = "write" /\ delivery[d].event \in Event
    BY <1>8, <1>c DEF WriteSubscription, At
  <2>2. CASE Return(d) /\ UNCHANGED outcome
    BY <1>8, <2>1, <2>2, Refuses DEF WriteSubscription, Same
  <2>3. CASE Wrote(d, delivery[d].org)
    <3> DEFINE r == [delivery[d] EXCEPT !.pc = "mark", !.wrote = TRUE]
    <3>1. delivery' = [delivery EXCEPT ![d] = r]
      BY <1>t, <2>3 DEF Wrote, TypeOK
    <3>2. r.pc = "mark" /\ r.event = delivery[d].event /\ r.wrote
      BY <1>t DEF TypeOK, Deliveries
    <3>3. EventIn(r) = EventIn(delivery[d]) /\ StageIn(r) = "effective"
      BY <2>1, <3>2 DEF EventIn, StageIn
    <3>4. AboutNow' = AboutNow /\ StageNow' = [StageNow EXCEPT ![d] = "effective"]
      BY <1>t, <3>1, <3>3, NotSeen, OneAttemptMoves
    <3>5. AboutNow[d] = delivery[d].event /\ StageNow[d] = "open"
      BY <2>1, NowAt DEF EventIn, StageIn
    <3>6. AboutNow[d] # NoEvent /\ applied' = [applied EXCEPT ![AboutNow[d]] = @ + 1]
      BY <2>1, <2>3, <3>5 DEF Wrote
    <3>7. Inbox!TakeEffect(d)
      BY <1>8, <2>3, <3>4, <3>5, <3>6
         DEF WriteSubscription, Wrote, Inbox!TakeEffect, AboutNow, StageNow
    <3> QED BY <3>7 DEF Inbox!Next
  <2> QED BY <1>8, <2>2, <2>3 DEF WriteSubscription
<1>9. ASSUME NEW d \in Delivery, MarkProcessed(d) PROVE Inbox!Next \/ UNCHANGED Inbox!vars
  <2>1. delivery[d].pc = "mark" /\ delivery[d].event \in Event
    BY <1>9, <1>c DEF MarkProcessed, At
  <2>2. EventIn(IdleDelivery) = NoEvent /\ StageIn(IdleDelivery) = "none"
    BY DEF EventIn, StageIn, IdleDelivery
  <2>3. /\ AboutNow' = [AboutNow EXCEPT ![d] = NoEvent]
        /\ StageNow' = [StageNow EXCEPT ![d] = "none"]
    BY <1>9, <1>t, <2>2, OneAttemptMoves DEF MarkProcessed, Return
  <2>4. /\ AboutNow[d] = delivery[d].event
        /\ StageNow[d] \in {"effective", "dismissed"}
    BY <2>1, NowAt DEF EventIn, StageIn
  <2>5. Inbox!Settle(d)
    BY <1>9, <2>1, <2>3, <2>4
       DEF MarkProcessed, Inbox!Settle, Inbox!Leave, AboutNow, StageNow
  <2> QED BY <2>5 DEF Inbox!Next
<1>10. ASSUME NEW d \in Delivery, LoseDelivery(d) PROVE Inbox!Next \/ UNCHANGED Inbox!vars
  <2>1. Return(d) /\ UNCHANGED <<inbox, processed, applied>> /\ ~ At(d, "idle")
        /\ excused' = IF delivery[d].wrote THEN excused \cup {delivery[d].event} ELSE excused
    BY <1>10 DEF LoseDelivery
  <2>2. CASE delivery[d].pc = "read"
    <3>1. EventIn(delivery[d]) = EventIn(IdleDelivery)
          /\ StageIn(delivery[d]) = StageIn(IdleDelivery)
      BY <2>2 DEF EventIn, StageIn, IdleDelivery
    <3>2. Same
      BY <1>c, <2>1, <2>2 DEF At, Same
    <3> QED BY <1>t, <2>1, <3>1, <3>2, Stutters DEF Return
  <2>3. CASE delivery[d].pc # "read"
    <3>1. EventIn(delivery[d]) = delivery[d].event /\ delivery[d].event # NoEvent
      BY <1>c, <2>1, <2>3 DEF EventIn, At
    <3>2. StageIn(delivery[d]) = "effective" <=> delivery[d].wrote
      BY <1>c, <2>1, <2>3 DEF StageIn, At
    <3>3. Inbox!GiveUp(d)
      BY <1>t, <2>1, <3>1, <3>2, GivesUp
    <3> QED BY <3>3 DEF Inbox!Next
  <2> QED BY <2>2, <2>3
<1>11. CASE UNCHANGED <<inbox, processed, applied, excused, delivery>>
  BY <1>11, NothingSeen
<1> QED
  BY <1>1, <1>2, <1>3, <1>4, <1>5, <1>6, <1>7, <1>8, <1>9, <1>10, <1>11
     DEF Next, vars, HandlerStep, BeginCheckout, EnsureCustomer, StoreCustomer, OpenSession,
         LoseCheckout, UpsertPlanPrice, UpsertSubscription, DeleteOrganisation

(* The webhook handlers implement the inbox: every statement is a step of it
   or is not seen in it. *)
THEOREM WebhooksImplementInbox == Spec => InboxPromise
BY Invariance, InitRefines, StepRefines, PTL DEF Spec, InboxPromise, Inbox!Spec

---------------------------------------------------------------------------
(* What an inbox that keeps its promise does, whatever implements it *)

InboxTyped ==
    /\ inbox \subseteq Event /\ processed \subseteq Event /\ excused \subseteq Event
    /\ AboutNow \in [Delivery -> Event \cup {NoEvent}]
    /\ StageNow \in [Delivery -> {"none", "open", "effective", "dismissed"}]
    /\ applied \in [Event -> Nat]

(* An event without an excuse has one attempt at most, and has taken effect
   once exactly when it is settled after an effect or that attempt has. *)
Unrepeated(e) ==
    /\ \A a, b \in Delivery : AboutNow[a] = e /\ AboutNow[b] = e => a = b
    /\ applied[e] \in {0, 1}
    /\ applied[e] = 1 =>
        e \in processed \/ \E a \in Delivery : AboutNow[a] = e /\ StageNow[a] = "effective"
    /\ \A a \in Delivery : AboutNow[a] = e /\ StageNow[a] # "effective" => applied[e] = 0

InboxInv == InboxTyped /\ \A e \in Event \ excused : Unrepeated(e)

LEMMA InboxInitInv == Inbox!Init => InboxInv
<1> SUFFICES ASSUME Inbox!Init PROVE InboxInv
  OBVIOUS
<1>1. \A d \in Delivery : AboutNow[d] = NoEvent
  BY DEF Inbox!Init
<1>2. \A e \in Event : applied[e] = 0 /\ e # NoEvent
  BY DEF Inbox!Init
<1>3. InboxTyped
  BY DEF Inbox!Init, InboxTyped
<1> QED BY <1>1, <1>2, <1>3 DEF InboxInv, Unrepeated

LEMMA InboxTypedStep == InboxTyped /\ [Inbox!Next]_Inbox!vars => InboxTyped'
<1> SUFFICES ASSUME InboxTyped, [Inbox!Next]_Inbox!vars PROVE InboxTyped'
  OBVIOUS
<1>1. ASSUME NEW f \in Event, Inbox!Receive(f) PROVE InboxTyped'
  BY <1>1 DEF InboxTyped, Inbox!Receive
<1>2. ASSUME NEW a \in Delivery, NEW f \in Event, Inbox!Begin(a, f) PROVE InboxTyped'
  BY <1>2 DEF InboxTyped, Inbox!Begin
<1>3. ASSUME NEW a \in Delivery, Inbox!TakeEffect(a) PROVE InboxTyped'
  <2>1. AboutNow[a] \in Event /\ applied[AboutNow[a]] \in Nat
    BY <1>3 DEF InboxTyped, Inbox!TakeEffect
  <2>2. applied' = [applied EXCEPT ![AboutNow[a]] = applied[AboutNow[a]] + 1]
    BY <1>3 DEF Inbox!TakeEffect
  <2>3. applied' \in [Event -> Nat]
    BY <2>1, <2>2 DEF InboxTyped
  <2>4. StageNow' \in [Delivery -> {"none", "open", "effective", "dismissed"}]
    BY <1>3 DEF InboxTyped, Inbox!TakeEffect
  <2> QED BY <1>3, <2>3, <2>4 DEF InboxTyped, Inbox!TakeEffect
<1>4. ASSUME NEW a \in Delivery, Inbox!Dismiss(a) PROVE InboxTyped'
  BY <1>4 DEF InboxTyped, Inbox!Dismiss
<1>5. ASSUME NEW a \in Delivery, Inbox!Settle(a) PROVE InboxTyped'
  BY <1>5 DEF InboxTyped, Inbox!Settle, Inbox!Leave
<1>6. ASSUME NEW a \in Delivery, Inbox!GiveUp(a) PROVE InboxTyped'
  BY <1>6 DEF InboxTyped, Inbox!GiveUp, Inbox!Leave
<1>7. CASE UNCHANGED Inbox!vars
  BY <1>7 DEF Inbox!vars, InboxTyped
<1> QED BY <1>1, <1>2, <1>3, <1>4, <1>5, <1>6, <1>7 DEF Inbox!Next

LEMMA InboxInvStep == InboxInv /\ [Inbox!Next]_Inbox!vars => InboxInv'
<1> SUFFICES ASSUME InboxInv, [Inbox!Next]_Inbox!vars, NEW e \in Event, e \notin excused'
             PROVE Unrepeated(e)'
  BY InboxTypedStep DEF InboxInv
<1>0. InboxTyped /\ InboxTyped' /\ excused \subseteq excused'
  BY InboxTypedStep
     DEF InboxInv, Inbox!Next, Inbox!vars, Inbox!Receive, Inbox!Begin, Inbox!TakeEffect,
         Inbox!Dismiss, Inbox!Leave, Inbox!Settle, Inbox!GiveUp
<1>a. Unrepeated(e)
  BY <1>0 DEF InboxInv
<1>1. ASSUME NEW f \in Event, Inbox!Receive(f) PROVE Unrepeated(e)'
  BY <1>a, <1>1 DEF Unrepeated, Inbox!Receive
<1>2. ASSUME NEW a \in Delivery, NEW f \in Event, Inbox!Begin(a, f) PROVE Unrepeated(e)'
  <2>1. CASE f = e
    <3>1. \A b \in Delivery : AboutNow[b] # e
      BY <1>2, <2>1 DEF Inbox!Begin, Inbox!Contended
    <3>2. applied[e] = 0
      BY <1>a, <1>2, <2>1, <3>1 DEF Inbox!Begin, Unrepeated
    <3> QED BY <1>0, <1>2, <2>1, <3>1, <3>2 DEF Inbox!Begin, Unrepeated, InboxTyped
  <2>2. CASE f # e
    BY <1>0, <1>a, <1>2, <2>2 DEF Inbox!Begin, Unrepeated, InboxTyped
  <2> QED BY <2>1, <2>2
<1>3. ASSUME NEW a \in Delivery, Inbox!TakeEffect(a) PROVE Unrepeated(e)'
  <2>1. CASE AboutNow[a] = e
    <3>1. applied[e] = 0 /\ applied'[e] = 1 /\ StageNow'[a] = "effective"
      BY <1>0, <1>a, <1>3, <2>1 DEF Inbox!TakeEffect, Unrepeated, InboxTyped
    <3> QED BY <1>0, <1>a, <1>3, <2>1, <3>1 DEF Inbox!TakeEffect, Unrepeated, InboxTyped
  <2>2. CASE AboutNow[a] # e
    BY <1>0, <1>a, <1>3, <2>2 DEF Inbox!TakeEffect, Unrepeated, InboxTyped
  <2> QED BY <2>1, <2>2
<1>4. ASSUME NEW a \in Delivery, Inbox!Dismiss(a) PROVE Unrepeated(e)'
  BY <1>0, <1>a, <1>4 DEF Inbox!Dismiss, Unrepeated, InboxTyped
<1>5. ASSUME NEW a \in Delivery, Inbox!Settle(a) PROVE Unrepeated(e)'
  BY <1>0, <1>a, <1>5 DEF Inbox!Settle, Inbox!Leave, Unrepeated, InboxTyped
<1>6. ASSUME NEW a \in Delivery, Inbox!GiveUp(a) PROVE Unrepeated(e)'
  BY <1>0, <1>a, <1>6 DEF Inbox!GiveUp, Inbox!Leave, Unrepeated, InboxTyped
<1>7. CASE UNCHANGED Inbox!vars
  BY <1>a, <1>7 DEF Inbox!vars, Unrepeated
<1> QED BY <1>1, <1>2, <1>3, <1>4, <1>5, <1>6, <1>7 DEF Inbox!Next

(* An inbox that keeps its promise applies an event once, however many
   deliveries there are one after another. *)
THEOREM InboxRepeatsNothing == InboxPromise => []Inbox!RepeatsAreExcused
<1>1. InboxInv => Inbox!RepeatsAreExcused
  BY DEF InboxInv, InboxTyped, Unrepeated, Inbox!RepeatsAreExcused
<1> QED BY InboxInitInv, InboxInvStep, <1>1, PTL DEF InboxPromise, Inbox!Spec

(* What the inbox promises holds of the handlers: an event is applied again
   only when two deliveries overlapped or one was lost after its write. *)
THEOREM NoUnexcusedRepeats == Spec => []RepeatsAreExcused
<1>1. Inbox!RepeatsAreExcused => RepeatsAreExcused
  BY DEF Inbox!RepeatsAreExcused, RepeatsAreExcused
<1> QED BY <1>1, WebhooksImplementInbox, InboxRepeatsNothing, PTL

---------------------------------------------------------------------------
(* What is paid after a checkout finds its organisation *)

(* Organisations that may overlook a payment. *)
Lost == crowded \cup (Org \ orgs)

(* A request r at work looks for the organisation that its event names, or has
   it; a lookup by customer fails for the organisations in L only. *)
Sought(r, L) ==
    LET c == Content[r.event] IN
    /\ r.pc \in Seeking => Names(c, r.org)
    /\ r.pc = "link" => c.customer # NoCustomer
    /\ r.pc \in {"byPrice", "byCurrent", "write"} => ~ Empty(c)
    /\ r.pc \in {"bySubscription", "nobody"} /\ c.customer # NoCustomer => Owner[c.customer] \in L

(* While only one checkout of an organisation runs at once, every customer that
   can pay for it is the one it is linked to. *)
Alone(o) ==
    /\ \A c \in opened : Owner[c] = o => customer[o] = c
    /\ \A j, k \in Checkout :
        /\ checkout[j].org = o /\ checkout[j].pc # "done"
        /\ checkout[k].org = o /\ checkout[k].pc # "done"
        => j = k
    /\ \A k \in Checkout : checkout[k].org = o =>
        /\ checkout[k].pc = "ensure" => checkout[k].ref = customer[o]
        /\ checkout[k].pc = "store" => customer[o] \in {NoCustomer, checkout[k].ref}
        /\ checkout[k].pc = "open" => customer[o] = checkout[k].ref

Linked ==
    /\ \A o \in orgs \ crowded : Alone(o)
    /\ \A d \in Delivery : Sought(delivery[d], Lost)
    /\ PaymentsAreNotOverlooked

LEMMA InitLinked == Init => Linked
<1> SUFFICES ASSUME Init PROVE Linked
  OBVIOUS
<1>1. \A k \in Checkout : checkout[k] = NewCheckout
  BY DEF Init
<1>2. \A k \in Checkout, o \in Org : checkout[k].org # o
  BY <1>1 DEF NewCheckout
<1>3. \A d \in Delivery : delivery[d].pc = "idle"
  BY DEF Init, IdleDelivery
<1> QED BY <1>2, <1>3 DEF Init, Linked, Alone, Sought, Seeking, PaymentsAreNotOverlooked

(* Organisations only disappear, and what is crowded stays so. *)
LEMMA LostGrows ==
  ASSUME TypeOK, [Next]_vars
  PROVE orgs' \subseteq orgs /\ crowded \subseteq crowded' /\ Lost \subseteq Lost'
<1> USE DEF rows, processor, staff, outcome
<1>1. orgs' \subseteq orgs
  BY DEF Next, HandlerStep, Receive, ReadInbox, ByCustomer, BySubscription, Nobody,
         CheckOrganisation, LinkCustomer, ByPrice, ByCurrent, WriteSubscription, MarkProcessed,
         LoseDelivery, BeginCheckout, EnsureCustomer, StoreCustomer, OpenSession, LoseCheckout,
         UpsertPlanPrice, UpsertSubscription, DeleteOrganisation, vars
<1>2. crowded \subseteq crowded'
  BY DEF Next, HandlerStep, Receive, ReadInbox, ByCustomer, BySubscription, Nobody,
         CheckOrganisation, LinkCustomer, ByPrice, ByCurrent, WriteSubscription, MarkProcessed,
         LoseDelivery, BeginCheckout, EnsureCustomer, StoreCustomer, OpenSession, LoseCheckout,
         UpsertPlanPrice, UpsertSubscription, DeleteOrganisation, vars
<1> QED BY <1>1, <1>2 DEF Lost

LEMMA SoughtMono ==
  ASSUME NEW r, NEW L, NEW M, L \subseteq M, Sought(r, L)
  PROVE Sought(r, M)
BY DEF Sought

(* What a step makes of the request that takes it. *)
LEMMA SoughtNow ==
  ASSUME TypeOK, [Next]_vars, NEW d \in Delivery, NEW r,
         delivery' = [delivery EXCEPT ![d] = r], Sought(r, Lost),
         \A x \in Delivery : Sought(delivery[x], Lost)
  PROVE \A x \in Delivery : Sought(delivery'[x], Lost')
<1> TAKE x \in Delivery
<1>1. Lost \subseteq Lost'
  BY LostGrows
<1>2. delivery'[x] = IF x = d THEN r ELSE delivery[x]
  BY DEF TypeOK
<1>3. Sought(delivery'[x], Lost)
  BY <1>2
<1> QED BY <1>1, <1>3, SoughtMono

LEMMA SoughtStep ==
  IInv /\ Linked /\ [Next]_vars => \A d \in Delivery : Sought(delivery'[d], Lost')
<1> SUFFICES ASSUME IInv, Linked, [Next]_vars
             PROVE \A d \in Delivery : Sought(delivery'[d], Lost')
  OBVIOUS
<1> DEFINE Goal == \A d \in Delivery : Sought(delivery'[d], Lost')
<1> USE DEF rows, processor, staff, outcome
<1>t. TypeOK /\ \A d \in Delivery : Sought(delivery[d], Lost) /\ Coherent(d)
  BY DEF IInv, Linked
<1>0. ASSUME UNCHANGED delivery PROVE Goal
  BY <1>0, <1>t, LostGrows, SoughtMono
<1>r. ASSUME NEW d \in Delivery, Return(d) PROVE Goal
  <2>1. Sought(IdleDelivery, Lost)
    BY DEF Sought, IdleDelivery, Seeking
  <2> QED BY <1>r, <1>t, <2>1, SoughtNow DEF Return
<1>m. ASSUME NEW d \in Delivery, NEW r, delivery' = [delivery EXCEPT ![d] = r], Sought(r, Lost)
      PROVE Goal
  BY <1>m, <1>t, SoughtNow
<1>g. ASSUME NEW d \in Delivery, NEW pc, Goto(d, pc),
             Sought([delivery[d] EXCEPT !.pc = pc], Lost)
      PROVE Goal
  <2>1. delivery' = [delivery EXCEPT ![d] = [delivery[d] EXCEPT !.pc = pc]]
    BY <1>g, <1>t DEF Goto, TypeOK
  <2> QED BY <1>g, <1>m, <2>1
<1>p. ASSUME NEW d \in Delivery, NEW pc
      PROVE LET r == [delivery[d] EXCEPT !.pc = pc] IN
            r.pc = pc /\ r.event = delivery[d].event /\ r.org = delivery[d].org
  BY <1>t DEF TypeOK, Deliveries
<1>1. ASSUME NEW d \in Delivery, NEW e \in Event, Receive(d, e) PROVE Goal
  <2> DEFINE r == [delivery[d] EXCEPT !.pc = "read", !.event = e]
  <2>1. delivery' = [delivery EXCEPT ![d] = r]
    BY <1>1, <1>t DEF Receive, TypeOK
  <2>2. r.pc = "read"
    BY <1>t DEF TypeOK, Deliveries
  <2>3. Sought(r, Lost)
    BY <2>2 DEF Sought, Seeking
  <2> QED BY <1>m, <2>1, <2>3
<1>2. ASSUME NEW d \in Delivery, ReadInbox(d) PROVE Goal
  <2>1. CASE Return(d)
    BY <1>r, <2>1
  <2>2. CASE ~ Return(d)
    <3> DEFINE r == [delivery[d] EXCEPT !.pc = FirstLookup(About(d)), !.org = About(d).org]
    <3>1. delivery' = [delivery EXCEPT ![d] = r]
      BY <1>2, <1>t, <2>2 DEF ReadInbox, TypeOK
    <3>2. r.pc = FirstLookup(About(d)) /\ r.event = delivery[d].event /\ r.org = About(d).org
      BY <1>t DEF TypeOK, Deliveries
    <3>3. Sought(r, Lost)
      BY <3>2 DEF Sought, Seeking, FirstLookup, About, Names
    <3> QED BY <1>m, <3>1, <3>3
  <2> QED BY <2>1, <2>2
<1>f. ASSUME NEW d \in Delivery, NEW o, Found(d, o), Names(About(d), o) PROVE Goal
  <2> DEFINE r == [delivery[d] EXCEPT !.pc = "organisation", !.org = o]
  <2>1. delivery' = [delivery EXCEPT ![d] = r]
    BY <1>f, <1>t DEF Found, TypeOK
  <2>2. r.pc = "organisation" /\ r.event = delivery[d].event /\ r.org = o
    BY <1>t DEF TypeOK, Deliveries
  <2>3. Sought(r, Lost)
    BY <1>f, <2>2 DEF Sought, Seeking, About
  <2> QED BY <1>m, <2>1, <2>3
<1>3. ASSUME NEW d \in Delivery, ByCustomer(d) PROVE Goal
  <2>1. About(d).customer # NoCustomer /\ delivery[d].event \in Event
        /\ About(d).customer \in opened
    BY <1>3, <1>t DEF ByCustomer, At, Coherent, MayArrive, About, TypeOK
  <2>2. ASSUME NEW o \in orgs, customer[o] = About(d).customer, Found(d, o) PROVE Goal
    <3>1. Names(About(d), o)
      BY <2>1, <2>2, <1>t DEF IInv, Owned, Names, TypeOK
    <3> QED BY <1>f, <2>2, <3>1
  <2>3. ASSUME \A o \in orgs : customer[o] # About(d).customer,
               NEW pc \in {"bySubscription", "nobody"}, Goto(d, pc)
        PROVE Goal
    <3>1. Owner[About(d).customer] \in Org
      BY <2>1, <1>t DEF TypeOK
    <3>2. Owner[About(d).customer] \in Lost
      BY <2>1, <2>3, <3>1 DEF Linked, Alone, Lost
    <3>3. Sought([delivery[d] EXCEPT !.pc = pc], Lost)
      BY <1>p, <3>2 DEF Sought, Seeking, About
    <3> QED BY <1>g, <2>3, <3>3
  <2> QED BY <1>3, <2>2, <2>3 DEF ByCustomer
<1>4. ASSUME NEW d \in Delivery, BySubscription(d) PROVE Goal
  <2>1. About(d).ref # NoSub /\ delivery[d].pc = "bySubscription"
    BY <1>4, <1>t DEF BySubscription, At, Coherent
  <2>2. ASSUME NEW o \in orgs, subscription[o].ref = About(d).ref, Found(d, o) PROVE Goal
    <3>1. Names(About(d), o)
      BY <2>1, <2>2, <1>t DEF IInv, Owned, Names, TypeOK
    <3> QED BY <1>f, <2>2, <3>1
  <2>3. ASSUME Goto(d, "nobody") PROVE Goal
    <3>1. Sought(delivery[d], Lost)
      BY <1>t
    <3>2. Sought([delivery[d] EXCEPT !.pc = "nobody"], Lost)
      BY <1>p, <2>1, <3>1 DEF Sought, Seeking
    <3> QED BY <1>g, <2>3, <3>2
  <2> QED BY <1>4, <2>2, <2>3 DEF BySubscription
<1>5. ASSUME NEW d \in Delivery, Nobody(d) PROVE Goal
  <2>1. Sought([delivery[d] EXCEPT !.pc = "mark"], Lost)
    BY <1>p DEF Sought, Seeking
  <2> QED BY <1>5, <1>g, <2>1 DEF Nobody
<1>s. ASSUME NEW d \in Delivery, delivery[d].pc \in Seeking PROVE Names(About(d), delivery[d].org)
  BY <1>s, <1>t DEF Sought, About
<1>l. \A c : AfterLink(c) # "mark" => ~ Empty(c)
  BY DEF AfterLink, Empty
<1>6. ASSUME NEW d \in Delivery, CheckOrganisation(d) PROVE Goal
  <2>1. CASE Return(d)
    BY <1>r, <2>1
  <2>2. CASE ~ Return(d)
    <3> DEFINE pc == IF About(d).customer # NoCustomer THEN "link" ELSE AfterLink(About(d))
               r == [delivery[d] EXCEPT !.plan = About(d).plan, !.pc = pc]
    <3>1. delivery' = [delivery EXCEPT ![d] = r]
      BY <1>6, <1>t, <2>2 DEF CheckOrganisation, TypeOK
    <3>2. r.pc = pc /\ r.event = delivery[d].event /\ r.org = delivery[d].org
      BY <1>t DEF TypeOK, Deliveries
    <3>3. Names(About(d), delivery[d].org)
      BY <1>6, <1>s DEF CheckOrganisation, At, Seeking
    <3>4. /\ pc = "link" => About(d).customer # NoCustomer
          /\ pc \in {"mark", "link", "write", "byPrice", "byCurrent"}
          /\ pc \in {"write", "byPrice", "byCurrent"} => ~ Empty(About(d))
      BY <1>l, AfterLinkTyped
    <3> HIDE DEF pc
    <3>5. Sought(r, Lost)
      BY <3>2, <3>3, <3>4 DEF Sought, Seeking, About
    <3> QED BY <1>m, <3>1, <3>5
  <2> QED BY <2>1, <2>2
<1>7. ASSUME NEW d \in Delivery, LinkCustomer(d) PROVE Goal
  <2>1. Names(About(d), delivery[d].org)
    BY <1>7, <1>s DEF LinkCustomer, At, Seeking
  <2>2. ASSUME Goto(d, AfterLink(About(d))) PROVE Goal
    <3>1. Sought([delivery[d] EXCEPT !.pc = AfterLink(About(d))], Lost)
      BY <1>p, <1>l, <2>1, AfterLinkTyped DEF Sought, Seeking, About
    <3> QED BY <1>g, <2>2, <3>1
  <2> QED BY <1>7, <1>r, <2>2 DEF LinkCustomer
<1>k. ASSUME NEW d \in Delivery, NEW p, PlanKnown(d, p),
             delivery[d].pc \in {"byPrice", "byCurrent"}
      PROVE Goal
  <2> DEFINE r == [delivery[d] EXCEPT !.pc = "write", !.plan = p]
  <2>1. delivery' = [delivery EXCEPT ![d] = r]
    BY <1>k, <1>t DEF PlanKnown, TypeOK
  <2>2. r.pc = "write" /\ r.event = delivery[d].event /\ r.org = delivery[d].org
    BY <1>t DEF TypeOK, Deliveries
  <2>3. Sought(delivery[d], Lost)
    BY <1>t
  <2>4. Sought(r, Lost)
    BY <1>k, <2>2, <2>3 DEF Sought, Seeking
  <2> QED BY <1>m, <2>1, <2>4
<1>8. ASSUME NEW d \in Delivery, ByPrice(d) PROVE Goal
  <2>1. delivery[d].pc = "byPrice" /\ Sought(delivery[d], Lost)
    BY <1>8, <1>t DEF ByPrice, At
  <2>2. Sought([delivery[d] EXCEPT !.pc = "byCurrent"], Lost)
    BY <1>p, <2>1 DEF Sought, Seeking
  <2> QED BY <1>8, <1>g, <1>k, <2>1, <2>2 DEF ByPrice
<1>9. ASSUME NEW d \in Delivery, ByCurrent(d) PROVE Goal
  BY <1>9, <1>k, <1>r DEF ByCurrent, At
<1>10. ASSUME NEW d \in Delivery, WriteSubscription(d) PROVE Goal
  <2>1. ASSUME Wrote(d, delivery[d].org) PROVE Goal
    <3> DEFINE r == [delivery[d] EXCEPT !.pc = "mark", !.wrote = TRUE]
    <3>1. delivery' = [delivery EXCEPT ![d] = r]
      BY <1>t, <2>1 DEF Wrote, TypeOK
    <3>2. r.pc = "mark"
      BY <1>t DEF TypeOK, Deliveries
    <3>3. Sought(r, Lost)
      BY <3>2 DEF Sought, Seeking
    <3> QED BY <1>m, <3>1, <3>3
  <2> QED BY <1>10, <1>r, <2>1 DEF WriteSubscription
<1>11. ASSUME NEW d \in Delivery, MarkProcessed(d) \/ LoseDelivery(d) PROVE Goal
  BY <1>11, <1>r DEF MarkProcessed, LoseDelivery
<1>12. CASE UNCHANGED vars
  BY <1>0, <1>12 DEF vars
<1> QED
  BY <1>0, <1>1, <1>2, <1>3, <1>4, <1>5, <1>6, <1>7, <1>8, <1>9, <1>10, <1>11, <1>12
     DEF Next, HandlerStep, BeginCheckout, EnsureCustomer, StoreCustomer, OpenSession,
         LoseCheckout, UpsertPlanPrice, UpsertSubscription, DeleteOrganisation

(* The checkouts that a step of k leaves alone. *)
LEMMA OtherCheckouts ==
  ASSUME TypeOK, NEW k \in Checkout, NEW r, checkout' = [checkout EXCEPT ![k] = r]
  PROVE checkout'[k] = r /\ \A j \in Checkout : j # k => checkout'[j] = checkout[j]
BY DEF TypeOK

LEMMA CheckoutPc ==
  ASSUME TypeOK, NEW k \in Checkout, NEW pc, checkout' = [checkout EXCEPT ![k].pc = pc]
  PROVE /\ checkout'[k].pc = pc /\ checkout'[k].org = checkout[k].org
        /\ checkout'[k].ref = checkout[k].ref
        /\ \A j \in Checkout : j # k => checkout'[j] = checkout[j]
<1> DEFINE r == [checkout[k] EXCEPT !.pc = pc]
<1>1. checkout' = [checkout EXCEPT ![k] = r]
  BY DEF TypeOK
<1>2. r.pc = pc /\ r.org = checkout[k].org /\ r.ref = checkout[k].ref
  BY DEF TypeOK, Checkouts
<1> HIDE DEF r
<1>3. checkout'[k] = r /\ \A j \in Checkout : j # k => checkout'[j] = checkout[j]
  BY <1>1, OtherCheckouts
<1> QED BY <1>2, <1>3

LEMMA AloneStep ==
  ASSUME IInv, Linked, [Next]_vars, NEW o \in orgs', o \notin crowded'
  PROVE Alone(o)'
<1> USE DEF rows, processor, staff, outcome
<1>t. TypeOK /\ Owned
  BY DEF IInv
<1>o. o \in orgs /\ o \in Org /\ o \notin crowded
  BY <1>t, LostGrows DEF TypeOK
<1>a. Alone(o)
  BY <1>o DEF Linked
<1>0. ASSUME UNCHANGED <<checkout, opened>>, customer'[o] = customer[o] PROVE Alone(o)'
  BY <1>0, <1>a DEF Alone
(* An event of a customer that can pay links what is linked already. *)
<1>1. ASSUME NEW d \in Delivery, LinkCustomer(d) PROVE Alone(o)'
  <2>1. /\ UNCHANGED <<checkout, opened>>
        /\ \/ UNCHANGED customer
           \/ customer' = [customer EXCEPT ![delivery[d].org] = About(d).customer]
    BY <1>1 DEF LinkCustomer
  <2>2. /\ BelongsTo(About(d), delivery[d].org) /\ About(d).customer # NoCustomer
        /\ About(d).customer \in opened
    BY <1>1 DEF LinkCustomer, IInv, Coherent, At, Seeking, MayArrive, About, Linked, Sought
  <2>3. delivery[d].org = o => customer[o] = About(d).customer
    BY <1>a, <2>2 DEF Alone, BelongsTo
  <2>4. customer'[o] = customer[o]
    BY <1>o, <1>t, <2>1, <2>3 DEF TypeOK
  <2> QED BY <1>0, <2>1, <2>4
<1>2. ASSUME NEW k \in Checkout, NEW p \in Org, BeginCheckout(k, p) PROVE Alone(o)'
  <2>1. /\ checkout' = [checkout EXCEPT ![k] = [pc |-> "ensure", org |-> p, ref |-> customer[p]]]
        /\ UNCHANGED <<customer, opened>>
        /\ p = o => \A j \in Checkout : checkout[j].org # o \/ checkout[j].pc = "done"
    BY <1>2 DEF BeginCheckout
  <2>2. /\ checkout'[k] = [pc |-> "ensure", org |-> p, ref |-> customer[p]]
        /\ \A j \in Checkout : j # k => checkout'[j] = checkout[j]
    BY <1>t, <2>1, OtherCheckouts
  <2> QED BY <1>a, <2>1, <2>2 DEF Alone
<1>3. ASSUME NEW k \in Checkout, EnsureCustomer(k) PROVE Alone(o)'
  <2>1. checkout[k].pc = "ensure" /\ checkout[k] \in Checkouts /\ UNCHANGED <<customer, opened>>
    BY <1>3, <1>t DEF EnsureCustomer, TypeOK
  <2>2. PICK c : /\ checkout' = [checkout EXCEPT ![k] = [checkout[k] EXCEPT !.pc = "store", !.ref = c]]
                 /\ c = checkout[k].ref \/ checkout[k].ref = NoCustomer
    <3>1. CASE checkout[k].ref # NoCustomer
      <4>1. checkout' = [checkout EXCEPT ![k] = [checkout[k] EXCEPT !.pc = "store"]]
        BY <1>3, <1>t, <3>1 DEF EnsureCustomer, TypeOK
      <4>2. [checkout[k] EXCEPT !.pc = "store"]
              = [checkout[k] EXCEPT !.pc = "store", !.ref = checkout[k].ref]
        BY <2>1 DEF Checkouts
      <4> QED BY <4>1, <4>2
    <3>2. CASE checkout[k].ref = NoCustomer
      <4>1. PICK c \in Customer : checkout' = [checkout EXCEPT ![k].pc = "store", ![k].ref = c]
        BY <1>3, <3>2 DEF EnsureCustomer
      <4>2. checkout' = [checkout EXCEPT ![k] = [checkout[k] EXCEPT !.pc = "store", !.ref = c]]
        BY <1>t, <4>1 DEF TypeOK
      <4> QED BY <3>2, <4>2
    <3> QED BY <3>1, <3>2
  <2>3. /\ checkout'[k].pc = "store" /\ checkout'[k].org = checkout[k].org
        /\ checkout'[k].ref = c
        /\ \A j \in Checkout : j # k => checkout'[j] = checkout[j]
    <3>1. checkout' = [checkout EXCEPT ![k] = [checkout[k] EXCEPT !.pc = "store", !.ref = c]]
      BY <2>2
    <3>2. /\ checkout'[k] = [checkout[k] EXCEPT !.pc = "store", !.ref = c]
          /\ \A j \in Checkout : j # k => checkout'[j] = checkout[j]
      <4> DEFINE r == [checkout[k] EXCEPT !.pc = "store", !.ref = c]
      <4>1. checkout' = [checkout EXCEPT ![k] = r]
        BY <3>1
      <4> HIDE DEF r
      <4>2. checkout'[k] = r /\ \A j \in Checkout : j # k => checkout'[j] = checkout[j]
        BY <1>t, <4>1, OtherCheckouts
      <4> QED BY <4>2 DEF r
    <3> QED BY <2>1, <3>2 DEF Checkouts
  <2>4. checkout[k].org = o => customer[o] \in {NoCustomer, c}
    BY <1>a, <2>1, <2>2 DEF Alone
  <2> QED BY <1>a, <2>1, <2>3, <2>4 DEF Alone
<1>4. ASSUME NEW k \in Checkout, NEW pc \in {"open", "done"},
             checkout' = [checkout EXCEPT ![k].pc = pc], checkout[k].pc # "done",
             opened' = opened, customer'[o] = customer[o],
             pc = "open" /\ checkout[k].org = o => customer[o] = checkout[k].ref
      PROVE Alone(o)'
  <2>1. /\ checkout'[k].pc = pc /\ checkout'[k].org = checkout[k].org
        /\ checkout'[k].ref = checkout[k].ref
        /\ \A j \in Checkout : j # k => checkout'[j] = checkout[j]
    BY <1>4, <1>t, CheckoutPc
  <2> QED BY <1>a, <1>4, <2>1 DEF Alone
<1>5. ASSUME NEW k \in Checkout, StoreCustomer(k) PROVE Alone(o)'
  <2>1. /\ checkout[k].pc = "store" /\ Held(k) /\ opened' = opened
        /\ checkout[k].org \in Org /\ checkout[k].ref # NoCustomer
    BY <1>5, <1>t DEF StoreCustomer, Owned, Held
  <2>2. CASE ~ Linkable(checkout[k].org, checkout[k].ref)
    BY <1>4, <1>5, <2>1, <2>2 DEF StoreCustomer, EndCheckout
  <2>3. CASE Linkable(checkout[k].org, checkout[k].ref)
    <3>1. /\ customer' = [customer EXCEPT ![checkout[k].org] = checkout[k].ref]
          /\ checkout' = [checkout EXCEPT ![k].pc = "open"]
      BY <1>5, <2>3 DEF StoreCustomer
    <3>2. CASE checkout[k].org # o
      <4>1. customer'[o] = customer[o]
        BY <1>o, <1>t, <3>1, <3>2 DEF TypeOK
      <4> QED BY <1>4, <2>1, <3>1, <3>2, <4>1
    <3>3. CASE checkout[k].org = o
      <4>1. /\ customer'[o] = checkout[k].ref
            /\ customer[o] \in {NoCustomer, checkout[k].ref}
        BY <1>a, <1>o, <1>t, <2>1, <3>1, <3>3 DEF TypeOK, Alone
      <4>2. /\ checkout'[k].pc = "open" /\ checkout'[k].org = o
            /\ checkout'[k].ref = checkout[k].ref
            /\ \A j \in Checkout : j # k => checkout'[j] = checkout[j]
        BY <1>t, <3>1, <3>3, CheckoutPc
      <4>3. opened \subseteq Customer
        BY <1>t DEF TypeOK
      <4>4. \A c \in opened' : Owner[c] = o => customer'[o] = c
        BY <1>a, <2>1, <4>1, <4>3 DEF Alone
      <4>5. \A j \in Checkout : j # k => checkout[j].org # o \/ checkout[j].pc = "done"
        BY <1>a, <2>1, <3>3 DEF Alone
      <4> QED BY <1>a, <2>1, <4>1, <4>2, <4>4, <4>5 DEF Alone
    <3> QED BY <3>2, <3>3
  <2> QED BY <2>2, <2>3
<1>6. ASSUME NEW k \in Checkout, OpenSession(k) PROVE Alone(o)'
  <2>1. /\ checkout[k].pc = "open" /\ opened' = opened \cup {checkout[k].ref}
        /\ checkout' = [checkout EXCEPT ![k].pc = "done"] /\ UNCHANGED customer
    BY <1>6 DEF OpenSession, EndCheckout
  <2>2. checkout[k].ref # NoCustomer /\ Owner[checkout[k].ref] = checkout[k].org
    BY <1>t, <2>1 DEF Owned, Held
  <2>3. /\ checkout'[k].pc = "done" /\ checkout'[k].org = checkout[k].org
        /\ checkout'[k].ref = checkout[k].ref
        /\ \A j \in Checkout : j # k => checkout'[j] = checkout[j]
    BY <1>t, <2>1, CheckoutPc
  <2>4. \A c \in opened' : Owner[c] = o => customer'[o] = c
    BY <1>a, <2>1, <2>2 DEF Alone
  <2> QED BY <1>a, <2>1, <2>3, <2>4 DEF Alone
<1>7. ASSUME NEW k \in Checkout, LoseCheckout(k) PROVE Alone(o)'
  BY <1>4, <1>7 DEF LoseCheckout, EndCheckout
<1>8. ASSUME NEW q \in Org, DeleteOrganisation(q) PROVE Alone(o)'
  <2>1. q # o
    BY <1>8 DEF DeleteOrganisation
  <2>2. customer'[o] = customer[o] /\ UNCHANGED <<checkout, opened>>
    BY <1>8, <1>o, <1>t, <2>1 DEF DeleteOrganisation, TypeOK
  <2> QED BY <1>0, <2>2
<1>9. CASE UNCHANGED vars
  BY <1>0, <1>9 DEF vars
<1> QED
  BY <1>0, <1>1, <1>2, <1>3, <1>5, <1>6, <1>7, <1>8, <1>9
     DEF Next, HandlerStep, Receive, ReadInbox, ByCustomer, BySubscription, Nobody,
         CheckOrganisation, ByPrice, ByCurrent, WriteSubscription, Wrote, MarkProcessed,
         LoseDelivery, UpsertPlanPrice, UpsertSubscription

(* Only a handler that looked in vain drops its event. *)
LEMMA DroppedStep ==
  ASSUME IInv, Linked, [Next]_vars
  PROVE PaymentsAreNotOverlooked'
<1> USE DEF rows, processor, staff, outcome
<1>1. TypeOK /\ Lost \subseteq Lost'
  BY LostGrows DEF IInv
<1>2. \A e \in dropped' : e \in dropped \/ \E d \in Delivery : At(d, "nobody") /\ e = delivery[d].event
  BY ZenonT(60) DEF Next, HandlerStep, Receive, ReadInbox, ByCustomer, BySubscription, Nobody,
         CheckOrganisation, LinkCustomer, ByPrice, ByCurrent, WriteSubscription, Wrote,
         MarkProcessed, LoseDelivery, BeginCheckout, EnsureCustomer, StoreCustomer, OpenSession,
         LoseCheckout, UpsertPlanPrice, UpsertSubscription, DeleteOrganisation, vars
<1>3. ASSUME NEW e \in dropped', Content[e].customer # NoCustomer
      PROVE Owner[Content[e].customer] \in Lost
  <2>1. CASE e \in dropped
    BY <1>3, <2>1 DEF Linked, PaymentsAreNotOverlooked, Lost
  <2>2. ASSUME NEW d \in Delivery, At(d, "nobody"), e = delivery[d].event
        PROVE Owner[Content[e].customer] \in Lost
    BY <1>3, <2>2 DEF Linked, Sought, At
  <2> QED BY <1>2, <2>1, <2>2
<1> QED BY <1>1, <1>3 DEF PaymentsAreNotOverlooked, Lost

LEMMA LinkedStep == IInv /\ Linked /\ [Next]_vars => Linked'
BY AloneStep, SoughtStep, DroppedStep DEF Linked

(* What a customer pays after its checkout reaches its organisation, unless two
   checkouts of that organisation ran at once or the organisation is gone. *)
THEOREM PaymentsFindTheirOrganisation == Spec => []PaymentsAreNotOverlooked
<1>1. Linked => PaymentsAreNotOverlooked
  BY DEF Linked
<1> QED BY <1>1, InitLinked, LinkedStep, Invariance, PTL DEF Spec

---------------------------------------------------------------------------
(* The status is that of the newest event *)

LEMMA OneOrg ==
  ASSUME NEW e \in Event, NEW o \in Org, NEW q \in Org, Names(Content[e], o), Names(Content[e], q)
  PROVE o = q
<1> DEFINE c == Content[e]
<1>1. PICK z \in Org : /\ c.org \in {z, NoOrg}
                       /\ c.customer # NoCustomer => Owner[c.customer] = z
                       /\ c.ref # NoSub => Owner[c.ref] = z
  BY EventAssumption DEF OfOneOrganisation
<1>2. o = z
  BY <1>1, NoneAssumption DEF Names
<1>3. q = z
  BY <1>1, NoneAssumption DEF Names
<1> QED BY <1>2, <1>3

(* The newest event that wrote an organisation is one of its own and has been
   counted; its status is in the row unless an older event or staff wrote after
   it.  No event that was applied to the organisation is newer. *)
LastIsApplied ==
    \A o \in Org : last[o] # 0 =>
        /\ last[o] \in inbox /\ applied[last[o]] > 0
        /\ Names(Content[last[o]], o) /\ ~ Empty(Content[last[o]])

LastStands ==
    \A o \in orgs \ (disordered \cup manual) :
        last[o] # 0 => subscription[o].status = StatusOf(Content[last[o]])

LastIsNewest ==
    \A e \in Event, o \in Org : applied[e] > 0 /\ Names(Content[e], o) => e <= last[o]

Latest == LastIsApplied /\ LastStands /\ LastIsNewest

LEMMA InitLatest == Init => Latest
<1> SUFFICES ASSUME Init PROVE Latest
  OBVIOUS
<1>1. (\A o \in Org : last[o] = 0) /\ (\A e \in Event : ~ applied[e] > 0)
  BY DEF Init
<1>2. orgs \subseteq Org
  BY DEF Init
<1> QED BY <1>1, <1>2 DEF Latest, LastIsApplied, LastStands, LastIsNewest

(* The one step that moves last is the write of an event by a handler. *)
LEMMA LatestWrite ==
  ASSUME IInv, Linked, Latest, NEW d \in Delivery, At(d, "write"), Wrote(d, delivery[d].org),
         subscription' = [subscription EXCEPT ![delivery[d].org] = Row(d)],
         UNCHANGED <<orgs, inbox, manual>>
  PROVE Latest'
<1> DEFINE o == delivery[d].org
           e == delivery[d].event
<1>1. /\ TypeOK /\ o \in Org /\ e \in Event /\ e \in inbox
      /\ Names(Content[e], o) /\ ~ Empty(Content[e])
  BY DEF IInv, Coherent, At, Seeking, TypeOK, Linked, Sought
<1>2. /\ applied' = [applied EXCEPT ![e] = applied[e] + 1]
      /\ disordered' = IF e < last[o] THEN disordered \cup {o} ELSE disordered
      /\ last' = [last EXCEPT ![o] = IF e > last[o] THEN e ELSE last[o]]
  BY <1>1 DEF Wrote, TypeOK
<1>3. Row(d).status = StatusOf(Content[e])
  BY DEF Row, About
<1> HIDE DEF o, e
<1>4. /\ \A f \in Event : applied[f] \in Nat /\ (f # e => applied'[f] = applied[f])
      /\ applied'[e] = applied[e] + 1
  BY <1>1, <1>2 DEF TypeOK
<1>5. /\ \A q \in Org : last[q] \in Nat /\ (q # o => last'[q] = last[q])
      /\ last'[o] = IF e > last[o] THEN e ELSE last[o]
  BY <1>1, <1>2 DEF TypeOK
<1>6. e \in Nat /\ e # 0 /\ inbox \subseteq Event /\ inbox' = inbox
  BY <1>1 DEF TypeOK
<1>7. \A f \in Event : applied[f] > 0 => applied'[f] > 0
  <2> TAKE f \in Event
  <2>1. CASE f = e
    BY <1>1, <1>4, <2>1
  <2>2. CASE f # e
    BY <1>4, <2>2
  <2> QED BY <2>1, <2>2
<1>8. applied'[e] > 0
  BY <1>1, <1>4
<1>9. last'[o] \in {e, last[o]} /\ e <= last'[o] /\ last[o] <= last'[o]
  BY <1>1, <1>5, <1>6
<1>10. LastIsApplied'
  <2> SUFFICES ASSUME NEW q \in Org, last'[q] # 0
               PROVE /\ last'[q] \in inbox /\ applied'[last'[q]] > 0
                     /\ Names(Content[last'[q]], q) /\ ~ Empty(Content[last'[q]])
    BY <1>6 DEF LastIsApplied, Names, Empty
  <2>1. CASE q = o /\ last'[o] = e
    BY <1>1, <1>8, <2>1
  <2>2. CASE last'[q] = last[q]
    BY <1>6, <1>7, <2>2 DEF Latest, LastIsApplied
  <2> QED BY <1>1, <1>5, <1>9, <2>1, <2>2
<1>11. LastStands'
  <2> SUFFICES ASSUME NEW q \in orgs, q \notin disordered', q \notin manual, last'[q] # 0
               PROVE subscription'[q].status = StatusOf(Content[last'[q]])
    BY DEF LastStands, StatusOf
  <2>0. q \in Org
    BY <1>1 DEF TypeOK
  <2>1. CASE q = o
    <3>1. ~ e < last[o]
      BY <1>2, <2>1
    <3>2. last'[o] = e
      BY <1>1, <1>5, <1>6, <3>1
    <3>3. subscription'[o] = Row(d)
      BY <1>1 DEF TypeOK, o
    <3> QED BY <1>3, <2>1, <3>2, <3>3
  <2>2. CASE q # o
    <3>1. subscription'[q] = subscription[q]
      BY <1>1, <2>0, <2>2 DEF TypeOK, o
    <3>2. last'[q] = last[q] /\ q \notin disordered
      BY <1>2, <1>5, <2>0, <2>2
    <3> QED BY <3>1, <3>2 DEF Latest, LastStands
  <2> QED BY <2>1, <2>2
<1>12. LastIsNewest'
  <2> SUFFICES ASSUME NEW f \in Event, NEW q \in Org, applied'[f] > 0, Names(Content[f], q)
               PROVE f <= last'[q]
    BY DEF LastIsNewest, Names
  <2>1. CASE f = e
    BY <1>1, <1>9, <2>1, OneOrg
  <2>2. CASE f # e
    <3>1. f <= last[q]
      BY <1>4, <2>2 DEF Latest, LastIsNewest
    <3>2. CASE q = o
      <4>1. f \in Nat /\ last[o] \in Nat /\ last'[o] \in Nat
        BY <1>1, <1>5, <1>6
      <4> QED BY <1>9, <3>1, <3>2, <4>1
    <3>3. CASE q # o
      BY <1>5, <3>1, <3>3
    <3> QED BY <3>2, <3>3
  <2> QED BY <2>1, <2>2
<1> QED BY <1>10, <1>11, <1>12 DEF Latest

LEMMA LatestStep == IInv /\ Linked /\ Latest /\ [Next]_vars => Latest'
<1> SUFFICES ASSUME IInv, Linked, Latest, [Next]_vars PROVE Latest'
  OBVIOUS
<1> USE DEF rows, processor, staff, outcome
<1>t. TypeOK
  BY DEF IInv
<1>0. ASSUME UNCHANGED <<last, applied, disordered>>, inbox \subseteq inbox',
             orgs' \subseteq orgs, manual \subseteq manual',
             \A o \in orgs' \ manual' : subscription'[o] = subscription[o]
      PROVE Latest'
  <2>1. LastIsApplied'
    BY <1>0 DEF Latest, LastIsApplied
  <2>2. LastStands'
    BY <1>0 DEF Latest, LastStands
  <2>3. LastIsNewest'
    BY <1>0 DEF Latest, LastIsNewest
  <2> QED BY <2>1, <2>2, <2>3 DEF Latest
<1>1. ASSUME NEW d \in Delivery, WriteSubscription(d) PROVE Latest'
  <2>1. CASE Writable(delivery[d].org, About(d).ref)
    BY <1>1, <2>1, LatestWrite DEF WriteSubscription
  <2>2. CASE ~ Writable(delivery[d].org, About(d).ref)
    BY <1>0, <1>1, <2>2 DEF WriteSubscription
  <2> QED BY <2>1, <2>2
<1>2. ASSUME NEW o \in Org, UpsertSubscription(o) PROVE Latest'
  <2>1. \A q \in Org \ {o} : subscription'[q] = subscription[q]
    BY <1>2, <1>t DEF UpsertSubscription, TypeOK
  <2>2. orgs \subseteq Org
    BY <1>t DEF TypeOK
  <2> QED BY <1>0, <1>2, <2>1, <2>2 DEF UpsertSubscription
<1>3. ASSUME NEW o \in Org, DeleteOrganisation(o) PROVE Latest'
  <2>1. \A q \in Org \ {o} : subscription'[q] = subscription[q]
    BY <1>3, <1>t DEF DeleteOrganisation, TypeOK
  <2>2. orgs \subseteq Org
    BY <1>t DEF TypeOK
  <2> QED BY <1>0, <1>3, <2>1, <2>2 DEF DeleteOrganisation
<1>4. CASE UNCHANGED <<last, applied, disordered, orgs, manual, subscription>> /\ inbox \subseteq inbox'
  BY <1>0, <1>4
<1>5. ASSUME NEW d \in Delivery, \/ HandlerStep(d) /\ ~ WriteSubscription(d)
                                 \/ LoseDelivery(d)
                                 \/ \E e \in Event : Receive(d, e)
      PROVE Latest'
  BY <1>5, <1>4
     DEF HandlerStep, Receive, ReadInbox, ByCustomer, BySubscription, Nobody, CheckOrganisation,
         LinkCustomer, ByPrice, ByCurrent, MarkProcessed, LoseDelivery
<1>6. ASSUME NEW k \in Checkout, \/ \E o \in Org : BeginCheckout(k, o)
                                 \/ EnsureCustomer(k) \/ StoreCustomer(k) \/ OpenSession(k)
                                 \/ LoseCheckout(k)
      PROVE Latest'
  BY <1>6, <1>4 DEF BeginCheckout, EnsureCustomer, StoreCustomer, OpenSession, LoseCheckout
<1>7. CASE UNCHANGED vars \/ \E x \in Offer : UpsertPlanPrice(x[1], x[2])
  BY <1>7, <1>4 DEF vars, UpsertPlanPrice
<1> QED
  BY <1>1, <1>2, <1>3, <1>5, <1>6, <1>7 DEF Next, HandlerStep

(* Once all that arrived is settled, an organisation has the status of the
   newest event about it, unless events were written out of order or staff
   overrode it: no delivery, refusal or repeat leaves an older status behind. *)
THEOREM NewestEventDecides == Spec => []StatusIsNewest
<1>1. IInv /\ SettledIsApplied /\ Latest => StatusIsNewest
  <2> SUFFICES ASSUME IInv, SettledIsApplied, Latest, inbox = processed,
                      NEW o \in orgs \ (disordered \cup manual), NEW e \in Concerning(o),
                      \A f \in Concerning(o) : f <= e
               PROVE subscription[o].status = StatusOf(Content[e])
    BY DEF StatusIsNewest
  <2>1. e \in Event /\ o \in Org /\ last[o] \in Nat /\ e \in Nat /\ e # 0
    BY DEF IInv, TypeOK, Concerning
  <2>2. applied[e] > 0 /\ Names(Content[e], o)
    BY DEF Concerning, SettledIsApplied
  <2>3. e <= last[o]
    BY <2>1, <2>2 DEF Latest, LastIsNewest
  <2>4. last[o] # 0
    BY <2>1, <2>3
  <2>5. last[o] \in Concerning(o)
    BY <2>1, <2>4 DEF Latest, LastIsApplied, Concerning
  <2>6. last[o] = e
    BY <2>1, <2>3, <2>5
  <2> QED BY <2>4, <2>6 DEF Latest, LastStands
<1>2. Init => Counted /\ SettledIsApplied
  BY DEF Init, Counted, SettledIsApplied, IdleDelivery
<1> QED
  BY <1>1, <1>2, InitLinked, LinkedStep, InitLatest, LatestStep, CountedStep, SettledStep, Invariance,
     PTL DEF Spec
==============================================================================
