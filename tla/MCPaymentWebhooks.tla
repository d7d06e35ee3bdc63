-------------------------- MODULE MCPaymentWebhooks --------------------------
(* Small instances of PaymentWebhooks: what the processor sends. *)
EXTENDS PaymentWebhooks, TLC

CONSTANTS a, b, free, pro, monthly, yearly, cusA, cusA2, cusB, subA, subB, d1, d2, k1, k2

Owners == [x \in Customer \cup Sub |-> IF x \in {cusB, subB} THEN b ELSE a]

Nothing ==
    [org |-> NoOrg, customer |-> NoCustomer, ref |-> NoSub, plan |-> NoPlan,
     price |-> NoPrice, status |-> "none"]

(* checkout.session.completed, with the metadata of the checkout. *)
Completed(o, c, s) ==
    [Nothing EXCEPT !.org = o, !.customer = c, !.ref = s, !.plan = pro, !.status = "active"]

(* invoice.paid and invoice.payment_failed carry no metadata. *)
Invoice(c, s, price_ref) ==
    [Nothing EXCEPT !.customer = c, !.ref = s, !.price = price_ref, !.status = "past_due"]

(* The second event is of a price that no plan is linked to. *)
OneSubscription == <<Completed(a, cusA, subA), Invoice(cusA, subA, yearly)>>

(* Only the customer tells whose the second event is. *)
TwoOrganisations == <<Completed(a, cusA, subA), Invoice(cusB, subB, monthly)>>

Offers == {<<pro, monthly>>}

Comps == {[plan |-> pro, status |-> "canceled"]}

Interchangeable == Permutations(Delivery) \cup Permutations(Checkout)
=============================================================================
