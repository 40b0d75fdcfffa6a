----------------------------- MODULE MCWebhook -----------------------------
(***************************************************************************)
(* Small Stripe accounts for Webhook.                                      *)
(***************************************************************************)
EXTENDS Webhook

CONSTANTS u1, cusA, subA

MCOneUser == {u1}
MCIds == {cusA, subA}

Ev(id, type, user, price, status, customer, sub, created) ==
    [id |-> id, type |-> type, user |-> user, price |-> price, status |-> status,
     customer |-> customer, sub |-> sub, created |-> created]

\* The life of one subscription (checkout and creation in the same second, an
\* upgrade to a plan one deployment has no price for, the cancellation) and an
\* event of nobody and of no interest, each able to arrive before any other.
MCEvents ==
    {Ev(1, "checkout", u1, "other", "inactive", cusA, NoId, 1),
     Ev(2, "created", u1, "pro", "incomplete", cusA, subA, 1),
     Ev(3, "updated", u1, "team", "active", cusA, subA, 2),
     Ev(4, "deleted", u1, "team", "active", cusA, subA, 3),
     Ev(5, "other", NoUser, "other", "inactive", NoId, NoId, 1)}

\* One price is unset in one of the deployments.
MCRedeployed == {PaidTiers, {"pro"}}
============================================================================
