---------------------------- MODULE BillingRows ----------------------------
(***************************************************************************)
(* The public.subscriptions table of the billing slice, one row per user,  *)
(* and the two writes the API makes to it: the apply_subscription_event    *)
(* Postgres function (plan and status, guarded by the Stripe event's       *)
(* timestamp) and the merge-upsert of the Stripe ids at checkout.          *)
(*                                                                         *)
(* Of a Stripe event only what decides a write is kept.  A price is the    *)
(* tier it stands for in the Stripe account ("other" for a price of no     *)
(* tier); whether this deployment knows it is the argument priced, the set *)
(* of tiers whose STRIPE_PRICE_* setting is filled in.  The period end and *)
(* the cancel flag travel with plan and status and are left out.           *)
(***************************************************************************)
EXTENDS Integers

CONSTANTS
    Users,      \* Supabase user ids
    Ids,        \* Stripe customer and subscription ids
    NoUser,     \* an event without user_id metadata / client_reference_id
    NoId,       \* a null Stripe id
    NoTime,     \* a null last_event_created_at
    NoRow       \* the user has no row in public.subscriptions

PaidTiers == {"pro", "team"}

Tiers == {"free"} \cup PaidTiers

ActiveStatuses == {"active", "trialing"}

CheckoutBlockingStatuses ==
    ActiveStatuses \cup {"past_due", "unpaid", "incomplete", "paused"}

Statuses ==
    CheckoutBlockingStatuses \cup {"canceled", "incomplete_expired", "inactive"}

Times == Nat \cup {NoTime}

Row == [plan : Tiers, status : Statuses,
        customer : Ids \cup {NoId}, sub : Ids \cup {NoId}, last : Times]

SubscriptionEvents == {"created", "updated", "deleted"}

Event == [id : Nat,
          type : SubscriptionEvents \cup {"checkout", "other"},
          user : Users \cup {NoUser},
          price : PaidTiers \cup {"other"},
          status : Statuses,
          customer : Ids \cup {NoId}, sub : Ids \cup {NoId},
          created : Times]

ASSUME SentinelsAreFresh ==
    /\ NoUser \notin Users
    /\ NoId \notin Ids
    /\ NoTime \notin Nat
    /\ NoRow \notin Row
----------------------------------------------------------------------------
IsSubscription(e) == e.type \in SubscriptionEvents

PriceToTier(price, priced) == IF price \in priced THEN price ELSE "free"

\* Mutant: an unmapped price is written like any other.
SkipsSync_UnmappedIsFree(e, priced) == e.user = NoUser

\* _sync_subscription returns without writing: no user to write for, or a live
\* subscription whose price this deployment does not know.
SkipsSync(e, priced) ==
    \/ e.user = NoUser
    \/ /\ e.type # "deleted"
       /\ PriceToTier(e.price, priced) = "free"
       /\ e.status \in ActiveStatuses

\* The row an event stands for; a deleted subscription gives nothing more.
SyncRow(e, priced) ==
    LET deleted == e.type = "deleted" IN
    [plan     |-> IF deleted THEN "free" ELSE PriceToTier(e.price, priced),
     status   |-> IF deleted THEN "canceled" ELSE e.status,
     customer |-> e.customer,
     sub      |-> e.sub,
     last     |-> e.created]

\* Mutant: last delivered wins.
SameOrNewer_Always(new, old) == TRUE

\* The WHERE clause of apply_subscription_event's ON CONFLICT branch.
SameOrNewer(new, old) ==
    \/ old.last = NoTime
    \/ new.last = NoTime
    \/ new.last >= old.last

ApplySubscriptionEvent(row, new) ==
    IF row = NoRow \/ SameOrNewer(new, row) THEN new ELSE row

\* Mutant: the checkout writes the defaults of plan and status too.
UpsertIds_WritesDefaults(row, e) ==
    [plan |-> "free", status |-> "incomplete", customer |-> e.customer,
     sub |-> e.sub, last |-> IF row = NoRow THEN NoTime ELSE row.last]

\* The merge-upsert of _sync_from_checkout: the columns it does not send keep
\* their value, or take the table's defaults on a new row.
UpsertIds(row, e) ==
    IF row = NoRow
    THEN [plan |-> "free", status |-> "inactive",
          customer |-> e.customer, sub |-> e.sub, last |-> NoTime]
    ELSE [row EXCEPT !.customer = e.customer,
                     !.sub = IF e.sub = NoId THEN @ ELSE e.sub]

\* What the API answers for a user: the stored plan while the status is one
\* that entitles, and free otherwise or without a row.
EntitledTier(row) ==
    IF row # NoRow /\ row.status \in ActiveStatuses THEN row.plan ELSE "free"

TierRank == [t \in Tiers |-> CASE t = "free" -> 0 [] t = "pro" -> 1 [] t = "team" -> 2]

\* require_plan: a route locked behind minTier lets the user through.
RequirePlan(row, minTier) == TierRank[EntitledTier(row)] >= TierRank[minTier]
============================================================================
