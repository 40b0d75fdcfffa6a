------------------------------ MODULE Webhook ------------------------------
(***************************************************************************)
(* POST /billing/webhook: Stripe delivers events at least once, in any     *)
(* order and several at a time; each delivery is one run of                *)
(* billing.handle_webhook, which makes up to three separate PostgREST      *)
(* calls (is the id in stripe_events, apply the event, log the id).        *)
(* Deliveries interleave between those calls, any of them can fail or lose *)
(* its answer, and the API process can be restarted with other             *)
(* STRIPE_PRICE_* settings at any point; Stripe then delivers again.       *)
(*                                                                         *)
(* Events is every event Stripe will ever send; a Stripe event is          *)
(* immutable, so an element stands for its id too.  Requests whose         *)
(* signature does not verify change nothing and are not modelled.          *)
(***************************************************************************)
EXTENDS BillingRows

CONSTANTS
    Events,        \* the events of the Stripe account
    Deliveries,    \* webhook requests that can be in progress at once
    Configs,       \* the STRIPE_PRICE_* settings deployments use: sets of tiers
    MaxFailures    \* bound on failed deliveries and restarts

ASSUME EventsAssumption == Events \subseteq Event
ASSUME ConfigsAssumption == Configs \subseteq SUBSET PaidTiers /\ Configs # {}
ASSUME MaxFailuresAssumption == MaxFailures \in Nat

VARIABLES
    rows,          \* public.subscriptions
    stripeEvents,  \* public.stripe_events: ids logged as processed
    handler,       \* the webhook requests in progress
    priced,        \* the tiers whose price this deployment has configured
    acked,         \* events Stripe has had a 200 for, and will not retry
    failures       \* failed deliveries and restarts so far

vars == <<rows, stripeEvents, handler, priced, acked, failures>>

Idle == [pc |-> "idle"]

\* A request is about to: look the id up, apply the event, log the id, answer.
Handler == {Idle} \cup [pc : {"seen", "apply", "record", "reply"}, event : Events]

TypeOK ==
    /\ rows \in [Users -> Row \cup {NoRow}]
    /\ stripeEvents \subseteq Events
    /\ handler \in [Deliveries -> Handler]
    /\ priced \in Configs
    /\ acked \subseteq Events
    /\ failures \in 0 .. MaxFailures

Init ==
    /\ rows = [u \in Users |-> NoRow]
    /\ stripeEvents = {}
    /\ handler = [d \in Deliveries |-> Idle]
    /\ priced \in Configs
    /\ acked = {}
    /\ failures = 0
----------------------------------------------------------------------------
At(d, pc) == handler[d].pc = pc

MoveTo(d, pc) == handler' = [handler EXCEPT ![d].pc = pc]

\* Stripe posts e (for the first time, again, or while another delivery of it
\* is still in progress) and its signature verifies.
Deliver(d, e) ==
    /\ At(d, "idle")
    /\ handler' = [handler EXCEPT ![d] = [pc |-> "seen", event |-> e]]
    /\ UNCHANGED <<rows, stripeEvents, priced, acked, failures>>

\* Mutant: the id is logged when it is first looked up, before the event is
\* applied.
EventSeen_ClaimsFirst(d) ==
    /\ At(d, "seen")
    /\ MoveTo(d, IF handler[d].event \in stripeEvents THEN "reply" ELSE "apply")
    /\ stripeEvents' = stripeEvents \cup {handler[d].event}
    /\ UNCHANGED <<rows, priced, acked, failures>>

\* event_seen: a logged event is answered as a duplicate and touched no more.
EventSeen(d) ==
    /\ At(d, "seen")
    /\ MoveTo(d, IF handler[d].event \in stripeEvents THEN "reply" ELSE "apply")
    /\ UNCHANGED <<rows, stripeEvents, priced, acked, failures>>

\* Mutant: the request goes on to its 200 without having logged the event.
RecordEvent_Skipped(d) ==
    /\ At(d, "record")
    /\ MoveTo(d, "reply")
    /\ UNCHANGED <<rows, stripeEvents, priced, acked, failures>>

SyncSubscription(d) ==
    LET e == handler[d].event IN
    /\ At(d, "apply")
    /\ IsSubscription(e)
    /\ rows' = IF SkipsSync(e, priced) THEN rows
               ELSE [rows EXCEPT ![e.user] =
                        ApplySubscriptionEvent(@, SyncRow(e, priced))]
    /\ MoveTo(d, "record")
    /\ UNCHANGED <<stripeEvents, priced, acked, failures>>

SyncFromCheckout(d) ==
    LET e == handler[d].event IN
    /\ At(d, "apply")
    /\ e.type = "checkout"
    /\ rows' = IF e.user = NoUser THEN rows
               ELSE [rows EXCEPT ![e.user] = UpsertIds(@, e)]
    /\ MoveTo(d, "record")
    /\ UNCHANGED <<stripeEvents, priced, acked, failures>>

IgnoreOther(d) ==
    /\ At(d, "apply")
    /\ handler[d].event.type = "other"
    /\ MoveTo(d, "record")
    /\ UNCHANGED <<rows, stripeEvents, priced, acked, failures>>

RecordEvent(d) ==
    /\ At(d, "record")
    /\ stripeEvents' = stripeEvents \cup {handler[d].event}
    /\ MoveTo(d, "reply")
    /\ UNCHANGED <<rows, priced, acked, failures>>

Reply(d) ==
    /\ At(d, "reply")
    /\ acked' = acked \cup {handler[d].event}
    /\ handler' = [handler EXCEPT ![d] = Idle]
    /\ UNCHANGED <<rows, stripeEvents, priced, failures>>

\* A PostgREST call raises or times out (a write may already have happened: it
\* is then the step before), or the answer never reaches Stripe.
Fail(d) ==
    /\ ~At(d, "idle")
    /\ failures < MaxFailures
    /\ failures' = failures + 1
    /\ handler' = [handler EXCEPT ![d] = Idle]
    /\ UNCHANGED <<rows, stripeEvents, priced, acked>>

\* The API is restarted or redeployed: every request in progress is lost.
Restart ==
    /\ failures < MaxFailures
    /\ failures' = failures + 1
    /\ handler' = [d \in Deliveries |-> Idle]
    /\ priced' \in Configs
    /\ UNCHANGED <<rows, stripeEvents, acked>>

Apply(d) == SyncSubscription(d) \/ SyncFromCheckout(d) \/ IgnoreOther(d)

Handle(d) == EventSeen(d) \/ Apply(d) \/ RecordEvent(d) \/ Reply(d)

Next ==
    \/ \E d \in Deliveries : Handle(d) \/ Fail(d) \/ \E e \in Events : Deliver(d, e)
    \/ Restart

Spec == Init /\ [][Next]_vars

\* Stripe retries an event it has no 200 for.  The fairness is strong because
\* the requests in progress are bounded here and not in the API: a slot being
\* busy must not starve an event for ever.
Retry(e) == e \notin acked /\ \E d \in Deliveries : Deliver(d, e)

Fairness ==
    /\ \A d \in Deliveries : WF_vars(Handle(d))
    /\ \A e \in Events : SF_vars(Retry(e))

FairSpec == Spec /\ Fairness
----------------------------------------------------------------------------
\* Stripe always fills in event.created; the guard orders nothing without it.
AllTimed == \A e \in Events : IsSubscription(e) => e.created \in Nat

SubscriptionEventsOf(u) == {e \in Events : IsSubscription(e) /\ e.user = u}

\* The tier columns of a row: what entitlements are computed from.
Tier(r) == [plan |-> r.plan, status |-> r.status, stamp |-> r.last]

Blank == [plan |-> "free", status |-> "inactive", stamp |-> NoTime]

\* What get_subscription makes of the table: no row reads as free, inactive.
Held == [u \in Users |-> IF rows[u] = NoRow THEN Blank ELSE Tier(rows[u])]

\* The tier columns that the events of u can write.
Offers ==
    [u \in Users |->
        UNION {{Tier(SyncRow(e, c)) : c \in {k \in Configs : ~SkipsSync(e, k)}}
                    : e \in SubscriptionEventsOf(u)}]

Register == INSTANCE EntitlementRegister WITH held <- Held

\* The webhook implements the register of entitlements: a user's tier changes
\* only to what one single event of that user gives, and never to something
\* older than what is stored.  Interleaved and repeated deliveries, failures
\* between the calls, and checkout completions are all stutters.
ImplementsRegister == Register!Spec

\* Every deployment would write e to its user's row.
NeedsRow(e) == IsSubscription(e) /\ \A c \in Configs : ~SkipsSync(e, c)

\* The row of e's user holds e or something at least as new.
Reflected(e) ==
    NeedsRow(e) =>
        /\ rows[e.user] # NoRow
        /\ rows[e.user].last \in Nat
        /\ rows[e.user].last >= e.created

\* stripe_events logs an event, and Stripe gets its 200, only when the user's
\* row is already at least as new as it: a failure between the two calls can
\* repeat an event but never lose one, because a retry is turned away only
\* after the effect is stored.
LoggedIsReflected ==
    AllTimed => \A e \in stripeEvents \cup acked : Reflected(e)

\* What every step keeps: each tier stored is one that was offered, what is
\* answered is logged, and a request about to log an event has applied it.
IInv ==
    /\ \A u \in Users : Held[u] = Blank \/ Held[u] \in Offers[u]
    /\ acked \subseteq stripeEvents
    /\ \A d \in Deliveries : At(d, "reply") => handler[d].event \in stripeEvents
    /\ AllTimed =>
        /\ \A e \in stripeEvents : Reflected(e)
        /\ \A d \in Deliveries : At(d, "record") => Reflected(handler[d].event)

\* e is newer than every other subscription event of its user.
IsNewest(e) ==
    \A f \in SubscriptionEventsOf(e.user) \ {e} : f.created < e.created

\* Once the user's newest event is logged, the entitlement the API computes is
\* the one that event gives, whatever older events and checkout completions
\* were, are being or will be delivered around it: a cancellation sticks and a
\* paying user stays unlocked.
NewestLoggedDecides ==
    AllTimed =>
        \A e \in stripeEvents :
            NeedsRow(e) /\ IsNewest(e)
            => \E c \in Configs :
                    EntitledTier(rows[e.user]) = EntitledTier(SyncRow(e, c))

\* No user is ever stored as paying (active or trialing) for the free plan,
\* whatever prices the running deployment is missing.
ActiveIsPaid ==
    \A u \in Users :
        rows[u] # NoRow /\ rows[u].status \in ActiveStatuses =>
            rows[u].plan \in PaidTiers

\* Every event is in the end logged, answered and in its user's row for good,
\* whatever failed and however often it had to be delivered: none is answered
\* without having been recorded, and none recorded without its effect.
EventuallyProcessed ==
    \A e \in Events :
        <>[](e \in acked /\ e \in stripeEvents /\ (AllTimed => Reflected(e)))
============================================================================
