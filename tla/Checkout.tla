------------------------------ MODULE Checkout ------------------------------
(***************************************************************************)
(* POST /billing/checkout: how one user comes to a Stripe subscription,    *)
(* and to how many.  create_checkout_url reads the user's row, turns away  *)
(* a user whose subscription still exists, and asks Stripe for a Checkout  *)
(* Session under an idempotency key of the user, the price and the minute. *)
(* Stripe's side is external: the user pays a session, which makes a       *)
(* subscription, active or incomplete; it lapses, recovers and ends, and   *)
(* every change becomes an event.  The webhook is one step here (Webhook   *)
(* checks its interleavings): it applies an event, which is delivered      *)
(* again until it is logged.                                               *)
(*                                                                         *)
(* One user stands for all: neither rows nor keys are shared by users.     *)
(* Every price is configured.  A session i makes the subscription i, and   *)
(* the customer i if none was passed.  Events are stamped in whole seconds,*)
(* so that several may have one stamp; an id is the place of the change    *)
(* that the event, or the pair of them, is about.                          *)
(***************************************************************************)
EXTENDS BillingRows, FiniteSets, SequencesExt

CONSTANTS
    Tabs,         \* checkout requests the user has in progress at once
    Prices,       \* the prices bought
    MaxSessions,  \* bound on the Checkout Sessions
    MaxMinutes,   \* bound on the minutes that pass
    MaxEvents     \* bound on the events of subscriptions

ASSUME PricesAssumption == Prices \subseteq PaidTiers
ASSUME CheckoutBounds ==
    /\ MaxSessions \in Nat /\ MaxMinutes \in Nat /\ MaxEvents \in Nat
    /\ 1 .. MaxSessions \subseteq Ids /\ Users # {}

VARIABLES
    row,       \* the user's row in public.subscriptions
    minute,    \* time.time() // 60
    request,   \* create_checkout_url in progress
    sessions,  \* Stripe: Checkout Sessions and what became of them
    sent,      \* Stripe: the events emitted
    clock,     \* Stripe: the second of the last event
    logged,    \* public.stripe_events
    known,     \* the subscriptions of which an event has been applied
    doubled    \* history: two subscriptions have existed at the same time

stripe == <<sessions, sent, clock, doubled>>
checkoutVars == <<row, minute, request, stripe, logged, known>>

User == CHOOSE u \in Users : TRUE

NoRequest == [pc |-> "idle"]

Minutes == 0 .. MaxMinutes

\* A request is about to: read the row, take the time, call Stripe, answer.
Request == {NoRequest} \cup
    [pc : {"guard", "key", "create", "answer"}, price : Prices, customer : Ids \cup {NoId},
     known : SUBSET (1 .. MaxSessions), bucket : Minutes, session : 0 .. MaxSessions]

\* asked is the customer parameter, known what the opening request had seen,
\* given that the user has the URL; status is the subscription's once paid.
Session ==
    [price : Prices, bucket : Minutes, asked : Ids \cup {NoId}, known : SUBSET (1 .. MaxSessions),
     given : BOOLEAN, status : {"open"} \cup Statuses]

CheckoutTypeOK ==
    /\ row \in Row \cup {NoRow}
    /\ minute \in Minutes
    /\ request \in [Tabs -> Request]
    /\ sessions \in Seq(Session) /\ Len(sessions) <= MaxSessions
    /\ sent \subseteq Event /\ logged \subseteq sent /\ clock \in Nat
    /\ known \subseteq DOMAIN sessions
    /\ doubled \in BOOLEAN

CheckoutInit ==
    /\ row = NoRow
    /\ minute = 0
    /\ request = [t \in Tabs |-> NoRequest]
    /\ sessions = <<>>
    /\ sent = {} /\ logged = {} /\ known = {} /\ clock = 0
    /\ doubled = FALSE
----------------------------------------------------------------------------
RequestAt(t, pc) == request[t].pc = pc

End(t) == request' = [request EXCEPT ![t] = NoRequest]

\* MaxSessions bounds the requests let in, each of which opens at most one.
Start(t, p) ==
    /\ RequestAt(t, "idle")
    /\ Len(sessions) + Cardinality({r \in Tabs : request[r].pc \in {"guard", "key", "create"}})
         < MaxSessions
    /\ request' = [request EXCEPT ![t] =
            [pc |-> "guard", price |-> p, customer |-> NoId, known |-> {}, bucket |-> 0,
             session |-> 0]]
    /\ UNCHANGED <<row, minute, stripe, logged, known>>

\* Mutant: only a subscription that entitles is in the way of a new one.
Blocked_OnlyActive == row # NoRow /\ row.status \in ActiveStatuses

Blocked == row # NoRow /\ row.status \in CheckoutBlockingStatuses

\* The guard against double billing: 409, or on with the row's customer.
ReadRow(t) ==
    /\ RequestAt(t, "guard")
    /\ IF Blocked
       THEN End(t)
       ELSE request' = [request EXCEPT
                ![t].pc = "key",
                ![t].customer = IF row = NoRow THEN NoId ELSE row.customer,
                ![t].known = known]
    /\ UNCHANGED <<row, minute, stripe, logged, known>>

CheckoutIdempotencyKey(t) ==
    /\ RequestAt(t, "key")
    /\ request' = [request EXCEPT ![t].pc = "create", ![t].bucket = minute]
    /\ UNCHANGED <<row, minute, stripe, logged, known>>

SameKey(t) ==
    {i \in DOMAIN sessions :
        sessions[i].price = request[t].price /\ sessions[i].bucket = request[t].bucket}

\* Stripe replays the session of the key, refuses a key used with another
\* customer (an error create_checkout_url lets through), or opens a session.
CreateCheckoutSession(t) ==
    /\ RequestAt(t, "create")
    /\ \/ \E i \in SameKey(t) :
            /\ IF sessions[i].asked = request[t].customer
               THEN request' = [request EXCEPT ![t].pc = "answer", ![t].session = i]
               ELSE End(t)
            /\ UNCHANGED sessions
       \/ /\ SameKey(t) = {}
          /\ sessions' = Append(sessions,
                [price |-> request[t].price, bucket |-> request[t].bucket,
                 asked |-> request[t].customer, known |-> request[t].known,
                 given |-> FALSE, status |-> "open"])
          /\ request' = [request EXCEPT ![t].pc = "answer", ![t].session = Len(sessions) + 1]
    /\ UNCHANGED <<row, minute, sent, clock, doubled, logged, known>>

Answer(t) ==
    /\ RequestAt(t, "answer")
    /\ sessions' = [sessions EXCEPT ![request[t].session].given = TRUE]
    /\ End(t)
    /\ UNCHANGED <<row, minute, sent, clock, doubled, logged, known>>

\* A call raises or the answer is lost; a session may have been opened for it.
RequestFails(t) ==
    /\ ~RequestAt(t, "idle")
    /\ End(t)
    /\ UNCHANGED <<row, minute, stripe, logged, known>>

Tick ==
    /\ minute < MaxMinutes
    /\ minute' = minute + 1
    /\ UNCHANGED <<row, request, stripe, logged, known>>
----------------------------------------------------------------------------
\* Stripe and the user.
Exists(i) == sessions[i].status \in CheckoutBlockingStatuses

Customer(i) == IF sessions[i].asked = NoId THEN i ELSE sessions[i].asked

SubEvents == {e \in sent : IsSubscription(e)}

\* The event of a change made now.
StripeEvent(type, i, status) ==
    [id |-> Cardinality(SubEvents) + 1, type |-> type, user |-> User,
     price |-> sessions[i].price, status |-> status,
     customer |-> Customer(i), sub |-> i, created |-> clock']

\* Subscription i changes to status, in the second of the last event or in a
\* later one, and emits an event of each of the types.
Change(i, status, types) ==
    /\ Cardinality(SubEvents) < MaxEvents
    /\ clock' \in {clock, clock + 1} \ {0}
    /\ sessions' = [sessions EXCEPT ![i].status = status]
    /\ sent' = sent \cup {StripeEvent(type, i, status) : type \in types}
    /\ doubled' = (doubled \/ \E j, k \in DOMAIN sessions : j # k /\ Exists(j)' /\ Exists(k)')
    /\ UNCHANGED <<row, minute, request, logged, known>>

\* The first payment may still have to go through when the checkout is done.
Pay(i, status) ==
    /\ sessions[i].given /\ sessions[i].status = "open"
    /\ Change(i, status, {"created", "checkout"})

Update(i, status) ==
    /\ \/ sessions[i].status = "active" /\ status = "past_due"
       \/ sessions[i].status \in {"past_due", "incomplete"} /\ status = "active"
       \/ sessions[i].status = "incomplete" /\ status = "incomplete_expired"
    /\ Change(i, status, {"updated"})

\* The subscription is cancelled in the portal, or for good after past_due.
Delete(i) ==
    /\ Exists(i)
    /\ Change(i, "canceled", {"deleted"})

\* The webhook: handle_webhook applies e, and logs it unless that write fails.
HandleWebhook(e) ==
    /\ e \in sent \ logged
    /\ row' = IF IsSubscription(e)
              THEN ApplySubscriptionEvent(row, SyncRow(e, PaidTiers))
              ELSE UpsertIds(row, e)
    /\ known' = IF IsSubscription(e) THEN known \cup {e.sub} ELSE known
    /\ logged' \in {logged, logged \cup {e}}
    /\ UNCHANGED <<minute, request, stripe>>

CreateCheckoutUrl(t) ==
    ReadRow(t) \/ CheckoutIdempotencyKey(t) \/ CreateCheckoutSession(t) \/ Answer(t)

CheckoutNext ==
    \/ \E t \in Tabs : CreateCheckoutUrl(t) \/ RequestFails(t) \/ \E p \in Prices : Start(t, p)
    \/ Tick
    \/ \E i \in DOMAIN sessions :
            \/ \E s \in {"active", "incomplete"} : Pay(i, s)
            \/ \E s \in {"past_due", "active", "incomplete_expired"} : Update(i, s)
            \/ Delete(i)
    \/ \E e \in sent : HandleWebhook(e)

CheckoutSpec == CheckoutInit /\ [][CheckoutNext]_checkoutVars
----------------------------------------------------------------------------
\* Two subscriptions have events of one second, which nothing can order.
Crossed == \E e, f \in SubEvents : e.sub # f.sub /\ e.created = f.created

\* Until a race has doubled the user's subscriptions, or one ended in the second
\* in which the next began, no session still to be paid was opened by a request
\* that came after an event of a subscription that still exists: once the
\* webhook has spoken, a first payment under way, a lapsed subscription, events
\* out of order and late checkout completions leave no way to a second one.
NoSecondOnceKnown ==
    ~doubled /\ ~Crossed =>
        \A i, j \in DOMAIN sessions :
            sessions[i].status = "open" /\ Exists(j) => j \notin sessions[i].known

\* The events nothing is newer than: of those, the last delivered wins.
LastEvents == {e \in SubEvents : e.created = clock}

\* When every event is logged, no race had the user subscribed twice and the
\* last event has its second to itself, the tier the API grants is that of the
\* subscription that exists and is paid up.
SettledTierIsPaidFor ==
    logged = sent /\ ~doubled /\ Cardinality(LastEvents) <= 1 =>
        EntitledTier(row) =
            LET active == {i \in DOMAIN sessions : sessions[i].status \in ActiveStatuses}
            IN  IF active = {} THEN "free" ELSE sessions[CHOOSE i \in active : TRUE].price
============================================================================
