--------------------------- MODULE BillingProofs ---------------------------
(***************************************************************************)
(* Theorems about Webhook, for every set of users, events and deliveries,  *)
(* and about Checkout, for every set of tabs and every bound.  Both write  *)
(* and read the rows of BillingRows, whose lemmas come first.              *)
(***************************************************************************)
EXTENDS Webhook, Checkout, TLAPS, FiniteSetTheorems


\* The values the writes produce are rows of the table.
LEMMA SyncRowType ==
    ASSUME NEW e \in Event, NEW c \in SUBSET PaidTiers
    PROVE  SyncRow(e, c) \in Row
  BY DEF Event, Row, SyncRow, PriceToTier, PaidTiers, Tiers, Statuses,
         CheckoutBlockingStatuses, ActiveStatuses, Times

LEMMA ApplyType ==
    ASSUME NEW r \in Row \cup {NoRow}, NEW new \in Row
    PROVE  ApplySubscriptionEvent(r, new) \in Row
  BY DEF ApplySubscriptionEvent

LEMMA UpsertType ==
    ASSUME NEW r \in Row \cup {NoRow}, NEW e \in Event
    PROVE  UpsertIds(r, e) \in Row
<1>1. CASE r = NoRow
  BY <1>1 DEF UpsertIds, Row, Event, Tiers, Statuses, CheckoutBlockingStatuses, Times
<1>2. CASE r # NoRow
  BY <1>2 DEF UpsertIds, Row, Event
<1> QED BY <1>1, <1>2

\* A request in progress has an event, and stays one when it moves on.
LEMMA HandlerFacts ==
    ASSUME TypeOK, NEW d \in Deliveries, ~At(d, "idle")
    PROVE  /\ handler[d].event \in Events
           /\ handler[d].event \in Event
           /\ \A pc \in {"seen", "apply", "record", "reply"} :
                MoveTo(d, pc) => /\ handler' \in [Deliveries -> Handler]
                                 /\ handler'[d].event = handler[d].event
                                 /\ handler'[d].pc = pc
                                 /\ \A x \in Deliveries : x # d => handler'[x] = handler[x]
  BY EventsAssumption DEF TypeOK, Handler, Idle, At, MoveTo

LEMMA TypeInit == Init => TypeOK
  BY MaxFailuresAssumption DEF Init, TypeOK, Handler

LEMMA TypeStep == TypeOK /\ [Next]_vars => TypeOK'
<1> SUFFICES ASSUME TypeOK, [Next]_vars PROVE TypeOK'
  OBVIOUS
<1> USE DEF TypeOK
<1>1. ASSUME NEW d \in Deliveries, NEW e \in Events, Deliver(d, e) PROVE TypeOK'
  BY <1>1 DEF Deliver, Handler
<1>2. ASSUME NEW d \in Deliveries, EventSeen(d) PROVE TypeOK'
  BY <1>2, HandlerFacts DEF EventSeen, At
<1>3. ASSUME NEW d \in Deliveries, SyncSubscription(d) PROVE TypeOK'
  <2>1. handler[d].event \in Event /\ handler' \in [Deliveries -> Handler]
    BY <1>3, HandlerFacts DEF SyncSubscription, At
  <2>2. SyncRow(handler[d].event, priced) \in Row
    BY <2>1, SyncRowType, ConfigsAssumption
  <2>3. \A u \in Users :
          ApplySubscriptionEvent(rows[u], SyncRow(handler[d].event, priced)) \in Row
    BY <2>2, ApplyType
  <2>4. ~SkipsSync(handler[d].event, priced) => handler[d].event.user \in Users
    BY <2>1 DEF SkipsSync, Event
  <2>5. rows' \in [Users -> Row \cup {NoRow}]
    BY <1>3, <2>3, <2>4 DEF SyncSubscription
  <2> QED BY <1>3, <2>1, <2>5 DEF SyncSubscription
<1>4. ASSUME NEW d \in Deliveries, SyncFromCheckout(d) PROVE TypeOK'
  <2>1. handler[d].event \in Event /\ handler' \in [Deliveries -> Handler]
    BY <1>4, HandlerFacts DEF SyncFromCheckout, At
  <2>2. \A u \in Users : UpsertIds(rows[u], handler[d].event) \in Row
    BY <2>1, UpsertType
  <2>3. rows' \in [Users -> Row \cup {NoRow}]
    BY <1>4, <2>1, <2>2 DEF SyncFromCheckout, Event
  <2> QED BY <1>4, <2>1, <2>3 DEF SyncFromCheckout
<1>5. ASSUME NEW d \in Deliveries, IgnoreOther(d) PROVE TypeOK'
  BY <1>5, HandlerFacts DEF IgnoreOther, At
<1>6. ASSUME NEW d \in Deliveries, RecordEvent(d) PROVE TypeOK'
  BY <1>6, HandlerFacts DEF RecordEvent, At
<1>7. ASSUME NEW d \in Deliveries, Reply(d) PROVE TypeOK'
  BY <1>7, HandlerFacts DEF Reply, At, Handler
<1>8. ASSUME NEW d \in Deliveries, Fail(d) PROVE TypeOK'
  BY <1>8, MaxFailuresAssumption DEF Fail, Handler
<1>9. ASSUME Restart PROVE TypeOK'
  BY <1>9, MaxFailuresAssumption DEF Restart, Handler
<1>10. CASE UNCHANGED vars
  BY <1>10 DEF vars
<1> QED
  BY <1>1, <1>2, <1>3, <1>4, <1>5, <1>6, <1>7, <1>8, <1>9, <1>10
  DEF Next, Handle, Apply

\* The variables of the webhook always hold values of their types.
THEOREM TypeCorrect == Spec => []TypeOK
  BY TypeInit, TypeStep, PTL DEF Spec
----------------------------------------------------------------------------
\* Membership in Offers, written out.
LEMMA OffersDef ==
    ASSUME NEW u \in Users
    PROVE  \A o : o \in Offers[u] <=>
              \E e \in SubscriptionEventsOf(u), c \in Configs :
                  ~SkipsSync(e, c) /\ o = Tier(SyncRow(e, c))
  BY DEF Offers

\* What applying an event does to the stored tier: it becomes the event's tier
\* when that is allowed to replace it, and stays otherwise.
LEMMA ApplyTier ==
    ASSUME NEW r \in Row \cup {NoRow}, NEW new \in Row
    PROVE  /\ r = NoRow => ApplySubscriptionEvent(r, new) = new
           /\ r # NoRow /\ SameOrNewer(new, r) => ApplySubscriptionEvent(r, new) = new
           /\ r # NoRow /\ ~SameOrNewer(new, r) => ApplySubscriptionEvent(r, new) = r
  BY DEF ApplySubscriptionEvent

\* The checkout upsert keeps the tier columns of a row, and gives a new row
\* the blank ones.
LEMMA UpsertTier ==
    ASSUME NEW r \in Row \cup {NoRow}, NEW e \in Event
    PROVE  /\ UpsertIds(r, e) # NoRow
           /\ r = NoRow => Tier(UpsertIds(r, e)) = Blank
           /\ r # NoRow => Tier(UpsertIds(r, e)) = Tier(r)
<1>1. UpsertIds(r, e) # NoRow
  BY UpsertType, SentinelsAreFresh
<1>2. r = NoRow => Tier(UpsertIds(r, e)) = Blank
  BY DEF UpsertIds, Tier, Blank
<1>3. ASSUME r # NoRow PROVE Tier(UpsertIds(r, e)) = Tier(r)
  BY <1>3 DEF UpsertIds, Tier, Row
<1> QED BY <1>1, <1>2, <1>3

\* The two actions that write rows, as steps of the register: the held tier of
\* one user takes an offer it may take, or nothing changes.
LEMMA SyncHeld ==
    ASSUME TypeOK, NEW d \in Deliveries, SyncSubscription(d)
    PROVE  \/ Held' = Held
           \/ \E u \in Users : \E o \in Offers[u] : Register!Take(u, o)
<1> DEFINE e == handler[d].event
           new == SyncRow(e, priced)
<1>1. e \in Event /\ e \in Events /\ priced \in Configs /\ rows \in [Users -> Row \cup {NoRow}]
  BY HandlerFacts DEF SyncSubscription, At, TypeOK
<1>2. new \in Row /\ new # NoRow /\ new.last = e.created
  BY <1>1, SyncRowType, ConfigsAssumption, SentinelsAreFresh DEF SyncRow
<1>3. CASE SkipsSync(e, priced)
  BY <1>3 DEF SyncSubscription, Held
<1>4. CASE ~SkipsSync(e, priced)
  <2>1. e.user \in Users
    BY <1>1, <1>4 DEF SkipsSync, Event
  <2>2. rows' = [rows EXCEPT ![e.user] = ApplySubscriptionEvent(@, new)]
    BY <1>4 DEF SyncSubscription
  <2>3. Tier(new) \in Offers[e.user]
    BY <1>1, <1>4, <2>1, OffersDef DEF SyncSubscription, SubscriptionEventsOf
  <2>4. CASE rows[e.user] = NoRow \/ SameOrNewer(new, rows[e.user])
    <3>1. rows' = [rows EXCEPT ![e.user] = new]
      BY <1>1, <1>2, <2>1, <2>2, <2>4, ApplyTier
    <3>2. Held' = [Held EXCEPT ![e.user] = Tier(new)]
      BY <1>1, <1>2, <2>1, <3>1 DEF Held
    <3>3. Register!MayReplace(Tier(new), Held[e.user])
      BY <2>1, <2>4 DEF Register!MayReplace, Held, Tier, Blank, SameOrNewer
    <3> QED BY <2>1, <2>3, <3>2, <3>3 DEF Register!Take
  <2>5. CASE rows[e.user] # NoRow /\ ~SameOrNewer(new, rows[e.user])
    <3>1. rows' = rows
      BY <1>1, <1>2, <2>1, <2>2, <2>5, ApplyTier
    <3> QED BY <3>1 DEF Held
  <2> QED BY <2>4, <2>5
<1> QED BY <1>3, <1>4

LEMMA CheckoutHeld ==
    ASSUME TypeOK, NEW d \in Deliveries, SyncFromCheckout(d)
    PROVE  Held' = Held
<1> DEFINE e == handler[d].event
<1>1. e \in Event /\ rows \in [Users -> Row \cup {NoRow}]
  BY HandlerFacts DEF SyncFromCheckout, At, TypeOK
<1>2. CASE e.user = NoUser
  BY <1>2 DEF SyncFromCheckout, Held
<1>3. CASE e.user # NoUser
  <2>1. e.user \in Users /\ rows' = [rows EXCEPT ![e.user] = UpsertIds(@, e)]
    BY <1>1, <1>3 DEF SyncFromCheckout, Event
  <2>2. ASSUME NEW u \in Users
        PROVE  (IF rows'[u] = NoRow THEN Blank ELSE Tier(rows'[u]))
                 = (IF rows[u] = NoRow THEN Blank ELSE Tier(rows[u]))
    BY <1>1, <2>1, UpsertTier
  <2> QED BY <2>2 DEF Held
<1> QED BY <1>2, <1>3

\* Every step of the webhook is a step of the register or leaves it alone.
LEMMA RegisterStep == TypeOK /\ [Next]_vars => [Register!Next]_Held
<1> SUFFICES ASSUME TypeOK, [Next]_vars PROVE [Register!Next]_Held
  OBVIOUS
<1>1. ASSUME NEW d \in Deliveries, SyncSubscription(d) PROVE [Register!Next]_Held
  BY <1>1, SyncHeld DEF Register!Next
<1>2. ASSUME NEW d \in Deliveries, SyncFromCheckout(d) PROVE [Register!Next]_Held
  BY <1>2, CheckoutHeld
<1>3. ASSUME rows' = rows PROVE [Register!Next]_Held
  BY <1>3 DEF Held
<1> QED
  BY <1>1, <1>2, <1>3
  DEF Next, vars, Handle, Apply, Deliver, EventSeen, IgnoreOther, RecordEvent, Reply,
      Fail, Restart

\* The webhook, with all its concurrency and failures, implements the register
\* of entitlements.
THEOREM RegisterRefinement == Spec => ImplementsRegister
<1>1. Init => Register!Init
  BY DEF Init, Register!Init, Held
<1>2. Spec => []TypeOK
  BY TypeCorrect
<1> QED
  BY <1>1, <1>2, RegisterStep, PTL DEF Spec, ImplementsRegister, Register!Spec
----------------------------------------------------------------------------
\* A row with a timestamp keeps having one, and it never goes back.
LEMMA TimeNeverBack ==
    ASSUME TypeOK, AllTimed, [Next]_vars, NEW u \in Users,
           rows[u] # NoRow, rows[u].last \in Nat
    PROVE  rows'[u] # NoRow /\ rows'[u].last \in Nat /\ rows'[u].last >= rows[u].last
<1> DEFINE Goal == rows'[u] # NoRow /\ rows'[u].last \in Nat /\ rows'[u].last >= rows[u].last
<1>1. rows \in [Users -> Row \cup {NoRow}] /\ rows[u] \in Row
  BY DEF TypeOK
<1>2. ASSUME rows'[u] = rows[u] PROVE Goal
  BY <1>2
<1>3. ASSUME NEW d \in Deliveries, SyncSubscription(d) PROVE Goal
  <2> DEFINE e == handler[d].event
             new == SyncRow(e, priced)
  <2>1. e \in Event /\ e \in Events /\ priced \in Configs
    BY <1>3, HandlerFacts DEF SyncSubscription, At, TypeOK
  <2>2. new \in Row /\ new # NoRow /\ new.last = e.created /\ e.created \in Nat
    BY <1>3, <2>1, SyncRowType, ConfigsAssumption, SentinelsAreFresh
    DEF SyncRow, AllTimed, SyncSubscription
  <2>3. CASE SkipsSync(e, priced) \/ e.user # u
    BY <1>1, <1>2, <1>3, <2>3 DEF SyncSubscription
  <2>4. CASE ~SkipsSync(e, priced) /\ e.user = u
    <3>1. rows'[u] = ApplySubscriptionEvent(rows[u], new)
      BY <1>1, <1>3, <2>4 DEF SyncSubscription
    <3>2. CASE SameOrNewer(new, rows[u])
      <4>1. rows'[u] = new
        BY <1>1, <2>2, <3>1, <3>2, ApplyTier
      <4>2. new.last >= rows[u].last
        BY <2>2, <3>2, SentinelsAreFresh DEF SameOrNewer
      <4> QED BY <2>2, <4>1, <4>2
    <3>3. CASE ~SameOrNewer(new, rows[u])
      BY <1>1, <1>2, <2>2, <3>1, <3>3, ApplyTier
    <3> QED BY <3>2, <3>3
  <2> QED BY <2>3, <2>4
<1>4. ASSUME NEW d \in Deliveries, SyncFromCheckout(d) PROVE Goal
  <2> DEFINE e == handler[d].event
  <2>1. e \in Event
    BY <1>4, HandlerFacts DEF SyncFromCheckout, At
  <2>2. CASE e.user # u \/ e.user = NoUser
    BY <1>1, <1>2, <1>4, <2>2 DEF SyncFromCheckout
  <2>3. CASE e.user = u /\ e.user # NoUser
    <3>1. rows'[u] = UpsertIds(rows[u], e)
      BY <1>1, <1>4, <2>3 DEF SyncFromCheckout
    <3>2. rows'[u] # NoRow /\ Tier(rows'[u]) = Tier(rows[u])
      BY <1>1, <2>1, <3>1, UpsertTier
    <3> QED BY <3>2 DEF Tier
  <2> QED BY <2>2, <2>3
<1> QED
  BY <1>2, <1>3, <1>4
  DEF Next, vars, Handle, Apply, Deliver, EventSeen, IgnoreOther, RecordEvent, Reply,
      Fail, Restart

\* What a row reflects it goes on reflecting.
LEMMA ReflectedStays ==
    ASSUME TypeOK, AllTimed, [Next]_vars, NEW e \in Events, Reflected(e)
    PROVE  Reflected(e)'
<1>1. ASSUME NeedsRow(e) PROVE e.user \in Users /\ e.created \in Nat
  BY <1>1, ConfigsAssumption, EventsAssumption
  DEF NeedsRow, SkipsSync, Event, AllTimed
<1>2. NeedsRow(e)' <=> NeedsRow(e)
  BY DEF NeedsRow
<1>3. ASSUME NeedsRow(e), rows[e.user] # NoRow, rows[e.user].last \in Nat,
             rows[e.user].last >= e.created
      PROVE  /\ rows'[e.user] # NoRow
             /\ rows'[e.user].last \in Nat
             /\ rows'[e.user].last >= e.created
  BY <1>1, <1>3, TimeNeverBack
<1> QED BY <1>2, <1>3 DEF Reflected

\* After its sync step a request's event is reflected: it was applied, or the
\* row was newer already.
LEMMA SyncReflects ==
    ASSUME TypeOK, AllTimed, NEW d \in Deliveries, Apply(d)
    PROVE  Reflected(handler[d].event)'
<1> DEFINE e == handler[d].event
           new == SyncRow(e, priced)
<1>1. e \in Event /\ e \in Events /\ priced \in Configs /\ rows \in [Users -> Row \cup {NoRow}]
  BY HandlerFacts DEF Apply, SyncSubscription, SyncFromCheckout, IgnoreOther, At, TypeOK
<1>2. handler'[d].event = e
  BY HandlerFacts DEF Apply, SyncSubscription, SyncFromCheckout, IgnoreOther, At
<1>3. CASE ~NeedsRow(e)
  BY <1>2, <1>3 DEF Reflected, NeedsRow
<1>4. CASE NeedsRow(e)
  <2>1. IsSubscription(e) /\ ~SkipsSync(e, priced) /\ e.user \in Users /\ e.created \in Nat
    BY <1>1, <1>4 DEF NeedsRow, SkipsSync, Event, AllTimed
  <2>2. SyncSubscription(d)
    BY <2>1 DEF Apply, SyncFromCheckout, IgnoreOther, IsSubscription, SubscriptionEvents
  <2>3. new \in Row /\ new # NoRow /\ new.last = e.created
    BY <1>1, SyncRowType, ConfigsAssumption, SentinelsAreFresh DEF SyncRow
  <2>4. rows'[e.user] = ApplySubscriptionEvent(rows[e.user], new)
    BY <1>1, <2>1, <2>2 DEF SyncSubscription
  <2>5. CASE rows[e.user] = NoRow \/ SameOrNewer(new, rows[e.user])
    <3>1. rows'[e.user] = new
      BY <1>1, <2>1, <2>3, <2>4, <2>5, ApplyTier
    <3> QED BY <1>2, <2>1, <2>3, <3>1 DEF Reflected
  <2>6. CASE rows[e.user] # NoRow /\ ~SameOrNewer(new, rows[e.user])
    <3>1. rows'[e.user] = rows[e.user] /\ rows[e.user] \in Row
      BY <1>1, <2>1, <2>3, <2>4, <2>6, ApplyTier
    <3>2. rows[e.user].last \in Nat /\ rows[e.user].last >= e.created
      BY <2>1, <2>3, <2>6, <3>1 DEF SameOrNewer, Row, Times
    <3> QED BY <1>2, <2>1, <2>6, <3>1, <3>2 DEF Reflected
  <2> QED BY <2>5, <2>6
<1> QED BY <1>3, <1>4
----------------------------------------------------------------------------
\* The parts of IInv, one definition each, so that a step can name the one it
\* keeps.
HeldOffered == \A u \in Users : Held[u] = Blank \/ Held[u] \in Offers[u]

RepliesLogged == \A d \in Deliveries : At(d, "reply") => handler[d].event \in stripeEvents

AllLoggedReflected == \A e \in stripeEvents : Reflected(e)

RecordersReflected ==
    \A d \in Deliveries : At(d, "record") => Reflected(handler[d].event)

LEMMA IInvParts ==
    IInv <=> /\ HeldOffered /\ acked \subseteq stripeEvents /\ RepliesLogged
             /\ AllTimed => AllLoggedReflected /\ RecordersReflected
  BY DEF IInv, HeldOffered, RepliesLogged, AllLoggedReflected, RecordersReflected

LEMMA IInvInit == Init => IInv
  BY DEF Init, IInv, Held, At, Idle

LEMMA HeldOfferedStep == TypeOK /\ HeldOffered /\ [Next]_vars => HeldOffered'
<1> SUFFICES ASSUME TypeOK, HeldOffered, [Next]_vars PROVE HeldOffered'
  OBVIOUS
<1>1. CASE Register!Next
  <2>1. PICK u \in Users : \E o \in Offers[u] : Held' = [Held EXCEPT ![u] = o]
    BY <1>1 DEF Register!Next, Register!Take
  <2> QED BY <2>1 DEF HeldOffered, Held, Offers
<1>2. CASE Held' = Held
  BY <1>2 DEF HeldOffered, Offers
<1> QED BY <1>1, <1>2, RegisterStep

\* The log and the set of answered events, and the requests about to answer.
LEMMA LogStep ==
    TypeOK /\ acked \subseteq stripeEvents /\ RepliesLogged /\ [Next]_vars
        => acked' \subseteq stripeEvents' /\ RepliesLogged'
<1> SUFFICES ASSUME TypeOK, acked \subseteq stripeEvents, RepliesLogged, [Next]_vars
             PROVE  acked' \subseteq stripeEvents' /\ RepliesLogged'
  OBVIOUS
<1> USE DEF RepliesLogged, At
<1>1. ASSUME NEW d \in Deliveries, NEW e \in Events, Deliver(d, e)
      PROVE  acked' \subseteq stripeEvents' /\ RepliesLogged'
  BY <1>1 DEF Deliver, TypeOK
<1>2. ASSUME NEW d \in Deliveries, EventSeen(d)
      PROVE  acked' \subseteq stripeEvents' /\ RepliesLogged'
  BY <1>2, HandlerFacts DEF EventSeen
<1>3. ASSUME NEW d \in Deliveries, Apply(d)
      PROVE  acked' \subseteq stripeEvents' /\ RepliesLogged'
  BY <1>3, HandlerFacts DEF Apply, SyncSubscription, SyncFromCheckout, IgnoreOther
<1>4. ASSUME NEW d \in Deliveries, RecordEvent(d)
      PROVE  acked' \subseteq stripeEvents' /\ RepliesLogged'
  BY <1>4, HandlerFacts DEF RecordEvent
<1>5. ASSUME NEW d \in Deliveries, Reply(d)
      PROVE  acked' \subseteq stripeEvents' /\ RepliesLogged'
  BY <1>5 DEF Reply, TypeOK, Idle
<1>6. ASSUME NEW d \in Deliveries, Fail(d)
      PROVE  acked' \subseteq stripeEvents' /\ RepliesLogged'
  BY <1>6 DEF Fail, TypeOK, Idle
<1>7. CASE Restart
  BY <1>7 DEF Restart, Idle
<1>8. CASE UNCHANGED vars
  BY <1>8 DEF vars
<1> QED
  BY <1>1, <1>2, <1>3, <1>4, <1>5, <1>6, <1>7, <1>8 DEF Next, Handle

\* What is logged was about to be logged before, hence reflected; what is about
\* to be logged was applied a step earlier.
LEMMA ReflectedStep ==
    TypeOK /\ AllTimed /\ AllLoggedReflected /\ RecordersReflected /\ [Next]_vars
        => AllLoggedReflected' /\ RecordersReflected'
<1> SUFFICES ASSUME TypeOK, AllTimed, AllLoggedReflected, RecordersReflected, [Next]_vars
             PROVE  AllLoggedReflected' /\ RecordersReflected'
  OBVIOUS
<1>1. \A e \in Events : Reflected(e) => Reflected(e)'
  BY ReflectedStays
<1>2. AllLoggedReflected'
  <2>1. \A e \in stripeEvents' : e \in Events /\ Reflected(e)
    <3>1. ASSUME NEW d \in Deliveries, RecordEvent(d)
          PROVE  \A e \in stripeEvents' : e \in Events /\ Reflected(e)
      BY <3>1, HandlerFacts
      DEF RecordEvent, At, TypeOK, AllLoggedReflected, RecordersReflected
    <3>2. CASE stripeEvents' = stripeEvents
      BY <3>2 DEF TypeOK, AllLoggedReflected
    <3> QED
      BY <3>1, <3>2
      DEF Next, vars, Handle, Apply, Deliver, EventSeen, SyncSubscription,
          SyncFromCheckout, IgnoreOther, Reply, Fail, Restart
  <2> QED BY <1>1, <2>1 DEF AllLoggedReflected
<1>3. RecordersReflected'
  <2> SUFFICES ASSUME NEW x \in Deliveries, handler'[x].pc = "record"
               PROVE  Reflected(handler[x].event)'
    BY DEF RecordersReflected, At
  <2>1. ASSUME NEW d \in Deliveries, Apply(d)
        PROVE  \/ x = d
               \/ /\ handler[x].pc = "record" /\ handler'[x].event = handler[x].event
    BY <2>1, HandlerFacts DEF Apply, SyncSubscription, SyncFromCheckout, IgnoreOther, At
  <2>2. ASSUME ~\E d \in Deliveries : Apply(d)
        PROVE  handler[x].pc = "record" /\ handler'[x].event = handler[x].event
    <3>1. ASSUME NEW d \in Deliveries, NEW e \in Events, Deliver(d, e)
          PROVE  handler[x].pc = "record" /\ handler'[x] = handler[x]
      BY <3>1 DEF Deliver, TypeOK
    <3>2. ASSUME NEW d \in Deliveries, EventSeen(d)
          PROVE  handler[x].pc = "record" /\ handler'[x] = handler[x]
      BY <3>2, HandlerFacts DEF EventSeen, At
    <3>3. ASSUME NEW d \in Deliveries, RecordEvent(d)
          PROVE  handler[x].pc = "record" /\ handler'[x] = handler[x]
      BY <3>3, HandlerFacts DEF RecordEvent, At
    <3>4. ASSUME NEW d \in Deliveries, Reply(d) \/ Fail(d)
          PROVE  handler[x].pc = "record" /\ handler'[x] = handler[x]
      BY <3>4 DEF Reply, Fail, TypeOK, Idle
    <3>5. CASE Restart
      BY <3>5 DEF Restart, Idle
    <3>6. CASE UNCHANGED vars
      BY <3>6 DEF vars
    <3> QED BY <2>2, <3>1, <3>2, <3>3, <3>4, <3>5, <3>6 DEF Next, Handle
  <2>3. CASE handler[x].pc = "record" /\ handler'[x].event = handler[x].event
    <3>1. handler[x].event \in Events /\ Reflected(handler[x].event)
      BY <2>3, HandlerFacts DEF At, RecordersReflected
    <3> QED BY <1>1, <2>3, <3>1 DEF Reflected, NeedsRow
  <2>4. CASE Apply(x)
    BY <2>4, SyncReflects
  <2> QED BY <2>1, <2>2, <2>3, <2>4
<1> QED BY <1>2, <1>3

\* The inductive invariant.
LEMMA IInvStep == TypeOK /\ IInv /\ [Next]_vars => IInv'
<1> SUFFICES ASSUME TypeOK, IInv, [Next]_vars PROVE IInv'
  OBVIOUS
<1>1. HeldOffered' /\ acked' \subseteq stripeEvents' /\ RepliesLogged'
  BY IInvParts, HeldOfferedStep, LogStep
<1>2. AllTimed' <=> AllTimed
  BY DEF AllTimed
<1>3. AllTimed => AllLoggedReflected' /\ RecordersReflected'
  BY IInvParts, ReflectedStep
<1> QED
  BY <1>1, <1>2, <1>3
  DEF IInv, HeldOffered, RepliesLogged, AllLoggedReflected, RecordersReflected

THEOREM Inductive == Spec => []IInv
  BY TypeCorrect, IInvInit, IInvStep, PTL DEF Spec
----------------------------------------------------------------------------
\* No webhook failure loses an event: what is logged or answered is reflected.
THEOREM LoggedReflected == Spec => []LoggedIsReflected
<1>1. IInv => LoggedIsReflected
  BY DEF IInv, LoggedIsReflected
<1> QED BY <1>1, Inductive, PTL

\* A row with a timestamp holds the tier of one of its user's events.
LEMMA RowIsSomeEvent ==
    ASSUME TypeOK, IInv, NEW u \in Users, rows[u] # NoRow, rows[u].last # NoTime
    PROVE  \E e \in SubscriptionEventsOf(u), c \in Configs :
                ~SkipsSync(e, c) /\ Tier(rows[u]) = Tier(SyncRow(e, c))
<1>1. Held[u] = Tier(rows[u]) /\ Held[u] # Blank
  BY DEF Held, Tier, Blank
<1>2. Held[u] \in Offers[u]
  BY <1>1 DEF IInv
<1> QED BY <1>1, <1>2, OffersDef

\* Once a user's newest event is logged it decides the entitlement for good.
THEOREM NewestDecides == Spec => []NewestLoggedDecides
<1>1. ASSUME TypeOK, IInv PROVE NewestLoggedDecides
  <2> SUFFICES ASSUME AllTimed, NEW e \in stripeEvents, NeedsRow(e), IsNewest(e)
               PROVE  \E c \in Configs :
                        EntitledTier(rows[e.user]) = EntitledTier(SyncRow(e, c))
    BY DEF NewestLoggedDecides
  <2>1. e \in Events /\ e \in Event /\ IsSubscription(e) /\ e.user \in Users
    BY <1>1, EventsAssumption, ConfigsAssumption DEF TypeOK, NeedsRow, SkipsSync, Event
  <2>2. /\ rows[e.user] # NoRow
        /\ rows[e.user].last \in Nat /\ rows[e.user].last >= e.created /\ e.created \in Nat
    BY <1>1, <2>1 DEF IInv, Reflected, AllTimed
  <2>3. PICK f \in SubscriptionEventsOf(e.user), c \in Configs :
            Tier(rows[e.user]) = Tier(SyncRow(f, c))
    BY <1>1, <2>1, <2>2, RowIsSomeEvent, SentinelsAreFresh
  <2>4. rows[e.user].last = f.created /\ f.created \in Nat
    BY <2>2, <2>3 DEF Tier, SyncRow
  <2>5. f = e
    BY <2>2, <2>4 DEF IsNewest
  <2>6. SyncRow(e, c) \in Row /\ SyncRow(e, c) # NoRow
    BY <2>1, SyncRowType, ConfigsAssumption, SentinelsAreFresh
  <2>7. rows[e.user].plan = SyncRow(e, c).plan /\ rows[e.user].status = SyncRow(e, c).status
    BY <2>3, <2>5 DEF Tier
  <2>8. EntitledTier(rows[e.user]) = EntitledTier(SyncRow(e, c))
    BY <2>2, <2>6, <2>7 DEF EntitledTier
  <2> QED BY <2>8
<1> QED BY <1>1, TypeCorrect, Inductive, PTL

\* No deployment, whatever prices it is missing, stores a paying user on free.
THEOREM ActivePaid == Spec => []ActiveIsPaid
<1>1. ASSUME TypeOK, IInv PROVE ActiveIsPaid
  <2> SUFFICES ASSUME NEW u \in Users, rows[u] # NoRow, rows[u].status \in ActiveStatuses
               PROVE  rows[u].plan \in PaidTiers
    BY DEF ActiveIsPaid
  <2>1. Held[u] = Tier(rows[u]) /\ Held[u] # Blank
    BY DEF Held, Tier, Blank, ActiveStatuses
  <2>2. PICK e \in SubscriptionEventsOf(u), c \in Configs :
            ~SkipsSync(e, c) /\ Held[u] = Tier(SyncRow(e, c))
    BY <1>1, <2>1, OffersDef DEF IInv
  <2>3. rows[u].plan = SyncRow(e, c).plan /\ rows[u].status = SyncRow(e, c).status
    BY <2>1, <2>2 DEF Tier
  <2>4. e.type # "deleted"
    BY <2>3 DEF SyncRow, ActiveStatuses
  <2>5. PriceToTier(e.price, c) # "free" /\ rows[u].plan = PriceToTier(e.price, c)
    BY <2>2, <2>3, <2>4 DEF SyncRow, SkipsSync
  <2> QED BY <2>5, ConfigsAssumption DEF PriceToTier
<1> QED BY <1>1, TypeCorrect, Inductive, PTL
----------------------------------------------------------------------------
\* The checkout of one user.
\* The requests that may still open a session.
Pending == {r \in Tabs : request[r].pc \in {"guard", "key", "create"}}

RequestInv ==
    /\ IsFiniteSet(Pending) /\ Len(sessions) + Cardinality(Pending) <= MaxSessions
    /\ \A t \in Tabs : RequestAt(t, "answer") => request[t].session \in DOMAIN sessions

\* The statuses of a subscription that exists, and of one that has ended.
Live == {"active", "past_due", "incomplete"}
Over == {"canceled", "incomplete_expired"}

Newest(e) == \A f \in SubEvents : f.sub = e.sub => f.id <= e.id

\* Stripe's books: ids are places in the order of events, which the stamps follow
\* without telling the events of a second apart; the newest event of a subscription
\* says its status, and one that says it has ended is its last.
EventInv ==
    /\ IsFiniteSet(SubEvents)
    /\ SubEvents # {} => LastEvents # {}
    /\ \A e \in SubEvents :
        /\ e.sub \in DOMAIN sessions /\ sessions[e.sub].status # "open"
        /\ e.price = sessions[e.sub].price
        /\ e.id \in 1 .. Cardinality(SubEvents)
        /\ e.created \in Nat /\ e.created <= clock
        /\ e.status \in Live \cup Over
        /\ e.type = "deleted" <=> e.status = "canceled"
        /\ e.status \in Over => sessions[e.sub].status = e.status
    /\ \A e, f \in SubEvents : e.id = f.id => e = f
    /\ \A e, f \in SubEvents : e.id < f.id => e.created <= f.created
    /\ \A i \in DOMAIN sessions :
        /\ sessions[i].status \in {"open"} \cup Live \cup Over
        /\ sessions[i].status # "open" =>
            \E e \in SubEvents : e.sub = i /\ e.status = sessions[i].status /\ Newest(e)

\* Until two subscriptions exist at the same time, the one that exists has the
\* newest events of all.
OnceInv ==
    ~doubled =>
        /\ \A j, k \in DOMAIN sessions : Exists(j) /\ Exists(k) => j = k
        /\ \A e, f \in SubEvents : Exists(e.sub) /\ f.sub # e.sub => f.id < e.id

\* The row is at least as new as e.
Covers(e) == row # NoRow /\ row.last \in Nat /\ e.created <= row.last

\* The row is what one event says, and covers whatever was applied or logged.
RowInv ==
    /\ row # NoRow =>
        \/ row.last = NoTime /\ row.status = "inactive"
        \/ \E e \in SubEvents :
            /\ row.last = e.created /\ row.status = e.status
            /\ row.plan = IF e.type = "deleted" THEN "free" ELSE e.price
    /\ \A j \in known : \E e \in SubEvents : e.sub = j /\ Covers(e)
    /\ \A e \in logged : IsSubscription(e) => Covers(e)

Ended(j) == j \in DOMAIN sessions /\ sessions[j].status \in Over

\* What a request knew when it was let through the guard had ended.
KnownInv ==
    ~doubled /\ ~Crossed =>
        /\ \A t \in Tabs : request[t].pc \in {"key", "create", "answer"} =>
            \A j \in request[t].known : Ended(j)
        /\ \A i \in DOMAIN sessions : \A j \in sessions[i].known : Ended(j)

CheckoutInv ==
    CheckoutTypeOK /\ RequestInv /\ EventInv /\ OnceInv /\ RowInv /\ KnownInv

----------------------------------------------------------------------------
LEMMA StatusFacts ==
    /\ Live \cup Over \subseteq Statuses /\ Live \subseteq CheckoutBlockingStatuses
    /\ \A s \in Over \cup {"open"} : s \notin CheckoutBlockingStatuses /\ s \notin Live
    /\ "open" \notin Over
    /\ \A s \in {"open"} \cup Live \cup Over : s \in ActiveStatuses <=> s = "active"
    /\ "inactive" \notin ActiveStatuses
    /\ ActiveStatuses \subseteq CheckoutBlockingStatuses
  BY DEF Live, Over, Statuses, CheckoutBlockingStatuses, ActiveStatuses

LEMMA CheckoutInvInit == CheckoutInit => CheckoutInv
<1> SUFFICES ASSUME CheckoutInit PROVE CheckoutInv
  OBVIOUS
<1>1. DOMAIN sessions = {} /\ Len(sessions) = 0 /\ sessions \in Seq(Session)
  BY DEF CheckoutInit
<1>2. CheckoutTypeOK
  <2>1. request \in [Tabs -> Request]
    BY DEF CheckoutInit, Request
  <2>2. minute \in Minutes /\ Len(sessions) <= MaxSessions
    BY <1>1, CheckoutBounds DEF CheckoutInit, Minutes
  <2> QED
    BY <1>1, <2>1, <2>2 DEF CheckoutInit, CheckoutTypeOK
<1>3. Pending = {} /\ SubEvents = {}
  BY DEF CheckoutInit, Pending, SubEvents, NoRequest
<1>4. RequestInv
  BY <1>1, <1>3, FS_EmptySet, CheckoutBounds DEF RequestInv, CheckoutInit, RequestAt, NoRequest
<1>5. EventInv /\ OnceInv
  BY <1>1, <1>3, FS_EmptySet DEF EventInv, OnceInv
<1>6. RowInv
  BY DEF RowInv, CheckoutInit
<1>7. KnownInv
  BY <1>1 DEF KnownInv, CheckoutInit, NoRequest
<1> QED
  BY <1>2, <1>4, <1>5, <1>6, <1>7 DEF CheckoutInv

----------------------------------------------------------------------------
\* Steps of requests leave the books alone: a session may be opened or given.
LEMMA BooksStay ==
    ASSUME CheckoutInv, UNCHANGED <<row, sent, clock, doubled, logged, known>>,
           DOMAIN sessions \subseteq DOMAIN sessions',
           \A i \in DOMAIN sessions : /\ sessions'[i].status = sessions[i].status
                                      /\ sessions'[i].price = sessions[i].price,
           \A i \in DOMAIN sessions' \ DOMAIN sessions : sessions'[i].status = "open"
    PROVE  /\ EventInv' /\ OnceInv' /\ RowInv' /\ \A j : Ended(j) => Ended(j)'
           /\ Crossed' = Crossed
<1>1. /\ SubEvents' = SubEvents /\ LastEvents' = LastEvents /\ Crossed' = Crossed
      /\ \A e : Newest(e)' = Newest(e)
  BY DEF SubEvents, LastEvents, Crossed, Newest
<1>2. EventInv'
  BY <1>1 DEF CheckoutInv, EventInv
<1>3. \A i \in DOMAIN sessions' : Exists(i)' => i \in DOMAIN sessions /\ Exists(i)
  BY StatusFacts DEF Exists
<1>4. OnceInv'
  <2>1. \A e \in SubEvents : e.sub \in DOMAIN sessions /\ (Exists(e.sub)' => Exists(e.sub))
    BY DEF CheckoutInv, EventInv, Exists
  <2> QED
    BY <1>1, <1>3, <2>1 DEF CheckoutInv, OnceInv
<1>5. RowInv'
  BY <1>1 DEF CheckoutInv, RowInv, Covers
<1>6. \A j : Ended(j) => Ended(j)'
  BY DEF Ended
<1> QED
  BY <1>1, <1>2, <1>4, <1>5, <1>6

\* Fewer requests pending, and no session more, stay in the bound.
LEMMA PendingShrinks ==
    ASSUME RequestInv, CheckoutTypeOK, Pending' \subseteq Pending, Len(sessions') = Len(sessions)
    PROVE  IsFiniteSet(Pending') /\ Len(sessions') + Cardinality(Pending') <= MaxSessions
<1>1. /\ IsFiniteSet(Pending) /\ Len(sessions) + Cardinality(Pending) <= MaxSessions
      /\ Len(sessions) \in Nat
  BY DEF RequestInv, CheckoutTypeOK
<1>2. IsFiniteSet(Pending') /\ Cardinality(Pending') <= Cardinality(Pending)
  BY <1>1, FS_Subset
<1>3. Cardinality(Pending) \in Nat /\ Cardinality(Pending') \in Nat
  BY <1>1, <1>2, FS_CardinalityType
<1> DEFINE n == Cardinality(Pending')
<1>4. n \in Nat /\ n <= Cardinality(Pending)
  BY <1>2, <1>3
<1> HIDE DEF n
<1>5. Len(sessions) + n <= MaxSessions
  BY <1>1, <1>3, <1>4, CheckoutBounds
<1> QED
  BY <1>2, <1>5 DEF n

\* A request that moves on or ends, with the sessions as they are.
LEMMA RequestMoves ==
    ASSUME CheckoutInv, NEW t \in Tabs, ~RequestAt(t, "idle"), NEW r \in Request,
           request' = [request EXCEPT ![t] = r],
           UNCHANGED <<row, sent, clock, doubled, logged, known, sessions>>, minute' \in Minutes,
           RequestAt(t, "answer") => r.pc = "idle",
           r.pc = "answer" => r.session \in DOMAIN sessions,
           ~doubled /\ ~Crossed /\ r.pc \in {"key", "create", "answer"} => \A j \in r.known : Ended(j)
    PROVE  CheckoutInv'
<1>1. /\ request \in [Tabs -> Request] /\ request'[t] = r
      /\ \A u \in Tabs : u # t => request'[u] = request[u]
      /\ request' \in [Tabs -> Request]
  BY DEF CheckoutInv, CheckoutTypeOK
<1>2. CheckoutTypeOK'
  BY <1>1 DEF CheckoutInv, CheckoutTypeOK
<1>3. EventInv' /\ OnceInv' /\ RowInv' /\ (\A j : Ended(j) => Ended(j)')
      /\ Crossed' = Crossed
  BY BooksStay
<1>4. RequestInv'
  <2>1. request[t].pc \in {"guard", "key", "create", "answer"}
    BY <1>1 DEF RequestAt, Request, NoRequest
  <2>2. Pending' \subseteq Pending
    BY <1>1, <2>1 DEF Pending, RequestAt
  <2>3. IsFiniteSet(Pending') /\ Len(sessions') + Cardinality(Pending') <= MaxSessions
    BY <2>2, PendingShrinks DEF CheckoutInv
  <2> QED
    BY <1>1, <2>3 DEF CheckoutInv, RequestInv, RequestAt
<1>5. KnownInv'
  BY <1>1, <1>3 DEF CheckoutInv, KnownInv
<1> QED
  BY <1>2, <1>3, <1>4, <1>5 DEF CheckoutInv

LEMMA StartKeepsInv ==
    ASSUME CheckoutInv, NEW t \in Tabs, NEW p \in Prices, Start(t, p)
    PROVE  CheckoutInv'
<1> DEFINE r == [pc |-> "guard", price |-> p, customer |-> NoId, known |-> {}, bucket |-> 0,
                 session |-> 0]
<1>1. /\ request' = [request EXCEPT ![t] = r] /\ RequestAt(t, "idle")
      /\ UNCHANGED <<row, minute, sessions, sent, clock, doubled, logged, known>>
      /\ Len(sessions) + Cardinality(Pending) < MaxSessions
  BY DEF Start, stripe, Pending
<1>2. r \in Request /\ r.pc = "guard"
  BY CheckoutBounds DEF Request, Minutes
<1> HIDE DEF r
<1>3. /\ request \in [Tabs -> Request] /\ request'[t] = r
      /\ \A u \in Tabs : u # t => request'[u] = request[u]
      /\ request' \in [Tabs -> Request]
  BY <1>1, <1>2 DEF CheckoutInv, CheckoutTypeOK
<1>4. CheckoutTypeOK'
  BY <1>1, <1>3 DEF CheckoutInv, CheckoutTypeOK
<1>5. EventInv' /\ OnceInv' /\ RowInv' /\ (\A j : Ended(j) => Ended(j)')
      /\ Crossed' = Crossed
  BY <1>1, BooksStay
<1>6. RequestInv'
  <2>1. Pending' = Pending \cup {t} /\ t \notin Pending
    BY <1>1, <1>2, <1>3 DEF Pending, RequestAt
  <2>2. IsFiniteSet(Pending) /\ Cardinality(Pending) \in Nat
    BY FS_CardinalityType DEF CheckoutInv, RequestInv
  <2>3. IsFiniteSet(Pending') /\ Cardinality(Pending') = Cardinality(Pending) + 1
    BY <2>1, <2>2, FS_AddElement
  <2>4. Len(sessions) \in Nat /\ MaxSessions \in Nat /\ Len(sessions') = Len(sessions)
    BY <1>1, CheckoutBounds DEF CheckoutInv, CheckoutTypeOK
  <2>5. Len(sessions') + Cardinality(Pending') <= MaxSessions
    BY <1>1, <2>2, <2>3, <2>4
  <2> QED
    BY <1>1, <1>2, <1>3, <2>3, <2>5 DEF CheckoutInv, RequestInv, RequestAt
<1>7. KnownInv'
  BY <1>1, <1>2, <1>3, <1>5 DEF CheckoutInv, KnownInv
<1> QED
  BY <1>4, <1>5, <1>6, <1>7 DEF CheckoutInv

\* The guard: with the row's status no longer in the way, whatever it covers has
\* ended, unless a race has doubled the subscriptions or two met in one second.
LEMMA GuardFacts ==
    ASSUME CheckoutInv, ~Blocked, ~doubled, ~Crossed, NEW j \in known
    PROVE  Ended(j)
<1>1. PICK e \in SubEvents : e.sub = j /\ Covers(e)
  BY DEF CheckoutInv, RowInv
<1>2. row # NoRow /\ row.last \in Nat /\ e.created <= row.last
  BY <1>1 DEF Covers
<1>3. PICK e0 \in SubEvents : row.last = e0.created /\ row.status = e0.status
  BY <1>2, SentinelsAreFresh DEF CheckoutInv, RowInv
<1>4. j \in DOMAIN sessions /\ sessions[j].status \in Live \cup Over
  BY <1>1 DEF CheckoutInv, EventInv
<1>5. sessions[e0.sub].status \in Over
  <2>1. row.status \notin CheckoutBlockingStatuses
    BY <1>2 DEF Blocked
  <2>2. e0.status \in Over
    BY <1>3, <2>1, StatusFacts DEF CheckoutInv, EventInv
  <2> QED
    BY <2>2 DEF CheckoutInv, EventInv
<1>6. ~Exists(j)
  <2> SUFFICES ASSUME Exists(j) PROVE FALSE
    OBVIOUS
  <2>1. e0.sub # j
    BY <1>5, StatusFacts DEF Exists
  <2>2. e0.id < e.id
    BY <1>1, <2>1 DEF CheckoutInv, OnceInv
  <2>3. e0.created <= e.created /\ e0.created \in Nat /\ e.created \in Nat
    BY <2>2 DEF CheckoutInv, EventInv
  <2>4. e0.created = e.created
    BY <1>2, <1>3, <2>3
  <2> QED
    BY <1>1, <2>1, <2>4 DEF Crossed
<1> QED
  BY <1>4, <1>6, StatusFacts DEF Exists, Ended

LEMMA RequestStepsKeepInv ==
    ASSUME CheckoutInv, NEW t \in Tabs,
           ReadRow(t) \/ CheckoutIdempotencyKey(t) \/ RequestFails(t)
    PROVE  CheckoutInv'
<1>1. /\ ~RequestAt(t, "idle") /\ request \in [Tabs -> Request]
      /\ request[t] \in Request \ {NoRequest}
      /\ UNCHANGED <<row, sent, clock, doubled, logged, known, sessions>> /\ minute' \in Minutes
  BY DEF ReadRow, CheckoutIdempotencyKey, RequestFails, RequestAt, stripe, CheckoutInv,
         CheckoutTypeOK, NoRequest
<1>2. NoRequest \in Request /\ NoRequest.pc = "idle"
  BY DEF Request, NoRequest
<1>3. CASE End(t)
  <2>1. request' = [request EXCEPT ![t] = NoRequest]
    BY <1>3 DEF End
  <2> QED
    BY <1>1, <1>2, <2>1, RequestMoves
<1>4. CASE ReadRow(t) /\ ~Blocked
  <2> DEFINE c == IF row = NoRow THEN NoId ELSE row.customer
             r == [request[t] EXCEPT !.pc = "key", !.customer = c, !.known = known]
  <2>1. request' = [request EXCEPT ![t] = r] /\ RequestAt(t, "guard")
    BY <1>1, <1>4 DEF ReadRow
  <2>2. c \in Ids \cup {NoId} /\ known \subseteq 1 .. MaxSessions
    BY CheckoutBounds DEF CheckoutInv, CheckoutTypeOK, Row
  <2>3. r \in Request /\ r.pc = "key" /\ r.known = known
    BY <1>1, <2>2 DEF Request
  <2> HIDE DEF r
  <2>4. ~doubled /\ ~Crossed => \A j \in r.known : Ended(j)
    BY <1>4, <2>3, GuardFacts
  <2>5. ~RequestAt(t, "answer")
    BY <2>1 DEF RequestAt
  <2> QED
    BY <1>1, <2>1, <2>3, <2>4, <2>5, RequestMoves
<1>5. CASE CheckoutIdempotencyKey(t)
  <2> DEFINE r == [request[t] EXCEPT !.pc = "create", !.bucket = minute]
  <2>1. request' = [request EXCEPT ![t] = r] /\ request[t].pc = "key"
    BY <1>1, <1>5 DEF CheckoutIdempotencyKey, RequestAt
  <2>2. r \in Request /\ r.pc = "create" /\ r.known = request[t].known
    BY <1>1 DEF Request, CheckoutInv, CheckoutTypeOK
  <2> HIDE DEF r
  <2>3. ~doubled /\ ~Crossed => \A j \in r.known : Ended(j)
    BY <2>1, <2>2 DEF CheckoutInv, KnownInv
  <2>4. ~RequestAt(t, "answer")
    BY <2>1 DEF RequestAt
  <2> QED
    BY <1>1, <2>1, <2>2, <2>3, <2>4, RequestMoves
<1> QED
  BY <1>3, <1>4, <1>5 DEF ReadRow, RequestFails

LEMMA CreateKeepsInv ==
    ASSUME CheckoutInv, NEW t \in Tabs, CreateCheckoutSession(t)
    PROVE  CheckoutInv'
<1>1. /\ request[t].pc = "create" /\ ~RequestAt(t, "idle") /\ ~RequestAt(t, "answer")
      /\ request \in [Tabs -> Request] /\ request[t] \in Request \ {NoRequest}
      /\ UNCHANGED <<row, minute, sent, clock, doubled, logged, known>> /\ minute' \in Minutes
  BY DEF CreateCheckoutSession, RequestAt, CheckoutInv, CheckoutTypeOK, NoRequest
<1>2. sessions \in Seq(Session) /\ Len(sessions) \in Nat /\ Len(sessions) <= MaxSessions
      /\ DOMAIN sessions = 1 .. Len(sessions)
  BY DEF CheckoutInv, CheckoutTypeOK
<1>3. ~doubled /\ ~Crossed => \A j \in request[t].known : Ended(j)
  BY <1>1 DEF CheckoutInv, KnownInv
<1>4. ASSUME NEW i \in SameKey(t), UNCHANGED sessions, End(t) PROVE CheckoutInv'
  <2>1. request' = [request EXCEPT ![t] = NoRequest] /\ NoRequest \in Request
        /\ NoRequest.pc = "idle"
    BY <1>4 DEF End, Request, NoRequest
  <2> QED
    BY <1>1, <1>4, <2>1, RequestMoves
<1>5. ASSUME NEW i \in SameKey(t), UNCHANGED sessions,
             request' = [request EXCEPT ![t].pc = "answer", ![t].session = i]
      PROVE  CheckoutInv'
  <2> DEFINE r == [request[t] EXCEPT !.pc = "answer", !.session = i]
  <2>1. request' = [request EXCEPT ![t] = r]
    BY <1>1, <1>5
  <2>2. i \in DOMAIN sessions /\ i \in 0 .. MaxSessions
    BY <1>2, <1>5, CheckoutBounds DEF SameKey
  <2>3. r \in Request /\ r.pc = "answer" /\ r.known = request[t].known /\ r.session = i
    BY <1>1, <2>2 DEF Request
  <2> HIDE DEF r
  <2> QED
    BY <1>1, <1>3, <1>5, <2>1, <2>2, <2>3, RequestMoves
<1>6. ASSUME SameKey(t) = {},
             sessions' = Append(sessions,
                [price |-> request[t].price, bucket |-> request[t].bucket,
                 asked |-> request[t].customer, known |-> request[t].known,
                 given |-> FALSE, status |-> "open"]),
             request' = [request EXCEPT ![t].pc = "answer", ![t].session = Len(sessions) + 1]
      PROVE  CheckoutInv'
  <2> DEFINE s == [price |-> request[t].price, bucket |-> request[t].bucket,
                   asked |-> request[t].customer, known |-> request[t].known,
                   given |-> FALSE, status |-> "open"]
             r == [request[t] EXCEPT !.pc = "answer", !.session = Len(sessions) + 1]
  <2>1. s \in Session /\ s.status = "open" /\ s.known = request[t].known
    BY <1>1 DEF Session, Request
  <2>2. request' = [request EXCEPT ![t] = r] /\ sessions' = Append(sessions, s)
    BY <1>1, <1>6
  <2>3. t \in Pending /\ IsFiniteSet(Pending) /\ Cardinality(Pending) \in Nat
        /\ Len(sessions) + Cardinality(Pending) <= MaxSessions
    BY <1>1, FS_CardinalityType DEF Pending, CheckoutInv, RequestInv
  <2>4. Cardinality(Pending) # 0
    BY <2>3, FS_EmptySet
  <2>5. Len(sessions) + 1 <= MaxSessions /\ Len(sessions) + 1 \in 0 .. MaxSessions
    BY <1>2, <2>3, <2>4, CheckoutBounds
  <2>6. r \in Request /\ r.pc = "answer" /\ r.known = request[t].known
        /\ r.session = Len(sessions) + 1
    BY <1>1, <2>5 DEF Request
  <2> HIDE DEF r, s
  <2>7. /\ sessions' \in Seq(Session) /\ Len(sessions') = Len(sessions) + 1
        /\ DOMAIN sessions' = 1 .. Len(sessions) + 1
        /\ \A i \in DOMAIN sessions : sessions'[i] = sessions[i]
        /\ sessions'[Len(sessions) + 1] = s
    BY <1>2, <2>1, <2>2
  <2>8. /\ \A i \in DOMAIN sessions' : i \in DOMAIN sessions \/ sessions'[i] = s
        /\ DOMAIN sessions \subseteq DOMAIN sessions'
    BY <1>2, <2>7
  <2>9. /\ request'[t] = r /\ \A u \in Tabs : u # t => request'[u] = request[u]
        /\ request' \in [Tabs -> Request]
    BY <1>1, <2>2, <2>6
  <2>10. EventInv' /\ OnceInv' /\ RowInv' /\ (\A j : Ended(j) => Ended(j)')
         /\ Crossed' = Crossed
    BY <1>1, <2>1, <2>7, <2>8, BooksStay
  <2>11. CheckoutTypeOK'
    BY <1>1, <2>5, <2>7, <2>8, <2>9 DEF CheckoutInv, CheckoutTypeOK
  <2>12. RequestInv'
    <3>1. Pending' = Pending \ {t}
      BY <1>1, <2>6, <2>9 DEF Pending
    <3>2. IsFiniteSet(Pending') /\ Cardinality(Pending') = Cardinality(Pending) - 1
      BY <2>3, <3>1, FS_RemoveElement
    <3>3. Len(sessions') + Cardinality(Pending') <= MaxSessions
      BY <1>2, <2>3, <2>7, <3>2, CheckoutBounds
    <3>4. Len(sessions) + 1 \in DOMAIN sessions'
      BY <1>2, <2>7
    <3> QED
      BY <2>6, <2>8, <2>9, <3>2, <3>3, <3>4 DEF CheckoutInv, RequestInv, RequestAt
  <2>13. KnownInv'
    BY <1>1, <1>3, <2>1, <2>6, <2>7, <2>8, <2>9, <2>10 DEF CheckoutInv, KnownInv
  <2> QED
    BY <2>10, <2>11, <2>12, <2>13 DEF CheckoutInv
<1> QED
  BY <1>4, <1>5, <1>6 DEF CreateCheckoutSession

LEMMA AnswerKeepsInv ==
    ASSUME CheckoutInv, NEW t \in Tabs, Answer(t)
    PROVE  CheckoutInv'
<1> DEFINE i == request[t].session
<1>1. /\ request[t].pc = "answer" /\ request' = [request EXCEPT ![t] = NoRequest]
      /\ sessions' = [sessions EXCEPT ![i].given = TRUE]
      /\ UNCHANGED <<row, minute, sent, clock, doubled, logged, known>>
      /\ request \in [Tabs -> Request] /\ sessions \in Seq(Session)
  BY DEF Answer, RequestAt, End, CheckoutInv, CheckoutTypeOK
<1>2. i \in DOMAIN sessions /\ DOMAIN sessions = 1 .. Len(sessions) /\ Len(sessions) \in Nat
  BY <1>1 DEF CheckoutInv, RequestInv, RequestAt
<1> HIDE DEF i
<1>3. /\ sessions' \in Seq(Session) /\ Len(sessions') = Len(sessions)
      /\ DOMAIN sessions' = DOMAIN sessions
      /\ \A j \in DOMAIN sessions : /\ sessions'[j].status = sessions[j].status
                                    /\ sessions'[j].price = sessions[j].price
                                    /\ sessions'[j].known = sessions[j].known
  <2> DEFINE s == [sessions[i] EXCEPT !.given = TRUE]
  <2>1. sessions[i] \in Session
    BY <1>1, <1>2
  <2>2. /\ s \in Session /\ s.status = sessions[i].status /\ s.price = sessions[i].price
        /\ s.known = sessions[i].known
    BY <2>1 DEF Session
  <2>3. sessions' = [sessions EXCEPT ![i] = s]
    BY <1>1
  <2> HIDE DEF s
  <2>4. /\ sessions' \in Seq(Session) /\ Len(sessions') = Len(sessions)
        /\ DOMAIN sessions' = DOMAIN sessions /\ sessions'[i] = s
    <3>1. sessions \in Seq(Session)
      BY <1>1
    <3> QED
      BY <1>2, <2>2, <2>3, <3>1
  <2>5. \A j \in DOMAIN sessions : j # i => sessions'[j] = sessions[j]
    BY <2>3
  <2> QED
    BY <2>2, <2>4, <2>5
<1>4. /\ request'[t] = NoRequest /\ \A u \in Tabs : u # t => request'[u] = request[u]
      /\ request' \in [Tabs -> Request] /\ NoRequest.pc = "idle"
  BY <1>1 DEF Request, NoRequest
<1>5. EventInv' /\ OnceInv' /\ RowInv' /\ (\A j : Ended(j) => Ended(j)')
      /\ Crossed' = Crossed
  BY <1>1, <1>3, BooksStay
<1>6. CheckoutTypeOK'
  BY <1>1, <1>3, <1>4 DEF CheckoutInv, CheckoutTypeOK
<1>7. RequestInv'
  <2>1. Pending' \subseteq Pending
    BY <1>4 DEF Pending
  <2>2. IsFiniteSet(Pending') /\ Len(sessions') + Cardinality(Pending') <= MaxSessions
    BY <1>3, <2>1, PendingShrinks DEF CheckoutInv
  <2> QED
    BY <1>3, <1>4, <2>2 DEF CheckoutInv, RequestInv, RequestAt
<1>8. KnownInv'
  BY <1>1, <1>3, <1>4, <1>5 DEF CheckoutInv, KnownInv
<1> QED
  BY <1>5, <1>6, <1>7, <1>8 DEF CheckoutInv
----------------------------------------------------------------------------
LEMMA StripeEventType ==
    ASSUME CheckoutInv, NEW i \in DOMAIN sessions, NEW type \in SubscriptionEvents \cup {"checkout"},
           NEW status \in Statuses, clock' \in Nat
    PROVE  LET e == StripeEvent(type, i, status) IN
           /\ e \in Event /\ e.type = type /\ e.sub = i /\ e.status = status
           /\ e.price = sessions[i].price /\ e.created = clock' /\ e.id = Cardinality(SubEvents) + 1
           /\ IsSubscription(e) <=> type # "checkout"
<1>1. User \in Users
  BY CheckoutBounds DEF User
<1>2. Cardinality(SubEvents) \in Nat
  BY FS_CardinalityType DEF CheckoutInv, EventInv
<1>3. sessions[i] \in Session /\ i \in Ids
  BY CheckoutBounds DEF CheckoutInv, CheckoutTypeOK
<1>4. sessions[i].price \in PaidTiers /\ Customer(i) \in Ids
  BY <1>3, PricesAssumption DEF Session, Customer
<1>5. "checkout" \notin SubscriptionEvents
  BY DEF SubscriptionEvents
<1> QED
  BY <1>1, <1>2, <1>3, <1>4, <1>5 DEF StripeEvent, Event, Times, IsSubscription

\* A subscription begins, changes or ends, with one event of it.
LEMMA ChangeKeepsInv ==
    ASSUME CheckoutInv, NEW i \in DOMAIN sessions, NEW status, NEW type \in SubscriptionEvents,
           NEW types \in SUBSET (SubscriptionEvents \cup {"checkout"}),
           types \cap SubscriptionEvents = {type}, Change(i, status, types),
           \/ type = "created" /\ sessions[i].status = "open" /\ status \in Live
           \/ type = "updated" /\ Exists(i) /\ status \in Live \cup {"incomplete_expired"}
           \/ type = "deleted" /\ Exists(i) /\ status = "canceled"
    PROVE  CheckoutInv'
<1> PICK n : n = StripeEvent(type, i, status)
  OBVIOUS
<1> PICK N : N = Cardinality(SubEvents)
  OBVIOUS
<1> DEFINE events == {StripeEvent(y, i, status) : y \in types}
<1>1. /\ sessions' = [sessions EXCEPT ![i].status = status] /\ sent' = sent \cup events
      /\ doubled' = (doubled \/ \E j, k \in DOMAIN sessions : j # k /\ Exists(j)' /\ Exists(k)')
      /\ UNCHANGED <<row, minute, request, logged, known>>
      /\ clock \in Nat /\ clock' \in Nat /\ clock' >= clock
  BY DEF Change, CheckoutInv, CheckoutTypeOK
<1>2. status \in Live \cup Over /\ status \in Statuses /\ status # "open"
  BY StatusFacts DEF Over
<1>3. /\ n \in Event /\ n.type = type /\ n.sub = i /\ n.status = status
      /\ n.price = sessions[i].price /\ n.created = clock' /\ n.id = N + 1
  BY <1>1, <1>2, StripeEventType
<1>4. IsFiniteSet(SubEvents) /\ N \in Nat
  BY FS_CardinalityType DEF CheckoutInv, EventInv
<1>5. events \subseteq Event /\ SubEvents' = SubEvents \cup {n}
  <2>1. \A y \in types : /\ StripeEvent(y, i, status) \in Event
                         /\ IsSubscription(StripeEvent(y, i, status)) <=> y = type
    BY <1>1, <1>2, StripeEventType
  <2>2. {e \in events : IsSubscription(e)} = {n}
    BY <2>1
  <2> HIDE DEF events
  <2>3. SubEvents' = SubEvents \cup {e \in events : IsSubscription(e)}
    BY <1>1 DEF SubEvents
  <2> QED
    BY <2>1, <2>2, <2>3 DEF events
<1> HIDE DEF events
<1>6. n \notin SubEvents /\ \A e \in SubEvents : /\ e.id \in Nat /\ e.id < n.id
                                               /\ e.created \in Nat /\ e.created <= n.created
  BY <1>1, <1>3, <1>4 DEF CheckoutInv, EventInv
<1>7. IsFiniteSet(SubEvents') /\ Cardinality(SubEvents') = N + 1 /\ n \in LastEvents'
  <2>1. IsFiniteSet(SubEvents \cup {n}) /\ Cardinality(SubEvents \cup {n}) = N + 1
    BY <1>4, <1>6, FS_AddElement
  <2> QED
    BY <1>3, <1>5, <2>1 DEF LastEvents
<1>8. /\ sessions' \in Seq(Session) /\ Len(sessions') = Len(sessions)
      /\ DOMAIN sessions' = DOMAIN sessions /\ sessions'[i].status = status
      /\ \A j \in DOMAIN sessions : /\ sessions'[j].price = sessions[j].price
                                    /\ sessions'[j].known = sessions[j].known
                                    /\ j # i => sessions'[j].status = sessions[j].status
  <2> DEFINE s == [sessions[i] EXCEPT !.status = status]
  <2>1. sessions[i] \in Session /\ sessions \in Seq(Session)
    BY DEF CheckoutInv, CheckoutTypeOK
  <2>2. /\ s \in Session /\ s.status = status /\ s.price = sessions[i].price
        /\ s.known = sessions[i].known
    BY <1>2, <2>1 DEF Session
  <2>3. sessions' = [sessions EXCEPT ![i] = s]
    BY <1>1
  <2> HIDE DEF s
  <2> QED
    BY <2>1, <2>2, <2>3
<1>9. CheckoutTypeOK'
  BY <1>1, <1>5, <1>8 DEF CheckoutInv, CheckoutTypeOK
<1>10. RequestInv'
  <2>1. Pending' \subseteq Pending
    BY <1>1 DEF Pending
  <2>2. IsFiniteSet(Pending') /\ Len(sessions') + Cardinality(Pending') <= MaxSessions
    BY <1>8, <2>1, PendingShrinks DEF CheckoutInv
  <2> QED
    BY <1>1, <1>8, <2>2 DEF CheckoutInv, RequestInv, RequestAt
<1>11. /\ n.type = "deleted" <=> n.status = "canceled"
       /\ sessions[i].status = "open" \/ Exists(i)
       /\ sessions[i].status \notin Over
  BY <1>3, StatusFacts DEF Exists, Live
<1>12. EventInv'
  <2>1. ASSUME NEW e \in SubEvents'
        PROVE  /\ e.sub \in DOMAIN sessions' /\ sessions'[e.sub].status # "open"
               /\ e.price = sessions'[e.sub].price
               /\ e.id \in 1 .. Cardinality(SubEvents')
               /\ e.created \in Nat /\ e.created <= clock'
               /\ e.status \in Live \cup Over
               /\ e.type = "deleted" <=> e.status = "canceled"
               /\ e.status \in Over => sessions'[e.sub].status = e.status
    <3>1. CASE e = n
      BY <1>1, <1>2, <1>3, <1>4, <1>7, <1>8, <1>11, <3>1
    <3>2. CASE e \in SubEvents
      <4>1. /\ e.sub \in DOMAIN sessions /\ sessions[e.sub].status # "open"
            /\ e.price = sessions[e.sub].price
            /\ e.id \in 1 .. N
            /\ e.status \in Live \cup Over
            /\ e.type = "deleted" <=> e.status = "canceled"
            /\ e.status \in Over => sessions[e.sub].status = e.status
        BY <3>2 DEF CheckoutInv, EventInv
      <4>2. sessions'[e.sub].status # "open"
        BY <1>2, <1>8, <4>1
      <4>3. e.status \in Over => sessions'[e.sub].status = e.status
        BY <1>8, <1>11, <4>1
      <4>4. e.id \in 1 .. N + 1
        BY <1>4, <4>1
      <4>5. e.created \in Nat /\ e.created <= clock'
        BY <1>3, <1>6, <3>2
      <4> QED
        BY <1>7, <1>8, <4>1, <4>2, <4>3, <4>4, <4>5
    <3> QED
      BY <1>5, <3>1, <3>2
  <2>2. ASSUME NEW e \in SubEvents', NEW f \in SubEvents'
        PROVE  /\ e.id = f.id => e = f
               /\ e.id < f.id => e.created <= f.created
    <3>1. n.id \in Nat /\ n.created \in Nat
      BY <1>1, <1>3, <1>4
    <3>2. CASE e \in SubEvents /\ f \in SubEvents
      BY <3>2 DEF CheckoutInv, EventInv
    <3>3. CASE e \in SubEvents /\ f = n
      BY <1>6, <3>1, <3>3
    <3>4. CASE e = n /\ f \in SubEvents
      BY <1>6, <3>1, <3>4
    <3> QED
      BY <1>5, <3>1, <3>2, <3>3, <3>4
  <2>3. ASSUME NEW j \in DOMAIN sessions'
        PROVE  /\ sessions'[j].status \in {"open"} \cup Live \cup Over
               /\ sessions'[j].status # "open" =>
                    \E e \in SubEvents' : /\ e.sub = j /\ e.status = sessions'[j].status
                                          /\ Newest(e)'
    <3>1. CASE j = i
      <4>1. Newest(n)'
        BY <1>3, <1>4, <1>5, <1>6 DEF Newest
      <4> QED
        BY <1>2, <1>3, <1>5, <1>8, <3>1, <4>1
    <3>2. CASE j # i
      <4>1. /\ j \in DOMAIN sessions /\ sessions'[j].status = sessions[j].status
            /\ sessions[j].status \in {"open"} \cup Live \cup Over
            /\ sessions[j].status # "open" =>
                 \E e \in SubEvents : /\ e.sub = j /\ e.status = sessions[j].status
                                      /\ Newest(e)
        BY <1>8, <3>2 DEF CheckoutInv, EventInv
      <4>2. \A e \in SubEvents : Newest(e) /\ e.sub = j => Newest(e)'
        BY <1>3, <1>5, <3>2 DEF Newest
      <4> QED
        BY <1>5, <4>1, <4>2
    <3> QED
      BY <3>1, <3>2
  <2>4. LastEvents' # {}
    BY <1>7
  <2> QED
    BY <1>7, <2>1, <2>2, <2>3, <2>4 DEF EventInv
<1>13. \A j \in DOMAIN sessions : Exists(j)' => j = i \/ (Exists(j) /\ j # i)
  BY <1>8 DEF Exists
<1>14. OnceInv'
  <2> SUFFICES ASSUME ~doubled' PROVE OnceInv'
    BY DEF OnceInv
  <2>1. ~doubled /\ \A j, k \in DOMAIN sessions : Exists(j)' /\ Exists(k)' => j = k
    BY <1>1 DEF CheckoutInv, CheckoutTypeOK
  <2>2. /\ \A j, k \in DOMAIN sessions : Exists(j) /\ Exists(k) => j = k
        /\ \A e, f \in SubEvents : Exists(e.sub) /\ f.sub # e.sub => f.id < e.id
    BY <2>1 DEF CheckoutInv, OnceInv
  <2>3. \A e \in SubEvents' : e.sub \in DOMAIN sessions
    BY <1>8, <1>12 DEF EventInv
  <2>4. ASSUME NEW e \in SubEvents', NEW f \in SubEvents', Exists(e.sub)', f.sub # e.sub
        PROVE  f.id < e.id
    <3>1. CASE e.sub = i
      <4>1. CASE e = n
        <5>1. f \in SubEvents
          BY <1>5, <2>4, <4>1
        <5> QED
          BY <1>6, <4>1, <5>1
      <4>2. CASE e # n
        <5>1. e \in SubEvents /\ f \in SubEvents
          BY <1>3, <1>5, <2>4, <3>1, <4>2
        <5>2. sessions[i].status # "open"
          BY <3>1, <5>1 DEF CheckoutInv, EventInv
        <5>3. Exists(i)
          BY <5>2, <1>11, StatusFacts DEF CheckoutInv, EventInv, Exists
        <5> QED
          BY <2>2, <2>4, <3>1, <5>1, <5>3
      <4> QED
        BY <4>1, <4>2
    <3>2. CASE e.sub # i
      <4>1. e \in SubEvents /\ Exists(e.sub) /\ ~Exists(i)'
        BY <1>3, <1>5, <1>13, <2>1, <2>3, <2>4, <3>2
      <4>2. Exists(i)
        BY <1>2, <1>8, <4>1, StatusFacts DEF Exists
      <4> QED
        BY <2>2, <2>3, <3>2, <4>1, <4>2, <1>8
    <3> QED
      BY <3>1, <3>2
  <2> QED
    BY <1>8, <2>1, <2>4 DEF OnceInv
<1>15. RowInv'
  <2>1. \A e : Covers(e)' = Covers(e)
    BY <1>1 DEF Covers
  <2> QED
    BY <1>1, <1>5, <2>1 DEF CheckoutInv, RowInv
<1>16. \A j : Ended(j) => Ended(j)'
  BY <1>8, <1>11 DEF Ended
<1>17. KnownInv'
  <2>1. Crossed => Crossed'
    BY <1>5 DEF Crossed
  <2> QED
    BY <1>1, <1>8, <1>16, <2>1 DEF CheckoutInv, KnownInv, CheckoutTypeOK
<1> QED
  BY <1>9, <1>10, <1>12, <1>14, <1>15, <1>17 DEF CheckoutInv
----------------------------------------------------------------------------
\* The row never gets older, and covers an event once that is applied.
LEMMA WebhookKeepsInv ==
    ASSUME CheckoutInv, NEW e \in sent, HandleWebhook(e)
    PROVE  CheckoutInv'
<1>1. /\ e \in Event /\ row \in Row \cup {NoRow}
      /\ logged' \subseteq logged \cup {e} /\ logged' \subseteq sent
      /\ UNCHANGED <<minute, request, sessions, sent, clock, doubled>>
  BY DEF HandleWebhook, stripe, CheckoutInv, CheckoutTypeOK
<1>2. /\ SubEvents' = SubEvents /\ LastEvents' = LastEvents /\ Crossed' = Crossed
      /\ \A f : Newest(f)' = Newest(f)
  BY <1>1 DEF SubEvents, LastEvents, Crossed, Newest
<1>3. RequestInv' /\ EventInv' /\ OnceInv' /\ KnownInv'
  BY <1>1, <1>2 DEF CheckoutInv, RequestInv, EventInv, OnceInv, KnownInv, Pending, RequestAt,
                    Exists, Ended
<1>4. ASSUME NEW f \in SubEvents
      PROVE  /\ f.created \in Nat /\ f.status \in Statuses
             /\ f.type = "deleted" <=> f.status = "canceled"
             /\ f.price \in PaidTiers /\ f.sub \in DOMAIN sessions
  <2>1. f.created \in Nat /\ f.status \in Statuses
    BY StatusFacts DEF CheckoutInv, EventInv
  <2>2. sessions[f.sub] \in Session /\ f.price = sessions[f.sub].price
    BY DEF CheckoutInv, EventInv, CheckoutTypeOK
  <2> QED
    BY <2>1, <2>2, PricesAssumption DEF CheckoutInv, EventInv, Session
<1>5. CASE IsSubscription(e)
  <2> DEFINE new == SyncRow(e, PaidTiers)
  <2>1. e \in SubEvents
    BY <1>5 DEF SubEvents
  <2>2. /\ new \in Row /\ new.last = e.created /\ new.status = e.status
        /\ new.plan = IF e.type = "deleted" THEN "free" ELSE e.price
    BY <1>1, <1>4, <2>1
    DEF SyncRow, PriceToTier, Event, Row, Tiers, Statuses, CheckoutBlockingStatuses, ActiveStatuses
  <2>3. /\ row' = ApplySubscriptionEvent(row, new) /\ known' = known \cup {e.sub}
    BY <1>5 DEF HandleWebhook
  <2> HIDE DEF new
  <2>4. new # NoRow /\ new.last \in Nat
    BY <1>4, <2>1, <2>2, SentinelsAreFresh
  <2>5. row' = new \/ (row' = row /\ Covers(e))
    <3>1. CASE row = NoRow \/ SameOrNewer(new, row)
      BY <2>3, <3>1 DEF ApplySubscriptionEvent
    <3>2. CASE row # NoRow /\ ~SameOrNewer(new, row)
      <4>1. row' = row
        BY <2>3, <3>2 DEF ApplySubscriptionEvent
      <4>2. row.last \in Nat /\ ~(new.last >= row.last)
        BY <1>1, <3>2 DEF SameOrNewer, Row, Times
      <4> QED
        BY <2>2, <2>4, <3>2, <4>1, <4>2 DEF Covers
    <3> QED
      BY <3>1, <3>2
  <2>6. row' = new => row = NoRow \/ row.last = NoTime \/ (row.last \in Nat /\ row.last <= e.created)
    <3> SUFFICES ASSUME row' = new, row # NoRow, row.last # NoTime
                 PROVE  row.last \in Nat /\ row.last <= e.created
      OBVIOUS
    <3>1. row.last \in Nat
      BY <1>1 DEF Row, Times
    <3>2. CASE SameOrNewer(new, row)
      BY <2>2, <2>4, <3>1, <3>2, SentinelsAreFresh DEF SameOrNewer
    <3>3. CASE ~SameOrNewer(new, row)
      <4>1. row' = row
        BY <2>3, <3>3 DEF ApplySubscriptionEvent
      <4> QED
        BY <2>2, <2>4, <3>1, <4>1
    <3> QED
      BY <3>2, <3>3
  <2>7. row' \in Row /\ Covers(e)'
    BY <1>1, <2>2, <2>4, <2>5 DEF Covers
  <2>8. \A f \in SubEvents : Covers(f) => Covers(f)'
    <3> SUFFICES ASSUME NEW f \in SubEvents, Covers(f) PROVE Covers(f)'
      OBVIOUS
    <3>1. CASE row' = row
      BY <3>1 DEF Covers
    <3>2. CASE row' = new
      <4>1. row # NoRow /\ row.last \in Nat /\ f.created <= row.last
        BY DEF Covers
      <4>2. row.last <= e.created
        BY <2>6, <3>2, <4>1, SentinelsAreFresh
      <4>3. f.created \in Nat /\ e.created \in Nat
        BY <1>4, <2>1
      <4> QED
        BY <2>2, <2>4, <3>2, <4>1, <4>2, <4>3 DEF Covers
    <3> QED
      BY <2>5, <3>1, <3>2
  <2>9. CheckoutTypeOK'
    <3>1. e.sub \in DOMAIN sessions
      BY <1>4, <2>1
    <3> QED
      BY <1>1, <2>3, <2>7, <3>1 DEF CheckoutInv, CheckoutTypeOK
  <2>10. RowInv'
    <3>1. row' # NoRow =>
            \/ row'.last = NoTime /\ row'.status = "inactive"
            \/ \E f \in SubEvents :
                /\ row'.last = f.created /\ row'.status = f.status
                /\ row'.plan = IF f.type = "deleted" THEN "free" ELSE f.price
      BY <2>1, <2>2, <2>5 DEF CheckoutInv, RowInv
    <3>2. \A j \in known' : \E f \in SubEvents : f.sub = j /\ Covers(f)'
      BY <2>1, <2>3, <2>7, <2>8 DEF CheckoutInv, RowInv
    <3>3. \A f \in logged' : IsSubscription(f) => Covers(f)'
      <4> SUFFICES ASSUME NEW f \in logged', IsSubscription(f) PROVE Covers(f)'
        OBVIOUS
      <4>1. f \in SubEvents
        BY <1>1 DEF SubEvents
      <4> QED
        BY <1>1, <2>7, <2>8, <4>1 DEF CheckoutInv, RowInv
    <3> QED
      BY <1>2, <3>1, <3>2, <3>3 DEF RowInv
  <2> QED
    BY <1>3, <2>9, <2>10 DEF CheckoutInv
<1>6. CASE ~IsSubscription(e)
  <2>1. row' = UpsertIds(row, e) /\ known' = known
    BY <1>6 DEF HandleWebhook
  <2>2. /\ row' \in Row
        /\ row = NoRow => row'.last = NoTime /\ row'.status = "inactive"
        /\ row # NoRow => row'.last = row.last /\ row'.status = row.status /\ row'.plan = row.plan
    <3>1. CASE row = NoRow
      BY <1>1, <2>1, <3>1
      DEF UpsertIds, Row, Event, Tiers, Statuses, CheckoutBlockingStatuses, Times
    <3>2. CASE row # NoRow
      BY <1>1, <2>1, <3>2 DEF UpsertIds, Row, Event
    <3> QED
      BY <3>1, <3>2
  <2>3. row' # NoRow
    BY <2>2, SentinelsAreFresh
  <2>4. \A f : Covers(f) => Covers(f)'
    BY <2>2, <2>3 DEF Covers
  <2>5. CheckoutTypeOK'
    BY <1>1, <2>1, <2>2 DEF CheckoutInv, CheckoutTypeOK
  <2>6. RowInv'
    BY <1>1, <1>2, <1>6, <2>1, <2>2, <2>4 DEF CheckoutInv, RowInv
  <2> QED
    BY <1>3, <2>5, <2>6 DEF CheckoutInv
<1> QED
  BY <1>5, <1>6
----------------------------------------------------------------------------
LEMMA CheckoutNextKeepsInv == CheckoutInv /\ [CheckoutNext]_checkoutVars => CheckoutInv'
<1> SUFFICES ASSUME CheckoutInv, [CheckoutNext]_checkoutVars PROVE CheckoutInv'
  OBVIOUS
<1>1. ASSUME NEW t \in Tabs, NEW p \in Prices, Start(t, p) PROVE CheckoutInv'
  BY <1>1, StartKeepsInv
<1>2. ASSUME NEW t \in Tabs, ReadRow(t) \/ CheckoutIdempotencyKey(t) \/ RequestFails(t)
      PROVE  CheckoutInv'
  BY <1>2, RequestStepsKeepInv
<1>3. ASSUME NEW t \in Tabs, CreateCheckoutSession(t) PROVE CheckoutInv'
  BY <1>3, CreateKeepsInv
<1>4. ASSUME NEW t \in Tabs, Answer(t) PROVE CheckoutInv'
  BY <1>4, AnswerKeepsInv
<1>5. CASE Tick \/ UNCHANGED checkoutVars
  <2>1. UNCHANGED <<row, request, sessions, sent, clock, doubled, logged, known>>
    BY <1>5 DEF Tick, checkoutVars, stripe
  <2>2. minute' \in Minutes
    BY <1>5, CheckoutBounds DEF Tick, checkoutVars, Minutes, CheckoutInv, CheckoutTypeOK
  <2>3. /\ SubEvents' = SubEvents /\ LastEvents' = LastEvents /\ Crossed' = Crossed
        /\ \A f : Newest(f)' = Newest(f)
    BY <2>1 DEF SubEvents, LastEvents, Crossed, Newest
  <2>4. CheckoutTypeOK' /\ RequestInv' /\ EventInv'
    BY <2>1, <2>2, <2>3
    DEF CheckoutInv, CheckoutTypeOK, RequestInv, EventInv, Pending, RequestAt
  <2>5. OnceInv' /\ RowInv' /\ KnownInv'
    BY <2>1, <2>3 DEF CheckoutInv, OnceInv, RowInv, KnownInv, Covers, Ended, Exists
  <2> QED
    BY <2>4, <2>5 DEF CheckoutInv
<1>6. ASSUME NEW i \in DOMAIN sessions, NEW status \in {"active", "incomplete"}, Pay(i, status)
      PROVE  CheckoutInv'
  <2>1. sessions[i].status = "open" /\ Change(i, status, {"created", "checkout"})
    BY <1>6 DEF Pay
  <2>2. {"created", "checkout"} \cap SubscriptionEvents = {"created"} /\ status \in Live
    BY DEF SubscriptionEvents, Live
  <2> QED
    BY <2>1, <2>2, ChangeKeepsInv
<1>7. ASSUME NEW i \in DOMAIN sessions, NEW status \in {"past_due", "active", "incomplete_expired"},
             Update(i, status)
      PROVE  CheckoutInv'
  <2>1. Exists(i) /\ Change(i, status, {"updated"})
    BY <1>7, StatusFacts DEF Update, Exists, Live
  <2>2. {"updated"} \cap SubscriptionEvents = {"updated"}
        /\ status \in Live \cup {"incomplete_expired"}
    BY DEF SubscriptionEvents, Live
  <2> QED
    BY <2>1, <2>2, ChangeKeepsInv
<1>8. ASSUME NEW i \in DOMAIN sessions, Delete(i) PROVE CheckoutInv'
  <2>1. Exists(i) /\ Change(i, "canceled", {"deleted"})
    BY <1>8 DEF Delete
  <2>2. {"deleted"} \cap SubscriptionEvents = {"deleted"}
    BY DEF SubscriptionEvents
  <2> QED
    BY <2>1, <2>2, ChangeKeepsInv
<1>9. ASSUME NEW e \in sent, HandleWebhook(e) PROVE CheckoutInv'
  BY <1>9, WebhookKeepsInv
<1> QED
  BY <1>1, <1>2, <1>3, <1>4, <1>5, <1>6, <1>7, <1>8, <1>9 DEF CheckoutNext, CreateCheckoutUrl

\* The strengthened invariant of checkout: the requests within their bound, the
\* books of Stripe, and what the row and the requests know of them.
THEOREM CheckoutInvariant == CheckoutSpec => []CheckoutInv
<1>1. CheckoutInit => CheckoutInv
  BY CheckoutInvInit
<1>2. CheckoutInv /\ [CheckoutNext]_checkoutVars => CheckoutInv'
  BY CheckoutNextKeepsInv
<1> QED
  BY <1>1, <1>2, PTL DEF CheckoutSpec

\* The variables of checkout always hold values of their types, and no more
\* sessions are opened than requests were let in for.
THEOREM CheckoutTypeCorrect == CheckoutSpec => []CheckoutTypeOK
<1>1. CheckoutInv => CheckoutTypeOK
  BY DEF CheckoutInv
<1> QED
  BY <1>1, CheckoutInvariant, PTL

\* create_checkout_url: until a race has doubled the subscriptions or two met in
\* one second, no session still to be paid was opened in the knowledge of a
\* subscription that exists.
THEOREM NoSecondOnceKnownHolds == CheckoutSpec => []NoSecondOnceKnown
<1>1. CheckoutInv => NoSecondOnceKnown
  BY StatusFacts DEF CheckoutInv, NoSecondOnceKnown, KnownInv, Ended, Exists
<1> QED
  BY <1>1, CheckoutInvariant, PTL

\* An event that has the last second to itself is the newest of all.
LEMMA LastIsNewest ==
    ASSUME CheckoutInv, Cardinality(LastEvents) <= 1, NEW e \in LastEvents
    PROVE  \A f \in SubEvents : /\ f.id <= e.id
                                /\ f.created >= e.created => f = e
<1>1. e \in SubEvents /\ IsFiniteSet(LastEvents)
  BY FS_Subset DEF LastEvents, CheckoutInv, EventInv
<1>2. \A f \in LastEvents : f = e
  <2>1. IsFiniteSet(LastEvents \ {e}) /\ Cardinality(LastEvents \ {e}) = Cardinality(LastEvents) - 1
    BY <1>1, FS_RemoveElement
  <2>2. Cardinality(LastEvents) \in Nat /\ Cardinality(LastEvents \ {e}) \in Nat
    BY <1>1, <2>1, FS_CardinalityType
  <2>3. Cardinality(LastEvents \ {e}) = 0
    BY <2>1, <2>2
  <2>4. LastEvents \ {e} = {}
    BY <2>1, <2>3, FS_EmptySet
  <2> QED
    BY <2>4
<1>3. \A f \in SubEvents : f.id \in Nat /\ f.created \in Nat /\ f.created <= clock
  BY FS_CardinalityType DEF CheckoutInv, EventInv
<1>4. e.created = clock
  BY DEF LastEvents
<1> SUFFICES ASSUME NEW f \in SubEvents
             PROVE  f.id <= e.id /\ (f.created >= e.created => f = e)
  OBVIOUS
<1>5. f.created >= e.created => f = e
  BY <1>2, <1>3, <1>4 DEF LastEvents, CheckoutInv, CheckoutTypeOK
<1>6. f.id <= e.id
  <2> SUFFICES ASSUME e.id < f.id PROVE FALSE
    BY <1>1, <1>3
  <2>1. e.created <= f.created
    BY <1>1 DEF CheckoutInv, EventInv
  <2> QED
    BY <1>1, <1>3, <1>5, <2>1
<1> QED
  BY <1>5, <1>6

\* The webhook and the entitlements: with every event logged, no race and one event
\* in the last second, the tier granted is that of the subscription that exists
\* and is paid up, whatever other events shared a second.
THEOREM SettledTierIsPaidForHolds == CheckoutSpec => []SettledTierIsPaidFor
<1>1. CheckoutInv => SettledTierIsPaidFor
  <2> DEFINE active == {i \in DOMAIN sessions : sessions[i].status \in ActiveStatuses}
  <2> SUFFICES ASSUME CheckoutInv, logged = sent, ~doubled, Cardinality(LastEvents) <= 1
               PROVE  EntitledTier(row) =
                        IF active = {} THEN "free"
                        ELSE sessions[CHOOSE i \in active : TRUE].price
    BY DEF SettledTierIsPaidFor
  <2>1. \A e \in SubEvents : Covers(e) /\ e.created \in Nat /\ e.id \in Nat
    BY FS_CardinalityType DEF CheckoutInv, RowInv, EventInv, SubEvents
  <2>2. CASE SubEvents = {}
    <3>1. active = {}
      BY <2>2, StatusFacts DEF CheckoutInv, EventInv
    <3>2. EntitledTier(row) = "free"
      BY <2>2, StatusFacts DEF CheckoutInv, RowInv, EntitledTier
    <3> QED
      BY <3>1, <3>2
  <2>3. CASE SubEvents # {}
    <3>1. PICK e \in LastEvents : TRUE
      BY <2>3 DEF CheckoutInv, EventInv
    <3>2. /\ e \in SubEvents
          /\ \A f \in SubEvents : f.id <= e.id /\ (f.created >= e.created => f = e)
      BY LastIsNewest DEF LastEvents
    \* The row shows the last event.
    <3>3. /\ row # NoRow /\ row.status = e.status
          /\ row.plan = IF e.type = "deleted" THEN "free" ELSE e.price
      <4>1. row # NoRow /\ row.last \in Nat /\ e.created <= row.last
        BY <2>1, <3>2 DEF Covers
      <4>2. PICK e0 \in SubEvents :
              /\ row.last = e0.created /\ row.status = e0.status
              /\ row.plan = IF e0.type = "deleted" THEN "free" ELSE e0.price
        BY <4>1, SentinelsAreFresh DEF CheckoutInv, RowInv
      <4>3. e0 = e
        BY <2>1, <3>2, <4>1, <4>2
      <4> QED
        BY <4>1, <4>2, <4>3
    \* The last event says how its subscription stands.
    <3>4. e.sub \in DOMAIN sessions /\ sessions[e.sub].status = e.status
          /\ sessions[e.sub].price = e.price
      <4>1. e.sub \in DOMAIN sessions /\ sessions[e.sub].status # "open"
            /\ sessions[e.sub].price = e.price
        BY <3>2 DEF CheckoutInv, EventInv
      <4>2. PICK f \in SubEvents :
              f.sub = e.sub /\ f.status = sessions[e.sub].status /\ Newest(f)
        BY <4>1 DEF CheckoutInv, EventInv
      <4>3. e.id <= f.id /\ f.id <= e.id
        BY <3>2, <4>2 DEF Newest
      <4>4. f.id = e.id
        BY <2>1, <3>2, <4>3
      <4>5. f = e
        BY <3>2, <4>4 DEF CheckoutInv, EventInv
      <4> QED
        BY <4>1, <4>2, <4>5
    \* No other subscription is paid up.
    <3>5. \A i \in active : i = e.sub
      <4> SUFFICES ASSUME NEW i \in active, i # e.sub PROVE FALSE
        OBVIOUS
      <4>1. Exists(i) /\ sessions[i].status # "open"
        BY StatusFacts DEF Exists
      <4>2. PICK f \in SubEvents : f.sub = i
        BY <4>1 DEF CheckoutInv, EventInv
      <4>3. e.id < f.id /\ f.id <= e.id
        BY <3>2, <4>1, <4>2 DEF CheckoutInv, OnceInv
      <4> QED
        BY <2>1, <3>2, <4>3
    <3>6. CASE e.sub \in active
      <4>1. active = {e.sub} /\ (CHOOSE i \in active : TRUE) = e.sub
        BY <3>5, <3>6
      <4>2. row.status = "active" /\ row.status \in ActiveStatuses /\ e.type # "deleted"
        BY <3>2, <3>3, <3>4, <3>6, StatusFacts DEF CheckoutInv, EventInv
      <4> QED
        BY <3>3, <3>4, <4>1, <4>2 DEF EntitledTier
    <3>7. CASE e.sub \notin active
      <4>1. active = {} /\ row.status \notin ActiveStatuses
        BY <3>3, <3>4, <3>5, <3>7
      <4> QED
        BY <4>1 DEF EntitledTier
    <3> QED
      BY <3>6, <3>7
  <2> QED
    BY <2>2, <2>3
<1> QED
  BY <1>1, CheckoutInvariant, PTL
============================================================================
