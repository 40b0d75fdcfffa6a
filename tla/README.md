# A TLA+ model of the AI SaaS starter kit

TLA+ specifications of the parts of this repository where steps of several
actors meet, the TLC configurations that check them on small instances, and
TLAPS proofs of the results that matter most. Paths below are those of the
repository; `PROJECT.json` lists for every definition the lines it stands for,
for every property a mutant of the code that breaks it, and every hazard with
the properties that watch it, or with the reason why none does.

    tlasany M.tla                                parse a module
    tlc -workers 2 -config X.cfg M.tla           check a configuration
    tlapm BillingProofs.tla                      check the proofs

## 1. The system

Two FastAPI services with a web application each, a shared RAG library, and
external stores: Supabase (Postgres behind PostgREST), Backblaze B2, Stripe, an
image provider, Neon Postgres, Qdrant, a language model.

| component | state | operations | interacts through | module |
|---|---|---|---|---|
| billing webhook and entitlements (`services/api/app/service/billing.py`, `repo/supabase_billing.py`, the SQL function `apply_subscription_event`) | `public.subscriptions`, `public.stripe_events` | `handle_webhook`, `get_subscription`, `require_plan` | Stripe's deliveries; PostgREST calls | `Webhook` |
| checkout and portal (same service, `repo/stripe_client.py`) | Stripe sessions and subscriptions | `create_checkout_url`, `create_portal_url` | the row the webhook keeps | `Checkout` |
| listing cache (`repo/b2_listing.py`, `repo/b2_client.py`) | cache by prefix, generation, two locks | `list_all_objects`, `invalidate_list_cache` | threads of the API; the bucket | `ListCache` |
| image generation (`service/generation.py`, `repo/generation_pipeline.py`, `repo/supabase_generation.py`) | jobs, runs, files, usage; a thread pool | `generate` | event loop and worker threads; B2; PostgREST | `Generation` |
| uploads and files (`service/upload.py`, `service/files.py`, `repo/agentic_assistant.py`) | objects in B2, the cached listing, what the assistant has indexed | presign, PUT, `finalize_upload`, `remove_file` | the browser writes to B2 past the API; listing cache; ingest API of the assistant | `UploadFlow` |
| API authentication, admin console, download counter (`service/auth.py`, `service/admin.py`, `runtime/admin.py`, `repo/counter.py`) | identity cache, roles, audit log, counter and its file | `user_from_token`, `set_user_role`, `increment_download_count` | Supabase; every handler | `ApiGate` |
| RAG library and ingest jobs (`libs/rag`, `service/ingest_jobs.py`, `api/ingest.py`) | Qdrant points, registry row, answer cache, jobs in memory | `index_document`, `delete_indexed_source`, `search_rag` | background threads; three stores without a common transaction | `RagIndex` |
| conversations (`service/chat.py`, `service/memory.py`, `models/conversations.py`) | turns, rolling summary and its marker, advisory lock, connection pool | `stream_chat` | sockets and processes meet at the lock and in the pool | `Conversation` |
| project access (`service/project_tokens.py`, `service/projects.py`, `models/users.py`) | users, roles, leads, tokens; the role inside a JWT | sign in, create, revoke, replace a lead, change a role | transactions at read committed | `ProjectAccess` |
| project state and MCP server (`project_mcp/`, `service/project_mcp_state.py`) | features with their history, blockers, daily updates, completion | the MCP tools | access control; other agents' calls | `ProjectState` |
| agent graph (`agent/graph/`) | one turn's plan, budgets, tool outcomes, evidence, answer | classify, agent, tools, forced searches, final, grounding | the ask that runs it | `AgentGraph` |
| chat client and socket (`use-assistant-chat.ts`, `lib/api.ts`, `api/chat.py`) | busy flag, messages, conversation id; the active task | ask, events, reset, open a chat | WebSocket, tickets | `ChatSession` |

What is hard in it:

- **Steps with nothing around them.** Almost no operation is one transaction.
  The webhook looks an event up, applies it and logs it in three HTTP calls; a
  generation writes to five tables and B2; an index job spans Qdrant and Neon;
  a completion looks at an object four times while its URL can still be written.
- **Order and repetition from outside.** Stripe delivers at least once, in any
  order, several at a time; index jobs and purges run in any order; a done event
  arrives after its chat was left.
- **Time.** A deadline races the thread it cannot stop; cache entries and tokens
  expire; idempotency keys change with the minute; a JWT keeps a role for hours.
- **Cancellation and lost sessions.** A closed socket cancels an ask at any
  `await`, between taking a session-level lock and the `try` that releases it
  among others.
- **Limits.** A pool whose waiters hold what the one they wait for needs; a
  thread pool kept full by abandoned runs; caches that evict; a loop with two
  budgets and two ways around them.
- **Stale reads.** The row checkout reads lags the webhook; a listing is stored
  after the generation was compared; an answer is cached after the flush; the
  lead of a project is read before its row is locked.

What makes each component correct:

- *billing*: nothing is logged as processed before it is stored; the newest
  event decides whatever the order; an active row is never on the free plan;
  checkout completions change no tier.
- *checkout*: once the webhook has told of a living subscription no second one
  is sold; when all is settled the tier granted is the one paid for, unless the
  last events are of one second.
- *listing cache*: listings never go back in time, and are current one time to
  live after the last change; requests end.
- *generation*: succeeded means the image exists; metered means succeeded and
  recorded; the quota is passed by no more than the requests in progress; without
  failures no job is left running.
- *uploads*: the listing shows what was accepted and nothing that is gone; what
  is searchable was checked; what was removed is not searchable; a good file is
  not deleted by its completion.
- *gate*: who is served as an admin is one; an admin remains; the audit log and
  the counter's file tell the truth.
- *RAG*: a job that ran alone leaves exactly its document; the registry
  describes the index; answers quote what was indexed.
- *conversations*: an ask's view is the table's; prompts are complete; every ask
  ends.
- *project access and state*: a token works only in the term of its lead and
  while that user keeps the role; a feature's history is one chain; completion
  is what the lead said last.
- *agent graph*: outsiders reach no project tool; the loop ends one call past its
  budget at most; answers come after the searches they need and are called
  grounded only with findings; a turn ends.
- *chat client*: tokens land in their own message, the composer waits only for
  what will come, the next question goes to the chat on the screen.

## 2. Plan

The order of work was the importance of the behaviour, and all of it is done:

1. `BillingRows`, `Webhook`, `EntitlementRegister`; `Checkout`, which composes
   the same rows with sessions and Stripe.
2. `ListCache`, `Generation`: the API's own concurrency.
3. `RagIndex`, `Conversation`: the assistant's.
4. `ProjectAccess` and, composed with it, `ProjectState`.
5. `AgentGraph`, `UploadFlow`, `ChatSession`, `ApiGate`.
6. The proofs: `BillingProofs` (of `Webhook` and `Checkout`), `AssistantProofs`
   (of `AgentGraph`, `ChatSession` and `RagIndex`), `ProjectProofs`,
   `UploadProofs`, `ConversationProofs`, `GenerationProofs`, `GateProofs`,
   `ListCacheProofs`.
7. Abstract specifications, each shown to be implemented by a run and a proof:
   `EntitlementRegister` (by `Webhook`), `JobLedger` (by `Generation`),
   `SerialConversation` (by `Conversation`).

What is left: `UploadFlow` composed with `RagIndex` instead of with one-step jobs;
several sources of a tenant in `RagIndex`, whose answers may quote more than one;
abstract specifications of the listing cache and of the index.

Modules that are proved about declare no `RECURSIVE` operator and keep their
invariants as conjunctions of named parts.

## 3. The modules

Modules whose constants need building have an `MC` module beside them; it holds
instances only.

### BillingRows

The row of `public.subscriptions` with the columns that decide something, and
the functions that compute and write it: `SyncRow` and `SkipsSync` are
`_sync_subscription`, `UpsertIds` the merge-upsert of `_sync_from_checkout` with
the column defaults of a new row, `ApplySubscriptionEvent` the SQL function with
its guard `SameOrNewer`, `EntitledTier` and `RequirePlan` what routes are gated
by. Prices are named by their tier; "other" is a price of no plan. Display
fields (period end, cancel at period end) are left out: nothing decides by them.

### Webhook

One `handler` slot per request in progress; its `pc` is the next PostgREST call
(`event_seen`, the write, `record_event`, the 200). `Deliver` may pick any event
at any time, so that repetition, reordering and overlap need no action of their
own. `Fail` is a call that raised before its effect; with its effect but without
its answer it is the same as the step followed by `Fail`. `Restart` drops the
requests and may change the configured prices. `EntitlementRegister` is the
promise: one register per user that takes whole offers, the same age or newer.

### Checkout

The same row with `create_checkout_url` in two tabs: read the row, compute the
key of the minute, create the session, give the link. Stripe's side is external:
a session per key, paid or not, subscriptions whose first payment is still to go
through, that lapse, recover and end, events that arrive in any order. Stripe's
stamps are whole seconds: a change is stamped with the second of the one before
it (`clock`) or with a later one, so that a first payment and its confirmation, or
an update and a cancellation, may have one stamp and nothing to order them; their
ids do, for Stripe's books only. `known` remembers which subscriptions the webhook
had told of when a request read the row; `doubled` that a user came to have two.

### ListCache

`list_all_objects` with its two locks, each statement that touches shared state
a step; versions of the bucket stand for listings. `served`, `floor` and
`settled` are history: what readers have seen, and the newest version of a
prefix whose invalidation met no request between its comparison of the
generation and its store.

### Generation

`generate` from the quota to the answer, each call a step that may fail before
its effect, after it, or be lost; the dedicated pool with its queue, tasks that
are abandoned at the deadline and go on; a crash; midnight. `JobLedger` is the
promise: a job is opened for a user, succeeds only once its image is stored, is
metered only while it stands as succeeded, and does not change after that or
after it has failed.

### UploadFlow

Every call to B2 and to the assistant is a step: the completion's HEAD, its
look at the first bytes, the deletion of what fails, the download and the
forward; the removal's delete and purge. An object is a version and what is
wrong with it, and `Put` may replace it at any of those moments, as the presigned
URL stays valid. A call may fail, or take effect without an answer. The
assistant's index jobs wait in a set and run in any order. A scan for the listing
goes as `list_all_objects` does: it notes the generation, lists the bucket,
compares the generation and, in a further step, stores. The scan lock lets one
scan go on at a time; generations are told apart by whether an invalidation came
since (`void`).
History: `accepted` keys, `faulty` versions, `midway` the versions put while
their key was being completed, `excused` the keys whose removal ran into something
else of the same key, `missed` those the cached listing may be wrong about: their
deletion got no answer, or their invalidation came between a scan's comparison
and its store, where the code does lose it.

### ApiGate

A request looks its token up in the identity cache, fetches and stores the user
on a miss, reads the role live, and passes on to one of three handlers: a console
read, a role change or a download. The cache is ordered by expiry, as every entry
lives equally long; `FetchProfileRole` and `RoleUnknown` are the live role and
what becomes of a request when it cannot be read. A role change is a PATCH whose
check (nobody changes their own) precedes its commit, then the audit entry; the
counter takes its snapshot under the lock and saves it outside. `saw` collects
the roles a caller had since the request came, `late` that the token had ended
before; `overlapped` remembers two role changes in the database at once,
`lagging` two saves.

### RagIndex

One source of one tenant, indexed by jobs, removed by purges and searched.
A chunk is its text, access level and position. Retrieval reads the index twice
(the vector search, the scroll for the lexical ranking), then looks the answer
up in the cache by positions, and stores it. Which chunks rank is free.

### Conversation

The asks of one conversation: a pool connection each, the session's advisory
lock, load and prepare the memory, save, run the graph, append, prepare and save
again, unlock. A summary is the set of turns it was made of, so that what is in
no summary can be seen. `Cancel` and `CancelOutside` differ as the code does:
inside the `try` the lock is released on the way out, outside it stays with the
pooled session until `Recycle`, the pool's `max_lifetime`. `LoseConnection` ends
a session and with it its lock. `SerialConversation` is the promise: one ask at a
time reads the conversation, and only it adds an exchange; its `view` is mapped
to the memory of an ask inside the lock whose session lives.

### ProjectAccess

Postgres runs at read committed, so a transaction is one step from its first
lock or write to its commit, and a read before that is a step others may
overtake: the project before a token is inserted, the project before its row is
locked for a new lead, the user before a role is set. A JWT carries the role of
its sign-in until it expires. A *term* of a project is the time between two
changes of its lead, and a token remembers the term it was issued in.

### ProjectState

Extends `ProjectAccess`: an MCP call authenticates in a transaction of its own,
then finds what its reference means, then does its locked read and its writes.
Leads, roles and tokens change in between. Features keep their status history,
`submit_update` inserts the update and moves the completion of the project only
when the caller still leads it, `lapped` remembers submissions that overlapped.

### AgentGraph

One turn: `ClassifyIntent`, `AgentNode` with the tools bound to it, `RunTools`
with their outcomes, the two forced searches, `GenerateFinal`, `CheckGrounding`,
`OutOfScope`, and `Fails` for any node that can raise. The language model may
answer anything its schema allows; only what the audit looks for is kept of a
draft. `iterations` and `loopTokens` are the two budgets, of which `TokenUse` is
what a call may cost. `shown` is what the client has before it at the end.

### ChatSession

The hook's callbacks, one step each, the socket as two queues that are lost when
it drops, the ticket that precedes it, and the server's loop with one active
task. Chats are reset, opened and asked in while tokens, done and error events
of earlier asks are on their way. `stranded` remembers a socket lost under an
ask, `doubled` a second ask sent before the answer to the first, `switched` a
chat left with an answer on its way.

## 4. The runs

| run | instance | states | what it shows |
|---|---|---|---|
| webhook | five events of one user (checkout and creation in one second, an upgrade, the end, one of no interest), two requests at once, a failure, two deployments, one of which has no price for the upgrade | 212 k | `LoggedIsReflected`, `NewestLoggedDecides`, `ActiveIsPaid`; the refinement `ImplementsRegister`; with fairness `EventuallyProcessed`: logged, answered and reflected |
| checkout | one user, two tabs, a price, three sessions, three minutes, three changes of subscriptions | 7.1 M | `NoSecondOnceKnown`, `SettledTierIsPaidFor` |
| list_cache | two requests, two writers, two prefixes, a cache of one entry, two writes | 0.4 M | `MonotonicReads`, `InvalidationVoidsOldScans`; with fairness `StalenessEnds` |
| generation | two requests of a user, a pool of one thread, a quota of one, three jobs, a failure, a crash | 1.1 M | `UsageIsEarned`, `QuotaOvershoot`, `UnattendedIsSettled`; the refinement `KeepsLedger` |
| uploads | a document and an image, two requests, a scan, two uploads, a failure | 12.9 M | `ListingIsCurrent`, `IndexedWasChecked`, `RemovedIsUnsearchable`; the step property `GoodUploadsSurvive` |
| gate | two users with a token each, two requests, a cache of one identity, two role changes or downloads, one failed call or restart | 7.1 M | `RolesAreLive`, `AdminRemains`, `RecordsAreTrue` |
| rag_index | two jobs, a purge, a search, texts of one and two chunks, three ingests, a failure | 2.5 M | `CleanReplace`, `RegistryDescribesIndex`, `AnswersAreIndexed` |
| rag_reingest | one job and a purge on the same texts | (stops) | `ReingestIsSafe` does not hold: section 7 |
| conversation | two asks, a pool of two, three exchanges, two cancellations or lost sessions, any failures of the summarizer | 0.3 M | `ViewIsCurrent`, `PromptIsComplete`; the refinement `IsSerial`; with fairness `AsksEnd` |
| project | two users, a project, a token, an admin, two terms, three MCP calls, a feature, a blocker, two updates | 2.2 M | `TokensDieWithTheTerm`, `HistoryIsAChain`, `CompletionIsNewestCounted` |
| agent | two structured tools, three iterations, a token budget of three, calls that cost nothing or two | 2.5 M | `OutsidersStayOut`, `LoopIsBounded`, `AnswersFollowSearches`, `GroundedRestsOnFindings`; with fairness `TurnsEnd` |
| chat | two past chats, three asks, three sockets, two tickets | 0.5 M | `TokensInPlace`, `WaitsForWhatComes`, `ConversationIsShown` |

The states are distinct ones. The type invariants are proved (section 6).

Why these bounds are enough for what they ask. Two requests are the least that
can interleave, and every race listed is one of two requests, or of a request
and a writer; the shared state is one row, prefix, source, project or
conversation, and others do not touch it. A third event, write or ingest gives
something older than what is being replaced, which order and staleness need; in
`project` the third call is the one that meets two others at a feature. One
failure makes a half-done operation and a later one meets it; conversations have
two, so that a retry can fail too. Three changes of subscriptions are a life that
begins, lapses and ends, or one that ends and the next that begins; what a user
does after two have existed at once is cut off (`NotYetDoubled`), as both
properties of `checkout` claim nothing from there on. A cache of one entry with
two keys is always evicting; a pool of one thread or of two connections is always
at its limit. A model call that costs two of a budget of three lets either of the
agent's budgets be the one that cuts. For what is proved the bounds are free.

Symmetry is used where no liveness is asked and the values are treated alike: the
tabs of `checkout`, the jobs of `rag_index`, the requests of `uploads` and `gate`, the users of `gate`
with their tokens, the users, calls and statuses of `project`. Where
`CHECK_DEADLOCK FALSE` stands, the bounds on attempts let the system come to rest,
or the turn is over.

Some properties say what holds **unless** a race has happened, and name it in a
history variable: `doubled` in `Checkout` (two tabs, two minutes), `raced` in
`RagIndex` (a job, purge or flush under another), `lapsed` in `Conversation` (a
failed summarizer call), `overlapped` and `lagging` in `ApiGate`, `lapped` in
`ProjectState`, `midway`, `excused` and `missed` in `UploadFlow`,
`stranded`, `doubled` and `switched` in `ChatSession`; `TokensDieWithTheTerm`
assumes one admin at a time. Two more exceptions are read off the events of
`Checkout`: `Crossed` (two subscriptions with events of one second), and more than
one event of the last second (`LastEvents`). The race itself is a hazard: the code does nothing
against it, and section 7 says what it costs where that matters.

## 5. Fairness

- *Webhook*: a request in progress goes on (the event loop runs it), and Stripe
  retries what it has had no 200 for. The latter is strong fairness: the slots
  are a bound of the model, and being busy must not starve an event.
- *ListCache*: threads are scheduled and entries expire (weak). The scan lock is
  strongly fair to a request that wants it: a Python lock is not a queue, but it
  is released again and again and the operating system picks a waiter.
- *Conversation*: an ask goes on and the pool's timeouts pass (weak); Postgres
  queues the waiters of a lock (strong); the pool recycles an old connection
  when it is back (strong: it comes and goes).
- *AgentGraph*: a node that was started returns or fails (weak), as every model
  call and every connection has a timeout.

The other modules have no liveness property and no fairness. No fairness is
assumed of users, failures, restarts, cancellations or Stripe's subscriptions.
In `ChatSession` the question "will it be freed" is asked as a state property
instead (`WaitsForWhatComes`): what frees the composer is on its way.

## 6. What is proved

Eight modules of proofs, each for every value of the constants that meets the
assumptions: sentinels are no values, bounds are natural numbers, caches and pools
have a place, and the sets that are counted (`Slots` of `Generation`, `Writers` of
`ListCache`) are finite. `Checkout` has a user, as it is about one. Each follows the
same plan: an inductive invariant, one step per action, the property from it.

| module | theorem | statement |
|---|---|---|
| `BillingProofs`, webhook | `TypeCorrect`, `Inductive` | types; the invariant `IInv` |
| | `RegisterRefinement` | the webhook implements the register of entitlements |
| | `LoggedReflected`, `NewestDecides`, `ActivePaid` | the run's three invariants |
| checkout | `CheckoutInvariant`, `CheckoutTypeCorrect` | the invariant `CheckoutInv`; types |
| | `NoSecondOnceKnownHolds`, `SettledTierIsPaidForHolds` | the run's two invariants |
| `ListCacheProofs` | `ListInvariant`, `ListTypes` | the invariant `ListInv`; types |
| | `ReadsStayMonotonic`, `InvalidationsHold` | `MonotonicReads`, `InvalidationVoidsOldScans` |
| `GenerationProofs` | `GenerationInvariant`, `GenerationTypes` | the invariant `GenerationInv`; types |
| | `UsageStaysEarned`, `OvershootIsBounded`, `UnattendedStaysSettled` | the run's three invariants |
| | `LedgerIsKept` | `generate` implements the ledger of jobs |
| `UploadProofs` | `TypeCorrect` | types |
| | `ListingIsCurrentHolds`, `IndexedWasCheckedHolds`, `RemovedIsUnsearchableHolds` | the run's three invariants |
| | `GoodUploadsSurviveHolds` | its step property |
| `GateProofs` | `GateInvariant`, `GateTypes` | the invariant `GateInv`; types |
| | `RolesStayLive`, `AdminsRemain`, `RecordsStayTrue` | the run's three invariants |
| `ConversationProofs` | `ConversationInvariant`, `ConversationTypes` | the invariant `ConversationInv`; types |
| | `ViewStaysCurrent`, `PromptStaysComplete` | the run's two invariants |
| | `SerialIsImplemented` | the asks implement the serial conversation |
| `ProjectProofs` | `AccessIsImplemented` | the composition is a `ProjectAccess`: MCP calls never touch who may act |
| | `TypeCorrect`, `TokensDieWithTheTermHolds`, `HistoryIsAChainHolds`, `CompletionIsNewestCountedHolds` | types and the run's three invariants |
| | `OnlyTheLeadMovesCompletionHolds` | a step that moves a completion is a submission of the lead of that moment |
| `AssistantProofs`, agent | `AgentInvariant`, `TypeCorrect` | the invariant `AgentInv`; types |
| | `OutsidersStayOutHolds`, `LoopIsBoundedHolds`, `AnswersFollowSearchesHolds`, `GroundedRestsOnFindingsHolds` | the run's four invariants |
| chat | `ChatInvariant`, `ChatTypeCorrect` | the invariant `ChatInv`; types |
| | `TokensInPlaceHolds`, `WaitsForWhatComesHolds`, `ConversationIsShownHolds` | the run's three invariants |
| RAG | `RagInvariant`, `RagTypeCorrect` | the invariant `RagInv`; types |
| | `CleanReplaceHolds`, `AnswersAreIndexedHolds`, `RegistryDescribesIndexHolds` | the run's three invariants |

The arguments.

*Webhook.* Of all steps only the two writes change the rows;
`SyncSubscription` writes one event's tier columns, or nothing by the guard, so
it is a `Take` of the register or a stutter; `SyncFromCheckout` leaves the tier
columns as they are, or creates a row with the defaults, which read as no row
does. `LoggedIsReflected` is not inductive, because logging an
event says nothing of the row; what makes it so is that a request about to log
an event has applied it (`IInv`, the conjunct on `"record"`), that no write
lowers a row's timestamp (`TimeNeverBack`), and that what is answered is logged.
By `IInv` each tier stored was offered by some event of its user, and
the row is at least as new as the newest event once that is logged; so the tier
is that event's. `LoggedReflected` and `NewestDecides` say something only where
Stripe fills in every `created` (`AllTimed`), as in the run: without it the guard
orders nothing.

*Checkout.* `EventInv` is Stripe's side: the stamps follow the order of the events
without telling those of a second apart, the newest event of a subscription says
its status, and one that says it has ended is its last. `OnceInv`: as long as two
subscriptions have not existed at once, the one that exists has newer events than
any other. `RowInv`: the row is what one event says, and stamped no earlier than
every event applied or logged. So a row that no longer blocks a checkout, read by
a request that knows of a subscription, says that this one has ended: the row
covers an event of it, and the event the row shows is of a later subscription or
of its end, as no other subscription has an event of that second. That is
`KnownInv`, which carries it from the guard to the session. When everything is
logged the row covers the last event, and only that one has its second
(`LastIsNewest`): the row shows it, whatever ties went before. `RequestInv` counts
the requests that may still open a session.

*ListCache.* `MonotonicReads` needs that every version in reach of a reader, in
the cache or in a scan, is at least as new as any that was served. One scan at a
time is at work (`LockInv`), and while it is, nothing of its prefix is stored but
its own listing (`ScanInv`). `GenerationInv` counts: the
generation and the invalidations to come are no more than the writes. For
`InvalidationVoidsOldScans`, a scan that read before a settled version carries an
older generation and is turned away at the comparison (`SettledInv`); the scan
past the comparison is what `settled` makes an exception of.

*Generation.* A job belongs to one request and one task (`OwnerInv`); what a run
returned, a request carries or a row says is in B2 (`AssetInv`); the books of a
job are written in their order and only by its request (`BooksInv`); without
failures a running job has a request that will settle it (`AttendedInv`). The
quota is by counting (`QuotaInv`): jobs of the day and requests past the check
together exceed the limit by less than the requests there are. For the refinement
`LedgerInv` adds that a request which waits, or is about to complete, finds its
row running: each of its writes is then one step of the ledger, and a step that
marks as failed what is failed already, or whose effect was lost, is none.

*Uploads.* `VersionInv` (versions in flight are old ones, faulty ones were put
with a fault), `SeenInv` (what a completion has found out holds of the object,
or the object is another one by now), `ForwardInv` (a version on its way to the
index was checked), `ListingInv` and `PurgeInv` (each key that is gone but still
listed or indexed has the request, job or exception that explains it).
`ListingInv` says of what a scan has seen what it says of the listing, once the
scan is past the comparison or sure to fail it: an invalidation that comes before
the comparison makes the scan void, one that comes after it names its key in
`missed`.

*Gate.* `CallerInv`: the role a user has now is one the request has seen, so the
role it was given is one too; a token once ended stays ended. `ChangeInv`: the
one change in the database is of another user than its admin, who is an admin.
`AuditInv` and `CounterInv` balance what was done with what is still to be
recorded.

*Conversation.* An ask inside whose session lives is the owner of the lock
(`LockInv`), so nobody else writes; with that `ViewIsCurrent` is inductive.
`WholeInv` says of what is stored, and of each ask's copy, that the summary
covers the turns up to the marker and the rest are at hand. As the view of an ask
inside is the last turn, before a step and after it, the refinement needs only who
is inside: an ask comes in when the lock leaves nobody else there, and whoever
adds an exchange is inside, also when it never learns of it. `MaxIsLargest`, that
a finite set of numbers has the maximum the library's `Max` chooses, is proved
from the well-foundedness of finite subsets.

*Project.* `AccessInv` relates tokens to the steps under way: a token being
inserted was checked against a lead read earlier, and takes effect only with its
term and creator. `HistoryInv` is the chain together with what the row lock gives
a call. `AccessIsImplemented` follows from `ProjectState` changing none of the
access variables. `NewestSlot` says that without overlap the one submission under
way holds the newest update, which counts for nothing until the submission
commits: so the commit makes the newest counted update and the completion agree,
and a rollback leaves both.

*Agent.* `PlanInv` (what the classifier decided holds for the turn), `LoopInv`
(a turn that has used up its iterations goes on only for the one forced search),
`FallbackInv` (a denied question that is about to be answered has had its
fallback) and `FindingsInv` (chunks and cards are of tools that ran).

*Chat.* `WireInv`: what is on the wire goes with its socket, and a composer that
waits has its ask on the wire or is stranded. `OneAnswerInv`: until an ask is sent
over another, the wire holds one ask in one place: asked, run or done; only errors
may be of an earlier one, which is why an error, unlike a done event, can free
the composer too early. `SpinnerInv` and `ShownInv` tie that one ask to the last
message and to the conversation on the screen.

*RAG.* `AloneInv`: a job that has run alone since it started knows the index chunk
by chunk, as it emptied it first and nobody wrote since. Without a race
everything that runs is alone (`OrderInv`), and between jobs without a failure
the registry names what is there (`RegistryInv`). `TextInv` is what makes a cache
keyed by positions right: all that an answer can still be made of, in the index,
in the cache or in what a search has read, is of one text, because a job that
replaces the text flushes first; a search under way when that happens is a race.

Only model-checked: what holds under fairness (`EventuallyProcessed`, `StalenessEnds`,
`AsksEnd`, `TurnsEnd`), as the prover has no reasoning about `ENABLED` here. The
models declare no recursive operator, so that nothing rests on induction over data.

## 7. Where the code and its words part

Shown by a run:

- `rag_reingest`: a job that fails after deleting the chunks leaves the hash of
  the old text; ingesting that text again is then "unchanged" and the source
  stays without chunks, where `ingest_jobs.py:3` counts on a clean replace.

Met while modelling; the properties are stated so that they hold with it:

- The listing cache compares the generation under the lock and stores the listing
  after it is released (`b2_listing.py:89-92`), so that an invalidation in between
  is lost; the docstring promises otherwise, and `upload.py:263-264` that a new
  file shows up immediately. It costs one time to live, which `StalenessEnds`
  bounds; `ListingIsCurrent` excepts the files concerned (`missed`).
- Of events of one second the last delivered wins, as the comment on
  `apply_subscription_event` and `docs/features/billing.md:95-98` concede. A first
  payment confirmed in the second the subscription began, its two events
  delivered the wrong way round, leaves a paying user locked out until the next
  event, and an update and a cancellation of one second the tier of a
  subscription that has ended. `SettledTierIsPaidFor` excepts them when they are
  the last, `NewestLoggedDecides` by what it calls newest.
- The registry's hash is of the text alone, so a new access level or department
  of the same text is ignored.
- A summarizer call that fails and a later one that succeeds move the marker past
  a turn that is in no summary.
- A cancellation between the grant of the advisory lock and the `try` leaves the
  lock with a pooled session. `AsksEnd` holds all the same, because the pool ends
  sessions by age: the wait is minutes.
- An event skipped because its price is not configured is recorded as processed
  and is not applied when the price is.
- `auth.py` says a token's validity is enforced live; while the role call fails,
  an ended token with its identity cached passes as a plain user.
- The forced searches of `routing.py` are called a guarantee; a budget that cuts
  a call in the middle, or a denied question with its iterations used up, is
  answered without. `AnswersFollowSearches` states what is left.
- `docs/features/assistant-guardrails.md:8` calls the answer to what is out of
  scope deterministic; the node asks the model for it and has a fixed text only
  when that fails.
- Two searches called in one step: the chunks of the later one replace the
  former's, where the comment at `state.py:69` says that none is dropped. Nodes return the
  whole state, so that lists with an additive reducer hold their items several
  times; nothing counts them.
- Tokens of a draft that fails its audit stay on the screen until the done event.
- `use-assistant-chat.ts` keeps one ask in flight, but an error that arrives late
  frees the composer for a second one; and a history that finishes loading
  during an ask does not carry over to the conversation the socket goes on with.
- A close event of a socket that was replaced shows "disconnected" although its
  successor is open.

## 8. What is not modelled, and why

- The rate limiter and the body limit: a step under a lock, and a body counted as
  it is read. Nothing happens inside them that another actor could see.
- `update_feature_status` and `submit_daily_update` of `service/project_state.py`
  and `assign_project_lead_async`, which have no caller; renaming a project and
  changing its status, which nothing else reads; audit rows of projects.
- Ranking, embeddings, prompts, token counts: the model takes every outcome, and
  the code around them must cope.
- Loaders and chunkers of documents: pure functions of one input.
- Signature checks, encodings, password hashing, HTTP details, logging, display
  fields, read-only lists: no property tells them apart.
- The identity cache switched off (a time to live of zero), and the sign-out
  semantics of Supabase: a token ends at some moment, whatever ended it.
- The web applications apart from the chat hook: their state is the query
  library's cache.
- Several tenants, sources, prefixes, projects or conversations at a time, where
  they share nothing (the prefixes of the listing cache share its size, and are
  two).
- Scripts, CI, the worker stub.
