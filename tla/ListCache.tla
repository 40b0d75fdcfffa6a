----------------------------- MODULE ListCache -----------------------------
(***************************************************************************)
(* repo/b2_listing.py: the cache of B2 object listings that the dashboard  *)
(* endpoints share.  Handlers run in a thread pool, so a listing request   *)
(* (list_all_objects) interleaves at every lock boundary with others and   *)
(* with the deletes and upload finalizations that change the bucket and    *)
(* then call invalidate_list_cache.                                        *)
(*                                                                         *)
(* The content of a prefix is abstracted to a version, bumped by every     *)
(* write; a scan reads one version.  _list_cache is a sequence in the      *)
(* order the entries were stored, which is the order they expire and are   *)
(* evicted in.                                                             *)
(***************************************************************************)
EXTENDS Integers, SequencesExt, FiniteSets

CONSTANTS
    KeyPrefixes,  \* key prefixes that are listed
    Requests,     \* threads serving list_all_objects
    Writers,      \* threads serving a delete or a finalize
    NoOne,        \* the scan lock is free
    CacheMax,     \* _LIST_CACHE_MAX
    MaxWrites     \* bound on the writes to the bucket

ASSUME CacheMaxAssumption == CacheMax \in Nat \ {0}
ASSUME MaxWritesAssumption == MaxWrites \in Nat
ASSUME NoOneAssumption == NoOne \notin Requests
ASSUME WritersAssumption == IsFiniteSet(Writers)

VARIABLES
    bucket,       \* version of the objects under each prefix
    writes,       \* writes made so far
    cache,        \* _list_cache, oldest entry first
    generation,   \* _list_generation
    scanLock,     \* holder of _list_scan_lock
    request,      \* list_all_objects in progress
    writer,       \* deletes and finalizations in progress
    settled,      \* newest version of a prefix invalidated with no store under way
    served        \* newest version of a prefix any request has returned

vars == <<bucket, writes, cache, generation, scanLock, request, writer, settled, served>>

Versions == 0 .. MaxWrites

Entry == [prefix : KeyPrefixes, snap : Versions, fresh : BOOLEAN]

Idle == [pc |-> "idle"]

\* floor is the newest version served before the request started.
Request == {Idle} \cup
    [pc : {"look", "lock", "recheck", "generation", "fetch", "check", "store", "finish"},
     prefix : KeyPrefixes, floor : Versions, gen : Versions, snap : Versions]

Writer == {Idle} \cup [pc : {"invalidate"}, prefix : KeyPrefixes, version : Versions]

TypeOK ==
    /\ bucket \in [KeyPrefixes -> Versions]
    /\ writes \in Versions
    /\ cache \in Seq(Entry) /\ Len(cache) <= CacheMax
    /\ \A i, j \in DOMAIN cache : cache[i].prefix = cache[j].prefix => i = j
    /\ generation \in Versions
    /\ scanLock \in Requests \cup {NoOne}
    /\ request \in [Requests -> Request]
    /\ writer \in [Writers -> Writer]
    /\ settled \in [KeyPrefixes -> Versions]
    /\ served \in [KeyPrefixes -> Versions]

Init ==
    /\ bucket = [p \in KeyPrefixes |-> 0]
    /\ writes = 0
    /\ cache = <<>>
    /\ generation = 0
    /\ scanLock = NoOne
    /\ request = [r \in Requests |-> Idle]
    /\ writer = [w \in Writers |-> Idle]
    /\ settled = [p \in KeyPrefixes |-> 0]
    /\ served = [p \in KeyPrefixes |-> 0]
----------------------------------------------------------------------------
At(r, pc) == request[r].pc = pc

Goto(r, pc) == request' = [request EXCEPT ![r].pc = pc]

AtLeast(old, new) == IF new > old THEN new ELSE old

Places(p) == {i \in DOMAIN cache : cache[i].prefix = p}

\* Mutant: entries outlive their time to live.
CachedListing_NoTTL(p) == Places(p)

\* _cached_listing: the positions of the entries that are a hit for p.
CachedListing(p) == {i \in Places(p) : cache[i].fresh}

\* The cache once p's listing is stored; the oldest entry goes when it is full.
StoreListing(p, snap) ==
    LET kept == IF Places(p) # {} THEN RemoveAt(cache, CHOOSE i \in Places(p) : TRUE)
                ELSE IF Len(cache) < CacheMax THEN cache ELSE Tail(cache)
    IN  Append(kept, [prefix |-> p, snap |-> snap, fresh |-> TRUE])

Start(r, p) ==
    /\ At(r, "idle")
    /\ request' = [request EXCEPT ![r] =
            [pc |-> "look", prefix |-> p, floor |-> served[p], gen |-> 0, snap |-> 0]]
    /\ UNCHANGED <<bucket, writes, cache, generation, scanLock, writer, settled, served>>

\* A lookup: a hit is the answer, a miss goes on.
Lookup(r, miss) ==
    LET hits == CachedListing(request[r].prefix) IN
    /\ request' = [request EXCEPT ![r] =
            IF hits = {} THEN [@ EXCEPT !.pc = miss]
            ELSE [@ EXCEPT !.pc = "finish", !.snap = cache[CHOOSE i \in hits : TRUE].snap]]
    /\ UNCHANGED <<bucket, writes, cache, generation, scanLock, writer, settled, served>>

Look(r) == At(r, "look") /\ Lookup(r, "lock")

\* Mutant: scans are not serialised.
AcquireScan_NoLock(r) ==
    /\ At(r, "lock")
    /\ Goto(r, "recheck")
    /\ UNCHANGED <<bucket, writes, cache, generation, scanLock, writer, settled, served>>

AcquireScan(r) ==
    /\ At(r, "lock")
    /\ scanLock = NoOne
    /\ scanLock' = r
    /\ Goto(r, "recheck")
    /\ UNCHANGED <<bucket, writes, cache, generation, writer, settled, served>>

Recheck(r) == At(r, "recheck") /\ Lookup(r, "generation")

ReadGeneration(r) ==
    /\ At(r, "generation")
    /\ request' = [request EXCEPT ![r] = [@ EXCEPT !.pc = "fetch", !.gen = generation]]
    /\ UNCHANGED <<bucket, writes, cache, generation, scanLock, writer, settled, served>>

FetchAllObjects(r) ==
    /\ At(r, "fetch")
    /\ request' = [request EXCEPT ![r] = [@ EXCEPT !.pc = "check", !.snap = bucket[request[r].prefix]]]
    /\ UNCHANGED <<bucket, writes, cache, generation, scanLock, writer, settled, served>>

\* B2 answers with an error: RuntimeError leaves the with block and the request.
FetchFails(r) ==
    /\ At(r, "fetch")
    /\ scanLock' = NoOne
    /\ request' = [request EXCEPT ![r] = Idle]
    /\ UNCHANGED <<bucket, writes, cache, generation, writer, settled, served>>

\* Mutant: the generation is not compared.
CheckStale_Ignored(r) ==
    /\ At(r, "check")
    /\ Goto(r, "store")
    /\ UNCHANGED <<bucket, writes, cache, generation, scanLock, writer, settled, served>>

\* stale is computed under _list_cache_lock, which is then released; generation is
\* not used again.
CheckStale(r) ==
    /\ At(r, "check")
    /\ request' = [request EXCEPT ![r] =
            [@ EXCEPT !.pc = IF request[r].gen = generation THEN "store" ELSE "finish",
                      !.gen = 0]]
    /\ UNCHANGED <<bucket, writes, cache, generation, scanLock, writer, settled, served>>

Store(r) ==
    /\ At(r, "store")
    /\ cache' = StoreListing(request[r].prefix, request[r].snap)
    /\ Goto(r, "finish")
    /\ UNCHANGED <<bucket, writes, generation, scanLock, writer, settled, served>>

\* The listing is returned, and the scan lock with it if this request holds it.
Finish(r) ==
    /\ At(r, "finish")
    /\ scanLock' = IF scanLock = r THEN NoOne ELSE scanLock
    /\ served' = [served EXCEPT ![request[r].prefix] = AtLeast(@, request[r].snap)]
    /\ request' = [request EXCEPT ![r] = Idle]
    /\ UNCHANGED <<bucket, writes, cache, generation, writer, settled>>
----------------------------------------------------------------------------
\* An object is deleted (delete_file), or the browser's upload is finalized.
Write(w, p) ==
    /\ writer[w].pc = "idle"
    /\ writes < MaxWrites
    /\ writes' = writes + 1
    /\ bucket' = [bucket EXCEPT ![p] = @ + 1]
    /\ writer' = [writer EXCEPT ![w] =
            [pc |-> "invalidate", prefix |-> p, version |-> bucket[p] + 1]]
    /\ UNCHANGED <<cache, generation, scanLock, request, settled, served>>

\* B2 made the change and no invalidation follows: the call raised after all, or
\* the object is a generated image, whose sink knows nothing of the cache.
WriteFails(w) ==
    /\ writer[w].pc = "invalidate"
    /\ writer' = [writer EXCEPT ![w] = Idle]
    /\ UNCHANGED <<bucket, writes, cache, generation, scanLock, request, settled, served>>

InvalidateListCache(w) ==
    /\ writer[w].pc = "invalidate"
    /\ cache' = <<>>
    /\ generation' = generation + 1
    /\ settled' = [settled EXCEPT ![writer[w].prefix] =
            IF \E r \in Requests : At(r, "store") /\ request[r].prefix = writer[w].prefix
            THEN @ ELSE AtLeast(@, writer[w].version)]
    /\ writer' = [writer EXCEPT ![w] = Idle]
    /\ UNCHANGED <<bucket, writes, scanLock, request, served>>

\* The time to live of the oldest entry still fresh runs out.
Expire ==
    \E i \in DOMAIN cache :
        /\ cache[i].fresh
        /\ \A j \in 1 .. i - 1 : ~cache[j].fresh
        /\ cache' = [cache EXCEPT ![i].fresh = FALSE]
        /\ UNCHANGED <<bucket, writes, generation, scanLock, request, writer, settled, served>>

Serve(r) ==
    \/ Look(r) \/ AcquireScan(r) \/ Recheck(r) \/ ReadGeneration(r)
    \/ FetchAllObjects(r) \/ CheckStale(r) \/ Store(r) \/ Finish(r)

Next ==
    \/ \E r \in Requests : Serve(r) \/ FetchFails(r) \/ \E p \in KeyPrefixes : Start(r, p)
    \/ \E w \in Writers :
        InvalidateListCache(w) \/ WriteFails(w) \/ \E p \in KeyPrefixes : Write(w, p)
    \/ Expire

Spec == Init /\ [][Next]_vars

\* Threads are scheduled and the clock advances.  A Lock of the standard
\* library is not fair, but a request that wants the scan lock gets it if it is
\* free again and again.
Fairness ==
    /\ \A r \in Requests : WF_vars(Serve(r)) /\ SF_vars(AcquireScan(r))
    /\ \A w \in Writers : WF_vars(InvalidateListCache(w))
    /\ WF_vars(Expire)

FairSpec == Spec /\ Fairness
----------------------------------------------------------------------------
\* Listings never go back in time: a request is never answered with an older
\* listing of its prefix than one that was answered before it started, although
\* entries expire, are evicted and are voided under scans in progress.
MonotonicReads ==
    \A r \in Requests : At(r, "finish") => request[r].snap >= request[r].floor

\* Every request is answered or fails, as the two locks never hold each other up;
\* and once the bucket stops changing, requests are in the end answered with what
\* is in it, even if a stale listing got into the cache: it lasts one time to live.
StalenessEnds ==
    /\ \A r \in Requests : ~At(r, "idle") ~> At(r, "idle")
    /\ <>[](\A r \in Requests :
                At(r, "finish") => request[r].snap = bucket[request[r].prefix])

\* What invalidate_list_cache promises: no listing from before a change is cached
\* once the change's invalidation has returned.  It holds of the invalidations
\* that do not come between a scan's comparison of the generation and its store.
InvalidationVoidsOldScans ==
    \A i \in DOMAIN cache : cache[i].snap >= settled[cache[i].prefix]
============================================================================
