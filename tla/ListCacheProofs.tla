--------------------------- MODULE ListCacheProofs ---------------------------
(***************************************************************************)
(* Proofs about ListCache, for any prefixes, number of requests and        *)
(* writers, size of the cache and number of writes.                        *)
(***************************************************************************)
EXTENDS ListCache, TLAPS, FiniteSetTheorems, SequenceTheorems

(* A request that holds the scan lock, and one that has its listing.       *)
Scanning == {"recheck", "generation", "fetch", "check", "store"}
Pcs == Scanning \cup {"look", "lock", "finish"}

LockInv ==
  /\ \A r \in Requests : request[r].pc \in Scanning => scanLock = r
  /\ \A r \in Requests : scanLock = r => request[r].pc \in Scanning \cup {"finish"}

(* Every version known is one the bucket had.                              *)
VersionInv ==
  /\ \A p \in KeyPrefixes :
       /\ served[p] <= bucket[p] /\ settled[p] <= bucket[p] /\ bucket[p] <= writes
  /\ \A i \in DOMAIN cache : cache[i].snap <= bucket[cache[i].prefix]
  /\ \A r \in Requests :
       /\ request[r] # Idle => request[r].floor <= served[request[r].prefix]
       /\ request[r].pc \in {"check", "store", "finish"} =>
            request[r].snap <= bucket[request[r].prefix]
  /\ \A w \in Writers : writer[w] # Idle => writer[w].version <= bucket[writer[w].prefix]

(* Writes that have still to void the cache.                               *)
Pending == {w \in Writers : writer[w].pc = "invalidate"}

GenerationInv ==
  /\ generation + Cardinality(Pending) <= writes
  /\ \A r \in Requests : request[r].pc = "check" => request[r].gen <= generation
  /\ \A r \in Requests : request[r].pc = "fetch" => request[r].gen <= generation

(* What prefix p was answered, or is about to be, is no newer than v.      *)
Reaches(v, p) ==
  /\ served[p] <= v
  /\ \A q \in Requests : request[q].pc = "finish" /\ request[q].prefix = p => request[q].snap <= v

(* A scan has found no fresh entry of its prefix and only it can add one;  *)
(* fresh entries and scans are no older than any answer.                   *)
ScanInv ==
  /\ \A r \in Requests :
       request[r].pc \in {"generation", "fetch", "check", "store"} =>
         CachedListing(request[r].prefix) = {}
  /\ \A r \in Requests : request[r].pc \in {"check", "store"} => Reaches(request[r].snap, request[r].prefix)
  /\ \A i \in DOMAIN cache : cache[i].fresh => Reaches(cache[i].snap, cache[i].prefix)

(* A scan that will be found valid has seen all that was settled.          *)
SettledInv ==
  /\ \A r \in Requests :
       /\ request[r].pc = "check" /\ request[r].gen = generation =>
            settled[request[r].prefix] <= request[r].snap
       /\ request[r].pc = "store" => settled[request[r].prefix] <= request[r].snap

ListInv ==
  /\ TypeOK /\ LockInv /\ VersionInv /\ GenerationInv /\ ScanInv /\ SettledInv
  /\ MonotonicReads /\ InvalidationVoidsOldScans
----------------------------------------------------------------------------
LEMMA RemoveAtProperties ==
    ASSUME NEW S, NEW q \in Seq(S), NEW i \in 1 .. Len(q)
    PROVE  /\ RemoveAt(q, i) \in Seq(S)
           /\ Len(RemoveAt(q, i)) = Len(q) - 1
           /\ \A k \in 1 .. Len(q) - 1 : RemoveAt(q, i)[k] = IF k < i THEN q[k] ELSE q[k + 1]
<1> DEFINE a == SubSeq(q, 1, i - 1)
           b == SubSeq(q, i + 1, Len(q))
<1>1. Len(q) \in Nat /\ i \in Nat /\ i >= 1 /\ i <= Len(q)
  BY LenProperties
<1>2. a \in Seq(S) /\ Len(a) = i - 1 /\ \A k \in 1 .. i - 1 : a[k] = q[k]
  <2>1. 1 \in Int /\ i - 1 \in Int /\ \A k \in 1 .. i - 1 : q[k] \in S
    BY <1>1, ElementOfSeq
  <2> QED
    BY <1>1, <2>1, SubSeqProperties
<1>3. b \in Seq(S) /\ Len(b) = Len(q) - i /\ \A k \in 1 .. Len(q) - i : b[k] = q[i + k]
  <2>1. i + 1 \in Int /\ Len(q) \in Int /\ \A k \in i + 1 .. Len(q) : q[k] \in S
    BY <1>1, ElementOfSeq
  <2> QED
    BY <1>1, <2>1, SubSeqProperties
<1> HIDE DEF a, b
<1>4. RemoveAt(q, i) = a \o b
  BY DEF RemoveAt, a, b
<1>5. /\ a \o b \in Seq(S) /\ Len(a \o b) = Len(a) + Len(b)
      /\ \A k \in 1 .. Len(a) + Len(b) : (a \o b)[k] = IF k <= Len(a) THEN a[k] ELSE b[k - Len(a)]
  BY <1>2, <1>3, ConcatProperties
<1>6. ASSUME NEW k \in 1 .. Len(q) - 1
      PROVE  RemoveAt(q, i)[k] = IF k < i THEN q[k] ELSE q[k + 1]
  <2>1. CASE k < i
    BY <1>1, <1>2, <1>3, <1>4, <1>5, <2>1
  <2>2. CASE ~(k < i)
    <3>1. k - (i - 1) \in 1 .. Len(q) - i /\ i + (k - (i - 1)) = k + 1
      BY <1>1, <2>2
    <3>2. (a \o b)[k] = b[k - (i - 1)]
      BY <1>1, <1>2, <1>3, <1>5, <2>2
    <3> QED
      BY <1>3, <1>4, <2>2, <3>1, <3>2
  <2> QED
    BY <2>1, <2>2
<1> QED
  BY <1>1, <1>2, <1>3, <1>4, <1>5, <1>6

LEMMA RequestShape ==
    ASSUME NEW q \in Request
    PROVE  /\ q.pc = "idle" <=> q = Idle
           /\ q # Idle => q \in [pc : Pcs, prefix : KeyPrefixes, floor : Versions,
                                 gen : Versions, snap : Versions]
<1>1. Idle.pc = "idle"
  BY DEF Idle
<1>2. CASE q = Idle
  BY <1>1, <1>2
<1>3. CASE q # Idle
  <2>1. q \in [pc : Pcs, prefix : KeyPrefixes, floor : Versions, gen : Versions, snap : Versions]
    BY <1>3 DEF Request, Pcs, Scanning
  <2>2. q.pc \in Pcs
    BY <2>1
  <2> QED
    BY <1>3, <2>1, <2>2 DEF Pcs, Scanning
<1> QED
  BY <1>2, <1>3

(* A step of request r that leaves it as n.                                *)
Steps(r, n) ==
  /\ n \in Request
  /\ request' \in [Requests -> Request]
  /\ request'[r] = n
  /\ \A q \in Requests \ {r} : request'[q] = request[q]

Becomes(r, n) == request' = [request EXCEPT ![r] = n]

Onward(r, n, pc, gen, snap) ==
  /\ Steps(r, n) /\ n # Idle /\ n.pc = pc /\ n.gen = gen /\ n.snap = snap
  /\ n.prefix = request[r].prefix /\ n.floor = request[r].floor

(* A request goes on with other fields.                                    *)
LEMMA GoesOn ==
    ASSUME TypeOK, NEW r \in Requests, request[r] # Idle,
           NEW pc \in Pcs, NEW gen \in Versions, NEW snap \in Versions,
           Becomes(r, [request[r] EXCEPT !.pc = pc, !.gen = gen, !.snap = snap])
    PROVE  \E n \in Request : Onward(r, n, pc, gen, snap)
<1> DEFINE n == [request[r] EXCEPT !.pc = pc, !.gen = gen, !.snap = snap]
<1>1. request[r] \in [pc : Pcs, prefix : KeyPrefixes, floor : Versions, gen : Versions, snap : Versions]
  BY RequestShape DEF TypeOK
<1>2. n \in [pc : Pcs, prefix : KeyPrefixes, floor : Versions, gen : Versions, snap : Versions]
  BY <1>1
<1>3. n \in Request
  BY <1>2 DEF Request, Pcs, Scanning
<1>4. /\ n.pc = pc /\ n.gen = gen /\ n.snap = snap
      /\ n.prefix = request[r].prefix /\ n.floor = request[r].floor
  BY <1>1
<1>5. n # Idle
  BY <1>4 DEF Idle, Pcs, Scanning
<1> HIDE DEF n
<1>6. request' = [request EXCEPT ![r] = n]
  BY DEF n, Becomes
<1>7. Steps(r, n)
  BY <1>3, <1>6 DEF Steps, TypeOK
<1> QED
  BY <1>3, <1>4, <1>5, <1>7 DEF Onward

LEMMA GotoSteps ==
    ASSUME TypeOK, NEW r \in Requests, request[r] # Idle, NEW pc \in Pcs, Goto(r, pc)
    PROVE  \E n \in Request : Onward(r, n, pc, request[r].gen, request[r].snap)
<1>1. request[r] \in [pc : Pcs, prefix : KeyPrefixes, floor : Versions, gen : Versions, snap : Versions]
  BY RequestShape DEF TypeOK
<1> DEFINE gen == request[r].gen
           snap == request[r].snap
<1>2. [request[r] EXCEPT !.pc = pc] = [request[r] EXCEPT !.pc = pc, !.gen = gen, !.snap = snap]
  BY <1>1
<1>3. request' = [request EXCEPT ![r] = [request[r] EXCEPT !.pc = pc]]
  BY DEF Goto, TypeOK
<1>4. gen \in Versions /\ snap \in Versions
  BY <1>1
<1> HIDE DEF gen, snap
<1>5. Becomes(r, [request[r] EXCEPT !.pc = pc, !.gen = gen, !.snap = snap])
  BY <1>2, <1>3 DEF Becomes
<1>6. \E n \in Request : Onward(r, n, pc, gen, snap)
  BY <1>4, <1>5, GoesOn, Zenon
<1> QED
  BY <1>6 DEF gen, snap

LEMMA EndSteps ==
    ASSUME TypeOK, NEW r \in Requests, request' = [request EXCEPT ![r] = Idle]
    PROVE  Steps(r, Idle) /\ Idle.pc = "idle"
BY DEF Steps, TypeOK, Request, Idle
----------------------------------------------------------------------------
Distinct(s) == \A i, j \in DOMAIN s : s[i].prefix = s[j].prefix => i = j

Cache == {s \in Seq(Entry) : Len(s) <= CacheMax /\ Distinct(s)}

LEMMA CacheIsTyped ==
    TypeOK => /\ cache \in Cache /\ Len(cache) \in Nat /\ DOMAIN cache = 1 .. Len(cache)
              /\ \A i \in DOMAIN cache : cache[i] \in Entry
<1> SUFFICES ASSUME TypeOK
             PROVE  /\ cache \in Cache /\ Len(cache) \in Nat /\ DOMAIN cache = 1 .. Len(cache)
                    /\ \A i \in DOMAIN cache : cache[i] \in Entry
  OBVIOUS
<1>1. cache \in Seq(Entry)
  BY DEF TypeOK
<1>2. Len(cache) \in Nat /\ DOMAIN cache = 1 .. Len(cache)
  BY <1>1, LenProperties
<1>3. \A i \in DOMAIN cache : cache[i] \in Entry
  BY <1>1, <1>2, ElementOfSeq
<1> QED
  BY <1>1, <1>2, <1>3 DEF TypeOK, Cache, Distinct

(* The new entry, and what a store may leave of the cache: other prefixes. *)
Newest(p, snap) == [prefix |-> p, snap |-> snap, fresh |-> TRUE]

Old(e, p) == \E j \in DOMAIN cache : e = cache[j] /\ cache[j].prefix # p

Kept(k, p) ==
  k \in Seq(Entry) /\ Len(k) < CacheMax /\ Distinct(k) /\ \A i \in DOMAIN k : Old(k[i], p)

Stores(s, p, snap) ==
  s \in Cache /\ \A i \in DOMAIN s : s[i] = Newest(p, snap) \/ Old(s[i], p)

LEMMA AppendStores ==
    ASSUME TypeOK, NEW p \in KeyPrefixes, NEW snap \in Versions, NEW k, Kept(k, p)
    PROVE  Stores(Append(k, Newest(p, snap)), p, snap)
<1> DEFINE e == Newest(p, snap)
           s == Append(k, e)
<1>1. e \in Entry /\ e.prefix = p
  BY DEF Entry, Newest
<1> HIDE DEF e
<1>2. k \in Seq(Entry) /\ Len(k) \in Nat /\ Len(k) < CacheMax /\ DOMAIN k = 1 .. Len(k) /\ Distinct(k)
  BY LenProperties DEF Kept
<1>3. /\ s \in Seq(Entry) /\ Len(s) = Len(k) + 1
      /\ s[Len(k) + 1] = e /\ \A i \in 1 .. Len(k) : s[i] = k[i]
  BY <1>1, <1>2, AppendProperties
<1> HIDE DEF s
<1>4. DOMAIN s = 1 .. Len(k) + 1 /\ \A i \in DOMAIN s : i \in DOMAIN k \/ i = Len(k) + 1
  BY <1>2, <1>3, LenProperties
<1>5. \A i \in DOMAIN k : k[i].prefix # p /\ Old(k[i], p)
  BY DEF Kept, Old
<1>6. ASSUME NEW i \in DOMAIN s, NEW j \in DOMAIN s, s[i].prefix = s[j].prefix
      PROVE  i = j
  BY <1>1, <1>2, <1>3, <1>4, <1>5, <1>6 DEF Distinct
<1>7. Len(s) <= CacheMax
  BY <1>2, <1>3, CacheMaxAssumption
<1>8. \A i \in DOMAIN s : s[i] = e \/ Old(s[i], p)
  BY <1>2, <1>3, <1>4, <1>5
<1>9. s \in Cache
  BY <1>3, <1>6, <1>7 DEF Cache, Distinct
<1> QED
  BY <1>8, <1>9 DEF Stores, s, e

LEMMA StoreListingProperties ==
    ASSUME TypeOK, NEW p \in KeyPrefixes, NEW snap \in Versions
    PROVE  Stores(StoreListing(p, snap), p, snap)
<1> DEFINE e == Newest(p, snap)
<1>1. /\ cache \in Seq(Entry) /\ Len(cache) \in Nat /\ Len(cache) <= CacheMax
      /\ CacheMax \in Nat \ {0} /\ DOMAIN cache = 1 .. Len(cache) /\ Distinct(cache)
  BY CacheIsTyped, CacheMaxAssumption DEF Cache
<1>2. ASSUME NEW k, Kept(k, p), StoreListing(p, snap) = Append(k, e)
      PROVE  Stores(StoreListing(p, snap), p, snap)
  BY <1>2, AppendStores
<1>4. CASE Places(p) # {}
  <2> DEFINE a == CHOOSE i \in Places(p) : TRUE
             o == RemoveAt(cache, a)
  <2>1. a \in 1 .. Len(cache) /\ cache[a].prefix = p
    BY <1>1, <1>4 DEF Places
  <2>2. StoreListing(p, snap) = Append(o, e)
    BY <1>4 DEF StoreListing, Newest
  <2> HIDE DEF a
  <2>3. /\ o \in Seq(Entry) /\ Len(o) = Len(cache) - 1
        /\ \A k \in 1 .. Len(cache) - 1 : o[k] = IF k < a THEN cache[k] ELSE cache[k + 1]
    BY <1>1, <2>1, RemoveAtProperties
  <2> HIDE DEF o
  <2> DEFINE at(k) == IF k < a THEN k ELSE k + 1
  <2>4. DOMAIN o = 1 .. Len(cache) - 1
    BY <2>3, LenProperties
  <2>5. ASSUME NEW i \in DOMAIN o
        PROVE  at(i) \in DOMAIN cache /\ o[i] = cache[at(i)] /\ at(i) # a /\ i \in Int
    BY <1>1, <2>1, <2>3, <2>4
  <2>6. ASSUME NEW i \in DOMAIN o
        PROVE  Old(o[i], p)
    <3> HIDE DEF at
    <3>1. at(i) \in DOMAIN cache /\ o[i] = cache[at(i)] /\ at(i) # a
      BY <2>5
    <3>2. cache[at(i)].prefix # p
      BY <1>1, <2>1, <3>1 DEF Distinct
    <3> QED
      BY <3>1, <3>2 DEF Old
  <2>7. ASSUME NEW i \in DOMAIN o, NEW j \in DOMAIN o, o[i].prefix = o[j].prefix
        PROVE  i = j
    <3>1. at(i) = at(j)
      <4> HIDE DEF at
      <4> QED
        BY <1>1, <2>5, <2>7 DEF Distinct
    <3>2. i \in Int /\ j \in Int /\ a \in Int
      BY <1>1, <2>1, <2>5
    <3> QED
      BY <3>1, <3>2
  <2>8. Kept(o, p)
    BY <1>1, <2>3, <2>6, <2>7 DEF Distinct, Kept
  <2> QED
    BY <1>2, <2>2, <2>8
<1>5. CASE Places(p) = {} /\ Len(cache) < CacheMax
  <2>1. Kept(cache, p)
    BY <1>1, <1>5 DEF Places, Kept, Old
  <2>2. StoreListing(p, snap) = Append(cache, e)
    BY <1>5 DEF StoreListing, Newest
  <2> QED
    BY <1>2, <2>1, <2>2
<1>6. CASE Places(p) = {} /\ ~(Len(cache) < CacheMax)
  <2>1. StoreListing(p, snap) = Append(Tail(cache), e)
    BY <1>6 DEF StoreListing, Newest
  <2>2. cache # <<>> /\ Len(cache) = CacheMax
    <3>1. Len(cache) = CacheMax /\ Len(cache) # 0
      <4>1. Len(cache) \in Nat /\ Len(cache) <= CacheMax /\ CacheMax \in Nat \ {0}
        BY <1>1
      <4>2. ~(Len(cache) < CacheMax)
        BY <1>6
      <4> QED
        BY <4>1, <4>2
    <3>2. cache # <<>>
      BY <1>1, <3>1, EmptySeq
    <3> QED
      BY <3>1, <3>2
  <2>3. Tail(cache) \in Seq(Entry) /\ Len(Tail(cache)) = Len(cache) - 1
        /\ \A i \in 1 .. Len(Tail(cache)) : Tail(cache)[i] = cache[i + 1]
    BY <1>1, <2>2, HeadTailProperties
  <2>4. DOMAIN Tail(cache) = 1 .. Len(cache) - 1
    BY <2>3, LenProperties
  <2>5. \A i \in DOMAIN Tail(cache) :
          i \in Int /\ i + 1 \in DOMAIN cache /\ Tail(cache)[i] = cache[i + 1] /\ cache[i + 1].prefix # p
    BY <1>1, <1>6, <2>3, <2>4 DEF Places
  <2>6. Distinct(Tail(cache))
    <3> SUFFICES ASSUME NEW i \in DOMAIN Tail(cache), NEW j \in DOMAIN Tail(cache),
                        Tail(cache)[i].prefix = Tail(cache)[j].prefix
                 PROVE  i = j
      BY DEF Distinct
    <3>1. i + 1 = j + 1
      BY <1>1, <2>5 DEF Distinct
    <3> QED
      BY <2>5, <3>1
  <2>7. Kept(Tail(cache), p)
    BY <1>1, <2>2, <2>3, <2>5, <2>6 DEF Kept, Old
  <2> QED
    BY <1>2, <2>1, <2>7
<1> QED
  BY <1>4, <1>5, <1>6
----------------------------------------------------------------------------
(* What request r must be as n, and the lock be held by, for the invariant *)
(* to hold after a step that changes nothing else.                         *)
Sound(r, n, lock) ==
  /\ n.pc \in Scanning => lock = r
  /\ lock = r => n.pc \in Scanning \cup {"finish"}
  /\ \A q \in Requests \ {r} : lock = q <=> scanLock = q
  /\ n # Idle => n.floor <= served[n.prefix]
  /\ n.pc \in {"check", "store", "finish"} => n.snap <= bucket[n.prefix]
  /\ n.pc \in {"fetch", "check"} => n.gen <= generation
  /\ n.pc \in {"generation", "fetch", "check", "store"} => CachedListing(n.prefix) = {}
  /\ n.pc \in {"check", "store"} => Reaches(n.snap, n.prefix)
  /\ n.pc = "finish" =>
       /\ n.snap >= n.floor
       /\ \A q \in Requests \ {r} :
            request[q].pc \in {"check", "store"} /\ request[q].prefix = n.prefix => n.snap <= request[q].snap
       /\ \A i \in DOMAIN cache : cache[i].fresh /\ cache[i].prefix = n.prefix => n.snap <= cache[i].snap
  /\ n.pc = "check" /\ n.gen = generation => settled[n.prefix] <= n.snap
  /\ n.pc = "store" => settled[n.prefix] <= n.snap

LEMMA SoundStep ==
    ASSUME ListInv, NEW r \in Requests, NEW n \in Request, Steps(r, n), Sound(r, n, scanLock'),
           scanLock' \in Requests \cup {NoOne},
           UNCHANGED <<bucket, writes, cache, generation, writer, settled, served>>
    PROVE  ListInv'
<1>0. /\ TypeOK /\ LockInv /\ VersionInv /\ GenerationInv /\ ScanInv /\ SettledInv
      /\ MonotonicReads /\ InvalidationVoidsOldScans
  BY DEF ListInv
<1>1. /\ bucket' = bucket /\ writes' = writes /\ cache' = cache /\ generation' = generation
      /\ writer' = writer /\ settled' = settled /\ served' = served
  OBVIOUS
<1>2. request'[r] = n /\ \A q \in Requests \ {r} : request'[q] = request[q]
  BY DEF Steps
<1>3. TypeOK'
  BY <1>0, <1>1 DEF TypeOK, Steps
<1>4. LockInv'
  BY <1>0, <1>2 DEF LockInv, Sound
<1>5. VersionInv'
  <2>1. ASSUME NEW q \in Requests
        PROVE  (/\ request[q] # Idle => request[q].floor <= served[request[q].prefix]
                /\ request[q].pc \in {"check", "store", "finish"} =>
                     request[q].snap <= bucket[request[q].prefix])'
    BY <1>0, <1>1, <1>2 DEF VersionInv, Sound
  <2> QED
    BY <1>0, <1>1, <2>1 DEF VersionInv
<1>6. GenerationInv'
  <2>1. Pending' = Pending
    BY <1>1 DEF Pending
  <2> QED
    BY <1>0, <1>1, <1>2, <2>1 DEF GenerationInv, Sound
<1>7. ScanInv'
  <2>1. ASSUME NEW q \in Requests, request'[q].pc \in {"generation", "fetch", "check", "store"}
        PROVE  CachedListing(request[q].prefix)' = {}
    <3>1. CachedListing(request'[q].prefix) = {}
      BY <1>0, <1>2, <2>1 DEF ScanInv, Sound
    <3> QED
      BY <1>1, <3>1 DEF CachedListing, Places
  <2>2. ASSUME NEW q \in Requests, request'[q].pc \in {"check", "store"}
        PROVE  Reaches(request[q].snap, request[q].prefix)'
    <3>1. CASE q = r
      <4>1. Reaches(n.snap, n.prefix) /\ n.pc # "finish"
        BY <1>2, <2>2, <3>1 DEF Sound
      <4> QED
        BY <1>1, <1>2, <3>1, <4>1 DEF Reaches
    <3>2. CASE q # r
      <4>1. Reaches(request[q].snap, request[q].prefix) /\ request'[q] = request[q]
        BY <1>0, <1>2, <2>2, <3>2 DEF ScanInv
      <4>2. n.pc = "finish" /\ n.prefix = request[q].prefix => n.snap <= request[q].snap
        BY <2>2, <3>2, <4>1 DEF Sound
      <4> QED
        BY <1>1, <1>2, <4>1, <4>2 DEF Reaches
    <3> QED
      BY <3>1, <3>2
  <2>3. ASSUME NEW i \in DOMAIN cache, cache[i].fresh
        PROVE  Reaches(cache[i].snap, cache[i].prefix)'
    <3>1. Reaches(cache[i].snap, cache[i].prefix)
      BY <1>0, <2>3 DEF ScanInv
    <3>2. n.pc = "finish" /\ n.prefix = cache[i].prefix => n.snap <= cache[i].snap
      BY <2>3 DEF Sound
    <3> QED
      BY <1>1, <1>2, <3>1, <3>2 DEF Reaches
  <2> QED
    BY <1>1, <2>1, <2>2, <2>3 DEF ScanInv
<1>8. SettledInv'
  BY <1>0, <1>1, <1>2 DEF SettledInv, Sound
<1>9. MonotonicReads'
  BY <1>0, <1>2 DEF MonotonicReads, At, Sound
<1>10. InvalidationVoidsOldScans'
  BY <1>0, <1>1 DEF InvalidationVoidsOldScans
<1> QED
  BY <1>3, <1>4, <1>5, <1>6, <1>7, <1>8, <1>9, <1>10 DEF ListInv

(* A request in progress is one of the record's type.                      *)
LEMMA RequestTyped ==
    ASSUME TypeOK, NEW r \in Requests, request[r].pc # "idle"
    PROVE  /\ request[r] \in Request /\ request[r] # Idle
           /\ request[r].pc \in Pcs /\ request[r].prefix \in KeyPrefixes
           /\ request[r].floor \in Versions /\ request[r].gen \in Versions /\ request[r].snap \in Versions
BY RequestShape DEF TypeOK

LEMMA ListInvInit == Init => ListInv
<1> SUFFICES ASSUME Init PROVE ListInv
  OBVIOUS
<1>1. \A r \in Requests : request[r] = Idle /\ request[r].pc = "idle"
  BY DEF Init, Idle
<1>2. \A w \in Writers : writer[w] = Idle /\ writer[w].pc = "idle"
  BY DEF Init, Idle
<1>3. 0 \in Versions
  BY MaxWritesAssumption DEF Versions
<1>4. TypeOK
  <2>1. cache \in Seq(Entry) /\ Len(cache) <= CacheMax /\ DOMAIN cache = {}
    BY CacheMaxAssumption DEF Init
  <2>2. request \in [Requests -> Request] /\ writer \in [Writers -> Writer]
    BY DEF Init, Request, Writer
  <2> QED
    BY <1>3, <2>1, <2>2 DEF Init, TypeOK
<1>5. cache = <<>> /\ DOMAIN cache = {}
  BY DEF Init
<1>6. LockInv
  BY <1>1, NoOneAssumption DEF LockInv, Init, Scanning
<1>7. VersionInv
  BY <1>1, <1>2, <1>5 DEF VersionInv, Init
<1>8. GenerationInv
  <2>1. Pending = {}
    BY <1>2 DEF Pending
  <2> QED
    BY <1>1, <2>1, FS_EmptySet DEF GenerationInv, Init
<1>9. ScanInv /\ SettledInv
  BY <1>1, <1>5 DEF ScanInv, SettledInv
<1>10. MonotonicReads /\ InvalidationVoidsOldScans
  BY <1>1, <1>5 DEF MonotonicReads, InvalidationVoidsOldScans, At
<1> QED
  BY <1>4, <1>6, <1>7, <1>8, <1>9, <1>10 DEF ListInv
----------------------------------------------------------------------------
LEMMA StartStep ==
    ASSUME ListInv, NEW r \in Requests, NEW p \in KeyPrefixes, Start(r, p)
    PROVE  ListInv'
<1> DEFINE n == [pc |-> "look", prefix |-> p, floor |-> served[p], gen |-> 0, snap |-> 0]
<1>0. TypeOK /\ LockInv
  BY DEF ListInv
<1>1. /\ request' = [request EXCEPT ![r] = n] /\ request[r].pc = "idle"
      /\ UNCHANGED <<bucket, writes, cache, generation, scanLock, writer, settled, served>>
  BY DEF Start, At
<1>2. served[p] \in Versions /\ 0 \in Versions
  BY <1>0, MaxWritesAssumption DEF TypeOK, Versions
<1>3. n \in Request
  BY <1>2 DEF Request
<1>4. n.pc = "look" /\ n.prefix = p /\ n.floor = served[p]
  OBVIOUS
<1> HIDE DEF n
<1>5. Steps(r, n)
  BY <1>0, <1>1, <1>3 DEF Steps, TypeOK
<1>6. scanLock # r
  BY <1>0, <1>1 DEF LockInv, Scanning
<1>7. served[p] <= served[p]
  BY <1>2 DEF Versions
<1>8. Sound(r, n, scanLock)
  BY <1>4, <1>6, <1>7 DEF Sound, Scanning
<1>9. scanLock' = scanLock /\ scanLock \in Requests \cup {NoOne}
  BY <1>0, <1>1 DEF TypeOK
<1> QED
  BY <1>1, <1>3, <1>5, <1>8, <1>9, SoundStep

(* A hit answers with a fresh entry, which no answer is newer than.        *)
LEMMA LookupStep ==
    ASSUME ListInv, NEW r \in Requests,
           \/ request[r].pc = "look" /\ Lookup(r, "lock")
           \/ request[r].pc = "recheck" /\ Lookup(r, "generation")
    PROVE  ListInv'
<1>0. TypeOK /\ LockInv /\ VersionInv /\ ScanInv
  BY DEF ListInv
<1> DEFINE p == request[r].prefix
           hits == CachedListing(p)
<1>1. PICK miss \in {"lock", "generation"} :
        /\ Lookup(r, miss)
        /\ miss = "lock" => request[r].pc = "look" /\ scanLock # r
        /\ miss = "generation" => request[r].pc = "recheck" /\ scanLock = r
  BY <1>0 DEF LockInv, Scanning
<1>2. /\ request[r].pc \in {"look", "recheck"}
      /\ scanLock = r => request[r].pc = "recheck"
      /\ UNCHANGED <<bucket, writes, cache, generation, scanLock, writer, settled, served>>
      /\ scanLock' = scanLock /\ scanLock \in Requests \cup {NoOne}
  BY <1>0, <1>1 DEF Lookup, TypeOK
<1>3. /\ request[r] # Idle /\ p \in KeyPrefixes
      /\ request[r].floor \in Versions /\ request[r].gen \in Versions /\ request[r].snap \in Versions
      /\ request[r].floor <= served[p]
  BY <1>0, <1>2, RequestTyped DEF VersionInv
<1>4. CASE hits = {}
  <2>1. Goto(r, miss) /\ miss \in Pcs
    BY <1>1, <1>4 DEF Lookup, Goto, Pcs, Scanning, TypeOK
  <2>2. PICK n \in Request : Onward(r, n, miss, request[r].gen, request[r].snap)
    BY <1>0, <1>3, <2>1, GotoSteps
  <2>3. Sound(r, n, scanLock)
    BY <1>1, <1>3, <1>4, <2>2 DEF Onward, Sound, Scanning
  <2> QED
    BY <1>2, <2>2, <2>3, SoundStep DEF Onward
<1>5. CASE hits # {}
  <2> DEFINE i == CHOOSE i \in hits : TRUE
             snap == cache[i].snap
             gen == request[r].gen
  <2>1. i \in DOMAIN cache /\ cache[i].prefix = p /\ cache[i].fresh
    BY <1>5 DEF CachedListing, Places
  <2>2. request' = [request EXCEPT ![r] = [request[r] EXCEPT !.pc = "finish", !.snap = snap]]
    BY <1>1, <1>5 DEF Lookup, TypeOK
  <2> HIDE DEF i
  <2>3. cache[i] \in Entry /\ Distinct(cache)
    BY <1>0, <2>1, CacheIsTyped DEF Cache
  <2>4. snap \in Versions
    BY <2>3 DEF Entry
  <2> HIDE DEF snap
  <2>5. [request[r] EXCEPT !.pc = "finish", !.snap = snap] =
          [request[r] EXCEPT !.pc = "finish", !.gen = gen, !.snap = snap]
    <3>1. request[r] \in [pc : Pcs, prefix : KeyPrefixes, floor : Versions, gen : Versions, snap : Versions]
      BY <1>0, <1>3, RequestShape DEF TypeOK
    <3> QED
      BY <3>1
  <2>6. gen \in Versions /\ "finish" \in Pcs
    BY <1>3 DEF Pcs
  <2> HIDE DEF gen
  <2>7. Becomes(r, [request[r] EXCEPT !.pc = "finish", !.gen = gen, !.snap = snap])
    BY <2>2, <2>5 DEF Becomes
  <2>8. PICK n \in Request : Onward(r, n, "finish", gen, snap)
    BY <1>0, <1>3, <2>4, <2>6, <2>7, GoesOn
  <2>9. Steps(r, n) /\ n # Idle /\ n.pc = "finish" /\ n.snap = snap /\ n.prefix = p /\ n.floor = request[r].floor
    BY <2>8 DEF Onward
  <2>10. Reaches(snap, p)
    BY <1>0, <2>1 DEF ScanInv, snap
  <2>11. request[r].floor <= snap
    <3>1. served[p] <= snap /\ served[p] \in Versions
      BY <1>0, <1>3, <2>10 DEF Reaches, TypeOK
    <3> QED
      BY <1>3, <2>4, <3>1, MaxWritesAssumption DEF Versions
  <2>12. \A q \in Requests : request[q].pc \in {"check", "store"} => request[q].prefix # p
    BY <1>0, <2>1 DEF ScanInv, CachedListing, Places
  <2>13. \A j \in DOMAIN cache : cache[j].prefix = p => snap <= cache[j].snap
    <3>1. snap <= snap
      BY <2>4, MaxWritesAssumption DEF Versions
    <3> QED
      BY <2>1, <2>3, <3>1 DEF Distinct, snap
  <2>14. snap <= bucket[p]
    BY <1>0, <2>1 DEF VersionInv, snap
  <2>15. n.snap >= n.floor
    BY <1>3, <2>4, <2>9, <2>11 DEF Versions
  <2>16. Sound(r, n, scanLock)
    BY <1>3, <2>9, <2>12, <2>13, <2>14, <2>15 DEF Sound, Scanning
  <2> QED
    BY <1>2, <2>9, <2>16, SoundStep
<1> QED
  BY <1>4, <1>5

LEMMA AcquireScanStep ==
    ASSUME ListInv, NEW r \in Requests, AcquireScan(r)
    PROVE  ListInv'
<1>0. TypeOK /\ LockInv /\ VersionInv
  BY DEF ListInv
<1>1. /\ request[r].pc = "lock" /\ scanLock = NoOne /\ scanLock' = r /\ Goto(r, "recheck")
      /\ UNCHANGED <<bucket, writes, cache, generation, writer, settled, served>>
  BY DEF AcquireScan, At
<1>2. request[r] # Idle /\ "recheck" \in Pcs /\ request[r].floor <= served[request[r].prefix]
  BY <1>0, <1>1, RequestTyped DEF Pcs, Scanning, VersionInv
<1>3. PICK n \in Request : Onward(r, n, "recheck", request[r].gen, request[r].snap)
  BY <1>0, <1>1, <1>2, GotoSteps
<1>4. Sound(r, n, scanLock')
  BY <1>1, <1>2, <1>3, NoOneAssumption DEF Onward, Sound, Scanning
<1> QED
  BY <1>1, <1>3, <1>4, SoundStep DEF Onward

LEMMA ReadGenerationStep ==
    ASSUME ListInv, NEW r \in Requests, ReadGeneration(r)
    PROVE  ListInv'
<1>0. TypeOK /\ LockInv /\ VersionInv /\ ScanInv
  BY DEF ListInv
<1> DEFINE snap == request[r].snap
<1>1. /\ request[r].pc = "generation"
      /\ request' = [request EXCEPT ![r] = [request[r] EXCEPT !.pc = "fetch", !.gen = generation]]
      /\ UNCHANGED <<bucket, writes, cache, generation, scanLock, writer, settled, served>>
      /\ scanLock = r /\ scanLock' = scanLock
  BY <1>0 DEF ReadGeneration, At, TypeOK, LockInv, Scanning
<1>2. /\ request[r] # Idle /\ request[r].floor <= served[request[r].prefix]
      /\ CachedListing(request[r].prefix) = {}
      /\ snap \in Versions /\ generation \in Versions /\ "fetch" \in Pcs
  BY <1>0, <1>1, RequestTyped DEF Pcs, Scanning, VersionInv, ScanInv, TypeOK
<1>3. [request[r] EXCEPT !.pc = "fetch", !.gen = generation] =
        [request[r] EXCEPT !.pc = "fetch", !.gen = generation, !.snap = snap]
  <2>1. request[r] \in [pc : Pcs, prefix : KeyPrefixes, floor : Versions, gen : Versions, snap : Versions]
    BY <1>0, <1>2, RequestShape DEF TypeOK
  <2> QED
    BY <2>1
<1> HIDE DEF snap
<1>4. Becomes(r, [request[r] EXCEPT !.pc = "fetch", !.gen = generation, !.snap = snap])
  BY <1>1, <1>3 DEF Becomes
<1>5. PICK n \in Request : Onward(r, n, "fetch", generation, snap)
  BY <1>0, <1>2, <1>4, GoesOn
<1>6. generation <= generation
  BY <1>2, MaxWritesAssumption DEF Versions
<1>7. Sound(r, n, scanLock)
  BY <1>1, <1>2, <1>5, <1>6 DEF Onward, Sound, Scanning
<1> QED
  BY <1>0, <1>1, <1>5, <1>7, SoundStep DEF Onward, TypeOK

(* A scan reads the bucket as it is, so that nothing known is newer.       *)
LEMMA FetchAllObjectsStep ==
    ASSUME ListInv, NEW r \in Requests, FetchAllObjects(r)
    PROVE  ListInv'
<1>0. TypeOK /\ LockInv /\ VersionInv /\ ScanInv /\ GenerationInv
  BY DEF ListInv
<1> DEFINE snap == bucket[request[r].prefix]
           gen == request[r].gen
<1>1. /\ request[r].pc = "fetch"
      /\ request' = [request EXCEPT ![r] = [request[r] EXCEPT !.pc = "check", !.snap = snap]]
      /\ UNCHANGED <<bucket, writes, cache, generation, scanLock, writer, settled, served>>
      /\ scanLock = r /\ scanLock' = scanLock
  BY <1>0 DEF FetchAllObjects, At, TypeOK, LockInv, Scanning
<1>2. /\ request[r] # Idle /\ request[r].floor <= served[request[r].prefix]
      /\ CachedListing(request[r].prefix) = {}
      /\ request[r].prefix \in KeyPrefixes
      /\ gen \in Versions /\ snap \in Versions /\ "check" \in Pcs
      /\ gen <= generation
  BY <1>0, <1>1, RequestTyped DEF Pcs, Scanning, VersionInv, ScanInv, TypeOK, GenerationInv
<1>3. [request[r] EXCEPT !.pc = "check", !.snap = snap] =
        [request[r] EXCEPT !.pc = "check", !.gen = gen, !.snap = snap]
  <2>1. request[r] \in [pc : Pcs, prefix : KeyPrefixes, floor : Versions, gen : Versions, snap : Versions]
    BY <1>0, <1>2, RequestShape DEF TypeOK
  <2> QED
    BY <2>1
<1>4. /\ Reaches(snap, request[r].prefix) /\ settled[request[r].prefix] <= snap
      /\ snap <= bucket[request[r].prefix]
  <2>1. snap <= snap
    BY <1>2, MaxWritesAssumption DEF Versions
  <2> QED
    BY <1>0, <1>2, <2>1 DEF Reaches, VersionInv
<1> HIDE DEF snap, gen
<1>5. Becomes(r, [request[r] EXCEPT !.pc = "check", !.gen = gen, !.snap = snap])
  BY <1>1, <1>3 DEF Becomes
<1>6. PICK n \in Request : Onward(r, n, "check", gen, snap)
  BY <1>0, <1>2, <1>5, GoesOn
<1>7. Sound(r, n, scanLock)
  BY <1>1, <1>2, <1>4, <1>6 DEF Onward, Sound, Scanning
<1> QED
  BY <1>0, <1>1, <1>6, <1>7, SoundStep DEF Onward, TypeOK

LEMMA FetchFailsStep ==
    ASSUME ListInv, NEW r \in Requests, FetchFails(r)
    PROVE  ListInv'
<1>0. TypeOK /\ LockInv
  BY DEF ListInv
<1>1. /\ request[r].pc = "fetch" /\ scanLock' = NoOne
      /\ request' = [request EXCEPT ![r] = Idle]
      /\ UNCHANGED <<bucket, writes, cache, generation, writer, settled, served>>
      /\ scanLock = r
  BY <1>0 DEF FetchFails, At, LockInv, Scanning
<1>2. Steps(r, Idle) /\ Idle.pc = "idle" /\ Idle \in Request
  BY <1>0, <1>1, EndSteps DEF Request
<1>3. Sound(r, Idle, NoOne)
  BY <1>1, <1>2, NoOneAssumption DEF Sound, Scanning
<1> QED
  BY <1>1, <1>2, <1>3, SoundStep

LEMMA CheckStaleStep ==
    ASSUME ListInv, NEW r \in Requests, CheckStale(r)
    PROVE  ListInv'
<1>0. TypeOK /\ LockInv /\ VersionInv /\ ScanInv /\ SettledInv
  BY DEF ListInv
<1> DEFINE p == request[r].prefix
           snap == request[r].snap
           pc == IF request[r].gen = generation THEN "store" ELSE "finish"
           m == [request[r] EXCEPT !.pc = pc, !.gen = 0]
<1>1. /\ request[r].pc = "check"
      /\ request' = [request EXCEPT ![r] = m]
      /\ UNCHANGED <<bucket, writes, cache, generation, scanLock, writer, settled, served>>
      /\ scanLock = r /\ scanLock' = scanLock
  BY <1>0 DEF CheckStale, At, TypeOK, LockInv, Scanning
<1>2. /\ request[r] # Idle /\ request[r].floor <= served[p]
      /\ CachedListing(p) = {} /\ p \in KeyPrefixes
      /\ Reaches(snap, p) /\ snap <= bucket[p]
      /\ request[r].gen = generation => settled[p] <= snap
      /\ request[r].floor \in Versions /\ served[p] \in Versions
      /\ snap \in Versions /\ 0 \in Versions /\ pc \in Pcs
  <2>1. /\ request[r] # Idle /\ p \in KeyPrefixes
        /\ request[r].floor \in Versions /\ snap \in Versions
    BY <1>0, <1>1, RequestTyped
  <2>2. request[r].floor <= served[p] /\ snap <= bucket[p]
    BY <1>0, <1>1, <2>1 DEF VersionInv
  <2>3. CachedListing(p) = {} /\ Reaches(snap, p)
    BY <1>0, <1>1 DEF ScanInv
  <2>4. request[r].gen = generation => settled[p] <= snap
    BY <1>0, <1>1 DEF SettledInv
  <2>5. served[p] \in Versions /\ 0 \in Versions /\ pc \in Pcs
    BY <1>0, <2>1, MaxWritesAssumption DEF TypeOK, Versions, Pcs, Scanning
  <2> QED
    BY <2>1, <2>2, <2>3, <2>4, <2>5
<1>3. m = [request[r] EXCEPT !.pc = pc, !.gen = 0, !.snap = snap]
  <2>1. request[r] \in [pc : Pcs, prefix : KeyPrefixes, floor : Versions, gen : Versions, snap : Versions]
    BY <1>0, <1>2, RequestShape DEF TypeOK
  <2> QED
    BY <2>1
<1>4. pc = "store" => settled[p] <= snap
  BY <1>2
<1>5. pc \in {"store", "finish"}
  OBVIOUS
<1>6. snap >= request[r].floor
  <2>1. served[p] <= snap
    BY <1>2 DEF Reaches
  <2> QED
    BY <1>2, <2>1, MaxWritesAssumption DEF Versions
<1>7. \A q \in Requests \ {r} : request[q].pc \notin {"check", "store"}
  BY <1>0, <1>1 DEF LockInv, Scanning
<1>8. \A i \in DOMAIN cache : ~(cache[i].fresh /\ cache[i].prefix = p)
  BY <1>2 DEF CachedListing, Places
<1> HIDE DEF snap, pc, m
<1>9. Becomes(r, [request[r] EXCEPT !.pc = pc, !.gen = 0, !.snap = snap])
  BY <1>1, <1>3 DEF Becomes
<1>10. PICK n \in Request : Onward(r, n, pc, 0, snap)
  BY <1>0, <1>2, <1>9, GoesOn
<1>11. Steps(r, n) /\ n # Idle /\ n.pc = pc /\ n.snap = snap /\ n.prefix = p /\ n.floor = request[r].floor
  BY <1>10 DEF Onward
<1>12. Sound(r, n, scanLock)
  BY <1>1, <1>2, <1>4, <1>5, <1>6, <1>7, <1>8, <1>11 DEF Sound, Scanning
<1> QED
  BY <1>0, <1>1, <1>11, <1>12, SoundStep DEF TypeOK

(* The scan stores what no answer is newer than, in place of its prefix.   *)
LEMMA StoreStep ==
    ASSUME ListInv, NEW r \in Requests, Store(r)
    PROVE  ListInv'
<1>0. /\ TypeOK /\ LockInv /\ VersionInv /\ GenerationInv /\ ScanInv /\ SettledInv
      /\ MonotonicReads /\ InvalidationVoidsOldScans
  BY DEF ListInv
<1> DEFINE p == request[r].prefix
           snap == request[r].snap
<1>1. /\ request[r].pc = "store" /\ cache' = StoreListing(p, snap) /\ Goto(r, "finish")
      /\ bucket' = bucket /\ writes' = writes /\ generation' = generation /\ scanLock' = scanLock
      /\ writer' = writer /\ settled' = settled /\ served' = served
      /\ scanLock = r
  BY <1>0 DEF Store, At, LockInv, Scanning
<1>2. /\ request[r] # Idle /\ p \in KeyPrefixes /\ snap \in Versions
      /\ request[r].floor \in Versions /\ "finish" \in Pcs
  BY <1>0, <1>1, RequestTyped DEF Pcs
<1>3. /\ request[r].floor <= served[p] /\ snap <= bucket[p]
      /\ Reaches(snap, p) /\ settled[p] <= snap
  BY <1>0, <1>1, <1>2 DEF VersionInv, ScanInv, SettledInv
<1>4. PICK n \in Request : Onward(r, n, "finish", request[r].gen, snap)
  BY <1>0, <1>1, <1>2, GotoSteps
<1>5. /\ n.pc = "finish" /\ n # Idle /\ n.snap = snap /\ n.prefix = p /\ n.floor = request[r].floor
      /\ request'[r] = n /\ \A q \in Requests \ {r} : request'[q] = request[q]
      /\ request' \in [Requests -> Request]
  BY <1>4 DEF Onward, Steps
<1>6. \A q \in Requests : request'[q].pc \notin Scanning
  BY <1>0, <1>1, <1>5 DEF LockInv, Scanning
<1>7. Stores(cache', p, snap)
  BY <1>0, <1>1, <1>2, StoreListingProperties
<1>8. TypeOK'
  BY <1>0, <1>1, <1>5, <1>7 DEF TypeOK, Stores, Cache, Distinct
<1>9. LockInv'
  BY <1>0, <1>1, <1>5, <1>6 DEF LockInv, Scanning
<1>10. ASSUME NEW i \in DOMAIN cache'
       PROVE  \/ cache'[i].prefix = p /\ cache'[i].snap = snap
              \/ \E j \in DOMAIN cache : cache'[i] = cache[j] /\ cache[j].prefix # p
  BY <1>7 DEF Stores, Newest, Old
<1>11. VersionInv'
  <2>1. \A i \in DOMAIN cache' : cache'[i].snap <= bucket[cache'[i].prefix]
    BY <1>0, <1>3, <1>10 DEF VersionInv
  <2>2. \A q \in Requests :
          /\ request'[q] # Idle => request'[q].floor <= served[request'[q].prefix]
          /\ request'[q].pc \in {"check", "store", "finish"} => request'[q].snap <= bucket[request'[q].prefix]
    BY <1>0, <1>3, <1>5 DEF VersionInv
  <2> QED
    BY <1>0, <1>1, <2>1, <2>2 DEF VersionInv
<1>12. GenerationInv'
  <2>1. Pending' = Pending
    BY <1>1 DEF Pending
  <2> QED
    BY <1>0, <1>1, <1>6, <2>1 DEF GenerationInv, Scanning
<1>13. ScanInv'
  <2>1. ASSUME NEW i \in DOMAIN cache', cache'[i].fresh
        PROVE  Reaches(cache[i].snap, cache[i].prefix)'
    <3>1. CASE cache'[i].prefix = p /\ cache'[i].snap = snap
      <4>1. snap <= snap
        BY <1>2, MaxWritesAssumption DEF Versions
      <4> QED
        BY <1>1, <1>3, <1>5, <3>1, <4>1 DEF Reaches
    <3>2. CASE \E j \in DOMAIN cache : cache'[i] = cache[j] /\ cache[j].prefix # p
      <4>1. PICK j \in DOMAIN cache : cache'[i] = cache[j] /\ cache[j].prefix # p
        BY <3>2
      <4>2. Reaches(cache[j].snap, cache[j].prefix)
        BY <1>0, <2>1, <4>1 DEF ScanInv
      <4> QED
        BY <1>1, <1>5, <4>1, <4>2 DEF Reaches
    <3> QED
      BY <1>10, <3>1, <3>2
  <2> QED
    BY <1>6, <2>1 DEF ScanInv, Scanning
<1>14. SettledInv'
  BY <1>6 DEF SettledInv, Scanning
<1>15. MonotonicReads'
  <2>1. snap >= request[r].floor
    <3>1. served[p] <= snap /\ served[p] \in Versions
      BY <1>0, <1>2, <1>3 DEF Reaches, TypeOK
    <3> QED
      BY <1>2, <1>3, <3>1, MaxWritesAssumption DEF Versions
  <2> QED
    BY <1>0, <1>5, <2>1 DEF MonotonicReads, At
<1>16. InvalidationVoidsOldScans'
  <2>1. ASSUME NEW i \in DOMAIN cache'
        PROVE  cache'[i].snap >= settled[cache'[i].prefix]
    <3>1. CASE cache'[i].prefix = p /\ cache'[i].snap = snap
      <4>1. settled[p] \in Versions
        BY <1>0, <1>2 DEF TypeOK
      <4> QED
        BY <1>2, <1>3, <3>1, <4>1, MaxWritesAssumption DEF Versions
    <3>2. CASE \E j \in DOMAIN cache : cache'[i] = cache[j] /\ cache[j].prefix # p
      BY <1>0, <3>2 DEF InvalidationVoidsOldScans
    <3> QED
      BY <1>10, <3>1, <3>2
  <2> QED
    BY <1>1, <2>1 DEF InvalidationVoidsOldScans
<1> QED
  BY <1>8, <1>9, <1>11, <1>12, <1>13, <1>14, <1>15, <1>16 DEF ListInv

LEMMA FinishStep ==
    ASSUME ListInv, NEW r \in Requests, Finish(r)
    PROVE  ListInv'
<1>0. /\ TypeOK /\ LockInv /\ VersionInv /\ GenerationInv /\ ScanInv /\ SettledInv
      /\ MonotonicReads /\ InvalidationVoidsOldScans
  BY DEF ListInv
<1> DEFINE p == request[r].prefix
           snap == request[r].snap
<1>1. /\ request[r].pc = "finish"
      /\ scanLock' = IF scanLock = r THEN NoOne ELSE scanLock
      /\ served' = [served EXCEPT ![p] = AtLeast(served[p], snap)]
      /\ request' = [request EXCEPT ![r] = Idle]
      /\ bucket' = bucket /\ writes' = writes /\ cache' = cache /\ generation' = generation
      /\ writer' = writer /\ settled' = settled
  BY <1>0 DEF Finish, At, TypeOK
<1>2. p \in KeyPrefixes /\ snap \in Versions /\ served[p] \in Versions
  BY <1>0, <1>1, RequestTyped DEF TypeOK
<1>3. /\ request'[r] = Idle /\ Idle.pc = "idle" /\ request' \in [Requests -> Request]
      /\ \A q \in Requests \ {r} : request'[q] = request[q]
  BY <1>0, <1>1, EndSteps DEF Steps
<1> DEFINE v == AtLeast(served[p], snap)
<1>4. v \in Versions /\ v >= served[p] /\ v >= snap /\ (v = served[p] \/ v = snap)
  BY <1>2, MaxWritesAssumption DEF AtLeast, Versions
<1> HIDE DEF v
<1>5. /\ served' \in [KeyPrefixes -> Versions]
      /\ \A k \in KeyPrefixes : served'[k] = IF k = p THEN v ELSE served[k]
  BY <1>0, <1>1, <1>2, <1>4 DEF TypeOK, v
<1>6. \A k \in KeyPrefixes : served[k] <= served'[k]
  <2> SUFFICES ASSUME NEW k \in KeyPrefixes PROVE served[k] <= served'[k]
    OBVIOUS
  <2>1. served[k] \in Versions
    BY <1>0 DEF TypeOK
  <2>2. served[k] <= served[k]
    BY <2>1, MaxWritesAssumption DEF Versions
  <2>3. k = p => served[k] <= v
    BY <1>2, <1>4, MaxWritesAssumption DEF Versions
  <2> QED
    BY <1>5, <2>2, <2>3
<1>7. TypeOK'
  BY <1>0, <1>1, <1>3, <1>5 DEF TypeOK
<1>8. LockInv'
  BY <1>0, <1>1, <1>3, NoOneAssumption DEF LockInv, Scanning
<1>9. VersionInv'
  <2>1. \A k \in KeyPrefixes : served'[k] <= bucket[k]
    BY <1>0, <1>1, <1>2, <1>4, <1>5 DEF VersionInv
  <2>2. ASSUME NEW q \in Requests, request'[q] # Idle
        PROVE  request'[q].floor <= served'[request'[q].prefix]
    <3>1. q # r /\ request'[q] = request[q]
      BY <1>3, <2>2
    <3>2. request[q].pc # "idle"
      BY <1>0, <2>2, <3>1, RequestShape DEF TypeOK
    <3>3. request[q].prefix \in KeyPrefixes /\ request[q].floor \in Versions
      BY <1>0, <3>2, RequestTyped
    <3>4. request[q].floor <= served[request[q].prefix] /\ served[request[q].prefix] <= served'[request[q].prefix]
      BY <1>0, <1>6, <2>2, <3>1, <3>3 DEF VersionInv
    <3>5. served[request[q].prefix] \in Versions /\ served'[request[q].prefix] \in Versions
      BY <1>0, <1>5, <3>3 DEF TypeOK
    <3> QED
      BY <3>1, <3>3, <3>4, <3>5, MaxWritesAssumption DEF Versions
  <2>3. \A q \in Requests :
          request'[q].pc \in {"check", "store", "finish"} => request'[q].snap <= bucket[request'[q].prefix]
    BY <1>0, <1>3 DEF VersionInv
  <2> QED
    BY <1>0, <1>1, <2>1, <2>2, <2>3 DEF VersionInv
<1>10. GenerationInv'
  <2>1. Pending' = Pending
    BY <1>1 DEF Pending
  <2> QED
    BY <1>0, <1>1, <1>3, <2>1 DEF GenerationInv
<1>11. ASSUME NEW x \in Versions, NEW k \in KeyPrefixes, Reaches(x, k)
       PROVE  Reaches(x, k)'
  <2>1. served'[k] <= x
    BY <1>1, <1>4, <1>5, <1>11 DEF Reaches
  <2> QED
    BY <1>3, <1>11, <2>1 DEF Reaches
<1>12. ScanInv'
  <2>1. ASSUME NEW q \in Requests, request'[q].pc \in {"generation", "fetch", "check", "store"}
        PROVE  CachedListing(request[q].prefix)' = {}
    <3>1. CachedListing(request'[q].prefix) = {}
      BY <1>0, <1>3, <2>1 DEF ScanInv
    <3> QED
      BY <1>1, <3>1 DEF CachedListing, Places
  <2>2. ASSUME NEW q \in Requests, request'[q].pc \in {"check", "store"}
        PROVE  Reaches(request[q].snap, request[q].prefix)'
    <3>1. request'[q] = request[q] /\ Reaches(request[q].snap, request[q].prefix)
      BY <1>0, <1>3, <2>2 DEF ScanInv
    <3>2. request[q].snap \in Versions /\ request[q].prefix \in KeyPrefixes
      BY <1>0, <2>2, <3>1, RequestTyped
    <3> QED
      BY <1>11, <3>1, <3>2
  <2>3. ASSUME NEW i \in DOMAIN cache, cache[i].fresh
        PROVE  Reaches(cache[i].snap, cache[i].prefix)'
    <3>1. cache[i].snap \in Versions /\ cache[i].prefix \in KeyPrefixes
      BY <1>0, CacheIsTyped DEF Entry
    <3>2. Reaches(cache[i].snap, cache[i].prefix)
      BY <1>0, <2>3 DEF ScanInv
    <3> QED
      BY <1>1, <1>11, <3>1, <3>2
  <2> QED
    BY <1>1, <2>1, <2>2, <2>3 DEF ScanInv
<1>13. SettledInv' /\ MonotonicReads'
  BY <1>0, <1>1, <1>3 DEF SettledInv, MonotonicReads, At
<1>14. InvalidationVoidsOldScans'
  BY <1>0, <1>1 DEF InvalidationVoidsOldScans
<1> QED
  BY <1>7, <1>8, <1>9, <1>10, <1>12, <1>13, <1>14 DEF ListInv
----------------------------------------------------------------------------
(* Steps of the writers and of the clock leave the requests alone.         *)
LEMMA WriterTyped ==
    ASSUME TypeOK, NEW w \in Writers, writer[w].pc = "invalidate"
    PROVE  /\ writer[w] # Idle /\ writer[w].prefix \in KeyPrefixes /\ writer[w].version \in Versions
           /\ w \in Pending
BY DEF TypeOK, Writer, Idle, Pending

LEMMA PendingSize ==
    Pending \subseteq Writers /\ IsFiniteSet(Pending) /\ Cardinality(Pending) \in Nat
BY WritersAssumption, FS_Subset, FS_CardinalityType DEF Pending

LEMMA WriteStep ==
    ASSUME ListInv, NEW w \in Writers, NEW p \in KeyPrefixes, Write(w, p)
    PROVE  ListInv'
<1>0. /\ TypeOK /\ LockInv /\ VersionInv /\ GenerationInv /\ ScanInv /\ SettledInv
      /\ MonotonicReads /\ InvalidationVoidsOldScans
  BY DEF ListInv
<1> DEFINE n == [pc |-> "invalidate", prefix |-> p, version |-> bucket[p] + 1]
<1>1. /\ writer[w].pc = "idle" /\ writes < MaxWrites /\ writes' = writes + 1
      /\ bucket' = [bucket EXCEPT ![p] = bucket[p] + 1]
      /\ writer' = [writer EXCEPT ![w] = n]
      /\ cache' = cache /\ generation' = generation /\ scanLock' = scanLock
      /\ request' = request /\ settled' = settled /\ served' = served
  BY <1>0 DEF Write, TypeOK
<1>2. bucket[p] \in Nat /\ writes \in Nat /\ bucket[p] <= writes /\ MaxWrites \in Nat
  BY <1>0, MaxWritesAssumption DEF TypeOK, Versions, VersionInv
<1>3. writes' \in Versions /\ bucket[p] + 1 \in Versions /\ bucket[p] + 1 <= writes'
  BY <1>1, <1>2 DEF Versions
<1>4. n \in Writer /\ n.pc = "invalidate" /\ n.prefix = p /\ n.version = bucket[p] + 1
  BY <1>3 DEF Writer
<1> HIDE DEF n
<1>5. /\ bucket' \in [KeyPrefixes -> Versions] /\ bucket'[p] = bucket[p] + 1
      /\ \A k \in KeyPrefixes \ {p} : bucket'[k] = bucket[k]
  BY <1>0, <1>1, <1>3 DEF TypeOK
<1>6. \A k \in KeyPrefixes : bucket[k] \in Nat /\ bucket'[k] \in Nat /\ bucket[k] <= bucket'[k]
  <2> SUFFICES ASSUME NEW k \in KeyPrefixes
               PROVE  bucket[k] \in Nat /\ bucket'[k] \in Nat /\ bucket[k] <= bucket'[k]
    OBVIOUS
  <2>1. bucket[k] \in Nat
    BY <1>0, MaxWritesAssumption DEF TypeOK, Versions
  <2> QED
    BY <1>5, <2>1
<1>7. /\ writer' \in [Writers -> Writer] /\ writer'[w] = n
      /\ \A x \in Writers \ {w} : writer'[x] = writer[x]
  BY <1>0, <1>1, <1>4 DEF TypeOK
<1>8. TypeOK'
  BY <1>0, <1>1, <1>3, <1>5, <1>7 DEF TypeOK
<1>9. ASSUME NEW x \in Versions, NEW k \in KeyPrefixes, x <= bucket[k]
      PROVE  x <= bucket'[k]
  BY <1>6, <1>9, MaxWritesAssumption DEF Versions
<1>10. VersionInv'
  <2>1. ASSUME NEW k \in KeyPrefixes
        PROVE  served[k] <= bucket'[k] /\ settled[k] <= bucket'[k] /\ bucket'[k] <= writes'
    <3>1. served[k] \in Versions /\ settled[k] \in Versions
      BY <1>0 DEF TypeOK
    <3>2. bucket'[k] <= writes'
      BY <1>0, <1>1, <1>2, <1>3, <1>5, <1>6 DEF VersionInv
    <3> QED
      BY <1>0, <1>9, <3>1, <3>2 DEF VersionInv
  <2>2. ASSUME NEW i \in DOMAIN cache
        PROVE  cache[i].snap <= bucket'[cache[i].prefix]
    <3>1. cache[i].snap \in Versions /\ cache[i].prefix \in KeyPrefixes
      BY <1>0, CacheIsTyped DEF Entry
    <3> QED
      BY <1>0, <1>9, <3>1 DEF VersionInv
  <2>3. ASSUME NEW q \in Requests, request[q].pc \in {"check", "store", "finish"}
        PROVE  request[q].snap <= bucket'[request[q].prefix]
    <3>1. request[q].snap \in Versions /\ request[q].prefix \in KeyPrefixes
      BY <1>0, <2>3, RequestTyped
    <3> QED
      BY <1>0, <1>9, <2>3, <3>1 DEF VersionInv
  <2>4. ASSUME NEW x \in Writers, writer'[x] # Idle
        PROVE  writer'[x].version <= bucket'[writer'[x].prefix]
    <3>1. CASE x = w
      BY <1>2, <1>4, <1>5, <1>7, <3>1
    <3>2. CASE x # w
      <4>1. writer'[x] = writer[x] /\ writer[x] \in Writer /\ writer[x] # Idle
        BY <1>0, <1>7, <2>4, <3>2 DEF TypeOK
      <4>2. writer[x].version \in Versions /\ writer[x].prefix \in KeyPrefixes
        BY <4>1 DEF Writer
      <4> QED
        BY <1>0, <1>9, <4>1, <4>2 DEF VersionInv
    <3> QED
      BY <3>1, <3>2
  <2> QED
    BY <1>0, <1>1, <2>1, <2>2, <2>3, <2>4 DEF VersionInv
<1>11. GenerationInv'
  <2>1. Pending' = Pending \cup {w} /\ w \notin Pending
    BY <1>1, <1>4, <1>7 DEF Pending
  <2>2. Cardinality(Pending') = Cardinality(Pending) + 1
    BY <2>1, PendingSize, FS_AddElement
  <2>3. generation \in Nat
    BY <1>0, MaxWritesAssumption DEF TypeOK, Versions
  <2>4. generation' + Cardinality(Pending') <= writes'
    BY <1>0, <1>1, <1>2, <2>2, <2>3, PendingSize DEF GenerationInv
  <2> QED
    BY <1>0, <1>1, <2>4 DEF GenerationInv
<1>12. LockInv' /\ SettledInv' /\ MonotonicReads' /\ InvalidationVoidsOldScans'
  BY <1>0, <1>1 DEF LockInv, SettledInv, MonotonicReads, At, InvalidationVoidsOldScans
<1>13. ScanInv'
  BY <1>0, <1>1 DEF ScanInv, Reaches, CachedListing, Places
<1> QED
  BY <1>8, <1>10, <1>11, <1>12, <1>13 DEF ListInv

LEMMA WriteFailsStep ==
    ASSUME ListInv, NEW w \in Writers, WriteFails(w)
    PROVE  ListInv'
<1>0. /\ TypeOK /\ LockInv /\ VersionInv /\ GenerationInv /\ ScanInv /\ SettledInv
      /\ MonotonicReads /\ InvalidationVoidsOldScans
  BY DEF ListInv
<1>1. /\ writer[w].pc = "invalidate" /\ writer' = [writer EXCEPT ![w] = Idle]
      /\ bucket' = bucket /\ writes' = writes /\ cache' = cache /\ generation' = generation
      /\ scanLock' = scanLock /\ request' = request /\ settled' = settled /\ served' = served
  BY DEF WriteFails
<1>2. /\ writer' \in [Writers -> Writer] /\ writer'[w] = Idle
      /\ \A x \in Writers \ {w} : writer'[x] = writer[x]
  BY <1>0, <1>1 DEF TypeOK, Writer
<1>3. TypeOK'
  BY <1>0, <1>1, <1>2 DEF TypeOK
<1>4. VersionInv'
  BY <1>0, <1>1, <1>2 DEF VersionInv
<1>5. GenerationInv'
  <2>1. Pending' \subseteq Pending
    BY <1>2 DEF Pending, Idle
  <2>2. Cardinality(Pending') <= Cardinality(Pending) /\ Cardinality(Pending') \in Nat
        /\ Cardinality(Pending) \in Nat
    BY <2>1, PendingSize, FS_Subset, FS_CardinalityType
  <2>3. generation \in Nat /\ writes \in Nat
    BY <1>0, MaxWritesAssumption DEF TypeOK, Versions
  <2>4. generation + Cardinality(Pending) <= writes
    BY <1>0 DEF GenerationInv
  <2>5. generation' + Cardinality(Pending') <= writes'
    BY <1>1, <2>2, <2>3, <2>4
  <2> QED
    BY <1>0, <1>1, <2>5 DEF GenerationInv
<1>6. LockInv' /\ SettledInv' /\ MonotonicReads' /\ InvalidationVoidsOldScans'
  BY <1>0, <1>1 DEF LockInv, SettledInv, MonotonicReads, At, InvalidationVoidsOldScans
<1>7. ScanInv'
  BY <1>0, <1>1 DEF ScanInv, Reaches, CachedListing, Places
<1> QED
  BY <1>3, <1>4, <1>5, <1>6, <1>7 DEF ListInv

(* A scan under way is no longer of the generation, unless it has compared *)
(* it already.                                                             *)
LEMMA InvalidateStep ==
    ASSUME ListInv, NEW w \in Writers, InvalidateListCache(w)
    PROVE  ListInv'
<1>0. /\ TypeOK /\ LockInv /\ VersionInv /\ GenerationInv /\ ScanInv /\ SettledInv
      /\ MonotonicReads /\ InvalidationVoidsOldScans
  BY DEF ListInv
<1> DEFINE p == writer[w].prefix
           storing == \E r \in Requests : At(r, "store") /\ request[r].prefix = p
           v == IF storing THEN settled[p] ELSE AtLeast(settled[p], writer[w].version)
<1>1. /\ writer[w].pc = "invalidate" /\ writer' = [writer EXCEPT ![w] = Idle]
      /\ cache' = <<>> /\ generation' = generation + 1
      /\ settled' = [settled EXCEPT ![p] = v]
      /\ bucket' = bucket /\ writes' = writes
      /\ scanLock' = scanLock /\ request' = request /\ served' = served
  BY <1>0 DEF InvalidateListCache, TypeOK
<1>2. /\ writer[w] # Idle /\ p \in KeyPrefixes /\ writer[w].version \in Versions /\ w \in Pending
      /\ settled[p] \in Versions
  BY <1>0, <1>1, WriterTyped DEF TypeOK
<1>3. v \in Versions /\ v <= bucket[p] /\ (storing => v = settled[p])
  <2>1. writer[w].version <= bucket[p] /\ settled[p] <= bucket[p]
    BY <1>0, <1>2 DEF VersionInv
  <2> QED
    BY <1>2, <2>1 DEF AtLeast
<1> HIDE DEF v
<1>4. /\ settled' \in [KeyPrefixes -> Versions] /\ settled'[p] = v
      /\ \A k \in KeyPrefixes \ {p} : settled'[k] = settled[k]
  BY <1>0, <1>1, <1>2, <1>3 DEF TypeOK
<1>5. /\ writer' \in [Writers -> Writer] /\ writer'[w] = Idle
      /\ \A x \in Writers \ {w} : writer'[x] = writer[x]
  BY <1>0, <1>1 DEF TypeOK, Writer
<1>6. generation \in Nat /\ writes \in Nat /\ writes <= MaxWrites /\ MaxWrites \in Nat
  BY <1>0, MaxWritesAssumption DEF TypeOK, Versions
<1>7. Pending' = Pending \ {w}
  BY <1>2, <1>5 DEF Pending, Idle
<1>8. /\ Cardinality(Pending') = Cardinality(Pending) - 1
      /\ Cardinality(Pending) \in Nat /\ Cardinality(Pending') \in Nat
  <2>1. IsFiniteSet(Pending \ {w}) /\ Cardinality(Pending \ {w}) = Cardinality(Pending) - 1
    BY <1>2, PendingSize, FS_RemoveElement
  <2> QED
    BY <1>7, <2>1, PendingSize, FS_CardinalityType
<1>9. generation' + Cardinality(Pending') <= writes' /\ generation' \in Versions
  <2>1. generation + Cardinality(Pending) <= writes
    BY <1>0 DEF GenerationInv
  <2> QED
    BY <1>1, <1>6, <1>8, <2>1 DEF Versions
<1>10. DOMAIN cache' = {} /\ cache' \in Seq(Entry) /\ Len(cache') <= CacheMax
  BY <1>1, CacheMaxAssumption
<1>11. TypeOK'
  BY <1>0, <1>1, <1>4, <1>5, <1>9, <1>10 DEF TypeOK
<1>12. VersionInv'
  <2>1. \A k \in KeyPrefixes : settled'[k] <= bucket[k]
    BY <1>0, <1>3, <1>4 DEF VersionInv
  <2> QED
    BY <1>0, <1>1, <1>5, <1>10, <2>1 DEF VersionInv
<1>13. \A r \in Requests : request[r].pc \in {"fetch", "check"} =>
         request[r].gen <= generation' /\ request[r].gen # generation'
  <2> SUFFICES ASSUME NEW r \in Requests, request[r].pc \in {"fetch", "check"}
               PROVE  request[r].gen <= generation' /\ request[r].gen # generation'
    OBVIOUS
  <2>1. request[r].gen \in Nat /\ request[r].gen <= generation
    BY <1>0, RequestTyped, MaxWritesAssumption DEF GenerationInv, Versions
  <2> QED
    BY <1>1, <1>6, <2>1
<1>14. GenerationInv'
  BY <1>1, <1>9, <1>13 DEF GenerationInv
<1>15. ScanInv'
  <2>1. ASSUME NEW q \in Requests
        PROVE  CachedListing(request[q].prefix)' = {}
    BY <1>10 DEF CachedListing, Places
  <2> QED
    BY <1>0, <1>1, <1>10, <2>1 DEF ScanInv, Reaches
<1>16. SettledInv'
  <2>1. ASSUME NEW r \in Requests, request[r].pc = "store"
        PROVE  settled'[request[r].prefix] <= request[r].snap
    <3>1. settled[request[r].prefix] <= request[r].snap /\ request[r].prefix \in KeyPrefixes
      BY <1>0, <2>1, RequestTyped DEF SettledInv
    <3>2. settled'[request[r].prefix] = settled[request[r].prefix]
      BY <1>3, <1>4, <2>1, <3>1 DEF At
    <3> QED
      BY <3>1, <3>2
  <2> QED
    BY <1>1, <1>13, <2>1 DEF SettledInv
<1>17. LockInv' /\ MonotonicReads' /\ InvalidationVoidsOldScans'
  BY <1>0, <1>1, <1>10 DEF LockInv, MonotonicReads, At, InvalidationVoidsOldScans
<1> QED
  BY <1>11, <1>12, <1>14, <1>15, <1>16, <1>17 DEF ListInv

LEMMA ExpireStep ==
    ASSUME ListInv, Expire
    PROVE  ListInv'
<1>0. /\ TypeOK /\ LockInv /\ VersionInv /\ GenerationInv /\ ScanInv /\ SettledInv
      /\ MonotonicReads /\ InvalidationVoidsOldScans
  BY DEF ListInv
<1>1. PICK i \in DOMAIN cache : cache' = [cache EXCEPT ![i] = [cache[i] EXCEPT !.fresh = FALSE]]
  BY DEF Expire
<1>2. /\ bucket' = bucket /\ writes' = writes /\ generation' = generation /\ scanLock' = scanLock
      /\ request' = request /\ writer' = writer /\ settled' = settled /\ served' = served
  BY DEF Expire
<1> DEFINE e == [cache[i] EXCEPT !.fresh = FALSE]
<1>3. /\ cache \in Seq(Entry) /\ Len(cache) <= CacheMax /\ Distinct(cache)
      /\ cache[i] \in Entry /\ i \in 1 .. Len(cache) /\ DOMAIN cache = 1 .. Len(cache)
  BY <1>0, CacheIsTyped DEF Cache
<1>4. e \in Entry /\ e.prefix = cache[i].prefix /\ e.snap = cache[i].snap /\ e.fresh = FALSE
  BY <1>3 DEF Entry
<1> HIDE DEF e
<1>5. cache' = [cache EXCEPT ![i] = e]
  BY <1>1 DEF e
<1>6. /\ cache' \in Seq(Entry) /\ Len(cache') = Len(cache)
      /\ \A j \in 1 .. Len(cache) : cache'[j] = IF j = i THEN e ELSE cache[j]
  BY <1>3, <1>4, <1>5, ExceptSeq
<1>7. DOMAIN cache' = DOMAIN cache
  BY <1>3, <1>6, LenProperties
<1>8. \A j \in DOMAIN cache : /\ cache'[j].prefix = cache[j].prefix /\ cache'[j].snap = cache[j].snap
                              /\ cache'[j].fresh => cache[j].fresh
  BY <1>3, <1>4, <1>6
<1>9. Distinct(cache')
  BY <1>3, <1>7, <1>8 DEF Distinct
<1>10. TypeOK'
  BY <1>0, <1>2, <1>3, <1>6, <1>9 DEF TypeOK, Distinct
<1>11. VersionInv'
  BY <1>0, <1>2, <1>7, <1>8 DEF VersionInv
<1>12. GenerationInv'
  BY <1>0, <1>2 DEF GenerationInv, Pending
<1>13. ScanInv'
  <2>1. ASSUME NEW q \in Requests, CachedListing(request[q].prefix) = {}
        PROVE  CachedListing(request[q].prefix)' = {}
    BY <1>2, <1>7, <1>8, <2>1 DEF CachedListing, Places
  <2>2. ASSUME NEW j \in DOMAIN cache, cache'[j].fresh
        PROVE  Reaches(cache[j].snap, cache[j].prefix)'
    BY <1>0, <1>2, <1>8, <2>2 DEF ScanInv, Reaches
  <2>3. \A q \in Requests : request[q].pc \in {"check", "store"} =>
           Reaches(request[q].snap, request[q].prefix)'
    BY <1>0, <1>2 DEF ScanInv, Reaches
  <2> QED
    BY <1>0, <1>2, <1>7, <2>1, <2>2, <2>3 DEF ScanInv
<1>14. LockInv' /\ SettledInv' /\ MonotonicReads'
  BY <1>0, <1>2 DEF LockInv, SettledInv, MonotonicReads, At
<1>15. InvalidationVoidsOldScans'
  BY <1>0, <1>2, <1>7, <1>8 DEF InvalidationVoidsOldScans
<1> QED
  BY <1>10, <1>11, <1>12, <1>13, <1>14, <1>15 DEF ListInv

LEMMA ListInvStep == ListInv /\ [Next]_vars => ListInv'
<1> SUFFICES ASSUME ListInv, [Next]_vars PROVE ListInv'
  OBVIOUS
<1>1. ASSUME NEW r \in Requests, Serve(r) PROVE ListInv'
  <2>1. CASE Look(r) \/ Recheck(r)
    BY <2>1, LookupStep DEF Look, Recheck, At
  <2>2. CASE AcquireScan(r)
    BY <2>2, AcquireScanStep
  <2>3. CASE ReadGeneration(r)
    BY <2>3, ReadGenerationStep
  <2>4. CASE FetchAllObjects(r)
    BY <2>4, FetchAllObjectsStep
  <2>5. CASE CheckStale(r)
    BY <2>5, CheckStaleStep
  <2>6. CASE Store(r)
    BY <2>6, StoreStep
  <2>7. CASE Finish(r)
    BY <2>7, FinishStep
  <2> QED
    BY <1>1, <2>1, <2>2, <2>3, <2>4, <2>5, <2>6, <2>7 DEF Serve
<1>2. ASSUME NEW r \in Requests, FetchFails(r) \/ \E p \in KeyPrefixes : Start(r, p) PROVE ListInv'
  BY <1>2, FetchFailsStep, StartStep
<1>3. ASSUME NEW w \in Writers,
             InvalidateListCache(w) \/ WriteFails(w) \/ \E p \in KeyPrefixes : Write(w, p)
      PROVE  ListInv'
  BY <1>3, InvalidateStep, WriteFailsStep, WriteStep
<1>4. CASE Expire
  BY <1>4, ExpireStep
<1>5. CASE UNCHANGED vars
  <2>1. /\ bucket' = bucket /\ writes' = writes /\ cache' = cache /\ generation' = generation
        /\ scanLock' = scanLock /\ request' = request /\ writer' = writer
        /\ settled' = settled /\ served' = served
    BY <1>5 DEF vars
  <2> QED
    BY <2>1 DEF ListInv, TypeOK, LockInv, VersionInv, GenerationInv, Pending, ScanInv, Reaches,
                CachedListing, Places, SettledInv, MonotonicReads, At, InvalidationVoidsOldScans
<1> QED
  BY <1>1, <1>2, <1>3, <1>4, <1>5 DEF Next
----------------------------------------------------------------------------
(* The inductive invariant of the listing cache.                           *)
THEOREM ListInvariant == Spec => []ListInv
BY ListInvInit, ListInvStep, PTL DEF Spec

(* The cache stays within its cap with no prefix in it twice, and the rest *)
(* of the state is of its type.                                            *)
THEOREM ListTypes == Spec => []TypeOK
<1>1. ListInv => TypeOK
  BY DEF ListInv
<1> QED
  BY <1>1, ListInvariant, PTL

(* Listings of a prefix never go back in time.                             *)
THEOREM ReadsStayMonotonic == Spec => []MonotonicReads
<1>1. ListInv => MonotonicReads
  BY DEF ListInv
<1> QED
  BY <1>1, ListInvariant, PTL

(* What an invalidation voided is not cached again, but for a store that   *)
(* was already under way.                                                  *)
THEOREM InvalidationsHold == Spec => []InvalidationVoidsOldScans
<1>1. ListInv => InvalidationVoidsOldScans
  BY DEF ListInv
<1> QED
  BY <1>1, ListInvariant, PTL
=============================================================================
