---------------------------- MODULE UploadProofs ----------------------------
(***************************************************************************)
(* Proofs about UploadFlow, for any keys, requests and bounds.             *)
(***************************************************************************)
EXTENDS UploadFlow, TLAPS

(* Versions in flight are old ones, and faulty are those put with a fault. *)
VersionInv ==
  /\ \A k \in Present : object[k].version <= puts
  /\ \A v \in faulty \cup midway : v <= puts
  /\ \A k \in Present : object[k].fault # "none" <=> object[k].version \in faulty
  /\ \A r \in Requests : request[r] # Free => request[r].version <= puts
  /\ \A k \in Keys : index[k] <= puts
  /\ \A j \in jobs : j.version <= puts

(* What a completion has found out holds of the object, or the object is   *)
(* another one by now.                                                     *)
SeenInv ==
  \A r \in Requests : request[r].at \in Completing =>
    LET k == request[r].key IN
    /\ k \in Present /\ object[k].version \notin midway =>
         /\ At(r, "sniff") => object[k].fault # "size"
         /\ At(r, "reject") => object[k].fault # "none"
         /\ request[r].at \in {"accept", "fetch"} => object[k].fault = "none"
    /\ At(r, "forward") /\ request[r].version \in faulty => request[r].version \in midway

(* ... and so for what is forwarded and indexed.                           *)
ForwardInv ==
  /\ \A r \in Requests : request[r].at \in {"fetch", "forward"} => request[r].key \in Documents
  /\ \A r \in Requests : At(r, "forward") => request[r].version \in Versions
  /\ \A j \in jobs : j.version \in faulty => j.version \in midway
  /\ IndexedWasChecked

(* A listing of these keys shows the accepted ones, and of those that are  *)
(* gone none but the missed and those that somebody is about to invalidate.*)
Dropping(k) == \E r \in On(k) : request[r].at \in {"rejected", "deleted"}
Shows(keys) ==
  /\ accepted \subseteq keys \cup missed
  /\ \A k \in keys : object[k] = NoObject => k \in missed \/ Dropping(k)

(* What a scan has seen is as good as a listing, once it is past the       *)
(* comparison or sure to fail it.                                          *)
ListingInv ==
  /\ accepted \subseteq Present
  /\ listing # NoListing => scan = NoScan /\ Shows(listing)
  /\ scan # NoScan =>
       /\ scan.at = "compare" /\ ~scan.void => Shows(scan.seen)
       /\ scan.at = "store" => Shows(scan.seen)

(* What may yet become searchable of a file that is gone will be purged,   *)
(* or the file is one of those the index may be behind with.               *)
Pending(k) == \/ index[k] # 0
              \/ JobsOf(k) # {}
              \/ \E r \in On(k) : At(r, "forward")

PurgeInv ==
  \A k \in Keys : object[k] = NoObject /\ Pending(k) =>
    k \in excused \/ \E r \in On(k) : request[r].at \in {"deleted", "purge"}

UploadInv == TypeOK /\ VersionInv /\ SeenInv /\ ForwardInv /\ ListingInv /\ PurgeInv

----------------------------------------------------------------------------
LEMMA UploadInvInit == Init => UploadInv
<1> SUFFICES ASSUME Init PROVE UploadInv
  OBVIOUS
<1> USE DEF Init
<1>1. TypeOK
  BY UploadAssumption DEF TypeOK, Request, Free
<1>2. Present = {} /\ \A r \in Requests : request[r] = Free /\ request[r].at = "free"
  BY DEF Present, Free
<1>3. VersionInv /\ SeenInv /\ ForwardInv
  BY <1>2, UploadAssumption DEF VersionInv, SeenInv, ForwardInv, IndexedWasChecked, At
<1>4. ListingInv
  BY <1>2 DEF ListingInv, Shows, Dropping
<1>5. PurgeInv
  BY <1>2 DEF PurgeInv, Pending, JobsOf, On
<1> QED
  BY <1>1, <1>3, <1>4, <1>5 DEF UploadInv

LEMMA PutKeepsInv ==
    ASSUME UploadInv, NEW k \in Keys, NEW fault \in Faults, Put(k, fault) PROVE UploadInv'
<1> USE DEF Put, stores, cache, history, UploadInv
<1>0. /\ puts \in Nat /\ puts' = puts + 1 /\ puts' \in Versions
      /\ object' = [object EXCEPT ![k] = [version |-> puts', fault |-> fault]]
      /\ [version |-> puts', fault |-> fault] \in Object
  BY UploadAssumption DEF TypeOK, Versions, Object
<1>1. TypeOK'
  <2>1. faulty' \subseteq Versions /\ midway' \subseteq Versions
    BY <1>0 DEF TypeOK
  <2>2. accepted' \subseteq Keys /\ puts' \in 0..MaxPuts
    BY <1>0, UploadAssumption DEF TypeOK, Versions
  <2>3. object' \in [Keys -> Object \cup {NoObject}]
    BY <1>0 DEF TypeOK
  <2> QED
    BY <2>1, <2>2, <2>3 DEF TypeOK
<1>2. VersionInv'
  <2>1. /\ object'[k] = [version |-> puts', fault |-> fault]
        /\ \A l \in Keys \ {k} : object'[l] = object[l]
    BY <1>0 DEF TypeOK
  <2>2. \A l \in Present' : object'[l].version <= puts'
    BY <1>0, <2>1 DEF VersionInv, Present, TypeOK, Object, Versions
  <2>3. \A v \in faulty' \cup midway' : v <= puts'
    BY <1>0 DEF VersionInv, TypeOK, Versions
  <2>4. puts' \in faulty' <=> fault # "none"
    BY <1>0 DEF VersionInv, TypeOK, Versions
  <2>5. \A l \in Present \ {k} : object[l].version \in faulty' <=> object[l].version \in faulty
    BY <1>0 DEF VersionInv, TypeOK, Present, Object, Versions
  <2>6. \A l \in Present' : object'[l].fault # "none" <=> object'[l].version \in faulty'
    BY <2>1, <2>4, <2>5 DEF VersionInv, Present
  <2>7. \A r \in Requests : request'[r] # Free => request'[r].version <= puts'
    BY <1>0 DEF VersionInv, TypeOK, Request
  <2>8. /\ \A l \in Keys : index'[l] <= puts'
        /\ \A j \in jobs' : j.version <= puts'
    BY <1>0 DEF VersionInv, TypeOK, Jobs, Versions
  <2> QED
    BY <2>2, <2>3, <2>6, <2>7, <2>8 DEF VersionInv
<1>3. SeenInv'
  BY DEF SeenInv, TypeOK, VersionInv, Free, At, Present, On
<1>4. ForwardInv'
  BY DEF ForwardInv, IndexedWasChecked, VersionInv, TypeOK, At
<1>5. ListingInv'
  <2>1. Present' = Present \cup {k} /\ NoObject \notin Object
    BY <1>0, NoObjectAssumption DEF Present, TypeOK
  <2>2. listing' = listing /\ request' = request /\ accepted' = accepted \ {k}
    OBVIOUS
  <2>3. \A l \in Keys : object'[l] = NoObject => object[l] = NoObject
    BY <1>0, <2>1 DEF TypeOK
  <2> QED
    BY <2>1, <2>2, <2>3 DEF ListingInv, Shows, Dropping, On, TypeOK
<1>6. PurgeInv'
  <2>1. UNCHANGED <<index, jobs, request, excused>>
    OBVIOUS
  <2>2. \A l \in Keys : object'[l] = NoObject => object[l] = NoObject
    BY <1>0, NoObjectAssumption DEF TypeOK
  <2> QED
    BY <2>1, <2>2 DEF PurgeInv, Pending, JobsOf, On, At
<1> QED
  BY <1>1, <1>2, <1>3, <1>4, <1>5, <1>6

LEMMA GetFilesKeepsInv ==
    ASSUME UploadInv, Listing PROVE UploadInv'
<1> USE DEF Listing, GetFiles, FetchAllObjects, CompareGeneration, StoreListing, ListingExpires,
            Storing, stores, cache, history, UploadInv
<1>1. TypeOK'
  <2>1. scan' \in Scan \cup {NoScan}
    <3>1. CASE FetchAllObjects
      <4>1. scan \in Scan /\ Present \in SUBSET Keys
        BY <3>1 DEF TypeOK, Present
      <4>2. [scan EXCEPT !.at = "compare", !.seen = Present] \in Scan
        BY <4>1 DEF Scan
      <4> QED
        BY <3>1, <4>2
    <3>2. CASE CompareGeneration
      <4>1. [scan EXCEPT !.at = "store"] \in Scan
        BY <3>2 DEF TypeOK, Scan
      <4> QED
        BY <3>2, <4>1
    <3>3. CASE GetFiles
      <4>1. [at |-> "list", seen |-> {}, void |-> FALSE] \in Scan
        BY DEF Scan
      <4> QED
        BY <3>3, <4>1
    <3>4. CASE StoreListing \/ ListingExpires
      BY <3>4 DEF TypeOK
    <3> QED
      BY <3>1, <3>2, <3>3, <3>4
  <2>2. listing' = NoListing \/ listing' \subseteq Keys
    BY NoScanAssumption DEF TypeOK, Scan
  <2> QED
    BY <2>1, <2>2 DEF TypeOK
<1>2. VersionInv'
  BY DEF VersionInv, Present
<1>3. SeenInv'
  BY DEF SeenInv, At, Present
<1>4. ForwardInv'
  BY DEF ForwardInv, IndexedWasChecked, At
<1>5. ListingInv'
  <2>1. CASE GetFiles \/ CompareGeneration \/ StoreListing \/ ListingExpires
    BY <2>1, NoScanAssumption DEF ListingInv, Shows, Dropping, Present, On, TypeOK, Scan
  <2>2. CASE FetchAllObjects
    <3>1. scan \in Scan /\ listing' = NoListing /\ Present' = Present
      BY <2>2 DEF ListingInv, TypeOK, Present
    <3>2. Shows(Present)'
      BY <2>2 DEF ListingInv, Shows, Present
    <3>3. scan' = NoScan \/ (scan'.at = "compare" /\ scan'.seen = Present')
      BY <2>2, <3>1 DEF Scan
    <3>4. scan'.at = "compare" => scan'.at # "store"
      OBVIOUS
    <3> QED
      BY <2>2, <3>1, <3>2, <3>3, <3>4 DEF ListingInv, Shows, Present
  <2> QED
    BY <2>1, <2>2
<1>6. PurgeInv'
  BY DEF PurgeInv, Pending, JobsOf, On, At
<1> QED
  BY <1>1, <1>2, <1>3, <1>4, <1>5, <1>6

LEMMA StartsKeepsInv ==
    ASSUME UploadInv, NEW r \in Requests, NEW k \in Keys, FinalizeUpload(r, k) \/ RemoveFile(r, k) PROVE UploadInv'
<1> USE DEF FinalizeUpload, RemoveFile, stores, cache, history, UploadInv
<1>0. PICK pc \in {"head", "delete"} :
        request' = [request EXCEPT ![r] = [at |-> pc, key |-> k, version |-> 0]]
  OBVIOUS
<1>1. TypeOK'
  <2>1. [at |-> pc, key |-> k, version |-> 0] \in Request
    BY UploadAssumption DEF Request, Completing, Removing
  <2> QED
    BY <1>0, <2>1 DEF TypeOK
<1>2. VersionInv'
  <2>1. \A q \in Requests : request'[q] # Free => request'[q].version <= puts
    BY <1>0, UploadAssumption DEF VersionInv, TypeOK
  <2> QED
    BY <2>1 DEF VersionInv, Present
<1>3. SeenInv'
  BY DEF SeenInv, TypeOK, At, Present
<1>4. ForwardInv'
  BY DEF ForwardInv, IndexedWasChecked, TypeOK, At
<1>5. ListingInv'
  BY DEF ListingInv, Shows, Dropping, TypeOK, At, Present, On
<1>6. PurgeInv'
  BY DEF PurgeInv, Pending, JobsOf, On, TypeOK, At
<1> QED
  BY <1>1, <1>2, <1>3, <1>4, <1>5, <1>6

LEMMA HeadKeepsInv ==
    ASSUME UploadInv, NEW r \in Requests, Head(r) \/ Sniff(r) PROVE UploadInv'
<1> USE DEF Head, Sniff, stores, cache, history, UploadInv
<1>1. TypeOK'
  BY DEF TypeOK, Request, Free, Completing, At, Go, Ends
<1>2. VersionInv'
  BY DEF VersionInv, TypeOK, Request, Free, At, Go, Ends, Present
<1>3. SeenInv'
  BY DEF SeenInv, TypeOK, Request, Free, Object, Removing, At, Go, Ends, Present, Faults
<1>4. ForwardInv'
  BY DEF ForwardInv, IndexedWasChecked, TypeOK, Request, Free, At, Go, Ends
<1>5. ListingInv'
  BY DEF ListingInv, Shows, Dropping, TypeOK, At, Go, Ends, Present, On
<1>6. PurgeInv'
  BY DEF PurgeInv, Pending, JobsOf, On, TypeOK, Request, Free, At, Go, Ends
<1> QED
  BY <1>1, <1>2, <1>3, <1>4, <1>5, <1>6

LEMMA DropKeepsInv ==
    ASSUME UploadInv, NEW r \in Requests, Reject(r) \/ Delete(r) \/ DeleteUnanswered(r) PROVE UploadInv'
<1> USE DEF Reject, Delete, DeleteUnanswered, Dropped, stores, cache, history, UploadInv
<1>1. TypeOK'
  BY UploadAssumption DEF TypeOK, Request, Free, Completing, Removing, At, Go, Ends
<1>2. VersionInv'
  BY DEF VersionInv, TypeOK, Request, Free, At, Go, Ends, Present
<1>3. SeenInv'
  BY DEF SeenInv, TypeOK, Request, Free, At, Go, Ends, Present
<1>4. ForwardInv'
  BY DEF ForwardInv, IndexedWasChecked, TypeOK, Request, Free, At, Go, Ends
<1>5. ListingInv'
  <2>1. request[r].key \in Keys /\ request[r].at \notin {"rejected", "deleted"}
    BY DEF TypeOK, Request, Free, At
  <2>2. /\ Present' = Present \ {request[r].key}
        /\ UNCHANGED <<listing, scan>> /\ missed \subseteq missed'
        /\ accepted' = accepted \ {request[r].key}
    BY <2>1 DEF Present, TypeOK
  <2>3. \A k \in Keys : k = request[r].key => k \in missed' \/ Dropping(k)'
    BY <2>1 DEF TypeOK, Request, Free, At, Go, On, Dropping
  <2>4. \A k \in Keys : Dropping(k) => Dropping(k)'
    BY <2>1 DEF TypeOK, Request, Free, At, Go, Ends, On, Dropping
  <2>5. ASSUME NEW keys \in SUBSET Keys, Shows(keys) PROVE Shows(keys)'
    <3> HIDE DEF Reject, Delete, DeleteUnanswered, Dropped
    <3>1. \A k \in Keys : object'[k] = NoObject => k = request[r].key \/ object[k] = NoObject
      BY <2>1, <2>2 DEF Present
    <3>2. ASSUME NEW k \in keys, object'[k] = NoObject PROVE k \in missed' \/ Dropping(k)'
      <4>1. CASE k = request[r].key
        BY <2>3, <4>1
      <4>2. CASE object[k] = NoObject
        BY <2>2, <2>4, <2>5, <4>2 DEF Shows
      <4> QED
        BY <3>1, <3>2, <4>1, <4>2
    <3>3. accepted' \subseteq keys \cup missed'
      BY <2>2, <2>5 DEF Shows
    <3> QED
      BY <3>2, <3>3 DEF Shows
  <2>6. /\ listing # NoListing => listing \in SUBSET Keys
        /\ scan # NoScan => scan.seen \in SUBSET Keys
    BY DEF TypeOK, Scan
  <2> QED
    BY <2>1, <2>2, <2>5, <2>6 DEF ListingInv
<1>6. PurgeInv'
  BY DEF PurgeInv, Pending, JobsOf, On, TypeOK, Request, Free, At, Go, Ends
<1> QED
  BY <1>1, <1>2, <1>3, <1>4, <1>5, <1>6

(* No listing survives an invalidation, and a scan that does will be wrong *)
(* about no other key.                                                     *)
LEMMA Invalidated ==
    ASSUME TypeOK, NEW k \in Keys, InvalidateListCache(k)
    PROVE  /\ listing' = NoListing /\ missed' \subseteq Keys /\ scan' \in Scan \cup {NoScan}
           /\ scan = NoScan => scan' = NoScan
           /\ scan # NoScan =>
                /\ scan'.at = scan.at /\ scan'.seen = scan.seen /\ scan'.void
                /\ scan.at = "store" => missed' = missed \cup {k}
<1>1. scan # NoScan => scan' = [scan EXCEPT !.void = TRUE] /\ scan \in Scan
  BY DEF InvalidateListCache, TypeOK
<1>2. /\ scan = NoScan => scan' = NoScan
      /\ scan # NoScan => scan' \in Scan /\ scan'.at = scan.at /\ scan'.seen = scan.seen /\ scan'.void
  BY <1>1 DEF InvalidateListCache, Scan
<1>3. scan # NoScan /\ scan.at = "store" => missed' = missed \cup {k}
  BY DEF InvalidateListCache, Storing
<1> QED
  BY <1>2, <1>3 DEF InvalidateListCache, TypeOK

LEMMA ForgetKeepsInv ==
    ASSUME UploadInv, NEW r \in Requests, Rejected(r) \/ Deleted(r) PROVE UploadInv'
<1> USE DEF Rejected, Deleted, stores, cache, history, UploadInv
<1>0. /\ request[r].key \in Keys /\ InvalidateListCache(request[r].key)
      /\ request[r].at \notin {"free", "forward"}
  BY DEF TypeOK, Request, Free, At
<1>1. TypeOK'
  BY <1>0, Invalidated DEF TypeOK, Request, Free, Removing, At, Go, Ends
<1>2. VersionInv'
  BY DEF VersionInv, TypeOK, Request, Free, At, Go, Ends, Present
<1>3. SeenInv'
  BY DEF SeenInv, TypeOK, Request, Free, At, Go, Ends, Present
<1>4. ForwardInv'
  BY DEF ForwardInv, IndexedWasChecked, TypeOK, Request, Free, At, Go, Ends
<1>5. ListingInv'
  <2> DEFINE key == request[r].key
  <2>1. /\ \A k \in Keys \ {key} : Dropping(k) => Dropping(k)'
        /\ Present' = Present /\ accepted' \subseteq (accepted \cup {key}) \cap Present
    BY <1>0 DEF ListingInv, Dropping, Present, TypeOK, Request, Free, On, At, Go, Ends
  <2>2. ASSUME NEW keys \in SUBSET Keys, Shows(keys), missed' = missed \cup {key}
        PROVE  Shows(keys)'
    BY <2>1, <2>2 DEF Shows, TypeOK, Present
  <2>3. scan # NoScan => scan.seen \in SUBSET Keys
    BY DEF TypeOK, Scan
  <2> QED
    BY <1>0, <2>1, <2>2, <2>3, Invalidated DEF ListingInv
<1>6. PurgeInv'
  BY DEF PurgeInv, Pending, JobsOf, On, TypeOK, Request, Free, At, Go, Ends
<1> QED
  BY <1>1, <1>2, <1>3, <1>4, <1>5, <1>6

LEMMA AcceptKeepsInv ==
    ASSUME UploadInv, NEW r \in Requests, Accept(r) PROVE UploadInv'
<1> USE DEF Accept, stores, cache, history, UploadInv
<1>0. /\ request[r].key \in Keys /\ InvalidateListCache(request[r].key)
      /\ request[r].at \notin {"free", "forward"}
  BY DEF TypeOK, Request, Free, At
<1>1. TypeOK'
  BY <1>0, Invalidated DEF TypeOK, Request, Free, Completing, At, Go, Ends
<1>2. VersionInv'
  BY DEF VersionInv, TypeOK, Request, Free, At, Go, Ends, Present
<1>3. SeenInv'
  BY DEF SeenInv, TypeOK, Request, Free, Removing, At, Go, Ends, Present
<1>4. ForwardInv'
  BY DEF ForwardInv, IndexedWasChecked, SeenInv, VersionInv, TypeOK, Request, Free, Object, Versions, Jobs, Completing, Removing, At, Go, Ends, Present, Faults
<1>5. ListingInv'
  <2> DEFINE key == request[r].key
  <2>1. /\ \A k \in Keys \ {key} : Dropping(k) => Dropping(k)'
        /\ Present' = Present /\ accepted' \subseteq (accepted \cup {key}) \cap Present
    BY <1>0 DEF ListingInv, Dropping, Present, TypeOK, Request, Free, On, At, Go, Ends
  <2>2. ASSUME NEW keys \in SUBSET Keys, Shows(keys), missed' = missed \cup {key}
        PROVE  Shows(keys)'
    BY <2>1, <2>2 DEF Shows, TypeOK, Present
  <2>3. scan # NoScan => scan.seen \in SUBSET Keys
    BY DEF TypeOK, Scan
  <2> QED
    BY <1>0, <2>1, <2>2, <2>3, Invalidated DEF ListingInv
<1>6. PurgeInv'
  BY DEF PurgeInv, Pending, JobsOf, On, TypeOK, Request, Free, At, Go, Ends, Completing, Removing, Alone, Jobs
<1> QED
  BY <1>1, <1>2, <1>3, <1>4, <1>5, <1>6

LEMMA FetchKeepsInv ==
    ASSUME UploadInv, NEW r \in Requests, Fetch(r) PROVE UploadInv'
<1> USE DEF Fetch, stores, cache, history, UploadInv
<1>1. TypeOK'
  BY DEF TypeOK, Request, Free, Completing, At, Ends
<1>2. VersionInv'
  BY DEF VersionInv, TypeOK, Request, Free, At, Ends, Present
<1>3. SeenInv'
  BY DEF SeenInv, TypeOK, VersionInv, Request, Free, Removing, At, Ends, Present
<1>4. ForwardInv'
  BY DEF ForwardInv, IndexedWasChecked, TypeOK, Request, Free, Object, At, Ends, Present
<1>5. ListingInv'
  BY DEF ListingInv, Shows, Dropping, TypeOK, At, Ends, Present, On
<1>6. PurgeInv'
  BY DEF PurgeInv, Pending, JobsOf, On, TypeOK, Request, Free, At, Ends
<1> QED
  BY <1>1, <1>2, <1>3, <1>4, <1>5, <1>6

LEMMA ForwardKeepsInv ==
    ASSUME UploadInv, NEW r \in Requests, Forward(r) PROVE UploadInv'
<1> USE DEF Forward, stores, cache, history, UploadInv
<1>1. TypeOK'
  <2>1. [key |-> request[r].key, version |-> request[r].version] \in Jobs
    BY DEF ForwardInv, At, Jobs
  <2> QED
    BY <2>1 DEF TypeOK, Request, Ends
<1>2. VersionInv'
  BY DEF VersionInv, Free, At, Ends, Present
<1>3. SeenInv'
  BY DEF SeenInv, Free, At, Ends, Present
<1>4. ForwardInv'
  BY DEF ForwardInv, IndexedWasChecked, SeenInv, Free, Completing, At, Ends
<1>5. ListingInv'
  BY DEF ListingInv, Shows, Dropping, At, Ends, Present, On
<1>6. PurgeInv'
  BY DEF PurgeInv, Pending, JobsOf, On, Free, At, Ends
<1> QED
  BY <1>1, <1>2, <1>3, <1>4, <1>5, <1>6

LEMMA PurgeKeepsInv ==
    ASSUME UploadInv, NEW r \in Requests, Purge(r) PROVE UploadInv'
<1> USE DEF Purge, stores, cache, history, UploadInv
<1>1. TypeOK'
  BY UploadAssumption DEF TypeOK, Request, Free, At, Ends
<1>2. VersionInv'
  BY DEF VersionInv, TypeOK, Ends, Present
<1>3. SeenInv'
  BY DEF SeenInv, Free, At, Ends, Present
<1>4. ForwardInv'
  BY DEF ForwardInv, IndexedWasChecked, TypeOK, Free, Versions, At, Ends
<1>5. ListingInv'
  BY DEF ListingInv, Shows, Dropping, At, Ends, Present, On
<1>6. PurgeInv'
  BY DEF PurgeInv, Pending, JobsOf, On, TypeOK, At, Ends, Alone
<1> QED
  BY <1>1, <1>2, <1>3, <1>4, <1>5, <1>6

LEMMA CallFailsKeepsInv ==
    ASSUME UploadInv, NEW r \in Requests, CallFails(r) PROVE UploadInv'
<1> USE DEF CallFails, stores, cache, history, UploadInv
<1>1. TypeOK'
  BY UploadAssumption DEF TypeOK, Request, Free, Object, Versions, Jobs, Completing, Removing, At, Go, Ends, Present, Faults
<1>2. VersionInv'
  BY DEF VersionInv, Ends, Present
<1>3. SeenInv'
  BY DEF SeenInv, TypeOK, VersionInv, Request, Free, Object, Versions, Completing, Removing, At, Go, Ends, Present, On, Faults
<1>4. ForwardInv'
  BY DEF ForwardInv, IndexedWasChecked, Free, At, Ends
<1>5. ListingInv'
  BY DEF ListingInv, Shows, Dropping, Ends, Present, On
<1>6. PurgeInv'
  BY DEF PurgeInv, Pending, JobsOf, On, At, Ends
<1> QED
  BY <1>1, <1>2, <1>3, <1>4, <1>5, <1>6

LEMMA JobKeepsInv ==
    ASSUME UploadInv, NEW j \in jobs, RunIndexJob(j) \/ JobFails(j) PROVE UploadInv'
<1> USE DEF RunIndexJob, JobFails, stores, cache, history, UploadInv
<1>1. TypeOK'
  <2>1. j.key \in Documents /\ j.key \in Keys /\ j.version \in 0..MaxPuts
    BY UploadAssumption DEF TypeOK, Jobs, Versions
  <2>2. index' \in [Keys -> 0..MaxPuts] /\ \A k \in Keys \ Documents : index'[k] = 0
    BY <2>1 DEF TypeOK
  <2>3. failures' \in 0..MaxFailures
    BY UploadAssumption DEF TypeOK
  <2> QED
    BY <2>2, <2>3 DEF TypeOK
<1>2. VersionInv'
  BY DEF VersionInv, TypeOK, Present
<1>3. SeenInv'
  BY DEF SeenInv, At, Present
<1>4. ForwardInv'
  BY DEF ForwardInv, IndexedWasChecked, TypeOK, At
<1>5. ListingInv'
  BY DEF ListingInv, Shows, Dropping, Present, On
<1>6. PurgeInv'
  BY DEF PurgeInv, Pending, JobsOf, On, TypeOK, At
<1> QED
  BY <1>1, <1>2, <1>3, <1>4, <1>5, <1>6

----------------------------------------------------------------------------
LEMMA UploadStepKeepsInv == UploadInv /\ [Next]_vars => UploadInv'
<1> SUFFICES ASSUME UploadInv, [Next]_vars PROVE UploadInv'
  OBVIOUS
<1>1. CASE Browser
  BY <1>1, PutKeepsInv DEF Browser
<1>2. CASE Listing
  BY <1>2, GetFilesKeepsInv
<1>3. ASSUME NEW r \in Requests, Completion(r) PROVE UploadInv'
  BY <1>3, StartsKeepsInv, HeadKeepsInv, DropKeepsInv, ForgetKeepsInv, AcceptKeepsInv,
     FetchKeepsInv, ForwardKeepsInv DEF Completion
<1>4. ASSUME NEW r \in Requests, Removal(r) PROVE UploadInv'
  BY <1>4, StartsKeepsInv, DropKeepsInv, ForgetKeepsInv, PurgeKeepsInv DEF Removal
<1>5. CASE UNCHANGED vars
  <2> USE <1>5 DEF vars, stores, cache, history, UploadInv
  <2>1. TypeOK' /\ VersionInv' /\ SeenInv'
    BY DEF TypeOK, VersionInv, SeenInv, Present, At
  <2>2. ForwardInv' /\ ListingInv' /\ PurgeInv'
    BY DEF ForwardInv, IndexedWasChecked, ListingInv, Shows, Dropping, PurgeInv, Pending,
           Present, JobsOf, On, At
  <2> QED
    BY <2>1, <2>2
<1> QED
  BY <1>1, <1>2, <1>3, <1>4, <1>5, CallFailsKeepsInv, DropKeepsInv, JobKeepsInv DEF Next

THEOREM UploadInvariant == Spec => []UploadInv
  BY UploadInvInit, UploadStepKeepsInv, PTL DEF Spec

(* Every variable keeps its type: only documents are ever indexed.         *)
THEOREM TypeCorrect == Spec => []TypeOK
<1>1. UploadInv => TypeOK
  BY DEF UploadInv
<1> QED
  BY <1>1, UploadInvariant, PTL

(* The cached listing shows accepted files and no removed ones.            *)
THEOREM ListingIsCurrentHolds == Spec => []ListingIsCurrent
<1>1. UploadInv => ListingIsCurrent
  BY DEF UploadInv, ListingInv, ListingIsCurrent, Shows, Dropping
<1> QED
  BY <1>1, UploadInvariant, PTL

(* What is searchable passed the checks, unless it was put during them.    *)
THEOREM IndexedWasCheckedHolds == Spec => []IndexedWasChecked
<1>1. UploadInv => IndexedWasChecked
  BY DEF UploadInv, ForwardInv
<1> QED
  BY <1>1, UploadInvariant, PTL

(* A removed file cannot be searched, but for the exceptions it names.     *)
THEOREM RemovedIsUnsearchableHolds == Spec => []RemovedIsUnsearchable
<1>1. UploadInv => RemovedIsUnsearchable
  BY DEF UploadInv, PurgeInv, Pending, RemovedIsUnsearchable
<1> QED
  BY <1>1, UploadInvariant, PTL

(* No completion deletes a good file that has not changed under it.        *)
THEOREM GoodUploadsSurviveHolds == Spec => GoodUploadsSurvive
<1> DEFINE Survives ==
       \A k \in Keys :
         object[k] # NoObject /\ object[k].fault = "none" /\ object'[k] = NoObject =>
           \/ \E r \in On(k) : At(r, "delete")
           \/ object[k].version \in midway
<1>1. UploadInv /\ [Next]_vars => [Survives]_vars
  <2> SUFFICES ASSUME UploadInv, Next, NEW k \in Keys,
                      object[k] # NoObject, object[k].fault = "none", object'[k] = NoObject
               PROVE  \/ \E r \in On(k) : At(r, "delete")
                      \/ object[k].version \in midway
    OBVIOUS
  <2>1. ASSUME NEW l \in Keys, NEW fault \in Faults, Put(l, fault) PROVE FALSE
    <3>1. [version |-> puts', fault |-> fault] \in Object
      BY <2>1, UploadAssumption DEF UploadInv, TypeOK, Put, Object, Versions
    <3> QED
      BY <2>1, <3>1, NoObjectAssumption DEF UploadInv, TypeOK, Put
  <2>2. ASSUME NEW r \in Requests, Dropped(request[r].key), At(r, "reject")
        PROVE  object[k].version \in midway
    <3>1. request[r].key = k
      BY <2>2 DEF UploadInv, TypeOK, Dropped
    <3> QED
      BY <2>2, <3>1 DEF UploadInv, SeenInv, At, Completing, Present
  <2>3. ASSUME NEW r \in Requests, Dropped(request[r].key), At(r, "delete")
        PROVE  r \in On(k)
    BY <2>3 DEF Dropped, On, At, Free
  <2>4. \/ object' = object
        \/ \E l \in Keys, fault \in Faults : Put(l, fault)
        \/ \E r \in Requests : Dropped(request[r].key) /\ (At(r, "reject") \/ At(r, "delete"))
    BY DEF Next, Browser, Completion, Removal, Listing, GetFiles, FetchAllObjects, CompareGeneration,
           StoreListing, ListingExpires, Reject, Delete,
           DeleteUnanswered, At,
           FinalizeUpload, Head, Sniff, Rejected, Accept, Fetch, Forward, RemoveFile,
           Deleted, Purge, CallFails, RunIndexJob, JobFails, stores
  <2> QED
    BY <2>1, <2>2, <2>3, <2>4
<1> QED
  BY <1>1, UploadInvariant, PTL DEF Spec, GoodUploadsSurvive
=============================================================================
