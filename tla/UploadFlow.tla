----------------------------- MODULE UploadFlow -----------------------------
(***************************************************************************)
(* Uploads of the API (service/upload.py, service/files.py): the presigned *)
(* PUT that goes from the browser to B2 past the API, the completion that  *)
(* looks at what has landed and forwards it to the assistant's index, and  *)
(* the removal that purges it there.                                       *)
(*                                                                         *)
(* Every call to B2 and to the assistant is a step of its own, so that the *)
(* browser, other requests and the index jobs come in between.  An object  *)
(* is a version and what is wrong with it; its type goes with the key, as  *)
(* the extension must match the type and the URL is bound to both.  Keys   *)
(* are those of one user: no other may name them.  The listing is scanned  *)
(* in the steps of list_all_objects, by one request at a time under the    *)
(* scan lock; its readers and its many prefixes are in ListCache.  An index*)
(* job and a purge are one step each; RagIndex takes those apart.          *)
(***************************************************************************)
EXTENDS Integers, FiniteSets

CONSTANTS Keys, Documents, \* the keys of one user, those of RAG_INDEXABLE_TYPES
          Requests,        \* requests in the threadpool
          NoObject, NoListing, NoScan,
          MaxPuts,         \* bound on the versions put
          MaxFailures      \* bound on failing calls

ASSUME UploadAssumption ==
  /\ Documents \subseteq Keys
  /\ MaxPuts \in Nat /\ MaxFailures \in Nat

VARIABLES object,   \* the bucket
          request,
          listing,  \* the cached listing
          scan,     \* the scan under way
          index,    \* the version of each key that is searchable, 0 if none
          jobs,     \* accepted index jobs that have not ended
          puts, failures,
          accepted, \* history: keys whose object a completion has accepted
          faulty,   \* history: versions that the checks would reject
          midway,   \* history: versions put during a completion of their key
          excused,  \* history: keys the index may be behind with
          missed    \* history: keys that the latest scan's listing may be wrong
                    \* about: deleted without an answer, or invalidated
                    \* between its comparison and its store

cache == <<listing, scan, missed>>
stores == <<object, index, jobs>>
history == <<accepted, faulty, midway, excused>>
vars == <<stores, cache, request, puts, failures, history>>

Versions == 1..MaxPuts
Faults == {"none", "size", "signature"}
Object == [version : Versions, fault : Faults]
Jobs == [key : Documents, version : Versions]

ASSUME NoObjectAssumption == NoObject \notin Object

Completing == {"head", "sniff", "reject", "rejected", "accept", "fetch", "forward"}
Removing == {"delete", "deleted", "purge"}
Free == [at |-> "free"]
Request == {Free} \cup
  [at : Completing \cup Removing, key : Keys, version : 0..MaxPuts]

(* A scan is about to list the bucket, to compare the generation, to store;*)
(* void is what the comparison will tell.                                  *)
Scan == [at : {"list", "compare", "store"}, seen : SUBSET Keys, void : BOOLEAN]

ASSUME NoScanAssumption == NoScan \notin Scan

TypeOK ==
  /\ object \in [Keys -> Object \cup {NoObject}]
  /\ request \in [Requests -> Request]
  /\ listing = NoListing \/ listing \subseteq Keys
  /\ scan \in Scan \cup {NoScan}
  /\ index \in [Keys -> 0..MaxPuts] /\ \A k \in Keys \ Documents : index[k] = 0
  /\ jobs \subseteq Jobs
  /\ puts \in 0..MaxPuts /\ failures \in 0..MaxFailures
  /\ faulty \subseteq Versions /\ midway \subseteq Versions
  /\ accepted \subseteq Keys /\ excused \subseteq Keys
  /\ missed \subseteq Keys

Init ==
  /\ object = [k \in Keys |-> NoObject]
  /\ request = [r \in Requests |-> Free]
  /\ listing = NoListing /\ scan = NoScan
  /\ index = [k \in Keys |-> 0]
  /\ jobs = {}
  /\ puts = 0 /\ failures = 0
  /\ accepted = {} /\ faulty = {} /\ midway = {} /\ excused = {} /\ missed = {}

----------------------------------------------------------------------------
At(r, pc) == request[r].at = pc
Go(r, pc) == request' = [request EXCEPT ![r].at = pc]
Ends(r) == request' = [request EXCEPT ![r] = Free]

On(k) == {r \in Requests : request[r] # Free /\ request[r].key = k}
JobsOf(k) == {j \in jobs : j.key = k}
Alone(r) == On(request[r].key) = {r} /\ JobsOf(request[r].key) = {}
Present == {k \in Keys : object[k] # NoObject}

Storing == scan # NoScan /\ scan.at = "store"

(* invalidate_list_cache, after a change to key k: the listing is dropped, *)
(* and the generation voids a scan that has yet to compare it.  A scan that*)
(* has is past that, and what it saw will be cached.                       *)
InvalidateListCache(k) ==
  /\ listing' = NoListing
  /\ scan' = IF scan = NoScan THEN NoScan ELSE [scan EXCEPT !.void = TRUE]
  /\ missed' = IF Storing THEN missed \cup {k} ELSE {}

(* The browser's PUT.  prepare_upload stores nothing and signs a URL for    *)
(* whoever asks, to be used as often as they like for a quarter of an hour.*)
Put(k, fault) ==
  /\ puts < MaxPuts
  /\ puts' = puts + 1
  /\ object' = [object EXCEPT ![k] = [version |-> puts', fault |-> fault]]
  /\ faulty' = IF fault = "none" THEN faulty ELSE faulty \cup {puts'}
  /\ midway' = IF \E r \in On(k) : request[r].at \in Completing
                 THEN midway \cup {puts'} ELSE midway
  /\ accepted' = accepted \ {k}
  /\ UNCHANGED <<cache, index, jobs, request, failures, excused>>

(* get_files without a cached listing: list_all_objects takes the scan lock*)
(* and notes the generation.                                               *)
GetFiles ==
  /\ listing = NoListing /\ scan = NoScan
  /\ scan' = [at |-> "list", seen |-> {}, void |-> FALSE]
  /\ UNCHANGED <<stores, listing, missed, request, puts, failures, history>>

(* _fetch_all_objects: B2 lists the bucket, or fails the request.          *)
FetchAllObjects ==
  /\ scan # NoScan /\ scan.at = "list"
  /\ scan' \in {[scan EXCEPT !.at = "compare", !.seen = Present], NoScan}
  /\ missed' = {}
  /\ UNCHANGED <<stores, listing, request, puts, failures, history>>

\* Mutant: a scan is stored whatever was invalidated meanwhile.
CompareGeneration_Unchecked ==
  /\ scan # NoScan /\ scan.at = "compare"
  /\ scan' = [scan EXCEPT !.at = "store"]
  /\ UNCHANGED <<stores, listing, missed, request, puts, failures, history>>

CompareGeneration ==
  /\ scan # NoScan /\ scan.at = "compare"
  /\ scan' = IF scan.void THEN NoScan ELSE [scan EXCEPT !.at = "store"]
  /\ UNCHANGED <<stores, listing, missed, request, puts, failures, history>>

(* _store_listing takes the lock anew, after the comparison gave it back.  *)
StoreListing ==
  /\ Storing
  /\ listing' = scan.seen
  /\ scan' = NoScan
  /\ UNCHANGED <<stores, missed, request, puts, failures, history>>

(* The entry is older than its time to live.                               *)
ListingExpires ==
  /\ listing # NoListing
  /\ listing' = NoListing /\ missed' = {}
  /\ UNCHANGED <<stores, scan, request, puts, failures, history>>

----------------------------------------------------------------------------
FinalizeUpload(r, k) ==
  /\ At(r, "free")
  /\ request' = [request EXCEPT ![r] = [at |-> "head", key |-> k, version |-> 0]]
  /\ UNCHANGED <<stores, cache, puts, failures, history>>

(* get_file_metadata: missing, or of a bad size, or to be looked into.     *)
Head(r) ==
  /\ At(r, "head")
  /\ LET found == object[request[r].key] IN
       IF found = NoObject THEN Ends(r)
       ELSE Go(r, IF found.fault = "size" THEN "reject" ELSE "sniff")
  /\ UNCHANGED <<stores, cache, puts, failures, history>>

\* Mutant: bytes that cannot be read count as bytes that do not match.
Sniff_UnreadableIsBad(r) ==
  /\ At(r, "sniff")
  /\ \/ Go(r, IF \/ object[request[r].key] = NoObject
                 \/ object[request[r].key].fault = "signature"
                THEN "reject" ELSE "accept") /\ UNCHANGED failures
     \/ failures < MaxFailures /\ failures' = failures + 1 /\ Go(r, "reject")
  /\ UNCHANGED <<stores, cache, puts, history>>

\* Mutant: the declared type is believed.
Sniff_Skipped(r) == At(r, "sniff") /\ Go(r, "accept") /\ UNCHANGED <<stores, cache, puts, failures, history>>

(* get_object_head_bytes reads what is there by now; without it, the       *)
(* request fails.                                                          *)
Sniff(r) ==
  /\ At(r, "sniff")
  /\ LET found == object[request[r].key] IN
       IF found = NoObject THEN Ends(r)
       ELSE Go(r, IF found.fault = "signature" THEN "reject" ELSE "accept")
  /\ UNCHANGED <<stores, cache, puts, failures, history>>

Dropped(k) ==
  /\ object' = [object EXCEPT ![k] = NoObject]
  /\ accepted' = accepted \ {k}

(* delete_file: whatever has the key goes.  A rejection purges nothing.    *)
Reject(r) ==
  /\ At(r, "reject")
  /\ Dropped(request[r].key)
  /\ excused' = excused \cup {request[r].key}
  /\ Go(r, "rejected")
  /\ UNCHANGED <<cache, index, jobs, puts, failures, faulty, midway>>

(* ... and then the cached listing.                                        *)
Rejected(r) ==
  /\ At(r, "rejected")
  /\ InvalidateListCache(request[r].key)
  /\ Ends(r)
  /\ UNCHANGED <<object, index, jobs, puts, failures, accepted, faulty, midway, excused>>

Accept(r) ==
  /\ At(r, "accept")
  /\ InvalidateListCache(request[r].key)
  /\ accepted' = accepted \cup ({request[r].key} \cap Present)
  /\ IF request[r].key \in Documents THEN Go(r, "fetch") ELSE Ends(r)
  /\ UNCHANGED <<object, index, jobs, puts, failures, faulty, midway, excused>>

(* _maybe_index_in_rag reads the object once more and posts it.            *)
Fetch(r) ==
  /\ At(r, "fetch")
  /\ LET found == object[request[r].key] IN
       IF found = NoObject THEN Ends(r)
       ELSE request' = [request EXCEPT ![r].at = "forward",
                                       ![r].version = found.version]
  /\ UNCHANGED <<stores, cache, puts, failures, history>>

Forward(r) ==
  /\ At(r, "forward")
  /\ jobs' = jobs \cup {[key |-> request[r].key, version |-> request[r].version]}
  /\ Ends(r)
  /\ UNCHANGED <<object, cache, index, puts, failures, history>>

----------------------------------------------------------------------------
RemoveFile(r, k) ==
  /\ At(r, "free")
  /\ request' = [request EXCEPT ![r] = [at |-> "delete", key |-> k, version |-> 0]]
  /\ UNCHANGED <<stores, cache, puts, failures, history>>

Delete(r) ==
  /\ At(r, "delete")
  /\ Dropped(request[r].key)
  /\ Go(r, "deleted")
  /\ UNCHANGED <<cache, index, jobs, puts, failures, faulty, midway, excused>>

Deleted(r) ==
  /\ At(r, "deleted")
  /\ InvalidateListCache(request[r].key)
  /\ Go(r, "purge")
  /\ UNCHANGED <<object, index, jobs, puts, failures, accepted, faulty, midway, excused>>

\* Mutant: the search side is told nothing of a removal.
Purge_Skipped(r) ==
  /\ At(r, "purge")
  /\ excused' = IF Alone(r) THEN excused \ {request[r].key}
                  ELSE excused \cup {request[r].key}
  /\ Ends(r)
  /\ UNCHANGED <<stores, cache, puts, failures, accepted, faulty, midway>>

(* delete_indexed_source_remote.  A job that is still to run, or one a     *)
(* completion is about to post, indexes the file again.                    *)
Purge(r) ==
  /\ At(r, "purge")
  /\ index' = [index EXCEPT ![request[r].key] = 0]
  /\ excused' = IF Alone(r) THEN excused \ {request[r].key}
                  ELSE excused \cup {request[r].key}
  /\ Ends(r)
  /\ UNCHANGED <<object, cache, jobs, puts, failures, accepted, faulty, midway>>

(* The object is deleted but the answer is lost: the request ends there.   *)
DeleteUnanswered(r) ==
  /\ request[r].at \in {"reject", "delete"}
  /\ failures < MaxFailures
  /\ failures' = failures + 1
  /\ Dropped(request[r].key)
  /\ excused' = excused \cup {request[r].key}
  /\ missed' = missed \cup {request[r].key}
  /\ Ends(r)
  /\ UNCHANGED <<listing, scan, index, jobs, puts, faulty, midway>>

(* A call fails.  One of B2 ends the request with an error; the calls to   *)
(* the assistant never fail a request, but what they asked for is not done.*)
CallFails(r) ==
  /\ request[r].at \in {"head", "sniff", "reject", "fetch", "forward", "delete", "purge"}
  /\ failures < MaxFailures
  /\ failures' = failures + 1
  /\ excused' = IF At(r, "purge") THEN excused \cup {request[r].key} ELSE excused
  /\ Ends(r)
  /\ UNCHANGED <<stores, cache, puts, accepted, faulty, midway>>

----------------------------------------------------------------------------
(* The assistant's side: run_index_job, in any order, and its failures.    *)
RunIndexJob(j) ==
  /\ j \in jobs
  /\ jobs' = jobs \ {j}
  /\ index' = [index EXCEPT ![j.key] = j.version]
  /\ UNCHANGED <<object, cache, request, puts, failures, history>>

JobFails(j) ==
  /\ j \in jobs
  /\ failures < MaxFailures
  /\ failures' = failures + 1
  /\ jobs' = jobs \ {j}
  /\ UNCHANGED <<object, cache, index, request, puts, history>>

Browser == \E k \in Keys, fault \in Faults : Put(k, fault)

Listing ==
  GetFiles \/ FetchAllObjects \/ CompareGeneration \/ StoreListing \/ ListingExpires

Completion(r) ==
  \/ \E k \in Keys : FinalizeUpload(r, k)
  \/ Head(r) \/ Sniff(r) \/ Reject(r) \/ Rejected(r)
  \/ Accept(r) \/ Fetch(r) \/ Forward(r)

Removal(r) ==
  (\E k \in Keys : RemoveFile(r, k)) \/ Delete(r) \/ Deleted(r) \/ Purge(r)

Next ==
  \/ Browser
  \/ Listing
  \/ \E r \in Requests : Completion(r) \/ Removal(r) \/ CallFails(r) \/ DeleteUnanswered(r)
  \/ \E j \in jobs : RunIndexJob(j) \/ JobFails(j)

Spec == Init /\ [][Next]_vars

----------------------------------------------------------------------------
(* The cached listing shows every accepted file, and a file that is gone   *)
(* only while the request that dropped it has yet to drop the listing.  It *)
(* may be wrong about the keys of missed, until it is dropped or expires   *)
(* (finalize_upload, delete_file, list_all_objects).                       *)
ListingIsCurrent ==
  listing # NoListing =>
    /\ accepted \subseteq listing \cup missed
    /\ \A k \in listing : object[k] = NoObject =>
         \/ k \in missed
         \/ \E r \in On(k) : request[r].at \in {"rejected", "deleted"}

(* Nothing becomes searchable that would have failed the checks, except a  *)
(* version put while its key was being completed: the URL stays valid      *)
(* (finalize_upload, _maybe_index_in_rag).                                 *)
IndexedWasChecked == \A k \in Keys : index[k] \in faulty => index[k] \in midway

(* A removed file cannot be searched once all is quiet, unless its removal *)
(* ran into a job or a completion, its delete or purge got no answer, or   *)
(* it went by the rejection of a later upload of its name (remove_file).   *)
RemovedIsUnsearchable ==
  \A k \in Keys :
    object[k] = NoObject /\ On(k) = {} /\ JobsOf(k) = {} /\ index[k] # 0 =>
      k \in excused

(* A completion never deletes a good file it has not seen change: a call   *)
(* that fails rejects nothing (finalize_upload).                           *)
GoodUploadsSurvive ==
  [][\A k \in Keys :
       object[k] # NoObject /\ object[k].fault = "none" /\ object'[k] = NoObject =>
         \/ \E r \in On(k) : At(r, "delete")
         \/ object[k].version \in midway]_vars
=============================================================================
