------------------------------ MODULE RagIndex ------------------------------
(***************************************************************************)
(* libs/rag and the ingest jobs of the assistant: one source of one tenant *)
(* is indexed by background jobs (index_document), purged                  *)
(* (delete_indexed_source) and searched (search_rag, with its answer       *)
(* cache).  Qdrant holds the chunks, Neon the registry row and the cache;  *)
(* no transaction spans both, a job is several steps, and jobs, purges and *)
(* searches run at the same time.                                          *)
(*                                                                         *)
(* A document is its text and its access level.  The registry's content    *)
(* hash is of the text alone, and so is the id of a chunk's point.  A      *)
(* search ranks whatever chunks it likes; an answer is the chunks it       *)
(* quotes, cached under the positions of the chunks.                       *)
(***************************************************************************)
EXTENDS Integers, FiniteSets

CONSTANTS
    Documents,    \* [text, access] records that are ingested as the source
    ChunkCount,   \* how many chunks a text is cut into
    Jobs,         \* background threads that index
    Purges,       \* DELETE /sources in progress
    Searches,     \* searches in progress
    TopK,         \* chunks a search keeps
    NoDocument,   \* no registry row
    MaxIngests,   \* bound on the jobs started
    MaxFailures   \* bound on failed steps and restarts

Texts == {d.text : d \in Documents}

ASSUME ChunkCountAssumption == ChunkCount \in [Texts -> Nat]
ASSUME NoDocumentAssumption == NoDocument \notin Documents
ASSUME RagBounds == TopK \in Nat /\ MaxIngests \in Nat /\ MaxFailures \in Nat

VARIABLES
    points,     \* Qdrant: the chunks of the source
    registry,   \* documents: the row of the source
    cache,      \* query_cache: answers by the positions they were found at
    job,        \* index jobs
    purge,      \* purges
    search,     \* searches
    started,    \* jobs started so far
    failures,
    raced       \* history: jobs and purges overlapped, or flushed under a search

stores == <<points, registry, cache>>
ragVars == <<stores, job, purge, search, started, failures, raced>>

Chunk(d, i) == [text |-> d.text, access |-> d.access, index |-> i]

Chunks(d) == {Chunk(d, i) : i \in 1 .. ChunkCount[d.text]}

AllChunks == UNION {Chunks(d) : d \in Documents}

\* What a set of chunks is cached under: context_hash of "source:chunk_index",
\* that is, how often each position occurs.
Context(chunks) ==
    [i \in {c.index : c \in chunks} |-> Cardinality({c \in chunks : c.index = i})]

Idle == [pc |-> "idle"]

\* A job is about to: compare hashes, write its next batch, write the registry
\* row; or it is done, without doing anything if skipped.  alone: no other job
\* and no purge has run since it started.
Job == {Idle} \cup
    [pc : {"compare", "upsert", "register", "done"}, doc : Documents,
     next : Nat, skipped : BOOLEAN, alone : BOOLEAN]

\* seen is what the two queries of a search read of the index, found what it kept.
Search == {Idle} \cup
    [pc : {"corpus", "lookup", "store", "answer"}, seen : SUBSET AllChunks,
     found : SUBSET AllChunks, answer : SUBSET AllChunks]

RagTypeOK ==
    /\ points \subseteq AllChunks
    /\ \A b, c \in points : b.text = c.text /\ b.index = c.index => b = c
    /\ registry \in Documents \cup {NoDocument}
    /\ \A e \in cache :
        e.answer \subseteq AllChunks /\ e.context = Context(e.answer)
    /\ \A e, f \in cache : e.context = f.context => e = f
    /\ job \in [Jobs -> Job]
    /\ purge \in [Purges -> {"idle", "chunks", "registry"}]
    /\ search \in [Searches -> Search]
    /\ started \in 0 .. MaxIngests /\ failures \in 0 .. MaxFailures
    /\ raced \in BOOLEAN

RagInit ==
    /\ points = {}
    /\ registry = NoDocument
    /\ cache = {}
    /\ job = [j \in Jobs |-> Idle]
    /\ purge = [p \in Purges |-> "idle"]
    /\ search = [s \in Searches |-> Idle]
    /\ started = 0 /\ failures = 0
    /\ raced = FALSE
----------------------------------------------------------------------------
At(j, pc) == job[j].pc = pc

Running == {j \in Jobs : job[j].pc \in {"compare", "upsert", "register"}}

Purging == {p \in Purges : purge[p] # "idle"}

Quiet == Running = {} /\ Purging = {}

\* What the start of a job or purge is to the jobs, and to the history.
Disturbed == [j \in Jobs |-> IF job[j] = Idle THEN Idle ELSE [job[j] EXCEPT !.alone = FALSE]]

Overlaps == raced' = (raced \/ ~Quiet)

FlushCache ==
    /\ cache' = {}
    /\ raced' = (raced \/ \E s \in Searches : search[s].pc \in {"corpus", "lookup", "store"})

FailOnce == failures < MaxFailures /\ failures' = failures + 1

\* POST /ingest queues a job, and a thread starts it.
Ingest(j, d) ==
    /\ At(j, "idle")
    /\ started < MaxIngests
    /\ started' = started + 1
    /\ job' = [Disturbed EXCEPT ![j] =
            [pc |-> "compare", doc |-> d, next |-> 1, skipped |-> FALSE,
             alone |-> Quiet]]
    /\ Overlaps
    /\ UNCHANGED <<stores, purge, search, failures>>

\* The document has no text, or the text the registry row says is indexed.
Skips(j) ==
    \/ ChunkCount[job[j].doc.text] = 0
    \/ registry # NoDocument /\ registry.text = job[j].doc.text

\* Mutant: the chunks of the document before are left in place.
CompareHash_KeepsChunks(j) ==
    /\ At(j, "compare")
    /\ IF Skips(j)
       THEN /\ job' = [job EXCEPT ![j].pc = "done", ![j].skipped = TRUE]
            /\ UNCHANGED <<cache, raced>>
       ELSE /\ FlushCache
            /\ job' = [job EXCEPT ![j].pc = "upsert"]
    /\ UNCHANGED <<points, registry, purge, search, started, failures>>

\* Mutant: cached answers survive the change of the index.
CompareHash_KeepsCache(j) ==
    /\ At(j, "compare")
    /\ IF Skips(j)
       THEN /\ job' = [job EXCEPT ![j].pc = "done", ![j].skipped = TRUE]
            /\ UNCHANGED points
       ELSE /\ points' = {}
            /\ job' = [job EXCEPT ![j].pc = "upsert"]
    /\ UNCHANGED <<registry, cache, purge, search, started, failures, raced>>

\* The first transaction.  ensure_tables alters documents, so it excludes any
\* other; the chunks of the source go first, then the tenant's cached answers.
CompareHash(j) ==
    /\ At(j, "compare")
    /\ IF Skips(j)
       THEN /\ job' = [job EXCEPT ![j].pc = "done", ![j].skipped = TRUE]
            /\ UNCHANGED <<points, cache, raced>>
       ELSE /\ points' = {}
            /\ FlushCache
            /\ job' = [job EXCEPT ![j].pc = "upsert"]
    /\ UNCHANGED <<registry, purge, search, started, failures>>

\* One batch of upsert_chunks, here of one chunk; a point of the same id is
\* overwritten.
UpsertBatch(j) ==
    LET c == Chunk(job[j].doc, job[j].next) IN
    /\ At(j, "upsert")
    /\ IF job[j].next > ChunkCount[job[j].doc.text]
       THEN /\ job' = [job EXCEPT ![j].pc = "register"]
            /\ UNCHANGED points
       ELSE /\ points' = {b \in points : b.text # c.text \/ b.index # c.index} \cup {c}
            /\ job' = [job EXCEPT ![j].next = @ + 1]
    /\ UNCHANGED <<registry, cache, purge, search, started, failures, raced>>

\* Mutant: a row that exists is not overwritten.
UpsertDocument_InsertOnly(j) ==
    /\ At(j, "register")
    /\ registry' = IF registry = NoDocument THEN job[j].doc ELSE registry
    /\ job' = [job EXCEPT ![j].pc = "done"]
    /\ UNCHANGED <<points, cache, purge, search, started, failures, raced>>

UpsertDocument(j) ==
    /\ At(j, "register")
    /\ registry' = job[j].doc
    /\ job' = [job EXCEPT ![j].pc = "done"]
    /\ UNCHANGED <<points, cache, purge, search, started, failures, raced>>

\* The job's result has been polled.
Forget(j) ==
    /\ At(j, "done")
    /\ job' = [job EXCEPT ![j] = Idle]
    /\ UNCHANGED <<stores, purge, search, started, failures, raced>>

\* A step of a job raises (parsing, embedding, Qdrant, Neon).  In the first
\* transaction the chunks may be gone already: the flush is rolled back, they
\* are not.
JobFails(j) ==
    /\ j \in Running
    /\ FailOnce
    /\ \/ UNCHANGED points
       \/ At(j, "compare") /\ ~Skips(j) /\ points' = {}
    /\ job' = [job EXCEPT ![j] = Idle]
    /\ UNCHANGED <<registry, cache, purge, search, started, raced>>

\* The assistant restarts: its jobs are lost, the purges and searches too.
Restart ==
    /\ FailOnce
    /\ job' = [j \in Jobs |-> Idle]
    /\ purge' = [p \in Purges |-> "idle"]
    /\ search' = [s \in Searches |-> Idle]
    /\ UNCHANGED <<stores, started, raced>>
----------------------------------------------------------------------------
BeginPurge(p) ==
    /\ purge[p] = "idle"
    /\ purge' = [purge EXCEPT ![p] = "chunks"]
    /\ job' = Disturbed
    /\ Overlaps
    /\ UNCHANGED <<stores, search, started, failures>>

DeleteChunksBySource(p) ==
    /\ purge[p] = "chunks"
    /\ points' = {}
    /\ purge' = [purge EXCEPT ![p] = "registry"]
    /\ UNCHANGED <<registry, cache, job, search, started, failures, raced>>

\* delete_document and flush_cache, in one transaction.
DeleteDocument(p) ==
    /\ purge[p] = "registry"
    /\ registry' = NoDocument
    /\ FlushCache
    /\ purge' = [purge EXCEPT ![p] = "idle"]
    /\ UNCHANGED <<points, job, search, started, failures>>

\* {"purged": false}
PurgeFails(p) ==
    /\ purge[p] # "idle"
    /\ FailOnce
    /\ purge' = [purge EXCEPT ![p] = "idle"]
    /\ UNCHANGED <<stores, job, search, started, raced>>
----------------------------------------------------------------------------
\* The two queries of a retrieval run side by side, against Qdrant: the nearest
\* chunks, and all of them for the keyword ranking.
SemanticSearch(s) ==
    /\ search[s] = Idle
    /\ search' = [search EXCEPT ![s] =
            [pc |-> "corpus", seen |-> points, found |-> {}, answer |-> {}]]
    /\ UNCHANGED <<stores, job, purge, started, failures, raced>>

\* Ranking keeps a few chunks of what either query saw.
ScrollCorpus(s) ==
    LET seen == search[s].seen \cup points IN
    /\ search[s].pc = "corpus"
    /\ \E found \in SUBSET seen :
        /\ Cardinality(found) <= TopK
        /\ search' = [search EXCEPT ![s].pc = "lookup", ![s].seen = seen, ![s].found = found]
    /\ UNCHANGED <<stores, job, purge, started, failures, raced>>

Hits(s) == {e \in cache : e.context = Context(search[s].found)}

GetCachedAnswer(s) ==
    /\ search[s].pc = "lookup"
    /\ \/ \E e \in Hits(s) : search' = [search EXCEPT ![s].pc = "answer", ![s].answer = e.answer]
       \/ /\ Hits(s) = {}
          /\ search' = [search EXCEPT ![s].pc = "store", ![s].answer = search[s].found]
    /\ UNCHANGED <<stores, job, purge, started, failures, raced>>

\* An entry of the same key is overwritten.
StoreCachedAnswer(s) ==
    LET new == [context |-> Context(search[s].found), answer |-> search[s].found] IN
    /\ search[s].pc = "store"
    /\ cache' = {e \in cache : e.context # new.context} \cup {new}
    /\ search' = [search EXCEPT ![s].pc = "answer"]
    /\ UNCHANGED <<points, registry, job, purge, started, failures, raced>>

\* The lookup or the store fails: search_rag goes on without the cache.
SkipCache(s) ==
    /\ FailOnce
    /\ \/ /\ search[s].pc = "lookup"
          /\ search' = [search EXCEPT ![s].pc = "store", ![s].answer = search[s].found]
       \/ /\ search[s].pc = "store"
          /\ search' = [search EXCEPT ![s].pc = "answer"]
    /\ UNCHANGED <<stores, job, purge, started, raced>>

Answer(s) ==
    /\ search[s].pc = "answer"
    /\ search' = [search EXCEPT ![s] = Idle]
    /\ UNCHANGED <<stores, job, purge, started, failures, raced>>

\* An entry's time to live, a day, is over.
Expire ==
    \E e \in cache :
        /\ cache' = cache \ {e}
        /\ UNCHANGED <<points, registry, job, purge, search, started, failures, raced>>

IndexDocument(j) == CompareHash(j) \/ UpsertBatch(j) \/ UpsertDocument(j)

RagNext ==
    \/ \E j \in Jobs :
            IndexDocument(j) \/ Forget(j) \/ JobFails(j) \/ \E d \in Documents : Ingest(j, d)
    \/ \E p \in Purges :
            BeginPurge(p) \/ DeleteChunksBySource(p) \/ DeleteDocument(p) \/ PurgeFails(p)
    \/ \E s \in Searches :
            \/ SemanticSearch(s) \/ ScrollCorpus(s) \/ GetCachedAnswer(s) \/ StoreCachedAnswer(s)
            \/ SkipCache(s) \/ Answer(s)
    \/ Restart
    \/ Expire

RagSpec == RagInit /\ [][RagNext]_ragVars
----------------------------------------------------------------------------
\* A job that replaced the document with nothing else running leaves exactly its
\* chunks and its registry row, whatever failed jobs, half purges, restarts and
\* overlapping jobs had left before it.
CleanReplace ==
    \A j \in Jobs :
        At(j, "done") /\ job[j].alone /\ ~job[j].skipped =>
            points = Chunks(job[j].doc) /\ registry = job[j].doc

\* As long as jobs, purges and flushes have not run into each other or into a
\* search, no answer quotes a text that the index did not hold when its search
\* read it, although answers are cached under positions and not under texts.
AnswersAreIndexed ==
    ~raced =>
        \A s \in Searches : search[s].pc = "answer" =>
            \A c \in search[s].answer :
                \E b \in search[s].seen : b.text = c.text /\ b.index = c.index

\* Where nothing fails and nothing overlaps, the registry says what is indexed.
RegistryDescribesIndex ==
    ~raced /\ failures = 0 /\ Quiet =>
        points = IF registry = NoDocument THEN {} ELSE Chunks(registry)

\* What ingest_jobs and the ingest API claim of a retry, that it is a no-op or a
\* clean replace: a job that ran alone and is done has its text indexed.
ReingestIsSafe ==
    \A j \in Jobs :
        At(j, "done") /\ job[j].alone =>
            \A c \in Chunks(job[j].doc) :
                \E b \in points : b.text = c.text /\ b.index = c.index
============================================================================
