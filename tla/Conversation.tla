---------------------------- MODULE Conversation ----------------------------
(***************************************************************************)
(* stream_chat: the asks of one conversation of the assistant.  An ask     *)
(* holds a pool connection and, on its session, the conversation's         *)
(* Postgres advisory lock from before it loads the memory until after it   *)
(* has stored the exchange and what memory it compacted.  Asks of several  *)
(* sockets and worker processes meet at the lock and in the pool; any of   *)
(* them can be cancelled (its socket closes) at any await, and a           *)
(* connection can be lost.                                                 *)
(*                                                                         *)
(* Of the memory the turn indices are kept: a summary is the set of turns  *)
(* it was made of.  The token budget and the summarizer decide freely how  *)
(* much is compacted and which of its calls fail.                          *)
(***************************************************************************)
EXTENDS Integers, FiniteSets, FiniteSetsExt

CONSTANTS
    Asks,         \* asks in progress at once
    Conns,        \* connections of the pool
    NoConn,
    MaxHistory,   \* max_history_turns
    MaxLast,      \* bound on the index of the last turn
    MaxFailures   \* bound on cancellations and lost connections

ASSUME NoConnAssumption == NoConn \notin Conns
ASSUME MaxHistoryAssumption == MaxHistory \in Nat \ {0}
ASSUME ConversationBounds == MaxLast \in Nat /\ MaxFailures \in Nat

VARIABLES
    last,       \* assistant_conversation_turns: index of the last turn
    summary,    \* assistant_conversations: rolling_summary, summary_through_turn
    ask,        \* stream_chat in progress
    lockOwner,  \* the session that holds the advisory lock
    lockDepth,  \* how many times it has taken it
    broken,     \* connections in use whose session is gone
    failures,
    lapsed      \* history: a summarizer call has failed

vars == <<last, summary, ask, lockOwner, lockDepth, broken, failures, lapsed>>
lock == <<lockOwner, lockDepth>>

Turns == Nat

Summary == [through : Turns \cup {-1}, covered : SUBSET Turns]

\* ConversationSnapshot and PreparedMemory: the turns first .. last, and the
\* summary of those before.
Memory == [through : Turns \cup {-1}, covered : SUBSET Turns,
           first : Turns, last : Turns \cup {-1}]

Idle == [pc |-> "idle", conn |-> NoConn]

NoMemory == [through |-> -1, covered |-> {}, first |-> 0, last |-> -1]

\* An ask is about to: get a connection, take the lock, find it taken, load and
\* prepare the memory, save it, run the graph, connect for a tool, append the
\* exchange, save the memory again, release the lock.
Ask == {Idle} \cup
    [pc : {"connect"}, conn : {NoConn}, memory : {NoMemory}] \cup
    [pc : {"lock", "locked", "load", "save", "graph", "tools", "append", "resave", "unlock"},
     conn : Conns, memory : Memory]

TypeOK ==
    /\ last \in Turns \cup {-1}
    /\ summary \in Summary
    /\ ask \in [Asks -> Ask]
    /\ \A r, s \in Asks : ask[r].conn = ask[s].conn /\ ask[r].conn # NoConn => r = s
    /\ lockOwner \in Conns \cup {NoConn}
    /\ lockDepth \in Nat /\ (lockDepth = 0 <=> lockOwner = NoConn)
    /\ broken \subseteq {ask[r].conn : r \in Asks} \ {NoConn, lockOwner}
    /\ failures \in 0 .. MaxFailures
    /\ lapsed \in BOOLEAN

Init ==
    /\ last = -1
    /\ summary = [through |-> -1, covered |-> {}]
    /\ ask = [r \in Asks |-> Idle]
    /\ lockOwner = NoConn /\ lockDepth = 0
    /\ broken = {}
    /\ failures = 0
    /\ lapsed = FALSE
----------------------------------------------------------------------------
At(r, pc) == ask[r].pc = pc

Goto(r, pc) == ask' = [ask EXCEPT ![r].pc = pc]

Keep(r, pc, m) == ask' = [ask EXCEPT ![r] = [pc |-> pc, conn |-> @.conn, memory |-> m]]

\* The ask is over and its connection is back in the pool.
Return(r) == ask' = [ask EXCEPT ![r] = Idle]

Free == Conns \ {ask[r].conn : r \in Asks}

\* The ask can talk to the database.
Connected(r) == ask[r].conn \notin broken

FailOnce == failures < MaxFailures /\ failures' = failures + 1

\* The first ask of a conversation mints its id, so that no other knows it yet;
\* MaxLast bounds the asks let in.
Start(r) ==
    /\ At(r, "idle")
    /\ last = -1 => \A s \in Asks : At(s, "idle")
    /\ last + 2 * (1 + Cardinality({s \in Asks : ~At(s, "idle")})) <= MaxLast
    /\ ask' = [ask EXCEPT ![r] = [pc |-> "connect", conn |-> NoConn, memory |-> NoMemory]]
    /\ UNCHANGED <<last, summary, lock, broken, failures, lapsed>>

\* pool.connection(), or PoolTimeout when none comes free in ten seconds.  The
\* other requests that hold connections are not modelled, so that an ask
\* may run into it at any time.
Connect(r) ==
    /\ At(r, "connect")
    /\ \E c \in Free :
            ask' = [ask EXCEPT ![r] = [pc |-> "lock", conn |-> c, memory |-> NoMemory]]
    /\ UNCHANGED <<last, summary, lock, broken, failures, lapsed>>

ConnectTimeout(r) ==
    /\ At(r, "connect")
    /\ Return(r)
    /\ UNCHANGED <<last, summary, lock, broken, failures, lapsed>>

\* Mutant: the lock is tried and not waited for.
AdvisoryLock_NotAwaited(r) ==
    /\ At(r, "lock")
    /\ Connected(r)
    /\ IF lockOwner \in {NoConn, ask[r].conn}
       THEN lockOwner' = ask[r].conn /\ lockDepth' = lockDepth + 1
       ELSE UNCHANGED lock
    /\ Goto(r, "locked")
    /\ UNCHANGED <<last, summary, broken, failures, lapsed>>

\* Postgres grants the lock; a session that holds it takes it once more.
AdvisoryLock(r) ==
    /\ At(r, "lock")
    /\ Connected(r)
    /\ lockOwner \in {NoConn, ask[r].conn}
    /\ lockOwner' = ask[r].conn
    /\ lockDepth' = lockDepth + 1
    /\ Goto(r, "locked")
    /\ UNCHANGED <<last, summary, broken, failures, lapsed>>

\* The answer is read, the transaction committed and the try block entered.
EnterLock(r) ==
    /\ At(r, "locked")
    /\ Connected(r)
    /\ Goto(r, "load")
    /\ UNCHANGED <<last, summary, lock, broken, failures, lapsed>>

\* pg_advisory_unlock by the session of r; what it returns is not looked at.
Unlocked(r) ==
    IF lockOwner = ask[r].conn
    THEN /\ lockDepth' = lockDepth - 1
         /\ lockOwner' = IF lockDepth = 1 THEN NoConn ELSE lockOwner
    ELSE UNCHANGED lock

AdvisoryUnlock(r) ==
    /\ At(r, "unlock")
    /\ Connected(r)
    /\ Unlocked(r)
    /\ Return(r)
    /\ UNCHANGED <<last, summary, broken, failures, lapsed>>
----------------------------------------------------------------------------
\* prepare_memory's outcomes: the turns beyond the newest MaxHistory are summarized
\* in one call, then turns are taken from the front one by one and summarized, as
\* many as the token budget asks for, up to first, the first one kept.  Turns whose
\* call fails are dropped all the same; done are the others.  With no turn left the
\* summary itself may be clipped.
Compactions(m) ==
    LET window == Max({m.first, m.last - MaxHistory + 1})
        beyond == m.first .. window - 1
    IN  {c \in [first : window .. m.last + 1, done : SUBSET (m.first .. m.last), clipped : BOOLEAN] :
            /\ c.done \subseteq m.first .. c.first - 1
            /\ beyond \subseteq c.done \/ beyond \cap c.done = {}
            /\ c.clipped => c.first > m.last /\ m.covered # {}}

\* Mutant: the marker is the first turn kept.
PreparedMemory_MarksRetained(m, c) ==
    [through |-> IF c.done = {} THEN m.through ELSE Min({Max(c.done) + 1, m.last}),
     covered |-> m.covered \cup c.done, first |-> c.first, last |-> m.last]

\* The marker is the last turn summarized.
PreparedMemory(m, c) ==
    [through |-> IF c.done = {} THEN m.through ELSE Max(c.done),
     covered |-> m.covered \cup c.done, first |-> c.first, last |-> m.last]

\* PreparedMemory.changed: the memory is to be saved.
Changed(c) == c.done # {} \/ c.clipped

\* A call of the summarizer failed.
Lapses(m, c) == c.done # m.first .. c.first - 1

\* async_load_snapshot; a conversation that does not exist yet is empty.
Snapshot ==
    [through |-> summary.through, covered |-> summary.covered,
     first |-> summary.through + 1, last |-> last]

LoadSnapshot(r) ==
    /\ At(r, "load")
    /\ Connected(r)
    /\ \E c \in Compactions(Snapshot) :
        /\ Keep(r, IF Changed(c) THEN "save" ELSE "graph", PreparedMemory(Snapshot, c))
        /\ lapsed' = (lapsed \/ Lapses(Snapshot, c))
    /\ UNCHANGED <<last, summary, lock, broken, failures>>

\* ConversationForbidden: the asker is not the owner.
Refuse(r) ==
    /\ At(r, "load")
    /\ last # -1
    /\ Connected(r)
    /\ Goto(r, "unlock")
    /\ UNCHANGED <<last, summary, lock, broken, failures, lapsed>>

Saved(m) == [through |-> m.through, covered |-> m.covered]

UpdateSummary(r) ==
    /\ At(r, "save") \/ At(r, "resave")
    /\ Connected(r)
    /\ summary' = Saved(ask[r].memory)
    /\ Goto(r, IF At(r, "save") THEN "graph" ELSE "unlock")
    /\ UNCHANGED <<last, lock, broken, failures, lapsed>>

\* The graph answers without the database, calls a project tool, or raises.
StreamGraph(r) ==
    /\ At(r, "graph")
    /\ \E pc \in {"append", "tools", "unlock"} : Goto(r, pc)
    /\ UNCHANGED <<last, summary, lock, broken, failures, lapsed>>

\* A project tool reads on a second connection of the pool.
CallTool(r) ==
    /\ At(r, "tools")
    /\ Free # {}
    /\ Goto(r, "append")
    /\ UNCHANGED <<last, summary, lock, broken, failures, lapsed>>

\* Mutant: a tool waits for a connection as long as it takes.
ToolTimeout_Never(r) ==
    /\ At(r, "tools")
    /\ Free # {}
    /\ Goto(r, "unlock")
    /\ UNCHANGED <<last, summary, lock, broken, failures, lapsed>>

\* Asks waiting for the lock, or other requests, have every other connection:
\* PoolTimeout fails the tool call or the ask.
ToolTimeout(r) ==
    /\ At(r, "tools")
    /\ \E pc \in {"append", "unlock"} : Goto(r, pc)
    /\ UNCHANGED <<last, summary, lock, broken, failures, lapsed>>

\* The memory after the exchange, numbered by the ask and not by the table.
WithExchange(m) == [m EXCEPT !.last = @ + 2]

\* async_append_exchange numbers the two turns after the table's last one; the
\* memory is then prepared again, with the exchange.
AppendExchange(r) ==
    /\ At(r, "append")
    /\ Connected(r)
    /\ last' = last + 2
    /\ LET m == WithExchange(ask[r].memory) IN
       \E c \in Compactions(m) :
        /\ Keep(r, IF Changed(c) THEN "resave" ELSE "unlock", PreparedMemory(m, c))
        /\ lapsed' = (lapsed \/ Lapses(m, c))
    /\ UNCHANGED <<summary, lock, broken, failures>>
----------------------------------------------------------------------------
\* A write of r that is interrupted took effect or did not.
MaybeWritten(r) ==
    \/ UNCHANGED <<last, summary>>
    \/ /\ At(r, "append")
       /\ last' = last + 2
       /\ UNCHANGED summary
    \/ /\ At(r, "save") \/ At(r, "resave")
       /\ summary' = Saved(ask[r].memory)
       /\ UNCHANGED last

\* Inside the try block a cancellation, or an error, releases the lock on the
\* way out.
Cancel(r) ==
    /\ ask[r].pc \in {"load", "save", "graph", "tools", "append", "resave"}
    /\ Connected(r)
    /\ FailOnce
    /\ MaybeWritten(r)
    /\ Goto(r, "unlock")
    /\ UNCHANGED <<lock, broken, lapsed>>

\* Before it, nothing is released: a lock that was granted stays with the
\* session, which goes back to the pool.  The same while loading, where the
\* query that is interrupted leaves the transaction aborted and the unlock
\* raises, and when the unlock itself is interrupted.
CancelOutside(r) ==
    /\ ask[r].pc \in {"connect", "lock", "locked", "load", "unlock"}
    /\ Connected(r)
    /\ FailOnce
    /\ Return(r)
    /\ UNCHANGED <<last, summary, lock, broken, lapsed>>

\* The session of a connection in use is gone, and its locks with it, maybe with
\* a write done that is never confirmed.
LoseConnection(c) ==
    /\ c \notin Free \cup broken
    /\ FailOnce
    /\ broken' = broken \cup {c}
    /\ \E r \in Asks : ask[r].conn = c /\ MaybeWritten(r)
    /\ IF lockOwner = c THEN lockOwner' = NoConn /\ lockDepth' = 0 ELSE UNCHANGED lock
    /\ UNCHANGED <<ask, lapsed>>

\* The ask learns it from its query, and the pool replaces the connection.
NoticeLoss(r) ==
    /\ ask[r].conn \in broken
    /\ ~At(r, "graph") /\ ~At(r, "tools")
    /\ Return(r)
    /\ broken' = broken \ {ask[r].conn}
    /\ UNCHANGED <<last, summary, lock, failures, lapsed>>

\* A connection past its max_lifetime is closed when it is back in the pool.
Recycle(c) ==
    /\ c \in Free
    /\ lockOwner = c
    /\ lockOwner' = NoConn /\ lockDepth' = 0
    /\ UNCHANGED <<last, summary, ask, broken, failures, lapsed>>

\* What the ask does without waiting for another.
Proceed(r) ==
    \/ Connect(r) \/ ConnectTimeout(r) \/ EnterLock(r) \/ LoadSnapshot(r) \/ UpdateSummary(r)
    \/ StreamGraph(r) \/ CallTool(r) \/ ToolTimeout(r) \/ AppendExchange(r)
    \/ AdvisoryUnlock(r) \/ NoticeLoss(r)

Next ==
    \/ \E r \in Asks :
        Start(r) \/ Proceed(r) \/ AdvisoryLock(r) \/ Refuse(r) \/ Cancel(r) \/ CancelOutside(r)
    \/ \E c \in Conns : LoseConnection(c) \/ Recycle(c)

Spec == Init /\ [][Next]_vars

\* The event loop runs every ask, and the pool's timeouts pass.  Postgres queues
\* the waiters of a lock.  Other requests keep drawing on the pool, which hands
\* out its connections in turn and replaces the one that has got too old.
Fairness ==
    /\ \A r \in Asks : WF_vars(Proceed(r)) /\ SF_vars(AdvisoryLock(r))
    /\ \A c \in Conns : SF_vars(Recycle(c))

FairSpec == Spec /\ Fairness
----------------------------------------------------------------------------
\* Asks inside the lock, with their session alive.
Inside(r) ==
    ask[r].pc \in {"save", "graph", "tools", "append", "resave"} /\ Connected(r)

\* What an ask knows of the conversation stays true until it is done, although
\* others wait, are cancelled, lose their session, leave the lock with a pooled
\* connection or take it over on one: the turns it numbers itself are the ones
\* in the table.
ViewIsCurrent == \A r \in Asks : Inside(r) => ask[r].memory.last = last

\* As long as no call of the summarizer has failed, the prompt of every ask is
\* complete: each turn of the table is in the summary or among the turns given,
\* whatever writes of memory were lost on the way.
PromptIsComplete ==
    ~lapsed =>
        \A r \in Asks : ask[r].pc \in {"graph", "tools"} /\ Connected(r) =>
            ask[r].memory.covered \cup ask[r].memory.first .. ask[r].memory.last = 0 .. last

\* Every ask ends, also with every connection of the pool held by asks that wait
\* for the lock, and with the lock left on a pooled connection.
AsksEnd == \A r \in Asks : ~At(r, "idle") ~> At(r, "idle")

\* What an ask has read of the conversation, as long as it can still write.
View == [r \in Asks |-> IF Inside(r) THEN ask[r].memory.last ELSE -2]

\* With the lock, the pool and every failure left out: one ask at a time works
\* on the conversation, and each exchange is added by one that knows all of it.
Serial == INSTANCE SerialConversation WITH view <- View

IsSerial == Serial!Spec
============================================================================
