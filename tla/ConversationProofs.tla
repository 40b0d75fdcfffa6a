------------------------ MODULE ConversationProofs ------------------------
(***************************************************************************)
(* Proofs about Conversation, for any asks, any pool, any history kept and *)
(* any number of failures.                                                 *)
(***************************************************************************)
EXTENDS Conversation, TLAPS, FiniteSetTheorems, WellFoundedInduction

(* An ask past the lock whose session lives is the one that holds it.      *)
LockInv ==
  \A r \in Asks :
    ask[r].pc \in {"locked", "load", "save", "graph", "tools", "append", "resave"} /\ Connected(r)
      => lockOwner = ask[r].conn

(* The summary covers the turns up to the marker, the rest are at hand.    *)
Whole(m) == m.covered = 0 .. m.through /\ m.first = m.through + 1 /\ m.through <= m.last

(* So it is of what is stored and of what each ask has in memory.          *)
WholeInv ==
  ~lapsed =>
    /\ Whole(Snapshot)
    /\ \A r \in Asks : ask[r].pc \in {"save", "graph", "tools", "append", "resave"} => Whole(ask[r].memory)

ConversationInv == TypeOK /\ LockInv /\ ViewIsCurrent /\ WholeInv
----------------------------------------------------------------------------
(* A finite set of integers that is not empty has a largest element, and   *)
(* Max is one.  A smallest set without would have one when an element is   *)
(* taken away, and that or the element taken is the largest.               *)
LEMMA MaxIsLargest ==
    ASSUME NEW S \in SUBSET Int, IsFiniteSet(S), S # {}
    PROVE  Max(S) \in S /\ \A y \in S : y <= Max(S)
<1> DEFINE Without == {A \in FiniteSubsetsOf(Int) : A # {} /\ ~\E x \in A : \A y \in A : x >= y}
<1>1. Without = {}
  <2> SUFFICES ASSUME Without # {} PROVE FALSE
    OBVIOUS
  <2>1. IsWellFoundedOn(StrictSubsetOrdering(Int), FiniteSubsetsOf(Int))
    BY FS_StrictSubsetOrderingWellFounded
  <2>2. PICK A \in Without : \A B \in Without : <<B, A>> \notin StrictSubsetOrdering(Int)
    BY <2>1, WFMin
  <2>3. A \subseteq Int /\ IsFiniteSet(A) /\ A # {}
    BY DEF FiniteSubsetsOf
  <2>4. PICK a \in A : TRUE
    BY <2>3
  <2> DEFINE B == A \ {a}
  <2>5. B \in FiniteSubsetsOf(Int) /\ <<B, A>> \in StrictSubsetOrdering(Int)
    BY <2>3, <2>4, FS_RemoveElement DEF FiniteSubsetsOf, StrictSubsetOrdering
  <2>6. B \notin Without
    BY <2>2, <2>5
  <2>7. CASE B = {}
    BY <2>3, <2>4, <2>7
  <2>8. CASE B # {}
    <3>1. PICK b \in B : \A y \in B : b >= y
      BY <2>5, <2>6, <2>8
    <3>2. \E x \in A : \A y \in A : x >= y
      BY <2>3, <2>4, <3>1
    <3> QED
      BY <3>2
  <2> QED
    BY <2>7, <2>8
<1>2. \E x \in S : \A y \in S : x >= y
  BY <1>1 DEF FiniteSubsetsOf
<1> QED
  BY <1>2 DEF Max

(* prepare_memory keeps the last turn, and what it makes of a whole memory *)
(* is whole unless a call of the summarizer failed.                        *)
LEMMA PrepareKeepsWhole ==
    ASSUME NEW m \in Memory, NEW c \in Compactions(m)
    PROVE  /\ PreparedMemory(m, c) \in Memory
           /\ PreparedMemory(m, c).last = m.last
           /\ Whole(m) /\ ~Lapses(m, c) => Whole(PreparedMemory(m, c))
<1> DEFINE window == Max({m.first, m.last - MaxHistory + 1})
<1> DEFINE p == PreparedMemory(m, c)
<1>1. m.first \in Nat /\ m.last \in Int /\ m.through \in Nat \cup {-1} /\ m.covered \in SUBSET Nat
  BY DEF Memory, Turns
<1>2. window \in Nat /\ window >= m.first
  <2> DEFINE S == {m.first, m.last - MaxHistory + 1}
  <2>1. S \in SUBSET Int /\ S # {} /\ m.first \in S
    BY <1>1, MaxHistoryAssumption
  <2>2. IsFiniteSet(S)
    <3>1. IsFiniteSet({m.first}) /\ S = {m.first} \cup {m.last - MaxHistory + 1}
      BY FS_Singleton
    <3> QED
      BY <3>1, FS_AddElement
  <2>3. Max(S) \in S /\ m.first <= Max(S)
    BY <2>1, <2>2, MaxIsLargest
  <2> QED
    BY <1>1, <2>1, <2>3
<1>3. /\ c.first \in window .. m.last + 1 /\ c.done \in SUBSET (m.first .. c.first - 1)
  BY DEF Compactions
<1> HIDE DEF window
<1>4. c.first \in Nat /\ c.first >= m.first /\ c.first <= m.last + 1
  BY <1>1, <1>2, <1>3
<1>5. IsFiniteSet(c.done) /\ c.done \in SUBSET Int
  <2>1. m.first \in Int /\ c.first - 1 \in Int
    BY <1>1, <1>4
  <2>2. IsFiniteSet(m.first .. c.first - 1)
    BY <2>1, FS_Interval
  <2> QED
    BY <1>3, <2>1, <2>2, FS_Subset
<1>6. c.done # {} => Max(c.done) \in c.done /\ \A y \in c.done : y <= Max(c.done)
  BY <1>5, MaxIsLargest
<1>7. p = [through |-> IF c.done = {} THEN m.through ELSE Max(c.done),
           covered |-> m.covered \cup c.done, first |-> c.first, last |-> m.last]
  BY DEF PreparedMemory
<1>8. p \in Memory
  <2>1. c.done \in SUBSET Nat
    BY <1>1, <1>3, <1>4
  <2> QED
    BY <1>1, <1>4, <1>6, <1>7, <2>1 DEF Memory, Turns
<1>9. ASSUME Whole(m), ~Lapses(m, c) PROVE Whole(p)
  <2>1. c.done = m.first .. c.first - 1 /\ m.first = m.through + 1 /\ m.covered = 0 .. m.through
    BY <1>9 DEF Whole, Lapses
  <2>2. m.covered \cup c.done = 0 .. c.first - 1
    BY <1>1, <1>4, <2>1
  <2>3. p.through = c.first - 1
    <3>1. CASE c.done = {}
      <4>1. m.first <= c.first - 1 => m.first \in m.first .. c.first - 1
        BY <1>1, <1>4
      <4>2. m.first \notin c.done
        BY <3>1
      <4>3. ~(m.first <= c.first - 1)
        BY <2>1, <4>1, <4>2
      <4>4. c.first = m.first
        BY <1>1, <1>4, <4>3
      <4> QED
        BY <1>1, <1>7, <2>1, <3>1, <4>4
    <3>2. CASE c.done # {}
      <4>1. c.first - 1 \in c.done
        BY <1>1, <1>4, <2>1, <3>2
      <4> QED
        BY <1>1, <1>4, <1>6, <1>7, <2>1, <3>2, <4>1
    <3> QED
      BY <3>1, <3>2
  <2> QED
    BY <1>1, <1>4, <1>7, <2>2, <2>3 DEF Whole
<1> QED
  BY <1>7, <1>8, <1>9
----------------------------------------------------------------------------
(* The pcs of an ask that has a connection.                                *)
Conducting == {"lock", "locked", "load", "save", "graph", "tools", "append", "resave", "unlock"}

LEMMA AskShape ==
    ASSUME TypeOK, NEW r \in Asks
    PROVE  /\ ask[r] \in Ask
           /\ ask[r].pc = "idle" => ask[r] = Idle
           /\ ask[r].pc = "connect" => ask[r].conn = NoConn /\ ask[r].memory \in Memory
           /\ ask[r].pc \in Conducting => ask[r].conn \in Conns /\ ask[r].memory \in Memory
           /\ ask[r].pc \in Conducting \cup {"idle", "connect"}
  BY DEF TypeOK, Ask, Idle, Conducting, NoMemory, Memory, Turns

(* An ask that goes on with the same connection, or leaves it.             *)
LEMMA OneAskMoves ==
    ASSUME TypeOK, NEW r \in Asks, NEW x \in Ask, ask' = [ask EXCEPT ![r] = x],
           x.conn = NoConn \/ x.conn = ask[r].conn
    PROVE  /\ ask' \in [Asks -> Ask] /\ ask'[r] = x
           /\ \A s \in Asks \ {r} : ask'[s] = ask[s]
           /\ \A s, u \in Asks : ask'[s].conn = ask'[u].conn /\ ask'[s].conn # NoConn => s = u
  BY DEF TypeOK

(* Another step of the same ask, to a pc with a connection.                *)
LEMMA Step ==
    ASSUME TypeOK, NEW r \in Asks, ask[r].pc \in Conducting, NEW pc \in Conducting,
           NEW m \in Memory
    PROVE  /\ [ask[r] EXCEPT !.pc = pc] \in Ask
           /\ [ask[r] EXCEPT !.pc = pc, !.memory = m] \in Ask
<1> DEFINE Asking == [pc : Conducting, conn : Conns, memory : Memory]
<1>1. ask[r] \in Ask
  BY DEF TypeOK
<1>2. ask[r] \in Asking
  BY <1>1 DEF Ask, Idle, Conducting
<1>3. [ask[r] EXCEPT !.pc = pc] \in Asking /\ [ask[r] EXCEPT !.pc = pc, !.memory = m] \in Asking
  BY <1>2
<1> QED
  BY <1>3 DEF Ask, Conducting
----------------------------------------------------------------------------
LEMMA ConversationInvInit == Init => ConversationInv
<1> SUFFICES ASSUME Init PROVE ConversationInv
  OBVIOUS
<1>1. \A r \in Asks : ask[r] = Idle /\ ask[r].pc = "idle" /\ ask[r].conn = NoConn
  BY DEF Init, Idle
<1>2. TypeOK
  <2>1. Idle \in Ask
    BY DEF Ask
  <2>2. ask \in [Asks -> Ask]
    BY <2>1 DEF Init
  <2>3. summary \in Summary /\ last \in Turns \cup {-1}
    BY DEF Init, Summary, Turns
  <2>4. broken \subseteq {ask[r].conn : r \in Asks} \ {NoConn, lockOwner}
    BY DEF Init
  <2>5. failures \in 0 .. MaxFailures
    BY ConversationBounds DEF Init
  <2> QED
    BY <1>1, <2>2, <2>3, <2>4, <2>5 DEF Init, TypeOK
<1>3. LockInv /\ ViewIsCurrent
  BY <1>1 DEF LockInv, ViewIsCurrent, Inside
<1>4. WholeInv
  <2>1. Snapshot = [through |-> -1, covered |-> {}, first |-> 0, last |-> -1]
    BY DEF Init, Snapshot
  <2>2. Whole(Snapshot)
    BY <2>1 DEF Whole
  <2> QED
    BY <1>1, <2>2 DEF WholeInv
<1> QED
  BY <1>2, <1>3, <1>4 DEF ConversationInv

(* Steps that leave the tables, the lock and the memory of the asks as     *)
(* they are.                                                               *)
LEMMA StartKeepsInv ==
    ASSUME ConversationInv, NEW r \in Asks, Start(r) PROVE ConversationInv'
<1> USE DEF Start, ConversationInv, At, lock
<1> DEFINE x == [pc |-> "connect", conn |-> NoConn, memory |-> NoMemory]
<1>1. x \in Ask /\ x.conn = NoConn /\ x.pc = "connect"
  BY DEF Ask
<1>2. /\ ask' \in [Asks -> Ask] /\ ask'[r] = x
      /\ \A s \in Asks \ {r} : ask'[s] = ask[s]
      /\ \A s, u \in Asks : ask'[s].conn = ask'[u].conn /\ ask'[s].conn # NoConn => s = u
  BY <1>1, OneAskMoves
<1>3. ask[r].conn = NoConn
  BY AskShape DEF Idle
<1>4. TypeOK'
  BY <1>1, <1>2, <1>3 DEF TypeOK
<1>5. LockInv' /\ ViewIsCurrent' /\ WholeInv'
  BY <1>1, <1>2 DEF LockInv, ViewIsCurrent, WholeInv, Inside, Connected, Snapshot
<1> QED
  BY <1>4, <1>5

LEMMA ConnectKeepsInv ==
    ASSUME ConversationInv, NEW r \in Asks, Connect(r) PROVE ConversationInv'
<1> USE DEF Connect, ConversationInv, At, lock
<1>1. PICK c \in Free : ask' = [ask EXCEPT ![r] = [pc |-> "lock", conn |-> c, memory |-> NoMemory]]
  OBVIOUS
<1> DEFINE x == [pc |-> "lock", conn |-> c, memory |-> NoMemory]
<1>2. ask[r].conn = NoConn
  BY AskShape
<1>3. c \in Conns /\ \A s \in Asks : ask[s].conn # c
  BY <1>1 DEF Free
<1>4. x \in Ask /\ x.pc = "lock" /\ x.conn = c
  <2>1. NoMemory \in Memory
    BY DEF NoMemory, Memory, Turns
  <2> QED
    BY <1>3, <2>1 DEF Ask
<1>5. ask' = [ask EXCEPT ![r] = x]
  BY <1>1
<1> HIDE DEF x
<1>6. /\ ask' \in [Asks -> Ask] /\ ask'[r] = x /\ x.pc = "lock" /\ x.conn = c
      /\ \A s \in Asks \ {r} : ask'[s] = ask[s] /\ ask[s].conn # c
  BY <1>3, <1>4, <1>5 DEF TypeOK
<1>7. TypeOK'
  <2>1. \A s, u \in Asks : ask'[s].conn = ask'[u].conn /\ ask'[s].conn # NoConn => s = u
    BY <1>6 DEF TypeOK
  <2>2. broken' \subseteq {ask'[s].conn : s \in Asks} \ {NoConn, lockOwner'}
    BY <1>2, <1>6 DEF TypeOK
  <2> QED
    BY <1>6, <2>1, <2>2 DEF TypeOK
<1>8. LockInv' /\ ViewIsCurrent' /\ WholeInv'
  BY <1>6 DEF LockInv, ViewIsCurrent, WholeInv, Inside, Connected, Snapshot
<1> QED
  BY <1>7, <1>8

(* An ask that is over leaves the lock as it is; a connection that is gone *)
(* is replaced.                                                            *)
LEMMA ReturnKeepsInv ==
    ASSUME ConversationInv, NEW r \in Asks, Return(r), UNCHANGED <<last, summary, lock, lapsed>>,
           broken' = broken \ {ask[r].conn}, failures' \in 0 .. MaxFailures
    PROVE  ConversationInv'
<1> USE DEF ConversationInv, Return, lock
<1>1. /\ ask' \in [Asks -> Ask] /\ ask'[r] = Idle
      /\ \A s \in Asks \ {r} : ask'[s] = ask[s]
      /\ \A s, u \in Asks : ask'[s].conn = ask'[u].conn /\ ask'[s].conn # NoConn => s = u
  <2>1. Idle \in Ask /\ Idle.conn = NoConn
    BY DEF Idle, Ask
  <2> QED
    BY <2>1, OneAskMoves
<1>2. TypeOK'
  <2>1. broken' \subseteq {ask'[s].conn : s \in Asks} \ {NoConn, lockOwner'}
    BY <1>1 DEF TypeOK
  <2> QED
    BY <1>1, <2>1 DEF TypeOK
<1>3. Idle.pc = "idle" /\ \A s \in Asks \ {r} : ask[s].conn # NoConn =>
                            (ask[s].conn \in broken' <=> ask[s].conn \in broken)
  BY DEF Idle, TypeOK
<1>4. \A s \in Asks \ {r} : ask[s].pc \in Conducting => ask[s].conn # NoConn
  BY AskShape, NoConnAssumption
<1>5. LockInv'
  BY <1>1, <1>3, <1>4 DEF LockInv, Connected, Conducting
<1>6. ViewIsCurrent' /\ WholeInv'
  BY <1>1, <1>3, <1>4 DEF ViewIsCurrent, WholeInv, Inside, Connected, Snapshot, Conducting
<1> QED
  BY <1>2, <1>5, <1>6

(* A step of an ask that changes its pc alone.                             *)
LEMMA GotoKeepsInv ==
    ASSUME ConversationInv, NEW r \in Asks, ask[r].pc \in Conducting, NEW pc \in Conducting,
           Goto(r, pc), UNCHANGED <<last, summary, lock, broken, failures, lapsed>>,
           \/ pc = "unlock"
           \/ ask[r].pc \in {"graph", "tools"} /\ pc \in {"tools", "append"}
           \/ ask[r].pc = "locked" /\ pc = "load"
    PROVE  ConversationInv'
<1> USE DEF ConversationInv, Goto, lock
<1> DEFINE x == [ask[r] EXCEPT !.pc = pc]
<1>1. x \in Ask /\ x.conn = ask[r].conn /\ x.pc = pc /\ x.memory = ask[r].memory
  <2>1. ask[r].memory \in Memory
    BY AskShape
  <2>2. x \in Ask
    BY <2>1, Step
  <2>3. ask[r] \in [pc : Conducting, conn : Conns, memory : Memory]
    BY DEF TypeOK, Ask, Idle, Conducting
  <2> QED
    BY <2>2, <2>3
<1> HIDE DEF x
<1>2. /\ ask' \in [Asks -> Ask] /\ ask'[r] = x
      /\ \A s \in Asks \ {r} : ask'[s] = ask[s]
      /\ \A s, u \in Asks : ask'[s].conn = ask'[u].conn /\ ask'[s].conn # NoConn => s = u
  <2>1. ask' = [ask EXCEPT ![r] = x]
    BY DEF x
  <2> QED
    BY <1>1, <2>1, OneAskMoves
<1>3. \A s \in Asks : ask'[s].conn = ask[s].conn /\ (s # r => ask'[s].pc = ask[s].pc)
                       /\ (ask[s].pc \in Conducting => ask'[s].memory = ask[s].memory)
  BY <1>1, <1>2
<1>4. TypeOK'
  <2>1. {ask'[s].conn : s \in Asks} = {ask[s].conn : s \in Asks}
    BY <1>3
  <2> QED
    BY <1>2, <2>1 DEF TypeOK
<1>5. LockInv'
  BY <1>1, <1>2, <1>3 DEF LockInv, Connected
<1>6. ViewIsCurrent' /\ WholeInv'
  BY <1>1, <1>2, <1>3 DEF ViewIsCurrent, WholeInv, Inside, Connected, Snapshot, Conducting
<1> QED
  BY <1>4, <1>5, <1>6

(* The lock is granted: nobody is past it with another session that lives. *)
LEMMA AdvisoryLockKeepsInv ==
    ASSUME ConversationInv, NEW r \in Asks, AdvisoryLock(r) PROVE ConversationInv'
<1> USE DEF ConversationInv, AdvisoryLock, At, Goto
<1> DEFINE x == [ask[r] EXCEPT !.pc = "locked"]
<1>1. /\ x \in Ask /\ x.conn = ask[r].conn /\ x.pc = "locked"
      /\ ask[r].conn \in Conns /\ ask[r].conn \notin broken
  <2>1. ask[r].memory \in Memory /\ ask[r].conn \in Conns
    BY AskShape DEF Conducting
  <2>2. x \in Ask
    BY <2>1, Step DEF Conducting
  <2>3. ask[r] \in [pc : Conducting, conn : Conns, memory : Memory]
    BY DEF TypeOK, Ask, Idle, Conducting
  <2> QED
    BY <2>1, <2>2, <2>3 DEF Connected
<1> HIDE DEF x
<1>2. /\ ask' \in [Asks -> Ask] /\ ask'[r] = x
      /\ \A s \in Asks \ {r} : ask'[s] = ask[s]
      /\ \A s, u \in Asks : ask'[s].conn = ask'[u].conn /\ ask'[s].conn # NoConn => s = u
  <2>1. ask' = [ask EXCEPT ![r] = x]
    BY DEF x
  <2> QED
    BY <1>1, <2>1, OneAskMoves
<1>3. TypeOK'
  <2>1. {ask'[s].conn : s \in Asks} = {ask[s].conn : s \in Asks}
    BY <1>1, <1>2
  <2>2. lockDepth' \in Nat /\ lockDepth' # 0 /\ lockOwner' # NoConn /\ lockOwner' \in Conns
    BY <1>1, NoConnAssumption DEF TypeOK
  <2>3. broken' \subseteq {ask'[s].conn : s \in Asks} \ {NoConn, lockOwner'}
    BY <1>1, <2>1 DEF TypeOK
  <2> QED
    BY <1>2, <2>2, <2>3 DEF TypeOK
<1>4. LockInv'
  <2> SUFFICES ASSUME NEW s \in Asks, Connected(s)', s # r,
                      ask[s].pc \in {"locked", "load", "save", "graph", "tools", "append", "resave"}
               PROVE  FALSE
    BY <1>1, <1>2 DEF LockInv
  <2>1. Connected(s)
    BY <1>2 DEF Connected
  <2>2. lockOwner = ask[s].conn /\ ask[s].conn \in Conns
    BY <2>1, AskShape DEF LockInv, Conducting
  <2>3. ask[s].conn = ask[r].conn
    BY <2>2, NoConnAssumption
  <2> QED
    BY <1>1, <2>3, NoConnAssumption DEF TypeOK
<1>5. ViewIsCurrent' /\ WholeInv'
  BY <1>1, <1>2 DEF ViewIsCurrent, WholeInv, Inside, Connected, Snapshot
<1> QED
  BY <1>3, <1>4, <1>5

LEMMA AdvisoryUnlockKeepsInv ==
    ASSUME ConversationInv, NEW r \in Asks, AdvisoryUnlock(r) PROVE ConversationInv'
<1> USE DEF ConversationInv, AdvisoryUnlock, At, Return, lock
<1>1. /\ ask' \in [Asks -> Ask] /\ ask'[r] = Idle
      /\ \A s \in Asks \ {r} : ask'[s] = ask[s]
      /\ \A s, u \in Asks : ask'[s].conn = ask'[u].conn /\ ask'[s].conn # NoConn => s = u
  <2>1. Idle \in Ask /\ Idle.conn = NoConn
    BY DEF Idle, Ask
  <2> QED
    BY <2>1, OneAskMoves
<1>2. ask[r].conn \in Conns /\ ask[r].conn \notin broken /\ Idle.pc = "idle"
  BY AskShape DEF Conducting, Connected, Idle
<1>3. /\ lockOwner' \in Conns \cup {NoConn}
      /\ lockDepth' \in Nat /\ (lockDepth' = 0 <=> lockOwner' = NoConn)
      /\ lockOwner # ask[r].conn => lockOwner' = lockOwner
      /\ lockOwner' \in {NoConn, lockOwner}
  BY <1>2, NoConnAssumption DEF Unlocked, TypeOK
<1>4. TypeOK'
  <2>1. broken' \subseteq {ask'[s].conn : s \in Asks} \ {NoConn, lockOwner'}
    BY <1>1, <1>2, <1>3 DEF TypeOK
  <2> QED
    BY <1>1, <1>3, <2>1 DEF TypeOK
<1>5. LockInv'
  <2> SUFFICES ASSUME NEW s \in Asks, Connected(s)', s # r,
                      ask[s].pc \in {"locked", "load", "save", "graph", "tools", "append", "resave"}
               PROVE  lockOwner' = ask[s].conn
    BY <1>1, <1>2 DEF LockInv
  <2>1. Connected(s)
    BY <1>1 DEF Connected
  <2>2. lockOwner = ask[s].conn
    BY <2>1 DEF LockInv
  <2>3. ask[s].conn # ask[r].conn
    BY <1>2, NoConnAssumption DEF TypeOK
  <2> QED
    BY <1>3, <2>2, <2>3
<1>6. ViewIsCurrent' /\ WholeInv'
  BY <1>1, <1>2 DEF ViewIsCurrent, WholeInv, Inside, Connected, Snapshot
<1> QED
  BY <1>4, <1>5, <1>6

LEMMA RecycleKeepsInv ==
    ASSUME ConversationInv, NEW c \in Conns, Recycle(c) PROVE ConversationInv'
<1> USE DEF ConversationInv, Recycle
<1>1. \A r \in Asks : ask[r].conn # c
  BY DEF Free
<1>2. TypeOK'
  BY DEF TypeOK
<1>3. LockInv'
  BY <1>1 DEF LockInv, Connected
<1>4. ViewIsCurrent' /\ WholeInv'
  BY DEF ViewIsCurrent, WholeInv, Inside, Connected, Snapshot
<1> QED
  BY <1>2, <1>3, <1>4

LEMMA LoadSnapshotKeepsInv ==
    ASSUME ConversationInv, NEW r \in Asks, LoadSnapshot(r) PROVE ConversationInv'
<1> USE DEF ConversationInv, LoadSnapshot, At, lock
<1>1. PICK c \in Compactions(Snapshot) :
        /\ Keep(r, IF Changed(c) THEN "save" ELSE "graph", PreparedMemory(Snapshot, c))
        /\ lapsed' = (lapsed \/ Lapses(Snapshot, c))
  OBVIOUS
<1> DEFINE m == PreparedMemory(Snapshot, c)
           pc == IF Changed(c) THEN "save" ELSE "graph"
           x == [pc |-> pc, conn |-> ask[r].conn, memory |-> m]
<1>2. Snapshot \in Memory /\ Snapshot.last = last
  BY DEF TypeOK, Snapshot, Summary, Memory, Turns
<1>3. m \in Memory /\ m.last = last /\ (Whole(Snapshot) /\ ~Lapses(Snapshot, c) => Whole(m))
  BY <1>1, <1>2, PrepareKeepsWhole
<1>4. ask[r].conn \in Conns /\ pc \in {"save", "graph"}
  BY AskShape DEF Conducting
<1> HIDE DEF m, pc
<1>5. x \in Ask /\ x.conn = ask[r].conn /\ x.pc = pc /\ x.memory = m
  BY <1>3, <1>4 DEF Ask
<1>6. ask' = [ask EXCEPT ![r] = x]
  BY <1>1 DEF Keep, m, pc
<1> HIDE DEF x
<1>7. /\ ask' \in [Asks -> Ask] /\ ask'[r] = x
      /\ \A s \in Asks \ {r} : ask'[s] = ask[s]
      /\ \A s, u \in Asks : ask'[s].conn = ask'[u].conn /\ ask'[s].conn # NoConn => s = u
  BY <1>5, <1>6, OneAskMoves
<1>8. TypeOK'
  <2>1. {ask'[s].conn : s \in Asks} = {ask[s].conn : s \in Asks}
    BY <1>5, <1>7
  <2>2. lapsed' \in BOOLEAN
    BY <1>1 DEF TypeOK, Lapses
  <2> QED
    BY <1>7, <2>1, <2>2 DEF TypeOK
<1>9. LockInv'
  BY <1>5, <1>7 DEF LockInv, Connected
<1>10. ViewIsCurrent'
  BY <1>3, <1>5, <1>7 DEF ViewIsCurrent, Inside, Connected
<1>11. WholeInv'
  <2> SUFFICES ASSUME ~lapsed' PROVE WholeInv'
    BY DEF WholeInv
  <2>1. ~lapsed /\ ~Lapses(Snapshot, c) /\ Whole(Snapshot) /\ Whole(m) /\ Whole(Snapshot)'
    BY <1>1, <1>3 DEF WholeInv, Snapshot, Whole
  <2> QED
    BY <1>4, <1>5, <1>7, <2>1 DEF WholeInv
<1> QED
  BY <1>8, <1>9, <1>10, <1>11

(* One ask at a time has a live session and is past the lock.              *)
LEMMA AloneInside ==
    ASSUME ConversationInv, NEW r \in Asks, NEW s \in Asks, r # s, Inside(r)
    PROVE  ~Inside(s)
<1> SUFFICES ASSUME Inside(s) PROVE FALSE
  OBVIOUS
<1>1. lockOwner = ask[r].conn /\ lockOwner = ask[s].conn
  BY DEF ConversationInv, LockInv, Inside
<1>2. ask[r].conn \in Conns
  BY AskShape DEF ConversationInv, Inside, Conducting
<1> QED
  BY <1>1, <1>2, NoConnAssumption DEF ConversationInv, TypeOK

(* A write that is done, or interrupted, leaves the tables whole, and the  *)
(* views of the others as they were.                                       *)
LEMMA WriteKeepsTables ==
    ASSUME ConversationInv, NEW r \in Asks, Connected(r), MaybeWritten(r), lapsed' = lapsed
    PROVE  /\ last' \in Turns \cup {-1} /\ summary' \in Summary
           /\ ~lapsed => Whole(Snapshot)'
           /\ \A s \in Asks \ {r} : Inside(s) => ask[s].memory.last = last'
<1> USE DEF ConversationInv, At
<1>1. CASE UNCHANGED <<last, summary>>
  BY <1>1 DEF TypeOK, WholeInv, Whole, Snapshot, ViewIsCurrent
<1>2. CASE At(r, "append") /\ last' = last + 2 /\ UNCHANGED summary
  <2>1. last' \in Turns \cup {-1} /\ last \in Int /\ last' = last + 2 /\ summary \in Summary
    BY <1>2 DEF TypeOK, Turns
  <2>2. ~lapsed => Whole(Snapshot)'
    <3>1. summary.through \in Int
      BY <2>1 DEF Summary, Turns
    <3> QED
      BY <1>2, <2>1, <3>1 DEF WholeInv, Whole, Snapshot
  <2>3. Inside(r)
    BY <1>2 DEF Inside
  <2> QED
    BY <1>2, <2>1, <2>2, <2>3, AloneInside
<1>3. CASE (At(r, "save") \/ At(r, "resave")) /\ summary' = Saved(ask[r].memory) /\ UNCHANGED last
  <2>1. ask[r].memory \in Memory
    BY <1>3, AskShape DEF Conducting
  <2>2. ask[r].memory.last = last
    BY <1>3 DEF ViewIsCurrent, Inside
  <2>3. summary' = [through |-> ask[r].memory.through, covered |-> ask[r].memory.covered]
    BY <1>3 DEF Saved
  <2>4. summary' \in Summary
    BY <2>1, <2>3 DEF Summary, Memory
  <2>5. ~lapsed => Whole(Snapshot)'
    BY <1>3, <2>2, <2>3 DEF WholeInv, Whole, Snapshot
  <2> QED
    BY <1>3, <2>4, <2>5 DEF TypeOK, ViewIsCurrent
<1> QED
  BY <1>1, <1>2, <1>3 DEF MaybeWritten

(* A step after which the ask releases the lock, or runs its graph, with   *)
(* the memory it had.                                                      *)
LEMMA WriteKeepsInv ==
    ASSUME ConversationInv, NEW r \in Asks, ask[r].pc \in Conducting, Connected(r),
           NEW pc \in {"graph", "unlock"}, Goto(r, pc), MaybeWritten(r),
           UNCHANGED <<lock, broken, lapsed>>, failures' \in 0 .. MaxFailures,
           pc = "graph" => At(r, "save") /\ UNCHANGED last
    PROVE  ConversationInv'
<1> USE DEF ConversationInv, Goto, lock
<1> DEFINE x == [ask[r] EXCEPT !.pc = pc]
<1>1. x \in Ask /\ x.conn = ask[r].conn /\ x.pc = pc /\ x.memory = ask[r].memory
  <2>1. ask[r].memory \in Memory /\ pc \in Conducting
    BY AskShape DEF Conducting
  <2>2. x \in Ask
    BY <2>1, Step
  <2>3. ask[r] \in [pc : Conducting, conn : Conns, memory : Memory]
    BY DEF TypeOK, Ask, Idle, Conducting
  <2> QED
    BY <2>2, <2>3
<1> HIDE DEF x
<1>2. /\ ask' \in [Asks -> Ask] /\ ask'[r] = x
      /\ \A s \in Asks \ {r} : ask'[s] = ask[s]
      /\ \A s, u \in Asks : ask'[s].conn = ask'[u].conn /\ ask'[s].conn # NoConn => s = u
  <2>1. ask' = [ask EXCEPT ![r] = x]
    BY DEF x
  <2> QED
    BY <1>1, <2>1, OneAskMoves
<1>3. /\ last' \in Turns \cup {-1} /\ summary' \in Summary
      /\ ~lapsed => Whole(Snapshot)'
      /\ \A s \in Asks \ {r} : Inside(s) => ask[s].memory.last = last'
  BY WriteKeepsTables
<1>4. TypeOK'
  <2>1. {ask'[s].conn : s \in Asks} = {ask[s].conn : s \in Asks}
    BY <1>1, <1>2
  <2> QED
    BY <1>2, <1>3, <2>1 DEF TypeOK
<1>5. LockInv'
  BY <1>1, <1>2 DEF LockInv, Connected, At
<1>6. ViewIsCurrent'
  BY <1>1, <1>2, <1>3 DEF ViewIsCurrent, Inside, Connected, At
<1>7. WholeInv'
  BY <1>1, <1>2, <1>3 DEF WholeInv, At
<1> QED
  BY <1>4, <1>5, <1>6, <1>7

LEMMA UpdateSummaryKeepsInv ==
    ASSUME ConversationInv, NEW r \in Asks, UpdateSummary(r) PROVE ConversationInv'
<1> USE DEF UpdateSummary
<1>1. MaybeWritten(r)
  BY DEF MaybeWritten
<1>2. ask[r].pc \in Conducting /\ failures' \in 0 .. MaxFailures
  BY DEF At, Conducting, ConversationInv, TypeOK
<1>3. CASE At(r, "save")
  BY <1>1, <1>2, <1>3, WriteKeepsInv
<1>4. CASE ~At(r, "save")
  BY <1>1, <1>2, <1>4, WriteKeepsInv
<1> QED
  BY <1>3, <1>4

LEMMA CancelKeepsInv ==
    ASSUME ConversationInv, NEW r \in Asks, Cancel(r) PROVE ConversationInv'
<1>1. ask[r].pc \in Conducting /\ failures' \in 0 .. MaxFailures
  BY ConversationBounds DEF Cancel, Conducting, ConversationInv, TypeOK, FailOnce
<1> QED
  BY <1>1, WriteKeepsInv DEF Cancel

LEMMA LoseConnectionKeepsInv ==
    ASSUME ConversationInv, NEW c \in Conns, LoseConnection(c) PROVE ConversationInv'
<1> USE DEF ConversationInv, LoseConnection, lock
<1>1. PICK r \in Asks : ask[r].conn = c /\ MaybeWritten(r)
  OBVIOUS
<1>2. Connected(r) /\ c # NoConn
  BY <1>1, NoConnAssumption DEF Connected
<1>3. /\ last' \in Turns \cup {-1} /\ summary' \in Summary
      /\ ~lapsed => Whole(Snapshot)'
      /\ \A s \in Asks \ {r} : Inside(s) => ask[s].memory.last = last'
  BY <1>1, <1>2, WriteKeepsTables
<1>4. TypeOK'
  <2>1. failures' \in 0 .. MaxFailures
    BY ConversationBounds DEF FailOnce, TypeOK
  <2>2. broken' \subseteq {ask'[s].conn : s \in Asks} \ {NoConn, lockOwner'}
    BY <1>1, <1>2 DEF TypeOK
  <2>3. lockOwner' \in Conns \cup {NoConn} /\ lockDepth' \in Nat /\ (lockDepth' = 0 <=> lockOwner' = NoConn)
    BY DEF TypeOK
  <2> QED
    BY <1>3, <2>1, <2>2, <2>3 DEF TypeOK
<1>5. LockInv'
  BY <1>1, <1>2 DEF LockInv, Connected
<1>6. ViewIsCurrent'
  BY <1>1, <1>2, <1>3 DEF ViewIsCurrent, Inside, Connected
<1>7. WholeInv'
  BY <1>3 DEF WholeInv
<1> QED
  BY <1>4, <1>5, <1>6, <1>7

LEMMA AppendExchangeKeepsInv ==
    ASSUME ConversationInv, NEW r \in Asks, AppendExchange(r) PROVE ConversationInv'
<1> USE DEF ConversationInv, AppendExchange, At, lock
<1> DEFINE before == WithExchange(ask[r].memory)
<1>1. PICK c \in Compactions(before) :
        /\ Keep(r, IF Changed(c) THEN "resave" ELSE "unlock", PreparedMemory(before, c))
        /\ lapsed' = (lapsed \/ Lapses(before, c))
  OBVIOUS
<1> DEFINE m == PreparedMemory(before, c)
           pc == IF Changed(c) THEN "resave" ELSE "unlock"
           x == [pc |-> pc, conn |-> ask[r].conn, memory |-> m]
<1>2. ask[r].memory \in Memory /\ ask[r].conn \in Conns /\ Inside(r) /\ ask[r].memory.last = last
  BY AskShape DEF Conducting, Inside, ViewIsCurrent
<1>3. /\ before \in Memory /\ before.last = last + 2
      /\ Whole(ask[r].memory) => Whole(before)
  BY <1>2 DEF WithExchange, Memory, Turns, Whole
<1> HIDE DEF before
<1>4. m \in Memory /\ m.last = last' /\ (Whole(before) /\ ~Lapses(before, c) => Whole(m))
  BY <1>1, <1>3, PrepareKeepsWhole
<1>5. pc \in {"resave", "unlock"}
  OBVIOUS
<1> HIDE DEF m, pc
<1>6. x \in Ask /\ x.conn = ask[r].conn /\ x.pc = pc /\ x.memory = m
  BY <1>2, <1>4, <1>5 DEF Ask
<1>7. ask' = [ask EXCEPT ![r] = x]
  BY <1>1 DEF Keep, m, pc
<1> HIDE DEF x
<1>8. /\ ask' \in [Asks -> Ask] /\ ask'[r] = x
      /\ \A s \in Asks \ {r} : ask'[s] = ask[s]
      /\ \A s, u \in Asks : ask'[s].conn = ask'[u].conn /\ ask'[s].conn # NoConn => s = u
  BY <1>6, <1>7, OneAskMoves
<1>9. TypeOK'
  <2>1. {ask'[s].conn : s \in Asks} = {ask[s].conn : s \in Asks}
    BY <1>6, <1>8
  <2>2. lapsed' \in BOOLEAN
    BY <1>1 DEF TypeOK, Lapses
  <2>3. last' \in Turns \cup {-1}
    BY DEF TypeOK, Turns
  <2> QED
    BY <1>8, <2>1, <2>2, <2>3 DEF TypeOK
<1>10. LockInv'
  BY <1>5, <1>6, <1>8 DEF LockInv, Connected
<1>11. ViewIsCurrent'
  <2>1. \A s \in Asks \ {r} : ~Inside(s)
    BY <1>2, AloneInside
  <2> QED
    BY <1>4, <1>6, <1>8, <2>1 DEF ViewIsCurrent, Inside, Connected
<1>12. WholeInv'
  <2> SUFFICES ASSUME ~lapsed' PROVE WholeInv'
    BY DEF WholeInv
  <2>1. ~lapsed /\ ~Lapses(before, c) /\ Whole(Snapshot) /\ Whole(ask[r].memory)
    BY <1>1 DEF WholeInv
  <2>2. Whole(Snapshot)'
    BY <2>1 DEF Whole, Snapshot, TypeOK, Summary, Turns
  <2> QED
    BY <1>3, <1>4, <1>5, <1>6, <1>8, <2>1, <2>2 DEF WholeInv
<1> QED
  BY <1>9, <1>10, <1>11, <1>12
----------------------------------------------------------------------------
LEMMA NextKeepsInv == ConversationInv /\ [Next]_vars => ConversationInv'
<1> SUFFICES ASSUME ConversationInv, [Next]_vars PROVE ConversationInv'
  OBVIOUS
<1>1. CASE UNCHANGED vars
  <2> USE <1>1 DEF vars
  <2>1. TypeOK' /\ LockInv'
    BY DEF ConversationInv, TypeOK, LockInv, Connected
  <2>2. ViewIsCurrent' /\ WholeInv'
    BY DEF ConversationInv, ViewIsCurrent, WholeInv, Inside, Connected, Snapshot
  <2> QED
    BY <2>1, <2>2 DEF ConversationInv
<1>2. ASSUME NEW r \in Asks, Start(r) \/ AdvisoryLock(r) \/ Cancel(r) PROVE ConversationInv'
  BY <1>2, StartKeepsInv, AdvisoryLockKeepsInv, CancelKeepsInv
<1>3. ASSUME NEW r \in Asks,
             \/ Connect(r) \/ LoadSnapshot(r) \/ UpdateSummary(r)
             \/ AppendExchange(r) \/ AdvisoryUnlock(r)
      PROVE  ConversationInv'
  BY <1>3, ConnectKeepsInv, LoadSnapshotKeepsInv, UpdateSummaryKeepsInv,
     AppendExchangeKeepsInv, AdvisoryUnlockKeepsInv
<1>4. ASSUME NEW r \in Asks, ConnectTimeout(r) \/ CancelOutside(r) \/ NoticeLoss(r)
      PROVE  ConversationInv'
  <2>1. failures' \in 0 .. MaxFailures
    BY <1>4, ConversationBounds
       DEF ConnectTimeout, CancelOutside, NoticeLoss, FailOnce, ConversationInv, TypeOK
  <2>2. broken' = broken \ {ask[r].conn}
    <3>1. CASE ConnectTimeout(r)
      <4>1. ask[r].conn = NoConn /\ NoConn \notin broken
        BY <3>1, AskShape DEF ConnectTimeout, At, ConversationInv, TypeOK
      <4> QED
        BY <3>1, <4>1 DEF ConnectTimeout
    <3>2. CASE CancelOutside(r)
      BY <3>2 DEF CancelOutside, Connected
    <3>3. CASE NoticeLoss(r)
      BY <3>3 DEF NoticeLoss
    <3> QED
      BY <1>4, <3>1, <3>2, <3>3
  <2> QED
    BY <1>4, <2>1, <2>2, ReturnKeepsInv DEF ConnectTimeout, CancelOutside, NoticeLoss, lock
<1>5. ASSUME NEW r \in Asks,
             EnterLock(r) \/ Refuse(r) \/ StreamGraph(r) \/ CallTool(r) \/ ToolTimeout(r)
      PROVE  ConversationInv'
  <2>1. PICK pc \in {"load", "unlock", "tools", "append"} :
          /\ Goto(r, pc) /\ UNCHANGED <<last, summary, lock, broken, failures, lapsed>>
          /\ ask[r].pc \in {"locked", "load", "graph", "tools"}
          /\ \/ pc = "unlock"
             \/ ask[r].pc \in {"graph", "tools"} /\ pc \in {"tools", "append"}
             \/ ask[r].pc = "locked" /\ pc = "load"
    BY <1>5 DEF EnterLock, Refuse, StreamGraph, CallTool, ToolTimeout, At
  <2> QED
    BY <2>1, GotoKeepsInv DEF Conducting
<1>6. ASSUME NEW c \in Conns, LoseConnection(c) \/ Recycle(c) PROVE ConversationInv'
  BY <1>6, LoseConnectionKeepsInv, RecycleKeepsInv
<1> QED
  BY <1>1, <1>2, <1>3, <1>4, <1>5, <1>6 DEF Next, Proceed

(* The invariant of an ask's steps, and with it the types.                 *)
THEOREM ConversationInvariant == Spec => []ConversationInv
<1>1. Init => ConversationInv
  BY ConversationInvInit
<1>2. ConversationInv /\ [Next]_vars => ConversationInv'
  BY NextKeepsInv
<1> QED
  BY <1>1, <1>2, PTL DEF Spec

(* Every variable keeps its type, whatever the asks, pool and failures: no *)
(* connection serves two asks, and none whose session is gone holds the    *)
(* lock (stream_chat, async_conversation_lock).                            *)
THEOREM ConversationTypes == Spec => []TypeOK
<1>1. ConversationInv => TypeOK
  BY DEF ConversationInv
<1> QED
  BY <1>1, ConversationInvariant, PTL

(* An ask inside the lock with a live session numbers the turns as the     *)
(* table does (stream_chat, async_append_exchange).                        *)
THEOREM ViewStaysCurrent == Spec => []ViewIsCurrent
<1>1. ConversationInv => ViewIsCurrent
  BY DEF ConversationInv
<1> QED
  BY <1>1, ConversationInvariant, PTL

(* Until a call of the summarizer fails no turn is missing from a prompt   *)
(* (prepare_memory, async_load_snapshot).                                  *)
THEOREM PromptStaysComplete == Spec => []PromptIsComplete
<1>1. ConversationInv => PromptIsComplete
  <2> SUFFICES ASSUME ConversationInv, ~lapsed, NEW r \in Asks,
                      ask[r].pc \in {"graph", "tools"}, Connected(r)
               PROVE  ask[r].memory.covered \cup ask[r].memory.first .. ask[r].memory.last = 0 .. last
    BY DEF PromptIsComplete
  <2> DEFINE m == ask[r].memory
  <2>1. m \in Memory /\ m.last = last /\ Whole(m)
    BY AskShape DEF ConversationInv, Conducting, ViewIsCurrent, Inside, WholeInv
  <2> HIDE DEF m
  <2>2. /\ m.through \in Nat \cup {-1} /\ last \in Nat \cup {-1}
        /\ m.covered = 0 .. m.through /\ m.first = m.through + 1 /\ m.through <= last
    BY <2>1 DEF Memory, Turns, Whole
  <2>3. m.covered \cup m.first .. last = 0 .. last
    BY <2>2
  <2> QED
    BY <2>1, <2>3 DEF m
<1> QED
  BY <1>1, ConversationInvariant, PTL
----------------------------------------------------------------------------
(* The steps as steps of SerialConversation.  With the invariant before    *)
(* and after, who is inside the lock and the last turn say it all.         *)
SerialStep == Serial!Next \/ UNCHANGED <<last, View>>

LEMMA ViewOfInside ==
    ASSUME ViewIsCurrent
    PROVE  View = [s \in Asks |-> IF Inside(s) THEN last ELSE -2]
  BY DEF ViewIsCurrent, View

LEMMA InsideMaps ==
    ASSUME ConversationInv, ConversationInv', NEW r \in Asks,
           \A s \in Asks \ {r} : Inside(s)' <=> Inside(s),
           \/ last' = last /\ (Inside(r)' => Inside(r))
           \/ last' = last /\ \A s \in Asks : ~Inside(s)
           \/ last' = last + 2 /\ Inside(r)
    PROVE  SerialStep
<1>1. /\ View = [s \in Asks |-> IF Inside(s) THEN last ELSE -2]
      /\ View' = [s \in Asks |-> IF Inside(s)' THEN last' ELSE -2]
  <2>1. View = [s \in Asks |-> IF Inside(s) THEN last ELSE -2]
    BY ViewOfInside DEF ConversationInv
  <2>2. View' = [s \in Asks |-> IF Inside(s)' THEN last' ELSE -2]
    BY DEF ConversationInv, ViewIsCurrent, View
  <2> QED
    BY <2>1, <2>2
<1>2. last \in Int /\ last >= -1
  BY DEF ConversationInv, TypeOK, Turns
<1>3. CASE last' = last /\ (Inside(r)' <=> Inside(r))
  <2>1. \A s \in Asks : (IF Inside(s)' THEN last' ELSE -2) = (IF Inside(s) THEN last ELSE -2)
    BY <1>3
  <2> QED
    BY <1>1, <1>3, <2>1 DEF SerialStep
<1>4. CASE last' = last /\ Inside(r) /\ ~Inside(r)'
  <2>1. Serial!Leave(r)
    BY <1>1, <1>2, <1>4 DEF Serial!Leave, Serial!NoView
  <2> QED
    BY <2>1 DEF SerialStep, Serial!Next
<1>5. CASE last' = last /\ Inside(r)' /\ \A s \in Asks : ~Inside(s)
  <2>1. Serial!Read(r)
    BY <1>1, <1>5 DEF Serial!Read, Serial!NoView
  <2> QED
    BY <2>1 DEF SerialStep, Serial!Next
<1>6. CASE last' = last + 2 /\ Inside(r)
  <2>1. \A s \in Asks \ {r} : ~Inside(s) /\ ~Inside(s)'
    BY <1>6, AloneInside
  <2>2. View' = [View EXCEPT ![r] = IF Inside(r)' THEN last' ELSE -2]
    BY <1>1, <2>1
  <2>3. View[r] = last
    BY <1>1, <1>6
  <2>4. Serial!Exchange(r)
    BY <1>6, <2>2, <2>3 DEF Serial!Exchange, Serial!NoView
  <2> QED
    BY <2>4 DEF SerialStep, Serial!Next
<1> QED
  BY <1>3, <1>4, <1>5, <1>6

(* A step of one ask, its connection kept or given back, as a step of      *)
(* SerialConversation when it does not bring the ask inside.               *)
LEMMA GotoShape ==
    ASSUME TypeOK, NEW r \in Asks, ask[r].pc \in Conducting, NEW pc \in Conducting, Goto(r, pc)
    PROVE  /\ ask'[r].pc = pc /\ ask'[r].conn = ask[r].conn
           /\ \A s \in Asks \ {r} : ask'[s] = ask[s]
<1>1. ask[r] \in [pc : Conducting, conn : Conns, memory : Memory]
  BY DEF TypeOK, Ask, Idle, Conducting
<1> QED
  BY <1>1 DEF Goto, TypeOK

LEMMA GotoMaps ==
    ASSUME ConversationInv, ConversationInv', NEW r \in Asks, ask[r].pc \in Conducting,
           NEW pc \in Conducting, Goto(r, pc), UNCHANGED broken,
           pc \in {"save", "graph", "tools", "append", "resave"} => Inside(r) \/ ~Connected(r),
           last' = last \/ (last' = last + 2 /\ Inside(r))
    PROVE  SerialStep
<1>1. /\ ask'[r].pc = pc /\ ask'[r].conn = ask[r].conn
      /\ \A s \in Asks \ {r} : ask'[s] = ask[s]
  BY GotoShape DEF ConversationInv
<1>2. /\ \A s \in Asks \ {r} : Inside(s)' <=> Inside(s)
      /\ Inside(r)' => Inside(r)
  BY <1>1 DEF Inside, Connected
<1> QED
  BY <1>2, InsideMaps

LEMMA ReturnMaps ==
    ASSUME ConversationInv, ConversationInv', NEW r \in Asks, NEW x,
           ask' = [ask EXCEPT ![r] = x], x.pc \in {"idle", "connect", "lock"},
           broken' \in {broken, broken \ {ask[r].conn}}, UNCHANGED last
    PROVE  SerialStep
<1>1. ask'[r] = x /\ \A s \in Asks \ {r} : ask'[s] = ask[s]
  BY DEF ConversationInv, TypeOK
<1>2. ~Inside(r)'
  BY <1>1 DEF Inside
<1>3. ASSUME NEW s \in Asks \ {r} PROVE Inside(s)' <=> Inside(s)
  <2>1. ask[s].pc \in {"save", "graph", "tools", "append", "resave"} => ask[s].conn # ask[r].conn
    BY AskShape, NoConnAssumption DEF ConversationInv, TypeOK, Conducting
  <2> QED
    BY <1>1, <2>1 DEF Inside, Connected
<1> QED
  BY <1>2, <1>3, InsideMaps

(* The memory is read by the ask that holds the lock, when no other is     *)
(* inside.                                                                 *)
LEMMA LoadMaps ==
    ASSUME ConversationInv, ConversationInv', NEW r \in Asks, LoadSnapshot(r)
    PROVE  SerialStep
<1>1. ask[r].pc = "load" /\ Connected(r) /\ UNCHANGED <<last, broken>>
  BY DEF LoadSnapshot, At
<1>2. \A s \in Asks \ {r} : ask'[s] = ask[s]
  BY DEF LoadSnapshot, Keep, ConversationInv, TypeOK
<1>3. ASSUME NEW s \in Asks PROVE ~Inside(s)
  <2>1. CASE s = r
    BY <1>1, <2>1 DEF Inside
  <2>2. CASE s # r
    <3> SUFFICES ASSUME Inside(s) PROVE FALSE
      OBVIOUS
    <3>1. lockOwner = ask[r].conn /\ lockOwner = ask[s].conn
      BY <1>1 DEF ConversationInv, LockInv, Inside
    <3>2. ask[r].conn \in Conns
      BY <1>1, AskShape DEF ConversationInv, Conducting
    <3> QED
      BY <2>2, <3>1, <3>2, NoConnAssumption DEF ConversationInv, TypeOK
  <2> QED
    BY <2>1, <2>2
<1>4. \A s \in Asks \ {r} : Inside(s)' <=> Inside(s)
  BY <1>1, <1>2 DEF Inside, Connected
<1> QED
  BY <1>1, <1>3, <1>4, InsideMaps

(* The exchange is added by an ask that is inside.                         *)
LEMMA AppendMaps ==
    ASSUME ConversationInv, ConversationInv', NEW r \in Asks, AppendExchange(r)
    PROVE  SerialStep
<1>1. Inside(r) /\ last' = last + 2 /\ UNCHANGED broken
  BY DEF AppendExchange, Inside, At
<1>2. \A s \in Asks \ {r} : ask'[s] = ask[s]
  BY DEF AppendExchange, Keep, ConversationInv, TypeOK
<1>3. \A s \in Asks \ {r} : Inside(s)' <=> Inside(s)
  BY <1>1, <1>2 DEF Inside, Connected
<1> QED
  BY <1>1, <1>3, InsideMaps

(* A write that is interrupted is one of the ask inside.                   *)
LEMMA MaybeWrittenLast ==
    ASSUME NEW r \in Asks, Connected(r), MaybeWritten(r)
    PROVE  last' = last \/ (last' = last + 2 /\ Inside(r))
  BY DEF MaybeWritten, Inside, At

LEMMA LossMaps ==
    ASSUME ConversationInv, ConversationInv', NEW c \in Conns, LoseConnection(c)
    PROVE  SerialStep
<1>1. PICK r \in Asks : ask[r].conn = c /\ MaybeWritten(r)
  BY DEF LoseConnection
<1>2. Connected(r) /\ UNCHANGED ask /\ broken' = broken \cup {c}
  BY <1>1 DEF LoseConnection, Connected
<1>3. \A s \in Asks \ {r} : ask[s].conn # c
  BY <1>1, NoConnAssumption DEF ConversationInv, TypeOK
<1>4. /\ \A s \in Asks \ {r} : Inside(s)' <=> Inside(s)
      /\ ~Inside(r)'
  BY <1>1, <1>2, <1>3 DEF Inside, Connected
<1> QED
  BY <1>1, <1>2, <1>4, MaybeWrittenLast, InsideMaps

LEMMA NextMaps == ConversationInv /\ ConversationInv' /\ [Next]_vars => SerialStep
<1> SUFFICES ASSUME ConversationInv, ConversationInv', [Next]_vars PROVE SerialStep
  OBVIOUS
<1>0. TypeOK
  BY DEF ConversationInv
<1>1. CASE UNCHANGED vars
  BY <1>1 DEF vars, SerialStep, View, Inside, Connected
<1>2. ASSUME NEW r \in Asks, Start(r) \/ Connect(r) PROVE SerialStep
  <2>1. UNCHANGED <<last, broken>>
    BY <1>2 DEF Start, Connect
  <2>2. CASE Start(r)
    <3> DEFINE x == [pc |-> "connect", conn |-> NoConn, memory |-> NoMemory]
    <3>1. ask' = [ask EXCEPT ![r] = x] /\ x.pc = "connect"
      BY <2>2 DEF Start
    <3> HIDE DEF x
    <3> QED
      BY <2>1, <3>1, ReturnMaps
  <2>3. ASSUME NEW c \in Free, ask' = [ask EXCEPT ![r] = [pc |-> "lock", conn |-> c, memory |-> NoMemory]]
        PROVE  SerialStep
    <3> DEFINE x == [pc |-> "lock", conn |-> c, memory |-> NoMemory]
    <3>1. ask' = [ask EXCEPT ![r] = x] /\ x.pc = "lock"
      BY <2>3
    <3> HIDE DEF x
    <3> QED
      BY <2>1, <3>1, ReturnMaps
  <2> QED
    BY <1>2, <2>2, <2>3 DEF Connect
<1>3. ASSUME NEW r \in Asks,
             ConnectTimeout(r) \/ CancelOutside(r) \/ NoticeLoss(r) \/ AdvisoryUnlock(r)
      PROVE  SerialStep
  <2>1. ask' = [ask EXCEPT ![r] = Idle] /\ Idle.pc = "idle"
    BY <1>3 DEF ConnectTimeout, CancelOutside, NoticeLoss, AdvisoryUnlock, Return, Idle
  <2>2. broken' \in {broken, broken \ {ask[r].conn}} /\ UNCHANGED last
    BY <1>3 DEF ConnectTimeout, CancelOutside, NoticeLoss, AdvisoryUnlock
  <2> QED
    BY <2>1, <2>2, ReturnMaps
<1>4. ASSUME NEW r \in Asks,
             \/ AdvisoryLock(r) \/ EnterLock(r) \/ Refuse(r)
             \/ UpdateSummary(r) \/ StreamGraph(r) \/ CallTool(r) \/ ToolTimeout(r)
      PROVE  SerialStep
  <2>1. PICK pc \in Conducting :
          /\ Goto(r, pc) /\ UNCHANGED <<last, broken>> /\ ask[r].pc \in Conducting
          /\ \/ pc \in {"locked", "load", "unlock"}
             \/ ask[r].pc \in {"save", "graph", "tools", "append", "resave"}
    BY <1>4 DEF AdvisoryLock, EnterLock, Refuse, UpdateSummary, StreamGraph, CallTool, ToolTimeout,
         At, Conducting
  <2>2. pc \in {"save", "graph", "tools", "append", "resave"} => Inside(r) \/ ~Connected(r)
    BY <2>1 DEF Inside
  <2> QED
    BY <2>1, <2>2, GotoMaps
<1>5. ASSUME NEW r \in Asks, Cancel(r) PROVE SerialStep
  BY <1>5, GotoMaps, MaybeWrittenLast DEF Cancel, Conducting
<1>6. ASSUME NEW c \in Conns, Recycle(c) PROVE SerialStep
  BY <1>6 DEF Recycle, SerialStep, View, Inside, Connected
<1> QED
  BY <1>1, <1>2, <1>3, <1>4, <1>5, <1>6, LoadMaps, AppendMaps, LossMaps DEF Next, Proceed

(* The asks, on however many sockets, workers and connections and whatever *)
(* fails, write the conversation one after the other, each knowing all of  *)
(* it (stream_chat, async_conversation_lock, async_append_exchange).       *)
THEOREM SerialIsImplemented == Spec => IsSerial
<1>1. Init => Serial!Init
  BY DEF Init, Serial!Init, Serial!NoView, View, Inside, Idle
<1>2. ConversationInv /\ ConversationInv' /\ [Next]_vars => [Serial!Next]_(Serial!serial)
  BY NextMaps DEF SerialStep, Serial!serial
<1> QED
  BY <1>1, <1>2, ConversationInvariant, PTL DEF Spec, IsSerial, Serial!Spec
============================================================================
