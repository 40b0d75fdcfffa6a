-------------------------- MODULE SerialConversation --------------------------
(***************************************************************************)
(* What the assistant promises about a conversation, with no pool, no lock *)
(* and no failures: exchanges are made one after the other, each by an ask *)
(* that has read every turn before it.  An ask may end without adding one. *)
(***************************************************************************)
EXTENDS Integers

CONSTANT Asks

VARIABLES
    last,    \* index of the conversation's last turn
    view     \* index of the last turn an ask has read, NoView when it has not

NoView == -2

serial == <<last, view>>

Init ==
    /\ last = -1
    /\ view = [r \in Asks |-> NoView]

Read(r) ==
    /\ \A s \in Asks : view[s] = NoView
    /\ view' = [view EXCEPT ![r] = last]
    /\ UNCHANGED last

\* A question and its answer; the ask may go on, or not live to see it.
Exchange(r) ==
    /\ view[r] = last
    /\ last' = last + 2
    /\ \E seen \in {last', NoView} : view' = [view EXCEPT ![r] = seen]

Leave(r) ==
    /\ view[r] # NoView
    /\ view' = [view EXCEPT ![r] = NoView]
    /\ UNCHANGED last

Next == \E r \in Asks : Read(r) \/ Exchange(r) \/ Leave(r)

Spec == Init /\ [][Next]_serial
===============================================================================
