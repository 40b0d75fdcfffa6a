---------------------------- MODULE ChatSession -----------------------------
(***************************************************************************)
(* The chat of the assistant's web client (lib/use-assistant-chat.ts,      *)
(* chat-interface.tsx), its socket (lib/api.ts) and the loop that serves   *)
(* it (api/chat.py): one user, one tab.                                    *)
(*                                                                         *)
(* The two directions of the socket are queues; whatever is in them when   *)
(* it drops is lost.  An answer's text is the set of asks its tokens came  *)
(* from.  Callbacks of the browser are one step each, and a render follows *)
(* at once, so the busy flag and its ref are one.  What goes on inside an  *)
(* ask is in Conversation and AgentGraph.                                  *)
(***************************************************************************)
EXTENDS Integers, FiniteSets, SequencesExt

CONSTANTS Chats,      \* conversations of the history panel
          NoChat,
          MaxAsks,    \* bound on questions
          MaxSockets, \* bound on sockets opened
          MaxTickets  \* bound on requests for a ticket at a time

Asks == 1..MaxAsks
ChatIds == Chats \cup Asks \* the first ask of a chat gives it its id

ASSUME ChatAssumption ==
  /\ NoChat \notin ChatIds /\ Chats \cap Asks = {}
  /\ MaxAsks \in Nat /\ MaxSockets \in Nat /\ MaxTickets \in Nat \ {0}

VARIABLES messages,     \* the assistant's messages on screen; ask 0 is history
          conversation, \* conversationId
          busy,
          selecting,    \* the chat whose history is being fetched
          tickets,      \* getWsTicket calls under way
          socket,
          inbox,        \* asks on their way to the server
          active,       \* the server's active task
          outbox,       \* events on their way to the client
          asks,         \* asks so far
          sockets,      \* sockets so far
          stranded,     \* history: the socket of the awaited answer is gone
          doubled,      \* history: an ask was sent while another was in flight
          switched      \* history: the chat was left while an ask was in flight, and
                        \* not again since

client == <<messages, conversation, busy, selecting>>
wire == <<inbox, active, outbox>>
history == <<stranded, doubled, switched>>
chatVars == <<client, tickets, socket, wire, asks, sockets, history>>

Message == [ask : {0} \cup Asks, chat : ChatIds \cup {NoChat}, content : SUBSET Asks,
            streaming : BOOLEAN, failed : BOOLEAN]
Ask == [ask : Asks, chat : ChatIds \cup {NoChat}]
NoTask == [at |-> "none"]
Task == {NoTask} \cup [at : {"running", "closing"}, ask : Asks, chat : ChatIds \cup {NoChat}]
Event == [type : {"token", "done", "error"}, ask : Asks, chat : ChatIds \cup {NoChat}]

ChatTypeOK ==
  /\ messages \in Seq(Message) /\ Len(messages) <= MaxAsks + 1
  /\ conversation \in ChatIds \cup {NoChat}
  /\ busy \in BOOLEAN
  /\ selecting \in Chats \cup {NoChat}
  /\ tickets \in 0..MaxTickets
  /\ socket \in {"none", "connecting", "open", "closed"}
  /\ inbox \in Seq(Ask) /\ active \in Task /\ outbox \in Seq(Event)
  /\ asks \in 0..MaxAsks /\ sockets \in 0..MaxSockets
  /\ stranded \in BOOLEAN /\ doubled \in BOOLEAN /\ switched \in BOOLEAN

ChatInit ==
  /\ messages = <<>> /\ conversation = NoChat /\ busy = FALSE /\ selecting = NoChat
  /\ tickets = 1 /\ socket = "none"
  /\ inbox = <<>> /\ active = NoTask /\ outbox = <<>>
  /\ asks = 0 /\ sockets = 0
  /\ stranded = FALSE /\ doubled = FALSE /\ switched = FALSE

(* The asks whose done or error event the client has yet to see.           *)
InFlight ==
  {a.ask : a \in ToSet(inbox)} \cup
  (IF active.at = "running" THEN {active.ask} ELSE {}) \cup
  {e.ask : e \in {f \in ToSet(outbox) : f.type # "token"}}

----------------------------------------------------------------------------
(* connectSocket: a ticket, then a socket in the place of the one there is.*)
Lost == inbox' = <<>> /\ active' = NoTask /\ outbox' = <<>> /\ stranded' = (stranded \/ busy)

TicketArrives ==
  /\ tickets > 0 /\ sockets < MaxSockets
  /\ tickets' = tickets - 1
  /\ sockets' = sockets + 1
  /\ socket' = "connecting"
  /\ Lost
  /\ UNCHANGED <<client, asks, doubled, switched>>

TicketFails ==
  /\ tickets > 0
  /\ tickets' = tickets - 1
  /\ UNCHANGED <<client, socket, wire, asks, sockets, history>>

SocketOpens ==
  /\ socket = "connecting"
  /\ socket' = "open"
  /\ UNCHANGED <<client, tickets, wire, asks, sockets, history>>

(* The network fails, or the server does not take the ticket: onclose only *)
(* changes the sign that says connected.  The server cancels its task.     *)
SocketCloses ==
  /\ socket \in {"connecting", "open"}
  /\ socket' = "closed"
  /\ Lost
  /\ UNCHANGED <<client, tickets, asks, sockets, doubled, switched>>

----------------------------------------------------------------------------
NewMessage(a, failed) ==
  [ask |-> a, chat |-> conversation, content |-> {}, streaming |-> ~failed, failed |-> failed]

SendAsk ==
  /\ ~busy /\ socket = "open" /\ asks < MaxAsks
  /\ asks' = asks + 1
  /\ busy' = TRUE
  /\ messages' = Append(messages, NewMessage(asks', FALSE))
  /\ inbox' = Append(inbox, [ask |-> asks', chat |-> conversation])
  /\ stranded' = FALSE
  /\ doubled' = (doubled \/ InFlight # {})
  /\ UNCHANGED <<conversation, selecting, tickets, socket, active, outbox, sockets, switched>>

(* Offline: the question is shown with an error and a reconnect begins.    *)
SendOffline ==
  /\ ~busy /\ socket # "open" /\ asks < MaxAsks /\ tickets < MaxTickets
  /\ asks' = asks + 1
  /\ tickets' = tickets + 1
  /\ messages' = Append(messages, NewMessage(asks', TRUE))
  /\ UNCHANGED <<conversation, busy, selecting, socket, wire, sockets, history>>

LeavesChat == switched' = (InFlight # {}) /\ doubled' = (doubled /\ InFlight # {})

(* resetChat ends nothing that is on its way.                              *)
ResetChat ==
  /\ messages # <<>> \/ busy \/ conversation # NoChat
  /\ messages' = <<>> /\ conversation' = NoChat /\ busy' = FALSE
  /\ stranded' = FALSE /\ LeavesChat
  /\ UNCHANGED <<selecting, tickets, socket, wire, asks, sockets>>

SelectChat(c) ==
  /\ ~busy /\ selecting = NoChat /\ c # conversation
  /\ selecting' = c
  /\ UNCHANGED <<messages, conversation, busy, tickets, socket, wire, asks, sockets, history>>

\* Mutant: the messages are replaced and the conversation is not.
LoadHistory_KeepsId ==
  /\ selecting # NoChat
  /\ messages' = <<[ask |-> 0, chat |-> selecting, content |-> {}, streaming |-> FALSE,
                    failed |-> FALSE]>>
  /\ selecting' = NoChat
  /\ LeavesChat
  /\ UNCHANGED <<conversation, busy, tickets, socket, wire, asks, sockets, stranded>>

LoadHistory ==
  /\ selecting # NoChat
  /\ messages' = <<[ask |-> 0, chat |-> selecting, content |-> {}, streaming |-> FALSE,
                    failed |-> FALSE]>>
  /\ conversation' = selecting
  /\ selecting' = NoChat
  /\ LeavesChat
  /\ UNCHANGED <<busy, tickets, socket, wire, asks, sockets, stranded>>

SelectFails ==
  /\ selecting # NoChat
  /\ selecting' = NoChat
  /\ UNCHANGED <<messages, conversation, busy, tickets, socket, wire, asks, sockets, history>>

----------------------------------------------------------------------------
(* handleStreamEvent: an event changes the last message, if it is its own. *)
IsLast(a) == messages # <<>> /\ Last(messages).ask = a
LastBecomes(m) == messages' = [messages EXCEPT ![Len(messages)] = m]

Event1 == Head(outbox)
Arrives(type) == outbox # <<>> /\ Event1.type = type /\ outbox' = Tail(outbox)

\* Mutant: a token goes to whatever message is last.
OnToken_AnyMessage ==
  /\ Arrives("token")
  /\ IF messages # <<>> THEN LastBecomes([Last(messages) EXCEPT !.content = @ \cup {Event1.ask}])
       ELSE UNCHANGED messages
  /\ UNCHANGED <<conversation, busy, selecting, tickets, socket, inbox, active, asks, sockets,
                 history>>

OnToken ==
  /\ Arrives("token")
  /\ IF IsLast(Event1.ask) THEN LastBecomes([Last(messages) EXCEPT !.content = @ \cup {Event1.ask}])
       ELSE UNCHANGED messages
  /\ UNCHANGED <<conversation, busy, selecting, tickets, socket, inbox, active, asks, sockets,
                 history>>

OnDone ==
  /\ Arrives("done")
  /\ busy' = FALSE
  /\ conversation' = Event1.chat
  /\ IF IsLast(Event1.ask)
       THEN LastBecomes([Last(messages) EXCEPT !.content = {Event1.ask}, !.streaming = FALSE,
                                     !.chat = Event1.chat])
       ELSE UNCHANGED messages
  /\ stranded' = FALSE
  /\ UNCHANGED <<selecting, tickets, socket, inbox, active, asks, sockets, doubled, switched>>

(* An error goes to the last message, whatever was asked.                  *)
OnError ==
  /\ Arrives("error")
  /\ busy' = FALSE
  /\ IF messages # <<>> THEN LastBecomes([Last(messages) EXCEPT !.streaming = FALSE, !.failed = TRUE])
       ELSE UNCHANGED messages
  /\ stranded' = FALSE
  /\ UNCHANGED <<conversation, selecting, tickets, socket, inbox, active, asks, sockets,
                 doubled, switched>>

----------------------------------------------------------------------------
(* The server's loop and the task of an ask.                               *)
Sends(type, a, chat) == outbox' = Append(outbox, [type |-> type, ask |-> a, chat |-> chat])

\* Mutant: an ask that comes while one is active is ignored.
Receive_Ignores ==
  /\ inbox # <<>>
  /\ inbox' = Tail(inbox)
  /\ IF active # NoTask THEN UNCHANGED <<active, outbox>>
     ELSE /\ active' = [at |-> "running", ask |-> Head(inbox).ask, chat |-> Head(inbox).chat]
          /\ UNCHANGED outbox
  /\ UNCHANGED <<client, tickets, socket, asks, sockets, history>>

(* One ask at a time; another, or one that is not valid, is refused.       *)
Receive ==
  /\ inbox # <<>>
  /\ inbox' = Tail(inbox)
  /\ \/ Sends("error", Head(inbox).ask, Head(inbox).chat) /\ UNCHANGED active
     \/ /\ active = NoTask
        /\ active' = [at |-> "running", ask |-> Head(inbox).ask, chat |-> Head(inbox).chat]
        /\ UNCHANGED outbox
  /\ UNCHANGED <<client, tickets, socket, asks, sockets, history>>

Stream ==
  /\ active.at = "running"
  /\ [type |-> "token", ask |-> active.ask, chat |-> active.chat] \notin ToSet(outbox)
  /\ Sends("token", active.ask, active.chat)
  /\ UNCHANGED <<client, tickets, socket, inbox, active, asks, sockets, history>>

(* The done event is sent with the lock of the conversation still held.    *)
Finish ==
  /\ active.at = "running"
  /\ active' = [active EXCEPT !.at = "closing"]
  /\ Sends("done", active.ask, IF active.chat = NoChat THEN active.ask ELSE active.chat)
  /\ UNCHANGED <<client, tickets, socket, inbox, asks, sockets, history>>

Unlock ==
  /\ active.at = "closing"
  /\ active' = NoTask
  /\ UNCHANGED <<client, tickets, socket, inbox, outbox, asks, sockets, history>>

(* The ask fails, or only the unlocking does when all else is done.        *)
AskFails ==
  /\ active # NoTask
  /\ active' = NoTask
  /\ Sends("error", active.ask, active.chat)
  /\ UNCHANGED <<client, tickets, socket, inbox, asks, sockets, history>>

----------------------------------------------------------------------------
User == SendAsk \/ SendOffline \/ ResetChat \/ \E c \in Chats : SelectChat(c)
Browser == LoadHistory \/ SelectFails \/ OnToken \/ OnDone \/ OnError
Network == TicketArrives \/ TicketFails \/ SocketOpens \/ SocketCloses
Server == Receive \/ Stream \/ Finish \/ Unlock \/ AskFails

ChatNext == User \/ Browser \/ Network \/ Server

ChatSpec == ChatInit /\ [][ChatNext]_chatVars

----------------------------------------------------------------------------
(* A message is made of tokens of its own ask, whatever is reset, asked    *)
(* again or refused in between (handleStreamEvent).                        *)
TokensInPlace ==
  \A i \in DOMAIN messages : messages[i].content \subseteq {messages[i].ask}

(* While the composer is busy something is on its way that will free it: a *)
(* refused ask is answered too, never dropped (ask_socket, sendAsk).  And a *)
(* message that still shows a spinner will get its final event.  Unless    *)
(* the socket they were asked on is gone or, for the spinner, another ask  *)
(* was sent before the answer.                                             *)
WaitsForWhatComes ==
  /\ busy => stranded \/ asks \in InFlight
  /\ \A i \in DOMAIN messages :
       messages[i].streaming => stranded \/ doubled \/ messages[i].ask \in InFlight

(* The next question goes to the conversation on the screen, unless the    *)
(* chat was left or a second ask sent with one in flight (conversationId). *)
ConversationIsShown ==
  ~switched /\ ~doubled =>
    /\ messages = <<>> => conversation = NoChat
    /\ \A i \in DOMAIN messages : ~messages[i].failed => messages[i].chat = conversation
=============================================================================
