--------------------------------- MODULE Hub ---------------------------------
(***************************************************************************)
(* The WebSocket hub of the leaderboard API (hub/websocket_hub.go): one    *)
(* event loop owns the set of clients and the closing of their send        *)
(* channels; every client has a read pump and a write pump.  Messages are  *)
(* numbered in the order Broadcast accepts them.                           *)
(***************************************************************************)
EXTENDS Naturals, FiniteSets, Sequences

CONSTANTS
  Client,
  MaxClients,     \* the hub's limit
  SendCapacity,   \* of a client's send channel (256)
  QueueCapacity,  \* of the register and unregister channels (64)
  BroadcastCapacity,  \* of the broadcast channel (256)
  MaxMessages     \* bound: messages broadcast

ASSUME HubAssumption ==
  /\ MaxClients \in Nat \ {0} /\ SendCapacity \in Nat \ {0}
  /\ QueueCapacity \in Nat \ {0} /\ BroadcastCapacity \in Nat \ {0} /\ MaxMessages \in Nat

VARIABLES
  clients,     \* Hub.clients
  register, unregister, broadcast,   \* the hub's channels
  last,        \* the last message broadcast; 0: none
  send,        \* each client's send channel
  closed,      \* the closed ones among them
  panic,       \* has a closed channel been closed or sent to?
  conn,        \* new, open or closed
  reader,      \* is the read pump running?
  writer,      \* is the write pump running?
  messages,    \* messages accepted so far
  since,       \* history: the first message a client must get
  seen         \* history: the last message written to a client

queues == <<register, unregister, broadcast>>
pumps  == <<conn, reader, writer>>
vars   == <<clients, queues, last, send, closed, panic, pumps, messages, since, seen>>

Init ==
  /\ clients = {} /\ register = <<>> /\ unregister = <<>> /\ broadcast = <<>>
  /\ last = 0 /\ messages = 0 /\ panic = FALSE
  /\ send = [c \in Client |-> <<>>] /\ closed = {}
  /\ conn = [c \in Client |-> "new"]
  /\ reader = [c \in Client |-> FALSE] /\ writer = [c \in Client |-> FALSE]
  /\ since = [c \in Client |-> 0] /\ seen = [c \in Client |-> 0]

-----------------------------------------------------------------------------
(* The event loop. *)

HasRoom(c) == Len(send[c]) < SendCapacity

full == Cardinality(clients) >= MaxClients

\* Mutated form of greeting: a new client waits for the next broadcast.
noGreeting(c) == <<>>

\* What a new client is sent at once.
greeting(c) == IF last # 0 /\ HasRoom(c) THEN <<last>> ELSE <<>>

\* case c := <-h.register: a client over the limit is closed at once.
Register ==
  /\ register # <<>> /\ register' = Tail(register)
  /\ LET c == Head(register) IN
       \/ /\ full
          /\ closed' = closed \cup {c} /\ panic' = (panic \/ c \in closed)
          /\ UNCHANGED <<clients, send, since>>
       \/ /\ ~full
          /\ clients' = clients \cup {c}
          /\ send' = [send EXCEPT ![c] = @ \o greeting(c)]
          /\ panic' = (panic \/ (greeting(c) # <<>> /\ c \in closed))
          /\ since' = [since EXCEPT ![c] = IF last = 0 THEN 1 ELSE last]
          /\ UNCHANGED closed
  /\ UNCHANGED <<unregister, broadcast, last, pumps, messages, seen>>

\* Mutated form of known: the map is not looked up.
knownAlways(c) == TRUE

\* if _, ok := h.clients[c]; ok
known(c) == c \in clients

\* case c := <-h.unregister
Unregister ==
  /\ unregister # <<>> /\ unregister' = Tail(unregister)
  /\ LET c == Head(unregister) IN
       IF known(c)
       THEN /\ clients' = clients \ {c}
            /\ closed' = closed \cup {c} /\ panic' = (panic \/ c \in closed)
       ELSE UNCHANGED <<clients, closed, panic>>
  /\ UNCHANGED <<register, broadcast, last, send, pumps, messages, since, seen>>

\* Mutated form of slowAfter: a slow client misses the message and stays.
slowKept(slow) == {}

\* The clients whose channel is full are dropped.
slowAfter(slow) == slow

\* case msg := <-h.broadcast
Deliver ==
  /\ broadcast # <<>> /\ broadcast' = Tail(broadcast)
  /\ LET slow == {c \in clients : ~HasRoom(c)} IN
       /\ send' = [c \in Client |-> IF c \in clients \ slow THEN Append(send[c], Head(broadcast))
                                    ELSE send[c]]
       /\ closed' = closed \cup slowAfter(slow)
       /\ clients' = clients \ slowAfter(slow)
       /\ panic' = (panic \/ clients \cap closed # {})
  /\ last' = Head(broadcast)
  /\ UNCHANGED <<register, unregister, pumps, messages, since, seen>>

\* Broadcast: a full channel drops the message.
Broadcast ==
  /\ messages < MaxMessages /\ Len(broadcast) < BroadcastCapacity
  /\ messages' = messages + 1
  /\ broadcast' = Append(broadcast, messages + 1)
  /\ UNCHANGED <<clients, register, unregister, last, send, closed, panic, pumps, since, seen>>

-----------------------------------------------------------------------------
(* Clients and their pumps. *)

\* newClient
Connect(c) ==
  /\ conn[c] = "new" /\ Len(register) < QueueCapacity
  /\ register' = Append(register, c)
  /\ conn' = [conn EXCEPT ![c] = "open"]
  /\ reader' = [reader EXCEPT ![c] = TRUE] /\ writer' = [writer EXCEPT ![c] = TRUE]
  /\ UNCHANGED <<clients, unregister, broadcast, last, send, closed, panic, messages, since, seen>>

\* The browser goes away, or no pong comes in time.
Leave(c) ==
  /\ conn[c] = "open" /\ conn' = [conn EXCEPT ![c] = "closed"]
  /\ UNCHANGED <<clients, queues, last, send, closed, panic, reader, writer, messages, since, seen>>

\* readPump: a read fails; the deferred call asks to be unregistered.
EndRead(c) ==
  /\ reader[c] /\ conn[c] = "closed" /\ Len(unregister) < QueueCapacity
  /\ reader' = [reader EXCEPT ![c] = FALSE]
  /\ unregister' = Append(unregister, c)
  /\ UNCHANGED <<clients, register, broadcast, last, send, closed, panic, conn, writer,
                 messages, since, seen>>

\* writePump writes the next message; on a closed connection it gives up.
Write(c) ==
  /\ writer[c] /\ send[c] # <<>>
  /\ send' = [send EXCEPT ![c] = Tail(@)]
  /\ IF conn[c] = "open" THEN seen' = [seen EXCEPT ![c] = Head(send[c])] /\ UNCHANGED writer
     ELSE writer' = [writer EXCEPT ![c] = FALSE] /\ UNCHANGED seen
  /\ UNCHANGED <<clients, queues, last, closed, panic, conn, reader, messages, since>>

\* writePump finds its channel closed, or a ping fails: it closes the
\* connection.
EndWrite(c) ==
  /\ writer[c]
  /\ (c \in closed /\ send[c] = <<>>) \/ conn[c] = "closed"
  /\ writer' = [writer EXCEPT ![c] = FALSE] /\ conn' = [conn EXCEPT ![c] = "closed"]
  /\ UNCHANGED <<clients, queues, last, send, closed, panic, reader, messages, since, seen>>

Next ==
  \/ Register \/ Unregister \/ Deliver \/ Broadcast
  \/ \E c \in Client : Connect(c) \/ Leave(c) \/ EndRead(c) \/ Write(c) \/ EndWrite(c)

\* select takes ready cases at random, and the pumps are goroutines; nobody
\* has to broadcast, connect or leave.
Spec == Init /\ [][Next]_vars
        /\ WF_vars(Register) /\ WF_vars(Unregister) /\ WF_vars(Deliver)
        /\ \A c \in Client : WF_vars(EndRead(c)) /\ WF_vars(Write(c)) /\ WF_vars(EndWrite(c))

-----------------------------------------------------------------------------
(* Properties *)

TypeOK ==
  /\ clients \subseteq Client /\ closed \subseteq Client
  /\ Cardinality(clients) <= MaxClients
  /\ \A c \in Client : Len(send[c]) <= SendCapacity
  /\ last \in 0 .. messages
  /\ \A c \in Client : conn[c] = "new" => ~reader[c] /\ ~writer[c]

\* No channel is closed twice and none is sent to after its closing, though
\* the limit, the slow-client rule and the departure of a client each close
\* it (websocket_hub.go:49-84).
NeverPanics == ~panic

\* A client the hub keeps has got, or will get, every message since it was
\* registered, without a gap: a slow one is dropped rather than skipped
\* (websocket_hub.go:72-84).
NoGaps ==
  \A c \in clients :
    LET coming == send[c] IN
    /\ coming # <<>> => coming[Len(coming)] = last
    /\ \A i \in 1 .. Len(coming) - 1 : coming[i + 1] = coming[i] + 1
    /\ writer[c] /\ last >= since[c] /\ conn[c] = "open" =>
         (IF coming = <<>> THEN seen[c] = last ELSE coming[1] = IF seen[c] = 0 THEN since[c] ELSE seen[c] + 1)

\* A client that stays connected and within the hub sees the last message
\* (websocket_hub.go:57-64, 72-77).
TheLastIsSeen ==
  \A c \in Client :
    c \in clients ~> (c \notin clients \/ conn[c] # "open" \/ seen[c] = last)
=============================================================================
