------------------------------ MODULE ApiProofs ------------------------------
(***************************************************************************)
(* Proofs about the two public APIs.  Hub, for any set of clients, any     *)
(* limits and any number of messages: it never closes a send channel twice *)
(* nor sends to a closed one, and no client it keeps misses a message.     *)
(* Leaderboard, for any number of pods and contestants and any bounds: its *)
(* types, and how many boards a freeze lets through.  SubmissionApi, for   *)
(* any number of uploads, any limit and any number of failures: its types, *)
(* what a job, a row and an answer rest on, and the limit.  Webhooks, for  *)
(* any number of handlers: the limit.  And both limits of the composition. *)
(***************************************************************************)
EXTENDS MCApis, FiniteSetTheorems, TLAPS

Queued(c) == \E i \in 1 .. Len(register) : register[i] = c

\* A channel the hub may still touch is open: those of its clients, and those
\* of the connections that wait, each once, to become clients.
OpenChannels ==
  /\ register \in Seq(Client) /\ unregister \in Seq(Client)
  /\ conn \in [Client -> {"new", "open", "closed"}]
  /\ clients \subseteq Client /\ closed \subseteq Client
  /\ clients \cap closed = {}
  /\ \A i, k \in 1 .. Len(register) : register[i] = register[k] => i = k
  /\ \A c \in Client : Queued(c) => c \notin clients /\ c \notin closed
  /\ \A c \in Client : conn[c] = "new" => ~Queued(c) /\ c \notin clients /\ c \notin closed

Inv == OpenChannels /\ NeverPanics

LEMMA Start == Init => Inv
<1> SUFFICES ASSUME Init PROVE OpenChannels /\ NeverPanics
  BY DEF Inv
<1>1. /\ register = <<>> /\ unregister = <<>> /\ clients = {} /\ closed = {} /\ panic = FALSE
      /\ conn = [c \in Client |-> "new"]
  BY DEF Init
<1>2. Len(register) = 0 /\ <<>> \in Seq(Client)
  BY <1>1
<1>3. OpenChannels
  BY <1>1, <1>2 DEF OpenChannels, Queued
<1>4. NeverPanics
  BY <1>1 DEF NeverPanics
<1> QED BY <1>3, <1>4

\* What is known of the head of the register queue, and of what is left.
LEMMA HeadOfQueue ==
  ASSUME OpenChannels, register # <<>>, register' = Tail(register)
  PROVE  /\ Head(register) \in Client /\ Head(register) \notin clients
         /\ Head(register) \notin closed /\ conn[Head(register)] # "new"
         /\ register' \in Seq(Client)
         /\ \A i, k \in 1 .. Len(register') : register'[i] = register'[k] => i = k
         /\ \A c \in Client : Queued(c)' => Queued(c) /\ c # Head(register)
<1>1. /\ register \in Seq(Client) /\ Len(register) \in Nat \ {0}
      /\ Head(register) = register[1] /\ register[1] \in Client
      /\ \A i, k \in 1 .. Len(register) : register[i] = register[k] => i = k
  BY DEF OpenChannels
<1>2. Queued(Head(register))
  BY <1>1 DEF Queued
<1>3. /\ register' \in Seq(Client) /\ Len(register') = Len(register) - 1
      /\ \A i \in 1 .. Len(register') : register'[i] = register[i + 1]
  BY <1>1
<1>4. \A i, k \in 1 .. Len(register') : register'[i] = register'[k] => i = k
  BY <1>1, <1>3
<1>5. ASSUME NEW c \in Client, Queued(c)' PROVE Queued(c) /\ c # Head(register)
  <2>1. PICK i \in 1 .. Len(register') : register'[i] = c
    BY <1>5 DEF Queued
  <2>2. i + 1 \in 1 .. Len(register) /\ register[i + 1] = c /\ i + 1 # 1 /\ 1 \in 1 .. Len(register)
    BY <2>1, <1>1, <1>3
  <2> QED BY <2>2, <1>1 DEF Queued
<1> QED BY <1>1, <1>2, <1>3, <1>4, <1>5 DEF OpenChannels

\* A step that leaves the register queue and the connections alone, makes no
\* new client and closes only the channels of clients it removes.
LEMMA Removal ==
  ASSUME OpenChannels, UNCHANGED <<register, conn>>, unregister' \in Seq(Client),
         NEW gone \in SUBSET clients, clients' = clients \ gone, closed' = closed \cup gone
  PROVE  OpenChannels'
<1>1. \A c \in Client : Queued(c)' <=> Queued(c)
  BY DEF Queued
<1> QED BY <1>1 DEF OpenChannels

LEMMA Step == Inv /\ [Next]_vars => Inv'
<1> SUFFICES ASSUME OpenChannels, NeverPanics, [Next]_vars PROVE OpenChannels' /\ NeverPanics'
  BY DEF Inv
<1> USE DEF NeverPanics
<1>0. /\ clients \cap closed = {} /\ unregister \in Seq(Client) /\ clients \subseteq Client
      /\ ~panic
  BY DEF OpenChannels
<1>1. CASE Register
  <2> DEFINE c == Head(register)
  <2>1. register # <<>> /\ register' = Tail(register) /\ UNCHANGED <<unregister, conn>>
    BY <1>1 DEF Register, pumps
  <2>2. /\ c \in Client /\ c \notin clients /\ c \notin closed /\ conn[c] # "new"
        /\ register' \in Seq(Client)
        /\ \A i, k \in 1 .. Len(register') : register'[i] = register'[k] => i = k
        /\ \A d \in Client : Queued(d)' => Queued(d) /\ d # c
    BY <2>1, HeadOfQueue
  <2>3. CASE /\ closed' = closed \cup {c} /\ panic' = (panic \/ c \in closed)
             /\ UNCHANGED clients
    <3>1. OpenChannels'
      BY <2>1, <2>2, <2>3 DEF OpenChannels
    <3>2. ~panic'
      BY <2>2, <2>3, <1>0
    <3> QED BY <3>1, <3>2
  <2>4. CASE /\ clients' = clients \cup {c} /\ UNCHANGED closed
             /\ panic' = (panic \/ (greeting(c) # <<>> /\ c \in closed))
    <3>1. OpenChannels'
      BY <2>1, <2>2, <2>4 DEF OpenChannels
    <3>2. ~panic'
      BY <2>2, <2>4, <1>0
    <3> QED BY <3>1, <3>2
  <2> QED BY <1>1, <2>3, <2>4 DEF Register
<1>2. CASE Unregister
  <2> DEFINE c == Head(unregister)
  <2>1. /\ unregister # <<>> /\ unregister' = Tail(unregister) /\ UNCHANGED <<register, conn>>
    BY <1>2 DEF Unregister, pumps
  <2>2. unregister' \in Seq(Client)
    BY <2>1, <1>0
  <2>3. CASE /\ known(c) /\ clients' = clients \ {c} /\ closed' = closed \cup {c}
             /\ panic' = (panic \/ c \in closed)
    <3>1. c \in clients /\ {c} \in SUBSET clients
      BY <2>3 DEF known
    <3>2. OpenChannels'
      BY <3>1, <2>1, <2>2, <2>3, Removal
    <3>3. ~panic'
      BY <3>1, <2>3, <1>0
    <3> QED BY <3>2, <3>3
  <2>4. CASE UNCHANGED <<clients, closed, panic>>
    <3>1. clients' = clients \ {} /\ closed' = closed \cup {} /\ {} \in SUBSET clients
      BY <2>4
    <3>2. OpenChannels'
      BY <3>1, <2>1, <2>2, Removal
    <3> QED BY <3>2, <2>4, <1>0
  <2> QED BY <1>2, <2>3, <2>4 DEF Unregister
<1>3. CASE Deliver
  <2> DEFINE slow == slowAfter({c \in clients : ~HasRoom(c)})
  <2>1. /\ clients' = clients \ slow /\ closed' = closed \cup slow
        /\ panic' = (panic \/ clients \cap closed # {})
        /\ UNCHANGED <<register, unregister, conn>>
    BY <1>3 DEF Deliver, pumps
  <2>2. slow \in SUBSET clients
    BY DEF slowAfter
  <2> HIDE DEF slow
  <2>3. OpenChannels'
    BY <2>1, <2>2, <1>0, Removal
  <2> QED BY <2>1, <2>3, <1>0
<1>4. ASSUME NEW c \in Client, Connect(c) PROVE OpenChannels' /\ NeverPanics'
  <2>1. /\ conn[c] = "new" /\ register' = Append(register, c)
        /\ conn' = [conn EXCEPT ![c] = "open"]
        /\ UNCHANGED <<clients, unregister, closed, panic>>
    BY <1>4 DEF Connect
  <2>2. /\ register \in Seq(Client) /\ ~Queued(c) /\ c \notin clients /\ c \notin closed
        /\ Len(register) \in Nat
    BY <2>1 DEF OpenChannels
  <2>3. /\ register' \in Seq(Client) /\ Len(register') = Len(register) + 1
        /\ register'[Len(register) + 1] = c
        /\ \A i \in 1 .. Len(register) : register'[i] = register[i]
    BY <2>1, <2>2
  <2>4. \A d \in Client : Queued(d)' => Queued(d) \/ d = c
    <3> SUFFICES ASSUME NEW d \in Client, NEW i \in 1 .. Len(register'), register'[i] = d
                 PROVE  Queued(d) \/ d = c
      BY DEF Queued
    <3>1. i \in 1 .. Len(register) \/ i = Len(register) + 1
      BY <2>2, <2>3
    <3> QED BY <3>1, <2>3 DEF Queued
  <2>5. \A i, k \in 1 .. Len(register') : register'[i] = register'[k] => i = k
    <3> SUFFICES ASSUME NEW i \in 1 .. Len(register'), NEW k \in 1 .. Len(register'),
                        register'[i] = register'[k]
                 PROVE  i = k
      OBVIOUS
    <3>1. /\ i \in 1 .. Len(register) \/ i = Len(register) + 1
          /\ k \in 1 .. Len(register) \/ k = Len(register) + 1
      BY <2>2, <2>3
    <3>2. \A n \in 1 .. Len(register) : register[n] # c
      BY <2>2 DEF Queued
    <3>3. \A n, m \in 1 .. Len(register) : register[n] = register[m] => n = m
      BY DEF OpenChannels
    <3> QED BY <3>1, <3>2, <3>3, <2>3
  <2>6. /\ conn' \in [Client -> {"new", "open", "closed"}]
        /\ \A d \in Client : conn'[d] = "new" => conn[d] = "new" /\ d # c
    BY <2>1 DEF OpenChannels
  <2>7. OpenChannels'
    BY <2>1, <2>2, <2>3, <2>4, <2>5, <2>6 DEF OpenChannels
  <2> QED BY <2>7, <2>1
<1>5. ASSUME UNCHANGED <<clients, register, closed, panic>>, unregister' \in Seq(Client),
             conn' \in [Client -> {"new", "open", "closed"}],
             \A c \in Client : conn'[c] = "new" => conn[c] = "new"
      PROVE  OpenChannels' /\ NeverPanics'
  <2>1. \A c \in Client : Queued(c)' <=> Queued(c)
    BY <1>5 DEF Queued
  <2>2. OpenChannels'
    BY <2>1, <1>5 DEF OpenChannels
  <2> QED BY <2>2, <1>5
<1>6. CASE Broadcast \/ UNCHANGED vars
  <2>1. UNCHANGED <<clients, register, closed, panic, unregister, conn>>
    BY <1>6 DEF Broadcast, vars, queues, pumps
  <2> QED BY <2>1, <1>5 DEF OpenChannels
<1>7. ASSUME NEW c \in Client, Leave(c) \/ EndRead(c) \/ Write(c) \/ EndWrite(c)
      PROVE  OpenChannels' /\ NeverPanics'
  <2>1. UNCHANGED <<clients, register, closed, panic>>
    BY <1>7 DEF Leave, EndRead, Write, EndWrite, queues
  <2>2. unregister' = unregister \/ unregister' = Append(unregister, c)
    BY <1>7 DEF Leave, EndRead, Write, EndWrite, queues
  <2>3. unregister' \in Seq(Client)
    BY <2>2, <1>0
  <2>4. conn' = conn \/ conn' = [conn EXCEPT ![c] = "closed"]
    BY <1>7 DEF Leave, EndRead, Write, EndWrite
  <2>5. /\ conn' \in [Client -> {"new", "open", "closed"}]
        /\ \A d \in Client : conn'[d] = "new" => conn[d] = "new"
    BY <2>4 DEF OpenChannels
  <2> QED BY <2>1, <2>3, <2>5, <1>5
<1> QED BY <1>1, <1>2, <1>3, <1>4, <1>6, <1>7 DEF Next

\* The hub's loop never panics on a client's channel, though the limit, the
\* slow-client rule and a departure each close it (websocket_hub.go:49-84).
THEOREM HubNeverPanics == Spec => []NeverPanics
<1>1. Inv => NeverPanics
  BY DEF Inv
<1> QED BY <1>1, Start, Step, PTL DEF Spec

-----------------------------------------------------------------------------
(* Types.  The broadcast channel holds the messages accepted since the     *)
(* last one that was delivered, in their order.                            *)

Messages ==
  /\ last \in Nat /\ messages = last + Len(broadcast) /\ broadcast \in Seq(Nat)
  /\ \A i \in 1 .. Len(broadcast) : broadcast[i] = last + i

Pumps ==
  /\ conn \in [Client -> {"new", "open", "closed"}]
  /\ reader \in [Client -> BOOLEAN] /\ writer \in [Client -> BOOLEAN]
  /\ \A c \in Client : conn[c] = "new" => ~reader[c] /\ ~writer[c]

Channels ==
  /\ send \in [Client -> Seq(Nat)]
  /\ \A c \in Client : Len(send[c]) <= SendCapacity

Members ==
  /\ clients \subseteq Client /\ closed \subseteq Client
  /\ IsFiniteSet(clients) /\ Cardinality(clients) <= MaxClients

Typed == Messages /\ Pumps /\ Channels /\ Members

LEMMA TypedAtInit == Init => Typed
<1> SUFFICES ASSUME Init PROVE Messages /\ Pumps /\ Channels /\ Members  BY DEF Typed
<1> USE HubAssumption DEF Init
<1>1. Messages  BY DEF Messages
<1>2. Pumps  BY DEF Pumps
<1>3. Channels  BY DEF Channels
<1>4. Members  BY FS_EmptySet DEF Members
<1> QED  BY <1>1, <1>2, <1>3, <1>4

\* The next message to deliver is the one after the last.
LEMMA NextMessage ==
  ASSUME Messages, broadcast # <<>>
  PROVE  Head(broadcast) = last + 1
<1>1. Len(broadcast) \in Nat \ {0} /\ Head(broadcast) = broadcast[1]  BY DEF Messages
<1> QED  BY <1>1 DEF Messages

LEMMA MessagesAreKept == Inv /\ Messages /\ [Next]_vars => Messages'
<1> SUFFICES ASSUME Messages, [Next]_vars PROVE Messages'  OBVIOUS
<1> USE DEF Messages
<1>1. CASE Deliver
  <2>1. broadcast # <<>> /\ broadcast' = Tail(broadcast) /\ last' = last + 1 /\ messages' = messages
    BY <1>1, NextMessage DEF Deliver
  <2>2. /\ broadcast' \in Seq(Nat) /\ Len(broadcast') = Len(broadcast) - 1
        /\ Len(broadcast) \in Nat \ {0}
        /\ \A i \in 1 .. Len(broadcast') : broadcast'[i] = broadcast[i + 1]
    BY <2>1
  <2> QED  BY <2>1, <2>2
<1>2. CASE Broadcast
  <2>1. /\ broadcast' = Append(broadcast, messages + 1) /\ messages' = messages + 1
        /\ last' = last
    BY <1>2 DEF Broadcast
  <2>2. Len(broadcast) \in Nat /\ messages \in Nat  OBVIOUS
  <2>3. /\ broadcast' \in Seq(Nat) /\ Len(broadcast') = Len(broadcast) + 1
        /\ broadcast'[Len(broadcast) + 1] = messages + 1
        /\ \A i \in 1 .. Len(broadcast) : broadcast'[i] = broadcast[i]
    BY <2>1, <2>2
  <2>4. \A i \in 1 .. Len(broadcast') : i \in 1 .. Len(broadcast) \/ i = Len(broadcast) + 1
    BY <2>2, <2>3
  <2> QED  BY <2>1, <2>2, <2>3, <2>4
<1>3. CASE UNCHANGED <<last, messages, broadcast>>  BY <1>3
<1>4. ASSUME NEW c \in Client, Connect(c) \/ Leave(c) \/ EndRead(c) \/ Write(c) \/ EndWrite(c)
      PROVE  UNCHANGED <<last, messages, broadcast>>
  BY <1>4 DEF Connect, Leave, EndRead, Write, EndWrite, queues
<1>5. CASE Register \/ Unregister \/ UNCHANGED vars
  BY <1>3, <1>5 DEF Register, Unregister, vars, queues
<1> QED  BY <1>1, <1>2, <1>3, <1>4, <1>5 DEF Next

LEMMA PumpsAreKept == Pumps /\ [Next]_vars => Pumps'
<1> SUFFICES ASSUME Pumps, [Next]_vars PROVE Pumps'  OBVIOUS
<1> USE DEF Pumps
<1>1. ASSUME NEW c \in Client, Connect(c) PROVE Pumps'  BY <1>1 DEF Connect
<1>2. ASSUME NEW c \in Client, Leave(c) PROVE Pumps'  BY <1>2 DEF Leave
<1>3. ASSUME NEW c \in Client, EndRead(c) PROVE Pumps'  BY <1>3 DEF EndRead
<1>4. ASSUME NEW c \in Client, Write(c) PROVE Pumps'  BY <1>4 DEF Write
<1>5. ASSUME NEW c \in Client, EndWrite(c) PROVE Pumps'  BY <1>5 DEF EndWrite
<1>6. CASE Register \/ Unregister \/ Deliver \/ Broadcast \/ UNCHANGED vars
  BY <1>6 DEF Register, Unregister, Deliver, Broadcast, vars, pumps
<1> QED  BY <1>1, <1>2, <1>3, <1>4, <1>5, <1>6 DEF Next

LEMMA MembersAreKept == Inv /\ Members /\ [Next]_vars => Members'
<1> SUFFICES ASSUME Inv, Members, [Next]_vars PROVE Members'  OBVIOUS
<1>1. Inv'  BY Step
<1>2. clients' \subseteq Client /\ closed' \subseteq Client
  BY <1>1 DEF Inv, OpenChannels
<1>3. Cardinality(clients) \in Nat  BY FS_CardinalityType DEF Members
<1>4. CASE clients' \subseteq clients
  <2>1. IsFiniteSet(clients') /\ Cardinality(clients') <= Cardinality(clients)
        /\ Cardinality(clients') \in Nat
    BY <1>4, FS_Subset, FS_CardinalityType DEF Members
  <2> QED  BY <2>1, <1>2, <1>3, HubAssumption DEF Members
<1>5. CASE Register
  <2>1. CASE clients' = clients  BY <2>1, <1>4
  <2>2. CASE ~full /\ clients' = clients \cup {Head(register)}
    <3>1. Cardinality(clients) < MaxClients  BY <2>2, <1>3, HubAssumption DEF full
    <3>2. IsFiniteSet(clients') /\ Cardinality(clients') <= Cardinality(clients) + 1
          /\ Cardinality(clients') \in Nat
      BY <2>2, <1>3, FS_AddElement, FS_CardinalityType DEF Members
    <3> QED  BY <3>1, <3>2, <1>2, <1>3, HubAssumption DEF Members
  <2> QED  BY <1>5, <2>1, <2>2 DEF Register
<1>6. ASSUME NEW c \in Client, Connect(c) \/ Leave(c) \/ EndRead(c) \/ Write(c) \/ EndWrite(c)
      PROVE  clients' \subseteq clients
  BY <1>6 DEF Connect, Leave, EndRead, Write, EndWrite
<1>7. CASE Unregister \/ Deliver \/ Broadcast \/ UNCHANGED vars
  BY <1>4, <1>7 DEF Unregister, Deliver, Broadcast, vars
<1> QED  BY <1>4, <1>5, <1>6, <1>7 DEF Next
\* What a channel holds after one message more, or one less.
LEMMA OneMore ==
  ASSUME NEW q \in Seq(Nat), NEW m \in Nat
  PROVE  /\ Append(q, m) \in Seq(Nat) /\ Len(q) \in Nat /\ Len(Append(q, m)) = Len(q) + 1
         /\ Append(q, m)[Len(q) + 1] = m
         /\ \A i \in 1 .. Len(q) : Append(q, m)[i] = q[i]
  OBVIOUS

LEMMA OneLess ==
  ASSUME NEW q \in Seq(Nat), q # <<>>
  PROVE  /\ Tail(q) \in Seq(Nat) /\ Len(q) \in Nat \ {0} /\ Len(Tail(q)) = Len(q) - 1
         /\ Head(q) = q[1] /\ q[1] \in Nat
         /\ \A i \in 1 .. Len(q) - 1 : Tail(q)[i] = q[i + 1]
  OBVIOUS

LEMMA EmptyQueue == \A q \in Seq(Nat) : q = <<>> <=> Len(q) = 0
  OBVIOUS

\* What Register and Deliver put into the channels.
LEMMA Greeted ==
  ASSUME Typed, NEW c \in Client, send' = [send EXCEPT ![c] = @ \o greeting(c)]
  PROVE  /\ send'[c] = IF greeting(c) = <<>> THEN send[c] ELSE Append(send[c], last)
         /\ greeting(c) # <<>> <=> last # 0 /\ HasRoom(c)
         /\ \A d \in Client \ {c} : send'[d] = send[d]
         /\ send' \in [Client -> Seq(Nat)]
<1>1. send \in [Client -> Seq(Nat)] /\ send[c] \in Seq(Nat) /\ last \in Nat
  BY DEF Typed, Channels, Messages
<1>2. CASE last # 0 /\ HasRoom(c)
  <2>1. greeting(c) = <<last>> /\ <<last>> # <<>>  BY <1>2 DEF greeting
  <2>2. send[c] \o <<last>> = Append(send[c], last) /\ Append(send[c], last) \in Seq(Nat)
    BY <1>1
  <2> QED  BY <1>1, <1>2, <2>1, <2>2
<1>3. CASE ~(last # 0 /\ HasRoom(c))
  <2>1. greeting(c) = <<>> /\ send[c] \o <<>> = send[c]  BY <1>1, <1>3 DEF greeting
  <2> QED  BY <1>1, <1>3, <2>1
<1> QED  BY <1>2, <1>3

LEMMA Delivered ==
  ASSUME Typed, Deliver
  PROVE  \A c \in Client :
           send'[c] = IF c \in clients /\ HasRoom(c) THEN Append(send[c], last + 1) ELSE send[c]
<1>1. Head(broadcast) = last + 1  BY NextMessage DEF Deliver, Typed
<1> QED  BY <1>1 DEF Deliver

LEMMA ChannelsAreKept == Inv /\ Typed /\ [Next]_vars => Channels'
<1> SUFFICES ASSUME Inv, Typed, [Next]_vars PROVE Channels'  OBVIOUS
<1>0. /\ send \in [Client -> Seq(Nat)] /\ last \in Nat /\ SendCapacity \in Nat \ {0}
      /\ \A c \in Client : Len(send[c]) <= SendCapacity /\ Len(send[c]) \in Nat
  BY HubAssumption DEF Typed, Channels, Messages
<1>1. CASE Register
  <2> DEFINE c == Head(register)
  <2>1. c \in Client  BY <1>1, HeadOfQueue DEF Register, Inv
  <2>2. CASE send' = send  BY <2>2, <1>0 DEF Channels
  <2>3. CASE send' = [send EXCEPT ![c] = @ \o greeting(c)]
    <3>1. Len(send'[c]) <= SendCapacity
      <4>1. CASE greeting(c) = <<>>  BY <4>1, <2>1, <2>3, <1>0, Greeted
      <4>2. CASE greeting(c) # <<>>
        <5>1. send'[c] = Append(send[c], last) /\ Len(send[c]) < SendCapacity
          BY <4>2, <2>1, <2>3, Greeted DEF HasRoom
        <5>2. Len(send'[c]) = Len(send[c]) + 1 /\ Len(send[c]) \in Nat
          BY <5>1, <2>1, <1>0, OneMore
        <5> QED  BY <5>1, <5>2, <1>0
      <4> QED  BY <4>1, <4>2
    <3>2. send' \in [Client -> Seq(Nat)] /\ \A d \in Client \ {c} : send'[d] = send[d]
      BY <2>1, <2>3, Greeted
    <3> QED  BY <3>1, <3>2, <1>0 DEF Channels
  <2> QED  BY <1>1, <2>2, <2>3 DEF Register
<1>2. CASE Deliver
  <2>1. ASSUME NEW c \in Client
        PROVE  send'[c] \in Seq(Nat) /\ Len(send'[c]) <= SendCapacity
    <3>1. CASE c \in clients /\ HasRoom(c)
      <4>1. send'[c] = Append(send[c], last + 1) /\ Len(send[c]) < SendCapacity
        BY <1>2, <3>1, Delivered DEF HasRoom
      <4>2. /\ Append(send[c], last + 1) \in Seq(Nat) /\ Len(send[c]) \in Nat
            /\ Len(Append(send[c], last + 1)) = Len(send[c]) + 1
        BY <1>0, OneMore
      <4> QED  BY <1>0, <4>1, <4>2
    <3>2. CASE ~(c \in clients /\ HasRoom(c))
      BY <1>0, <1>2, <3>2, Delivered
    <3> QED  BY <3>1, <3>2
  <2>2. send' = [c \in Client |-> send'[c]]  BY <1>2 DEF Deliver
  <2>3. send' \in [Client -> Seq(Nat)]  BY <2>1, <2>2
  <2> QED  BY <2>1, <2>3 DEF Channels
<1>3. ASSUME NEW c \in Client, Write(c) PROVE Channels'
  <2>1. /\ send[c] # <<>> /\ send' = [send EXCEPT ![c] = Tail(@)]
        /\ send[c] \in Seq(Nat)
    BY <1>0, <1>3 DEF Write
  <2>2. Tail(send[c]) \in Seq(Nat) /\ Len(Tail(send[c])) = Len(send[c]) - 1
    BY <2>1, OneLess
  <2> QED  BY <2>1, <2>2, <1>0 DEF Channels
<1>4. ASSUME NEW c \in Client, Connect(c) \/ Leave(c) \/ EndRead(c) \/ EndWrite(c)
      PROVE  send' = send
  BY <1>4 DEF Connect, Leave, EndRead, EndWrite
<1>5. CASE Unregister \/ Broadcast \/ UNCHANGED vars
  BY <1>0, <1>5 DEF Unregister, Broadcast, vars, Channels
<1> QED  BY <1>0, <1>1, <1>2, <1>3, <1>4, <1>5 DEF Next, Channels

LEMMA StepsKeepTyped == Inv /\ Typed /\ [Next]_vars => Typed'
  BY MessagesAreKept, PumpsAreKept, ChannelsAreKept, MembersAreKept DEF Typed

\* The hub keeps to its limits: of clients, and of messages in a channel; and
\* the pumps of a connection begin with it (Hub.tla).
THEOREM HubTypesHold == Spec => []TypeOK
<1>1. Typed => TypeOK
  BY HubAssumption DEF Typed, TypeOK, Messages, Pumps, Channels, Members
<1> QED  BY <1>1, Start, Step, TypedAtInit, StepsKeepTyped, PTL DEF Spec
-----------------------------------------------------------------------------
(* No gaps.  What is written to a client and what waits in its channel are *)
(* consecutive, from the first message it must get to the last one there   *)
(* was; a connection that is not yet a client has got nothing.             *)

\* Messages that follow each other and end with the last one.
Consecutive(q, end) ==
  /\ q # <<>> => q[Len(q)] = end
  /\ \A i \in 1 .. Len(q) - 1 : q[i + 1] = q[i] + 1

\* What the channel of a client begins with.
Begins(q, got, from, end) ==
  IF q = <<>> THEN got = end ELSE q[1] = IF got = 0 THEN from ELSE got + 1

Follows(c) ==
  /\ since[c] \in Nat \ {0}
  /\ since[c] > last => last = 0 /\ since[c] = 1 /\ send[c] = <<>> /\ seen[c] = 0
  /\ Consecutive(send[c], last)
  /\ writer[c] /\ last >= since[c] /\ conn[c] = "open" => Begins(send[c], seen[c], since[c], last)

GotNothing(c) == send[c] = <<>> /\ seen[c] = 0

GapInv ==
  /\ since \in [Client -> Nat] /\ seen \in [Client -> Nat]
  /\ \A c \in clients : Follows(c)
  /\ \A c \in Client : conn[c] = "new" \/ Queued(c) => GotNothing(c)

LEMMA GapsAtInit == Init => GapInv
  BY DEF Init, GapInv, GotNothing

\* A message more, one after the last, keeps messages consecutive.
LEMMA AppendFollows ==
  ASSUME NEW q \in Seq(Nat), NEW end \in Nat, Consecutive(q, end)
  PROVE  Consecutive(Append(q, end + 1), end + 1)
<1> DEFINE r == Append(q, end + 1)
<1>1. /\ Len(q) \in Nat /\ Len(r) = Len(q) + 1 /\ r[Len(q) + 1] = end + 1
      /\ \A i \in 1 .. Len(q) : r[i] = q[i]
  BY OneMore
<1> HIDE DEF r
<1>2. ASSUME NEW i \in 1 .. Len(r) - 1 PROVE r[i + 1] = r[i] + 1
  <2>1. CASE i = Len(q)
    <3>1. q # <<>> /\ r[i] = q[Len(q)]  BY <1>1, <1>2, <2>1
    <3> QED  BY <1>1, <2>1, <3>1 DEF Consecutive
  <2>2. CASE i # Len(q)
    <3>1. i \in 1 .. Len(q) - 1 /\ i + 1 \in 1 .. Len(q) /\ i \in 1 .. Len(q)
      BY <1>1, <1>2, <2>2
    <3> QED  BY <1>1, <3>1 DEF Consecutive
  <2> QED  BY <2>1, <2>2
<1>3. Consecutive(r, end + 1)  BY <1>1, <1>2 DEF Consecutive
<1> QED  BY <1>3 DEF r

\* So does one less.
LEMMA TailFollows ==
  ASSUME NEW q \in Seq(Nat), q # <<>>, NEW end \in Nat, Consecutive(q, end)
  PROVE  /\ Consecutive(Tail(q), end)
         /\ Tail(q) = <<>> => q[1] = end
         /\ Tail(q) # <<>> => Tail(q)[1] = q[1] + 1
<1> DEFINE r == Tail(q)
<1>1. /\ r \in Seq(Nat) /\ Len(q) \in Nat \ {0} /\ Len(r) = Len(q) - 1
      /\ \A i \in 1 .. Len(q) - 1 : r[i] = q[i + 1]
  BY OneLess
<1> HIDE DEF r
<1>2. r = <<>> <=> Len(q) = 1
  <2>1. r = <<>> <=> Len(r) = 0  BY <1>1, EmptyQueue
  <2>2. Len(r) = 0 <=> Len(q) = 1  BY <1>1
  <2> QED  BY <2>1, <2>2
<1>3. r # <<>> => r[Len(r)] = end
  <2>1. ASSUME r # <<>> PROVE Len(r) \in 1 .. Len(q) - 1 /\ Len(r) + 1 = Len(q)
    BY <1>1, <1>2, <2>1
  <2> QED  BY <1>1, <2>1 DEF Consecutive
<1>4. ASSUME NEW i \in 1 .. Len(r) - 1 PROVE r[i + 1] = r[i] + 1
  <2>1. i \in 1 .. Len(q) - 1 /\ i + 1 \in 1 .. Len(q) - 1  BY <1>1, <1>4
  <2> QED  BY <1>1, <2>1 DEF Consecutive
<1>5. r # <<>> => r[1] = q[1] + 1
  <2>1. r # <<>> => 1 \in 1 .. Len(q) - 1  BY <1>1, <1>2
  <2> QED  BY <1>1, <2>1 DEF Consecutive
<1>6. r = <<>> => q[1] = end  BY <1>2 DEF Consecutive
<1> QED  BY <1>3, <1>4, <1>5, <1>6 DEF Consecutive, r

\* A step that leaves a client's messages alone, and opens no connection.
LEMMA LeftAlone ==
  ASSUME NEW c \in Client, Follows(c), send'[c] = send[c], seen'[c] = seen[c], since'[c] = since[c],
         last' = last, writer'[c] => writer[c], conn'[c] = "open" => conn[c] = "open"
  PROVE  Follows(c)'
  BY DEF Follows

LEMMA GapsAreKept == Inv /\ Typed /\ GapInv /\ [Next]_vars => GapInv'
<1> SUFFICES ASSUME Inv, Typed, GapInv, [Next]_vars PROVE GapInv'  OBVIOUS
<1>0. /\ since \in [Client -> Nat] /\ seen \in [Client -> Nat] /\ last \in Nat
      /\ send \in [Client -> Seq(Nat)] /\ clients \in SUBSET Client
      /\ writer \in [Client -> BOOLEAN] /\ conn \in [Client -> {"new", "open", "closed"}]
  BY DEF GapInv, Typed, Messages, Channels, Members, Pumps
<1>1. CASE Register
  <2>0. PICK c \in Client : c = Head(register)
    BY <1>1, HeadOfQueue DEF Register, Inv
  <2>1. /\ c \notin clients /\ Queued(c)
        /\ \A d \in Client : Queued(d)' => Queued(d) /\ d # c
        /\ UNCHANGED <<last, conn, reader, writer, seen>>
    <3>1. Queued(c)
      BY <1>1, <2>0 DEF Register, Inv, OpenChannels, Queued
    <3> QED  BY <1>1, <2>0, <3>1, HeadOfQueue DEF Register, Inv, pumps
  <2>2. GotNothing(c)  BY <2>1 DEF GapInv
  <2>3. CASE UNCHANGED <<clients, send, since>>
    <3>1. \A d \in clients : Follows(d)'  BY <2>1, <2>3, <1>0, LeftAlone DEF GapInv
    <3> QED  BY <1>0, <2>1, <2>3, <3>1 DEF GapInv, GotNothing
  <2>4. CASE /\ clients' = clients \cup {c} /\ send' = [send EXCEPT ![c] = @ \o greeting(c)]
             /\ since' = [since EXCEPT ![c] = IF last = 0 THEN 1 ELSE last]
    <3>1. HasRoom(c)
      BY <1>0, <2>1, <2>2, HubAssumption DEF GotNothing, HasRoom
    <3>2. /\ send'[c] = IF last = 0 THEN <<>> ELSE Append(<<>>, last)
          /\ \A d \in Client \ {c} : send'[d] = send[d]
      BY <2>1, <2>2, <2>4, <3>1, Greeted DEF GotNothing
    <3>3. /\ since'[c] = IF last = 0 THEN 1 ELSE last
          /\ \A d \in Client \ {c} : since'[d] = since[d]
          /\ since' \in [Client -> Nat]
      BY <1>0, <2>1, <2>4
    <3>4. Follows(c)'
      <4>1. CASE last = 0
        BY <1>0, <2>1, <2>2, <3>2, <3>3, <4>1 DEF Follows, Consecutive, GotNothing
      <4>2. CASE last # 0
        <5>1. /\ send'[c] = <<last>> /\ Len(<<last>>) = 1 /\ <<last>>[1] = last
              /\ <<last>> # <<>> /\ since'[c] = last /\ seen'[c] = 0
          BY <2>1, <2>2, <3>2, <3>3, <4>2 DEF GotNothing
        <5>2. Consecutive(send'[c], last)  BY <5>1 DEF Consecutive
        <5>3. Begins(send'[c], seen'[c], since'[c], last)  BY <5>1 DEF Begins
        <5> QED  BY <1>0, <2>1, <4>2, <5>1, <5>2, <5>3 DEF Follows
      <4> QED  BY <4>1, <4>2
    <3>5. \A d \in clients : Follows(d)'
      BY <1>0, <2>1, <3>2, <3>3, LeftAlone DEF GapInv
    <3>6. \A d \in Client : conn'[d] = "new" \/ Queued(d)' => d # c
      BY <2>1 DEF Inv, OpenChannels
    <3>7. \A d \in Client : conn'[d] = "new" \/ Queued(d)' => GotNothing(d)'
      BY <2>1, <3>2, <3>6 DEF GapInv, GotNothing
    <3> QED  BY <1>0, <2>1, <2>4, <3>3, <3>4, <3>5, <3>7 DEF GapInv
  <2> QED  BY <1>1, <2>0, <2>3, <2>4 DEF Register
<1>2. CASE Deliver
  <2>1. /\ clients' \subseteq clients
        /\ last' = last + 1 /\ UNCHANGED <<register, conn, reader, writer, since, seen>>
    BY <1>2, NextMessage DEF Deliver, Typed, slowAfter, pumps
  <2>2. \A c \in clients' : c \in clients /\ HasRoom(c)
    BY <1>2 DEF Deliver, slowAfter
  <2>3. ASSUME NEW c \in clients' PROVE Follows(c)'
    <3>1. c \in Client /\ Follows(c) /\ send'[c] = Append(send[c], last + 1)
      BY <1>0, <1>2, <2>2, <2>3, Delivered DEF GapInv
    <3>2. /\ Len(send[c]) \in Nat /\ Len(send'[c]) = Len(send[c]) + 1 /\ send'[c] # <<>>
          /\ send'[c][1] = IF send[c] = <<>> THEN last + 1 ELSE send[c][1]
      <4>1. send[c] \in Seq(Nat) /\ last + 1 \in Nat  BY <1>0, <3>1
      <4>2. /\ Len(send[c]) \in Nat /\ Len(send'[c]) = Len(send[c]) + 1
            /\ send'[c][Len(send[c]) + 1] = last + 1 /\ send'[c] \in Seq(Nat)
            /\ \A i \in 1 .. Len(send[c]) : send'[c][i] = send[c][i]
        BY <3>1, <4>1, OneMore
      <4>3. send[c] = <<>> <=> Len(send[c]) = 0  BY <4>1
      <4>4. send'[c] # <<>>  BY <4>2
      <4> QED  BY <4>2, <4>3, <4>4
    <3>3. Consecutive(send'[c], last + 1)
      BY <1>0, <3>1, AppendFollows DEF Follows
    <3>4. since[c] <= last + 1 /\ since[c] \in Nat \ {0} /\ seen[c] \in Nat
      BY <1>0, <3>1 DEF Follows
    <3>5. ASSUME writer[c], conn[c] = "open" PROVE Begins(send'[c], seen[c], since[c], last + 1)
      <4>1. CASE since[c] > last
        BY <1>0, <3>1, <3>2, <4>1 DEF Follows, Begins
      <4>2. CASE last >= since[c]
        <5>1. Begins(send[c], seen[c], since[c], last)  BY <3>1, <3>5, <4>2 DEF Follows
        <5> QED  BY <1>0, <3>2, <3>4, <4>2, <5>1 DEF Begins
      <4> QED  BY <1>0, <3>4, <4>1, <4>2
    <3> QED  BY <1>0, <2>1, <3>3, <3>4, <3>5 DEF Follows
  <2>4. ASSUME NEW c \in Client, conn'[c] = "new" \/ Queued(c)' PROVE GotNothing(c)'
    <3>1. GotNothing(c) /\ c \notin clients
      BY <2>1, <2>4 DEF GapInv, Inv, OpenChannels, Queued
    <3> QED  BY <1>2, <2>1, <3>1, Delivered DEF GotNothing
  <2> QED  BY <1>0, <2>1, <2>3, <2>4 DEF GapInv
<1>3. ASSUME NEW c \in Client, Write(c) PROVE GapInv'
  <2>1. /\ send[c] # <<>> /\ send'[c] = Tail(send[c]) /\ send[c] \in Seq(Nat)
        /\ \A d \in Client \ {c} : send'[d] = send[d] /\ seen'[d] = seen[d] /\ writer'[d] = writer[d]
        /\ UNCHANGED <<clients, register, last, conn, since>>
        /\ \/ conn[c] = "open" /\ seen' = [seen EXCEPT ![c] = Head(send[c])] /\ writer' = writer
           \/ conn[c] # "open" /\ seen' = seen
        /\ writer[c]
    BY <1>0, <1>3 DEF Write, queues
  <2>2. /\ Head(send[c]) = send[c][1] /\ send[c][1] \in Nat
    BY <2>1, OneLess
  <2>3. seen' \in [Client -> Nat]  BY <1>0, <2>1, <2>2
  <2>4. ASSUME c \in clients PROVE Follows(c)'
    <3>1. Follows(c)  BY <2>4 DEF GapInv
    <3>2. /\ Consecutive(Tail(send[c]), last)
          /\ Tail(send[c]) = <<>> => send[c][1] = last
          /\ Tail(send[c]) # <<>> => Tail(send[c])[1] = send[c][1] + 1
      BY <1>0, <2>1, <3>1, TailFollows DEF Follows
    <3>3. last >= since[c] /\ since[c] \in Nat \ {0}
      BY <1>0, <2>1, <3>1 DEF Follows
    <3>4. ASSUME conn[c] = "open" PROVE Begins(Tail(send[c]), seen'[c], since[c], last)
      <4>1. Begins(send[c], seen[c], since[c], last)  BY <2>1, <3>1, <3>3, <3>4 DEF Follows
      <4>2. seen'[c] = send[c][1] /\ send[c][1] # 0
        BY <1>0, <2>1, <2>2, <3>3, <3>4, <4>1 DEF Begins
      <4> QED  BY <3>2, <4>2 DEF Begins
    <3> QED  BY <1>0, <2>1, <3>2, <3>3, <3>4 DEF Follows
  <2>5. \A d \in clients \ {c} : Follows(d)'
    BY <1>0, <2>1, LeftAlone DEF GapInv
  <2>6. \A d \in Client : conn'[d] = "new" \/ Queued(d)' => GotNothing(d)'
    <3>1. ~(conn[c] = "new" \/ Queued(c))  BY <2>1 DEF GapInv, GotNothing
    <3> QED  BY <2>1, <3>1 DEF GapInv, GotNothing, Queued
  <2> QED  BY <1>0, <2>1, <2>3, <2>4, <2>5, <2>6 DEF GapInv
\* The steps that leave the messages alone.
<1>4. ASSUME UNCHANGED <<send, last, since, seen>>, clients' \subseteq clients,
             \A c \in Client : /\ writer'[c] => writer[c] \/ c \notin clients
                               /\ conn'[c] = "open" => conn[c] = "open" \/ c \notin clients,
             \A c \in Client : conn'[c] = "new" \/ Queued(c)' => conn[c] = "new" \/ Queued(c)
      PROVE  GapInv'
  <2>1. ASSUME NEW c \in clients' PROVE Follows(c)'
    <3>1. c \in Client /\ c \in clients /\ Follows(c)  BY <1>0, <1>4, <2>1 DEF GapInv
    <3>2. send'[c] = send[c] /\ seen'[c] = seen[c] /\ since'[c] = since[c] /\ last' = last
      BY <1>4
    <3>3. (writer'[c] => writer[c]) /\ (conn'[c] = "open" => conn[c] = "open")
      BY <1>4, <3>1
    <3> QED  BY <3>1, <3>2, <3>3, LeftAlone
  <2>2. \A c \in Client : conn'[c] = "new" \/ Queued(c)' => GotNothing(c)'
    BY <1>4 DEF GapInv, GotNothing
  <2> QED  BY <1>0, <1>4, <2>1, <2>2 DEF GapInv
<1>5. ASSUME NEW c \in Client, Connect(c) PROVE GapInv'
  <2>1. /\ conn[c] = "new" /\ register' = Append(register, c) /\ register \in Seq(Client)
        /\ conn' = [conn EXCEPT ![c] = "open"] /\ writer' = [writer EXCEPT ![c] = TRUE]
        /\ UNCHANGED <<clients, send, last, since, seen>> /\ c \notin clients
    BY <1>5 DEF Connect, Inv, OpenChannels
  <2>2. \A d \in Client : Queued(d)' => Queued(d) \/ d = c
    BY <2>1 DEF Queued
  <2> QED  BY <1>0, <1>4, <2>1, <2>2
<1>6. ASSUME NEW c \in Client, Leave(c) \/ EndRead(c) \/ EndWrite(c) PROVE GapInv'
  <2>1. /\ UNCHANGED <<clients, register, send, last, since, seen>>
        /\ writer' = writer \/ writer' = [writer EXCEPT ![c] = FALSE]
        /\ conn' = conn \/ conn' = [conn EXCEPT ![c] = "closed"]
    BY <1>6 DEF Leave, EndRead, EndWrite, queues
  <2> QED  BY <1>0, <1>4, <2>1 DEF Queued
<1>7. CASE Unregister \/ Broadcast \/ UNCHANGED vars
  <2>1. /\ UNCHANGED <<register, send, last, since, seen, conn, writer>>
        /\ clients' \subseteq clients
    BY <1>7 DEF Unregister, Broadcast, vars, queues, pumps
  <2> QED  BY <1>4, <2>1 DEF Queued
<1> QED  BY <1>1, <1>2, <1>3, <1>5, <1>6, <1>7 DEF Next

\* For any number of clients and messages, a client the hub keeps has got, or
\* has waiting for it, every message since it was registered
\* (websocket_hub.go:72-84).
THEOREM ClientsMissNothing == Spec => []NoGaps
<1>1. Typed /\ GapInv => NoGaps
  BY DEF Typed, Members, GapInv, NoGaps, Follows, Consecutive, Begins
<1> QED  BY <1>1, Start, Step, TypedAtInit, StepsKeepTyped, GapsAtInit, GapsAreKept, PTL DEF Spec

-----------------------------------------------------------------------------

USE LeaderboardAssumption

\* What Compute returns is a board.
LEMMA BoardIsBoard ==
  ASSUME NEW ids \in SUBSET Contestant, metrics \in [Contestant -> None .. MaxMeasures]
  PROVE  Board(ids) \in Boards
<1> DEFINE on == {c \in ids : metrics[c] # None}
<1>1. Board(ids) = [c \in on |-> metrics[c]]  BY DEF Board
<1>2. \A c \in on : metrics[c] \in 0 .. MaxMeasures  BY DEF None
<1>3. Board(ids) \in [on -> 0 .. MaxMeasures]  BY <1>1, <1>2
<1>4. on \in SUBSET Contestant  OBVIOUS
<1> HIDE DEF on
<1> QED  BY <1>3, <1>4 DEF Boards

\* The members found, before their metrics are read, have the shape of a board.
LEMMA MembersAreBoard ==
  ASSUME NEW ids \in SUBSET Contestant
  PROVE  [c \in ids |-> 0] \in Boards
<1>1. [c \in ids |-> 0] \in [ids -> 0 .. MaxMeasures]  OBVIOUS
<1> QED  BY <1>1 DEF Boards

LEMMA NoBoardIsBoard == NoBoard \in Boards
<1>1. {} \in SUBSET Contestant  OBVIOUS
<1> QED  BY <1>1, MembersAreBoard DEF NoBoard

LEMMA DomainOfBoard == \A b \in Boards : DOMAIN b \in SUBSET Contestant
  BY DEF Boards

LEMMA TypesAtInit == BoardInit => BoardTypeOK
<1> SUFFICES ASSUME BoardInit PROVE BoardTypeOK  OBVIOUS
<1> USE DEF BoardInit
<1>1. held \in [Pod -> Boards] /\ shown \in [Pod -> Boards] /\ cached \in Boards /\ answer \in Boards
  BY NoBoardIsBoard
<1>2. /\ live \in [Contestant -> {None} \cup 1 .. MaxMeasures]
      /\ metrics \in [Contestant -> None .. MaxMeasures]
  BY DEF None
<1>3. /\ active \subseteq Contestant /\ described \subseteq Contestant
      /\ scorer \in [Pod -> {"idle", "members", "metrics", "scored", "stored"}]
      /\ request \in {"none", "asked", "members", "computed"}
      /\ test \in [Contestant -> {"none", "cleared", "running", "read"}]
  OBVIOUS
<1>4. /\ window \in [Contestant -> 0 .. MaxMeasures]
      /\ measures \in 0 .. MaxMeasures /\ events \in 0 .. MaxEvents
      /\ published \in Nat /\ misread \in Nat
  OBVIOUS
<1>5. frozen \in BOOLEAN  OBVIOUS
<1> QED  BY <1>1, <1>2, <1>3, <1>4, <1>5 DEF BoardTypeOK

-----------------------------------------------------------------------------
(* Every action keeps the types. *)

\* The groups of variables an action may leave alone.
LEMMA IngesterKeepsTypes ==
  ASSUME BoardTypeOK, NEW c \in Contestant,
         Measure(c) \/ PublishSnapshot(c) \/ PublishBehavior(c)
  PROVE  BoardTypeOK'
<1> USE DEF BoardTypeOK, redis, scorers, requests, tests, used, freezes, None
<1>1. CASE Measure(c)  BY <1>1 DEF Measure
<1>2. CASE PublishSnapshot(c)  BY <1>2 DEF PublishSnapshot
<1>3. CASE PublishBehavior(c)  BY <1>3 DEF PublishBehavior, Touched
<1> QED  BY <1>1, <1>2, <1>3

LEMMA OrchestratorKeepsTypes ==
  ASSUME BoardTypeOK, NEW c \in Contestant,
         ClearMetrics(c) \/ SeedName(c) \/ readWindow(c) \/ PublishFinalScore(c)
  PROVE  BoardTypeOK'
<1> USE DEF BoardTypeOK, redis, scorers, requests, tests, used, freezes, None, Event
<1>1. CASE ClearMetrics(c)  BY <1>1 DEF ClearMetrics
<1>2. CASE SeedName(c)  BY <1>2 DEF SeedName, Touched
<1>3. CASE readWindow(c)  BY <1>3 DEF readWindow
<1>4. CASE PublishFinalScore(c)  BY <1>4 DEF PublishFinalScore
<1> QED  BY <1>1, <1>2, <1>3, <1>4

LEMMA ScorerKeepsTypes ==
  ASSUME BoardTypeOK, NEW p \in Pod,
         BeginCycle(p) \/ ReadMembers(p) \/ ReadMetrics(p) \/ Store(p) \/ Publish(p)
  PROVE  BoardTypeOK'
<1> USE DEF BoardTypeOK, redis, scorers, requests, tests, used, freezes, Event
<1>1. CASE BeginCycle(p)  BY <1>1 DEF BeginCycle, isFrozen
<1>2. CASE ReadMembers(p)
  <2>1. [c \in active |-> 0] \in Boards  BY MembersAreBoard
  <2> QED  BY <1>2, <2>1 DEF ReadMembers
<1>3. CASE ReadMetrics(p)
  <2>1. Board(DOMAIN held[p]) \in Boards  BY BoardIsBoard, DomainOfBoard
  <2> QED  BY <1>3, <2>1, NoBoardIsBoard DEF ReadMetrics
<1>4. CASE Store(p)  BY <1>4 DEF Store
<1>5. CASE Publish(p)  BY <1>5, NoBoardIsBoard DEF Publish
<1> QED  BY <1>1, <1>2, <1>3, <1>4, <1>5

LEMMA AdminKeepsTypes ==
  ASSUME BoardTypeOK, Freeze \/ Unfreeze \/ Expire \/ \E c \in Contestant : Disqualify(c)
  PROVE  BoardTypeOK'
<1> USE DEF BoardTypeOK, redis, scorers, requests, tests, used, freezes, Event
<1>1. CASE Freeze
  <2>1. CASE frozen' = TRUE /\ published' \in {published, 0} /\ misread' \in {misread, 0}
    BY <1>1, <2>1 DEF Freeze
  <2>2. CASE UNCHANGED <<frozen, freezes>>  BY <1>1, <2>2 DEF Freeze
  <2> QED  BY <1>1, <2>1, <2>2 DEF Freeze
<1>2. CASE Unfreeze  BY <1>2 DEF Unfreeze
<1>3. CASE Expire  BY <1>3, NoBoardIsBoard DEF Expire
<1>4. CASE \E c \in Contestant : Disqualify(c)  BY <1>4 DEF Disqualify
<1> QED  BY <1>1, <1>2, <1>3, <1>4

LEMMA ReaderKeepsTypes ==
  ASSUME BoardTypeOK, Ask \/ FindMembers \/ Compute \/ Answer
  PROVE  BoardTypeOK'
<1> USE DEF BoardTypeOK, redis, scorers, requests, tests, used, freezes, Event
<1>1. CASE Ask  BY <1>1 DEF Ask
<1>2. CASE FindMembers
  <2>1. [c \in active |-> 0] \in Boards  BY MembersAreBoard
  <2> QED  BY <1>2, <2>1 DEF FindMembers
<1>3. CASE Compute
  <2>1. PICK missing \in SUBSET DOMAIN answer : answer' = Board(DOMAIN answer \ missing)
    BY <1>3 DEF Compute
  <2>2. DOMAIN answer \ missing \in SUBSET Contestant  BY DomainOfBoard
  <2>3. answer' \in Boards  BY <2>1, <2>2, BoardIsBoard
  <2>4. events' \in 0 .. MaxEvents  BY <1>3 DEF Compute
  <2> QED  BY <1>3, <2>3, <2>4 DEF Compute
<1>4. CASE Answer  BY <1>4, NoBoardIsBoard DEF Answer
<1> QED  BY <1>1, <1>2, <1>3, <1>4

LEMMA StepsKeepTypes == BoardTypeOK /\ [BoardNext]_boardVars => BoardTypeOK'
<1> SUFFICES ASSUME BoardTypeOK, [BoardNext]_boardVars PROVE BoardTypeOK'  OBVIOUS
<1>1. CASE BoardNext
  BY <1>1, IngesterKeepsTypes, OrchestratorKeepsTypes, ScorerKeepsTypes, AdminKeepsTypes,
     ReaderKeepsTypes DEF BoardNext
<1>2. CASE UNCHANGED boardVars
  BY <1>2 DEF BoardTypeOK, boardVars, redis, scorers, requests, tests, used, freezes
<1> QED  BY <1>1, <1>2

\* Every variable keeps its type (Leaderboard.tla).
THEOREM BoardTypesHold == BoardSpec => []BoardTypeOK
  BY TypesAtInit, StepsKeepTypes, PTL DEF BoardSpec

-----------------------------------------------------------------------------
(* The freeze.  FreezeHolds is inductive beside the types: a board that is *)
(* published moves its pod from the cycles to the count, a check that is   *)
(* answered keeps a pod out of a cycle while the board is frozen, and one  *)
(* that fails is counted.                                                  *)

LEMMA BusyIsFinite ==
  /\ IsFiniteSet(busy) /\ Cardinality(busy) \in Nat
  /\ Cardinality(busy) <= Cardinality(Pod) /\ Cardinality(Pod) \in Nat
<1>1. busy \in SUBSET Pod  BY DEF busy
<1> QED  BY <1>1, FS_Subset, FS_CardinalityType

\* A cycle that begins adds its pod to the busy ones.
LEMMA CycleBeginsUnderFreeze ==
  ASSUME BoardTypeOK, FreezeHolds, NEW p \in Pod, BeginCycle(p)
  PROVE  FreezeHolds'
<1>1. busy' = busy \cup {p} /\ p \notin busy
  BY DEF BeginCycle, busy, BoardTypeOK
<1>2. Cardinality(busy') = Cardinality(busy) + 1
  BY <1>1, BusyIsFinite, FS_AddElement
<1>3. frozen' = frozen /\ published' = published /\ (frozen => misread' = misread + 1)
  BY DEF BeginCycle, isFrozen, redis
<1> QED  BY <1>2, <1>3, BusyIsFinite DEF FreezeHolds, BoardTypeOK

\* A board that is published leaves the busy pods and joins the count.
LEMMA PublishKeepsFreeze ==
  ASSUME BoardTypeOK, FreezeHolds, NEW p \in Pod, Publish(p)
  PROVE  FreezeHolds'
<1>1. busy' = busy \ {p} /\ p \in busy
  BY DEF Publish, busy, BoardTypeOK
<1>2. Cardinality(busy') = Cardinality(busy) - 1
  BY <1>1, BusyIsFinite, FS_RemoveElement
<1>3. frozen' = frozen /\ misread' = misread /\ (frozen => published' = published + 1)
  BY DEF Publish, redis
<1> QED  BY <1>2, <1>3, BusyIsFinite DEF FreezeHolds, BoardTypeOK

\* A cycle that goes on keeps its pod busy, or lets it go without a board.
LEMMA CycleKeepsFreeze ==
  ASSUME BoardTypeOK, FreezeHolds, NEW p \in Pod, ReadMembers(p) \/ ReadMetrics(p) \/ Store(p)
  PROVE  FreezeHolds'
<1>1. busy' \in SUBSET busy
  BY DEF ReadMembers, ReadMetrics, Store, busy, BoardTypeOK
<1>2. Cardinality(busy') <= Cardinality(busy) /\ Cardinality(busy') \in Nat
  BY <1>1, BusyIsFinite, FS_Subset, FS_CardinalityType
<1>3. UNCHANGED <<frozen, published, misread>>
  BY DEF ReadMembers, ReadMetrics, Store, redis, freezes
<1> QED  BY <1>2, <1>3, BusyIsFinite DEF FreezeHolds, BoardTypeOK

\* A freeze starts the count; nobody else touches it or a scorer.
LEMMA FreezeKeepsFreeze ==
  ASSUME BoardTypeOK, FreezeHolds, Freeze \/ Unfreeze
  PROVE  FreezeHolds'
<1>1. busy' = busy  BY DEF Freeze, Unfreeze, busy, scorers
<1>2. CASE Freeze
  <2>1. CASE UNCHANGED <<frozen, freezes>>  BY <1>1, <2>1 DEF FreezeHolds, freezes
  <2>3. CASE frozen  BY <1>1, <1>2, <2>3 DEF Freeze, FreezeHolds, freezes
  <2>2. CASE ~frozen /\ ~UNCHANGED <<frozen, freezes>>
    <3>1. published' = 0 /\ misread' = 0  BY <1>2, <2>2 DEF Freeze
    <3> QED  BY <1>1, <3>1, BusyIsFinite DEF FreezeHolds
  <2> QED  BY <2>1, <2>2, <2>3
<1>3. CASE Unfreeze  BY <1>3 DEF Unfreeze, FreezeHolds
<1> QED  BY <1>2, <1>3

LEMMA OthersKeepFreeze ==
  ASSUME FreezeHolds, UNCHANGED <<frozen, scorer, published, misread>>
  PROVE  FreezeHolds'
<1>1. busy' = busy  BY DEF busy
<1> QED  BY <1>1 DEF FreezeHolds

LEMMA StepsKeepFreeze ==
  BoardTypeOK /\ FreezeHolds /\ [BoardNext]_boardVars => FreezeHolds'
<1> SUFFICES ASSUME BoardTypeOK, FreezeHolds, [BoardNext]_boardVars PROVE FreezeHolds'  OBVIOUS
<1> USE DEF redis, scorers, requests, freezes
<1>1. ASSUME NEW c \in Contestant,
             \/ Measure(c) \/ PublishSnapshot(c) \/ PublishBehavior(c) \/ ClearMetrics(c)
             \/ SeedName(c) \/ readWindow(c) \/ PublishFinalScore(c) \/ Disqualify(c)
      PROVE FreezeHolds'
  <2>1. UNCHANGED <<frozen, scorer, published, misread>>
    BY <1>1 DEF Measure, PublishSnapshot, PublishBehavior, ClearMetrics, SeedName, readWindow,
                PublishFinalScore, Disqualify
  <2> QED  BY <2>1, OthersKeepFreeze
<1>2. ASSUME NEW p \in Pod,
             BeginCycle(p) \/ ReadMembers(p) \/ ReadMetrics(p) \/ Store(p) \/ Publish(p)
      PROVE FreezeHolds'
  BY <1>2, CycleBeginsUnderFreeze, CycleKeepsFreeze, PublishKeepsFreeze
<1>3. CASE Freeze \/ Unfreeze  BY <1>3, FreezeKeepsFreeze
<1>4. CASE Expire \/ Ask \/ FindMembers \/ Compute \/ Answer
  <2>1. UNCHANGED <<frozen, scorer, published, misread>>
    BY <1>4 DEF Expire, Ask, FindMembers, Compute, Answer
  <2> QED  BY <2>1, OthersKeepFreeze
<1>5. CASE UNCHANGED boardVars
  <2>1. UNCHANGED <<frozen, scorer, published, misread>>  BY <1>5 DEF boardVars
  <2> QED  BY <2>1, OthersKeepFreeze
<1> QED  BY <1>1, <1>2, <1>3, <1>4, <1>5 DEF BoardNext

\* However many pods there are, a freeze lets at most one board of each
\* through, and one for every check Redis did not answer (the run apis checks
\* FreezeHolds for two pods).
THEOREM AFreezeHolds == BoardSpec => []FreezeHolds
<1>1. BoardInit => FreezeHolds  BY DEF BoardInit, FreezeHolds
<1> QED  BY <1>1, BoardTypesHold, StepsKeepFreeze, PTL DEF BoardSpec

-----------------------------------------------------------------------------
(* Uploads: a job names a submission that has its parts. *)

Steps == {"new", "expire", "checked", "put", "insert", "produce"} \cup Answered

\* An upload has what its earlier steps made.
HasWhatItMade ==
  \A u \in Upload :
    /\ upload[u] \in {"insert", "produce", "accepted"} => u \in objects
    /\ upload[u] \in {"produce", "accepted"} => u \in submissions

PartsInv ==
  /\ upload \in [Upload -> Steps]
  /\ HasWhatItMade /\ jobs \subseteq submissions /\ submissions \subseteq objects

LEMMA PartsAtInit == ApiInit => PartsInv
  BY DEF ApiInit, PartsInv, HasWhatItMade, Steps

\* An upload that moves to a step it may be at leaves a function to steps.
LEMMA UploadMoves ==
  ASSUME upload \in [Upload -> Steps], NEW u \in Upload, NEW step \in Steps, To(u, step)
  PROVE  /\ upload' \in [Upload -> Steps] /\ upload'[u] = step
         /\ \A v \in Upload \ {u} : upload'[v] = upload[v]
  BY DEF To

LEMMA PartsAreKept == PartsInv /\ [ApiNext]_apiVars => PartsInv'
<1> SUFFICES ASSUME PartsInv, [ApiNext]_apiVars PROVE PartsInv'  OBVIOUS
<1> USE DEF PartsInv
<1>1. ASSUME NEW u \in Upload, NEW step \in Steps \ {"insert", "produce", "accepted"},
             To(u, step), UNCHANGED <<objects, submissions, jobs>>
      PROVE  PartsInv'
  <2>1. /\ upload' \in [Upload -> Steps] /\ upload'[u] = step
        /\ \A v \in Upload \ {u} : upload'[v] = upload[v]
    BY <1>1, UploadMoves
  <2> QED  BY <1>1, <2>1 DEF HasWhatItMade
<1>2. ASSUME NEW u \in Upload, NEW out \in Outcomes, Incr(u, out) \/ SetExpiry(u, out)
      PROVE  PartsInv'
  <2>1. \E step \in {"checked", "expire", "refused"} : To(u, step)
    BY <1>2 DEF Incr, SetExpiry
  <2> QED  BY <1>1, <1>2, <2>1 DEF Incr, SetExpiry, stored, Steps, Answered
<1>3. ASSUME NEW u \in Upload, NEW out \in Outcomes, PutObject(u, out) PROVE PartsInv'
  <2>1. PICK step \in {"insert", "failed"} :
          To(u, step) /\ (step = "insert" => u \in objects')
    BY <1>3 DEF PutObject, Either, stepAfter, Took
  <2>2. /\ upload' \in [Upload -> Steps] /\ upload'[u] = step
        /\ \A v \in Upload \ {u} : upload'[v] = upload[v]
    BY <2>1, UploadMoves DEF Steps, Answered
  <2>3. objects \subseteq objects' /\ submissions' = submissions /\ jobs' = jobs
    BY <1>3 DEF PutObject
  <2> QED  BY <2>1, <2>2, <2>3 DEF HasWhatItMade
<1>4. ASSUME NEW u \in Upload, NEW out \in Outcomes, Insert(u, out) PROVE PartsInv'
  <2>1. PICK step \in {"produce", "failed"} :
          To(u, step) /\ (step = "produce" => u \in submissions')
    BY <1>4 DEF Insert, Either, stepAfter, Took
  <2>2. /\ upload' \in [Upload -> Steps] /\ upload'[u] = step
        /\ \A v \in Upload \ {u} : upload'[v] = upload[v]
    BY <2>1, UploadMoves DEF Steps, Answered
  <2>3. /\ submissions \subseteq submissions' /\ submissions' \subseteq submissions \cup {u}
        /\ u \in objects /\ objects' = objects /\ jobs' = jobs
    BY <1>4 DEF Insert, HasWhatItMade
  <2> QED  BY <2>1, <2>2, <2>3 DEF HasWhatItMade
<1>5. ASSUME NEW u \in Upload, NEW out \in Outcomes, Produce(u, out) PROVE PartsInv'
  <2>1. To(u, "accepted")
    BY <1>5 DEF Produce, stepAfter
  <2>2. /\ upload' \in [Upload -> Steps] /\ upload'[u] = "accepted"
        /\ \A v \in Upload \ {u} : upload'[v] = upload[v]
    BY <2>1, UploadMoves DEF Steps, Answered
  <2>3. /\ u \in submissions /\ u \in objects /\ jobs' \subseteq jobs \cup {u}
        /\ objects' = objects /\ submissions' = submissions
    BY <1>5 DEF Produce, HasWhatItMade
  <2> QED  BY <2>2, <2>3 DEF HasWhatItMade
<1>6. ASSUME NEW u \in Upload, Validate(u) \/ CutOff(u) PROVE PartsInv'
  <2>1. \E step \in {"put", "invalid", "cut"} : To(u, step)
    BY <1>6 DEF Validate, CutOff
  <2> QED  BY <1>1, <1>6, <2>1 DEF Validate, CutOff, stored, Steps, Answered
<1>7. CASE HourIsOver \/ UNCHANGED apiVars
  BY <1>7 DEF HourIsOver, apiVars, stored, HasWhatItMade
<1> QED  BY <1>2, <1>3, <1>4, <1>5, <1>6, <1>7 DEF ApiNext

\* Whatever call fails, takes effect unheard or is a handler's last, a build
\* job names a submission whose row and file are there, and so does a 202
\* (submission.go:84-124).
THEOREM JobsHaveTheirParts == ApiSpec => []JobHasItsParts
<1>1. PartsInv => JobHasItsParts  BY DEF PartsInv, HasWhatItMade, JobHasItsParts
<1> QED  BY <1>1, PartsAtInit, PartsAreKept, PTL DEF ApiSpec

-----------------------------------------------------------------------------
(* Uploads: the limit. *)

\* The handlers between their INCR, which made the key, and the EXPIRE.
Makers == {u \in Upload : upload[u] = "expire"}

\* Who was let through, or is about to be.
LetIn == admitted \cup Makers

LimitInv ==
  /\ upload \in [Upload -> Steps] /\ counter \in Nat /\ admitted \subseteq Upload
  /\ counter = 0 => Makers = {} /\ ~expiring
  /\ expiring => Makers = {}
  /\ \A u, v \in Makers : u = v
  /\ Cardinality(LetIn) <= counter /\ Cardinality(LetIn) <= Limit

LEMMA LetInIsFinite ==
  ASSUME upload \in [Upload -> Steps], admitted \subseteq Upload
  PROVE  IsFiniteSet(LetIn) /\ Cardinality(LetIn) \in Nat
<1>1. LetIn \subseteq Upload  BY DEF LetIn, Makers
<1>2. IsFiniteSet(LetIn)  BY <1>1, SubmissionAssumption, FS_Subset
<1> QED  BY <1>2, FS_CardinalityType

\* One upload more is let in, while counter and limit have room for it.
LEMMA OneMoreFits ==
  ASSUME LimitInv, NEW u, LetIn' = LetIn \cup {u}, counter' = counter + 1, counter' <= Limit
  PROVE  Cardinality(LetIn') <= counter' /\ Cardinality(LetIn') <= Limit
<1>1. IsFiniteSet(LetIn) /\ Cardinality(LetIn) \in Nat  BY LetInIsFinite DEF LimitInv
<1>2. Cardinality(LetIn \cup {u}) =
        IF u \in LetIn THEN Cardinality(LetIn) ELSE Cardinality(LetIn) + 1
  BY <1>1, FS_AddElement
<1> QED  BY <1>1, <1>2, SubmissionAssumption DEF LimitInv

\* Fewer than before fit as well.
LEMMA FewerFit ==
  ASSUME LimitInv, LetIn' \subseteq LetIn, counter' \in Nat, counter <= counter'
  PROVE  Cardinality(LetIn') <= counter' /\ Cardinality(LetIn') <= Limit
<1>1. IsFiniteSet(LetIn) /\ Cardinality(LetIn) \in Nat  BY LetInIsFinite DEF LimitInv
<1>2. Cardinality(LetIn') <= Cardinality(LetIn) /\ Cardinality(LetIn') \in Nat
  BY <1>1, FS_Subset, FS_CardinalityType
<1> QED  BY <1>1, <1>2, SubmissionAssumption DEF LimitInv

LEMMA LimitAtInit == ApiInit => LimitInv
<1> SUFFICES ASSUME ApiInit PROVE LimitInv  OBVIOUS
<1>1. Makers = {} /\ LetIn = {}  BY DEF ApiInit, Makers, LetIn
<1>2. Cardinality(LetIn) = 0  BY <1>1, FS_EmptySet
<1> QED  BY <1>1, <1>2, SubmissionAssumption DEF ApiInit, LimitInv, Steps

\* How a step of a handler changes who is letting in.
LEMMA MakersMove ==
  ASSUME upload \in [Upload -> Steps], NEW u \in Upload, NEW step \in Steps, To(u, step)
  PROVE  /\ upload' \in [Upload -> Steps]
         /\ Makers' = IF step = "expire" THEN Makers \cup {u} ELSE Makers \ {u}
  BY UploadMoves DEF Makers

LEMMA LimitIsKept == LimitInv /\ [ApiNext]_apiVars => LimitInv'
<1> SUFFICES ASSUME LimitInv, [ApiNext]_apiVars PROVE LimitInv'  OBVIOUS
<1>0. /\ upload \in [Upload -> Steps] /\ counter \in Nat /\ admitted \subseteq Upload
      /\ Limit \in Nat \ {0}
  BY SubmissionAssumption DEF LimitInv
\* A step that lets nobody in and leaves the key alone.
<1>1. ASSUME NEW u \in Upload, NEW step \in Steps \ {"expire"}, To(u, step),
             UNCHANGED <<expiring, admitted>>, counter' \in Nat, counter <= counter'
      PROVE  LimitInv'
  <2>1. upload' \in [Upload -> Steps] /\ Makers' = Makers \ {u}
    BY <1>0, <1>1, MakersMove
  <2>2. LetIn' \subseteq LetIn  BY <2>1, <1>1 DEF LetIn
  <2>3. Cardinality(LetIn') <= counter' /\ Cardinality(LetIn') <= Limit
    BY <2>2, <1>1, FewerFit
  <2>4. counter' = 0 => counter = 0  BY <1>0, <1>1
  <2> QED  BY <2>1, <2>3, <2>4, <1>1, <1>0 DEF LimitInv
<1>2. ASSUME NEW u \in Upload, NEW out \in Outcomes, Incr(u, out) PROVE LimitInv'
  <2>0. expiring' = expiring  BY <1>2 DEF Incr
  <2>1. CASE out # "ok"
    <3>1. To(u, "checked") /\ admitted' = admitted /\ counter' = counter + counted(out)
      BY <1>2, <2>1 DEF Incr
    <3>2. counter' \in Nat /\ counter <= counter'
      BY <3>1, <1>0 DEF counted
    <3> QED  BY <3>1, <3>2, <2>0, <1>1 DEF Steps
  <2>2. CASE out = "ok"
    <3>0. counter' = counter + 1  BY <1>2, <2>2, <1>0 DEF Incr, counted, Took
    <3>1. CASE first(counter') /\ To(u, "expire") /\ admitted' = admitted
      <4>1. counter = 0 /\ counter' = 1  BY <3>0, <3>1, <1>0 DEF first
      <4>2. Makers = {} /\ ~expiring  BY <4>1 DEF LimitInv
      <4>3. upload' \in [Upload -> Steps] /\ Makers' = Makers \cup {u}
        BY <3>1, <1>0, MakersMove DEF Steps
      <4>4. LetIn' = LetIn \cup {u}  BY <4>3, <3>1 DEF LetIn
      <4>5. counter' <= Limit  BY <4>1, <1>0
      <4>6. Cardinality(LetIn') <= counter' /\ Cardinality(LetIn') <= Limit
        BY <4>4, <4>5, <3>0, OneMoreFits
      <4> QED  BY <4>1, <4>2, <4>3, <4>6, <3>1, <2>0, <1>0 DEF LimitInv
    <3>2. CASE To(u, "refused") /\ admitted' = admitted
      <4>1. counter' \in Nat /\ counter <= counter'  BY <3>0, <1>0
      <4> QED  BY <4>1, <3>2, <2>0, <1>1 DEF Steps, Answered
    <3>3. CASE ~first(counter') /\ ~over(counter') /\ To(u, "checked")
               /\ admitted' = admitted \cup {u}
      <4>1. counter' <= Limit /\ counter' \in Nat /\ counter' # 0
        BY <3>0, <3>3, <1>0 DEF over
      <4>2. upload[u] = "new"  BY <1>2 DEF Incr
      <4>3. upload' \in [Upload -> Steps] /\ Makers' = Makers \ {u} /\ u \notin Makers
        BY <3>3, <4>2, <1>0, MakersMove DEF Steps, Makers
      <4>4. LetIn' = LetIn \cup {u}  BY <4>3, <3>3 DEF LetIn
      <4>5. Cardinality(LetIn') <= counter' /\ Cardinality(LetIn') <= Limit
        BY <4>1, <4>4, <3>0, OneMoreFits
      <4>6. admitted' \subseteq Upload  BY <3>3, <1>0
      <4>7. Makers' \subseteq Makers  BY <4>3
      <4> QED  BY <4>1, <4>3, <4>5, <4>6, <4>7, <2>0 DEF LimitInv
    <3> QED  BY <1>2, <2>2, <3>1, <3>2, <3>3 DEF Incr
  <2> QED  BY <2>1, <2>2
<1>3. ASSUME NEW u \in Upload, NEW out \in Outcomes, SetExpiry(u, out) PROVE LimitInv'
  <2>1. ~over(1)  BY <1>0 DEF over
  <2>2. /\ To(u, "checked") /\ admitted' = admitted \cup {u} /\ counter' = counter
        /\ upload[u] = "expire"
    BY <1>3, <2>1 DEF SetExpiry
  <2>3. upload' \in [Upload -> Steps] /\ Makers' = Makers \ {u} /\ u \in Makers
    BY <2>2, <1>0, MakersMove DEF Steps, Makers
  <2>4. Makers' = {} /\ counter # 0
    BY <2>3 DEF LimitInv
  <2>5. LetIn' = LetIn  BY <2>2, <2>3 DEF LetIn
  <2>6. Cardinality(LetIn') <= counter' /\ Cardinality(LetIn') <= Limit
    BY <2>2, <2>5, <1>0, FewerFit
  <2>7. admitted' \subseteq Upload  BY <2>2, <1>0
  <2> QED  BY <2>2, <2>3, <2>4, <2>6, <2>7, <1>0 DEF LimitInv
<1>4. ASSUME NEW u \in Upload, NEW out \in Outcomes, PutObject(u, out) \/ Insert(u, out) \/ Produce(u, out)
      PROVE  LimitInv'
  <2>1. \E step \in {"insert", "produce", "accepted", "failed"} : To(u, step)
    BY <1>4 DEF PutObject, Insert, Produce, Either, stepAfter
  <2>2. UNCHANGED <<counter, expiring, admitted>>
    BY <1>4 DEF PutObject, Insert, Produce, limiter
  <2> QED  BY <2>1, <2>2, <1>0, <1>1 DEF Steps, Answered
<1>5. ASSUME NEW u \in Upload, Validate(u) \/ CutOff(u) PROVE LimitInv'
  <2>1. \E step \in {"put", "invalid", "cut"} : To(u, step)
    BY <1>5 DEF Validate, CutOff
  <2>2. UNCHANGED <<counter, expiring, admitted>>
    BY <1>5 DEF Validate, CutOff, limiter
  <2> QED  BY <2>1, <2>2, <1>0, <1>1 DEF Steps, Answered
<1>6. CASE HourIsOver
  <2>1. Makers = {} /\ upload' = upload  BY <1>6 DEF HourIsOver, LimitInv
  <2>2. Makers' = {} /\ LetIn' = {}  BY <1>6, <2>1 DEF HourIsOver, Makers, LetIn
  <2>3. Cardinality(LetIn') = 0  BY <2>2, FS_EmptySet
  <2> QED  BY <1>6, <1>0, <2>1, <2>2, <2>3 DEF HourIsOver, LimitInv
<1>7. CASE UNCHANGED apiVars
  <2>1. UNCHANGED <<upload, counter, expiring, admitted>>  BY <1>7 DEF apiVars, limiter
  <2> QED  BY <2>1 DEF LimitInv, Makers, LetIn
<1> QED  BY <1>2, <1>3, <1>4, <1>5, <1>6, <1>7 DEF ApiNext

\* However the handlers of a contestant's uploads interleave, from the making
\* of the counter to its expiry no more than Limit of them are let through,
\* those a failing INCR lets through aside (auth.go:46-57).
THEOREM TheLimitHolds == ApiSpec => []LimitHolds
<1>1. LimitInv => LimitHolds
  <2> SUFFICES ASSUME LimitInv PROVE Cardinality(admitted) <= Limit  BY DEF LimitHolds
  <2>1. IsFiniteSet(LetIn) /\ Cardinality(LetIn) \in Nat  BY LetInIsFinite DEF LimitInv
  <2>2. admitted \subseteq LetIn  BY DEF LetIn
  <2>3. Cardinality(admitted) <= Cardinality(LetIn) /\ Cardinality(admitted) \in Nat
    BY <2>1, <2>2, FS_Subset, FS_CardinalityType
  <2> QED  BY <2>1, <2>3, SubmissionAssumption DEF LimitInv
<1> QED  BY <1>1, LimitAtInit, LimitIsKept, PTL DEF ApiSpec
-----------------------------------------------------------------------------
(* Uploads: the types. *)

Stores ==
  /\ jobs \subseteq Upload /\ submissions \subseteq Upload /\ objects \subseteq Upload
  /\ expiring \in BOOLEAN /\ troubles \in 0 .. MaxTroubles

LEMMA StoresAtInit == ApiInit => Stores
<1> SUFFICES ASSUME ApiInit PROVE Stores  OBVIOUS
<1>1. troubles \in 0 .. MaxTroubles  BY SubmissionAssumption DEF ApiInit
<1>2. expiring \in BOOLEAN  BY DEF ApiInit
<1> QED  BY <1>1, <1>2 DEF ApiInit, Stores

LEMMA TroublesStayBounded ==
  ASSUME troubles \in 0 .. MaxTroubles, NEW out \in Outcomes, Trouble(out)
  PROVE  troubles' \in 0 .. MaxTroubles
  BY SubmissionAssumption DEF Trouble

LEMMA StoresAreKept == Stores /\ [ApiNext]_apiVars => Stores'
<1> SUFFICES ASSUME Stores, [ApiNext]_apiVars PROVE Stores'  OBVIOUS
<1> USE DEF Stores
<1>1. ASSUME NEW u \in Upload, NEW out \in Outcomes,
             Incr(u, out) \/ SetExpiry(u, out) \/ PutObject(u, out) \/ Insert(u, out) \/ Produce(u, out)
      PROVE  Stores'
  <2>1. troubles' \in 0 .. MaxTroubles
    BY <1>1, TroublesStayBounded DEF Incr, SetExpiry, PutObject, Insert, Produce
  <2>2. CASE Incr(u, out)  BY <2>1, <2>2 DEF Incr, stored
  <2>3. CASE SetExpiry(u, out)
    <3>1. expiring' \in BOOLEAN  BY <2>3 DEF SetExpiry
    <3> QED  BY <2>1, <2>3, <3>1 DEF SetExpiry, stored
  <2>4. CASE PutObject(u, out)  BY <2>1, <2>4 DEF PutObject, limiter
  <2>5. CASE Insert(u, out)  BY <2>1, <2>5 DEF Insert, limiter
  <2>6. CASE Produce(u, out)  BY <2>1, <2>6 DEF Produce, limiter
  <2> QED  BY <1>1, <2>2, <2>3, <2>4, <2>5, <2>6
<1>2. ASSUME NEW u \in Upload, Validate(u) PROVE Stores'
  BY <1>2 DEF Validate, limiter, stored
<1>3. ASSUME NEW u \in Upload, CutOff(u) PROVE Stores'
  BY <1>3, SubmissionAssumption DEF CutOff, limiter, stored
<1>4. CASE HourIsOver  BY <1>4 DEF HourIsOver, stored
<1>5. CASE UNCHANGED apiVars  BY <1>5 DEF apiVars, limiter, stored
<1> QED  BY <1>1, <1>2, <1>3, <1>4, <1>5 DEF ApiNext

\* Every variable of the uploads keeps its type (SubmissionApi.tla).
THEOREM UploadTypesHold == ApiSpec => []ApiTypeOK
<1>1. LimitInv /\ Stores => ApiTypeOK  BY DEF LimitInv, Stores, Steps, ApiTypeOK
<1> QED  BY <1>1, LimitAtInit, LimitIsKept, StoresAtInit, StoresAreKept, PTL DEF ApiSpec

-----------------------------------------------------------------------------
(* Webhooks: the limit.  Only one handler at a time can have seen that     *)
(* there was room while no other was about to add one.                     *)

\* The webhooks there are or will be, those listed in vain aside.
Counted == (webhooks \cup Adding) \ blind

HookInv ==
  /\ hook \in [Hook -> {"new", "refused", "create", "created", "failed"}]
  /\ webhooks \subseteq Hook /\ Cardinality(Counted) <= HookLimit

LEMMA HooksAtInit == HookInit => HookInv
<1> SUFFICES ASSUME HookInit PROVE HookInv  OBVIOUS
<1>1. Counted = {}  BY DEF HookInit, Counted, Adding
<1>2. Cardinality(Counted) = 0  BY <1>1, FS_EmptySet
<1> QED  BY <1>2, WebhookAssumption DEF HookInit, HookInv

\* A part of what is counted is counted.
LEMMA FewerCounted ==
  ASSUME HookInv, Counted' \subseteq Counted
  PROVE  Cardinality(Counted') <= HookLimit
<1>1. Counted \subseteq Hook  BY DEF HookInv, Counted, Adding
<1>2. IsFiniteSet(Counted) /\ Cardinality(Counted) \in Nat
  BY <1>1, WebhookAssumption, FS_Subset, FS_CardinalityType
<1>3. Cardinality(Counted') <= Cardinality(Counted) /\ Cardinality(Counted') \in Nat
  BY <1>2, FS_Subset, FS_CardinalityType
<1> QED  BY <1>2, <1>3, WebhookAssumption DEF HookInv

LEMMA HooksAreKept == HookInv /\ [HookNext]_hookVars => HookInv'
<1> SUFFICES ASSUME HookInv, [HookNext]_hookVars PROVE HookInv'  OBVIOUS
<1>0. /\ hook \in [Hook -> {"new", "refused", "create", "created", "failed"}]
      /\ webhooks \subseteq Hook
  BY DEF HookInv
\* A handler that is about to add no webhook, or no longer.
<1>1. ASSUME NEW h \in Hook, NEW end \in {"refused", "created", "failed"},
             hook' = [hook EXCEPT ![h] = end], webhooks' \subseteq webhooks \cup (Adding \cap {h}),
             blind \subseteq blind'
      PROVE  HookInv'
  <2>1. Adding' \subseteq Adding  BY <1>0, <1>1 DEF Adding
  <2>2. Counted' \subseteq Counted  BY <1>1, <2>1 DEF Counted
  <2> QED  BY <1>0, <1>1, <2>2, FewerCounted DEF HookInv, Adding
<1>2. ASSUME NEW h \in Hook, NEW ok \in BOOLEAN, ListByContestant(h, ok) PROVE HookInv'
  <2>1. CASE ok /\ tooMany
    BY <1>1, <1>2, <2>1 DEF ListByContestant
  <2>2. CASE ~(ok /\ tooMany)
    <3>1. hook' = [hook EXCEPT ![h] = "create"] /\ webhooks' = webhooks
      BY <1>2, <2>2 DEF ListByContestant
    <3>2. Adding' = Adding \cup {h}  BY <1>0, <3>1 DEF Adding
    <3>3. CASE blind' = blind \cup {h}
      <4>1. Counted' \subseteq Counted  BY <3>1, <3>2, <3>3 DEF Counted
      <4> QED  BY <1>0, <3>1, <4>1, FewerCounted DEF HookInv
    <3>4. CASE ok /\ Adding = {} /\ blind' = blind
      <4>1. Counted' \subseteq webhooks \cup {h}  BY <3>1, <3>2, <3>4 DEF Counted
      <4>2. /\ IsFiniteSet(webhooks) /\ Cardinality(webhooks) \in Nat
            /\ Cardinality(webhooks) < HookLimit
        BY <1>0, <2>2, <3>4, WebhookAssumption, FS_Subset, FS_CardinalityType DEF tooMany
      <4>3. /\ IsFiniteSet(webhooks \cup {h})
            /\ Cardinality(webhooks \cup {h}) <= Cardinality(webhooks) + 1
            /\ Cardinality(webhooks \cup {h}) \in Nat
        BY <4>2, FS_AddElement, FS_CardinalityType
      <4>4. /\ Cardinality(Counted') <= Cardinality(webhooks \cup {h})
            /\ Cardinality(Counted') \in Nat
        BY <4>1, <4>3, FS_Subset, FS_CardinalityType
      <4>5. Cardinality(Counted') <= HookLimit  BY <4>2, <4>3, <4>4, WebhookAssumption
      <4> QED  BY <1>0, <3>1, <4>5 DEF HookInv
    <3> QED  BY <1>2, <3>3, <3>4 DEF ListByContestant
  <2> QED  BY <2>1, <2>2
<1>3. ASSUME NEW h \in Hook, NEW ok \in BOOLEAN, CreateWebhook(h, ok) PROVE HookInv'
  <2>1. h \in Adding  BY <1>3 DEF CreateWebhook, Adding
  <2> QED  BY <1>1, <1>3, <2>1 DEF CreateWebhook
<1>4. ASSUME NEW h \in Hook, HangUp(h) PROVE HookInv'
  BY <1>1, <1>4 DEF HangUp
<1>5. CASE UNCHANGED hookVars
  BY <1>5 DEF hookVars, HookInv, Counted, Adding
<1> QED  BY <1>2, <1>3, <1>4, <1>5 DEF HookNext

\* For any number of handlers and failures, more webhooks than the limit
\* allows come only from handlers whose list failed or was read while another
\* was about to add one (webhook.go:51-66).
THEOREM TheHookLimitHolds == HookSpec => []HookLimitHolds
<1>1. HookInv => HookLimitHolds
  <2> SUFFICES ASSUME HookInv PROVE Cardinality(webhooks \ blind) <= HookLimit
    BY DEF HookLimitHolds
  <2>1. webhooks \ blind \subseteq Counted /\ Counted \subseteq Hook
    BY DEF HookInv, Counted, Adding
  <2>2. /\ IsFiniteSet(Counted) /\ Cardinality(Counted) \in Nat
        /\ Cardinality(webhooks \ blind) <= Cardinality(Counted)
        /\ Cardinality(webhooks \ blind) \in Nat
    BY <2>1, WebhookAssumption, FS_Subset, FS_CardinalityType
  <2> QED  BY <2>2, WebhookAssumption DEF HookInv
<1> QED  BY <1>1, HooksAtInit, HooksAreKept, PTL DEF HookSpec

\* Where the parts run side by side, both limits hold (auth.go:46-57,
\* webhook.go:51-66).
THEOREM LimitsAlwaysHold == MCSpec => []LimitsHold
<1>1. MCInit => ApiInit /\ HookInit  BY DEF MCInit
<1>2. [MCNext]_mcVars => [ApiNext]_apiVars
  BY DEF MCNext, mcVars, HubStep, BoardStep, ApiStep, HookStep
<1>3. [MCNext]_mcVars => [HookNext]_hookVars
  BY DEF MCNext, mcVars, HubStep, BoardStep, ApiStep, HookStep
<1>4. MCSpec => ApiInit /\ [][ApiNext]_apiVars  BY <1>1, <1>2, PTL DEF MCSpec
<1>5. MCSpec => HookInit /\ [][HookNext]_hookVars  BY <1>1, <1>3, PTL DEF MCSpec
<1> QED  BY <1>4, <1>5, TheLimitHolds, TheHookLimitHolds, PTL DEF LimitsHold, ApiSpec, HookSpec
=============================================================================
