---------------------------- MODULE Proxy_proofs ----------------------------
(***************************************************************************)
(* The safety of Proxy for any set of game clients and any number of       *)
(* packets: each step of main, of the listening thread and of the outside  *)
(* keeps the inductive invariant IInv of ProxyInv, and IInv implies the    *)
(* safety properties.  One lemma per handler; the handlers that end the    *)
(* session share ShutdownIInv, those that send data on RelayedIInv.        *)
(***************************************************************************)
EXTENDS ProxyInv, TLAPS

\* The invariant holds before main has done anything.
LEMMA InitIInv == Init => IInv
<1> SUFFICES ASSUME Init PROVE IInv
  OBVIOUS
<1> USE NamesDistinct DEF Init
<1>1. TypeOK
  <2>1. lostNotice \in [up : SUBSET GameClients, down : SUBSET GameClients]
    OBVIOUS
  <2>2. /\ inbox \in [Peers -> Seq(Packet)]
        /\ downSent \in [GameClients -> Seq(Kinds)]
        /\ upLog \in [GameClients -> Seq(Message)]
        /\ downLog \in [GameClients -> Seq(Message)]
    OBVIOUS
  <2> QED
    BY <2>1, <2>2 DEF TypeOK, Peers
<1>2. ListenerInbox /\ ClientInbox /\ NewFirst
  BY DEF ListenerInbox, ClientInbox, NewFirst, Peers
<1>3. Phases
  BY DEF Phases
<1>4. HandlesValid /\ Paired /\ DownIsolation
  BY DEF HandlesValid, Paired, DownIsolation, Peers
<1> QED
  BY <1>1, <1>2, <1>3, <1>4 DEF IInv

\* No step of main breaks the invariant.
LEMMA MainIInv == IInv /\ Main => IInv'
<1> SUFFICES ASSUME IInv, Main PROVE IInv'
  OBVIOUS
<1> USE DEF IInv
<1>1. CASE InitThrows
  BY <1>1 DEF InitThrows, objects, net, traffic, TypeOK, ListenerInbox, ClientInbox,
     NewFirst, Phases, HandlesValid, Paired, DownIsolation, NET_Receive
<1>2. CASE StartServer
  <2>1. PICK started \in BOOLEAN, junk \in Junk :
          /\ server' = [pointer |-> Listener, is_alive |-> started,
                        incoming_guid |-> Null, client |-> junk]
          /\ peer' = [peer EXCEPT ![Listener] = IF started THEN "open" ELSE "idle"]
    BY <1>2 DEF StartServer
  <2> USE <1>2, <2>1, NamesDistinct, JunkUndesignated DEF StartServer, traffic
  <2>2. TypeOK'
    BY DEF TypeOK, Peers
  <2>3. (ListenerInbox /\ ClientInbox /\ NewFirst)'
    BY DEF ListenerInbox, ClientInbox, NewFirst, Peers, TypeOK, Phases, NET_Receive
  <2>4. Phases'
    BY DEF Phases
  <2>5. (HandlesValid /\ Paired /\ DownIsolation)'
    BY DEF HandlesValid, Paired, DownIsolation, Peers, TypeOK
  <2> QED
    BY <2>2, <2>3, <2>4, <2>5
<1>3. CASE Polls
  BY <1>3 DEF Polls, vars, objects, net, traffic, TypeOK, ListenerInbox, ClientInbox,
     NewFirst, Phases, HandlesValid, Paired, DownIsolation, NET_Receive
<1>4. CASE Returns
  BY <1>4 DEF Returns, objects, net, traffic, TypeOK, ListenerInbox, ClientInbox,
     NewFirst, Phases, HandlesValid, Paired, DownIsolation, NET_Receive
<1>5. CASE ProcessEnds
  BY <1>5 DEF ProcessEnds, objects, net, traffic, TypeOK, ListenerInbox, ClientInbox,
     NewFirst, Phases, HandlesValid, Paired, DownIsolation, NET_Receive
<1> QED
  BY <1>1, <1>2, <1>3, <1>4, <1>5 DEF Main

-----------------------------------------------------------------------------
(* What arrival, receipt and closing do to the inboxes and connections.    *)

\* A packet that arrives at a peer goes to the end of its inbox.
LEMMA ArrivalFacts ==
  ASSUME TypeOK, NEW p \in Peers, NEW e \in Packet, Arrives(p, e)
  PROVE  /\ inbox' \in [Peers -> Seq(Packet)]
         /\ \A o \in Peers : o # p => inbox'[o] = inbox[o]
         /\ inbox[p] \in Seq(Packet)
         /\ inbox'[p] # <<>>
         /\ Len(inbox'[p]) = Len(inbox[p]) + 1
         /\ \A i \in 1..Len(inbox[p]) : inbox'[p][i] = inbox[p][i]
         /\ inbox'[p][Len(inbox[p]) + 1] = e
         /\ Head(inbox'[p]) = IF inbox[p] = <<>> THEN e ELSE Head(inbox[p])
<1> DEFINE q == inbox[p]
<1>1. q \in Seq(Packet) /\ inbox'[p] = Append(q, e)
  BY DEF TypeOK, Arrives
<1>2. inbox' \in [Peers -> Seq(Packet)] /\ \A o \in Peers : o # p => inbox'[o] = inbox[o]
  BY <1>1 DEF TypeOK, Arrives
<1>3. /\ Append(q, e) # <<>>
      /\ Len(Append(q, e)) = Len(q) + 1
      /\ \A i \in 1..Len(q) : Append(q, e)[i] = q[i]
      /\ Append(q, e)[Len(q) + 1] = e
      /\ Head(Append(q, e)) = IF q = <<>> THEN e ELSE Head(q)
  <2> HIDE DEF q
  <2> QED
    BY <1>1
<1> QED
  BY <1>1, <1>2, <1>3

\* NET_Receive takes the first packet and moves the others up.
LEMMA ReceiptFacts ==
  ASSUME TypeOK, NEW p \in Peers, inbox[p] # <<>>, inbox' = AfterReceive(p)
  PROVE  /\ inbox' \in [Peers -> Seq(Packet)]
         /\ \A o \in Peers : o # p => inbox'[o] = inbox[o]
         /\ NET_Receive(p) \in Packet
         /\ NET_Receive(p) = inbox[p][1]
         /\ 1 \in 1..Len(inbox[p])
         /\ \A i \in 1..Len(inbox'[p]) :
              i + 1 \in 1..Len(inbox[p]) /\ inbox'[p][i] = inbox[p][i + 1]
<1> DEFINE q == inbox[p]
<1>1. q \in Seq(Packet) /\ inbox'[p] = Tail(q) /\ q # <<>>
  BY DEF TypeOK, AfterReceive
<1>2. /\ Head(q) \in Packet /\ Head(q) = q[1] /\ 1 \in 1..Len(q)
      /\ Tail(q) \in Seq(Packet)
      /\ \A i \in 1..Len(Tail(q)) : i + 1 \in 1..Len(q) /\ Tail(q)[i] = q[i + 1]
  <2> HIDE DEF q
  <2> QED
    BY <1>1
<1>3. inbox' \in [Peers -> Seq(Packet)] /\ \A o \in Peers : o # p => inbox'[o] = inbox[o]
  BY <1>1, <1>2 DEF TypeOK, AfterReceive
<1> QED
  BY <1>1, <1>2, <1>3 DEF NET_Receive

\* NET_Close leaves other peers alone, and never undoes a connection or an
\* attempt: what was never started stays so.
LEMMA CloseFacts ==
  ASSUME TypeOK, NEW ps, NET_Close(ps)
  PROVE  /\ peer' \in [Peers -> {"none", "idle", "open", "closed"}]
         /\ link' \in [GameClients -> {"none", "up", "left", "lost", "closed"}]
         /\ uplink' \in [GameClients -> {"none", "unstarted", "connecting", "refused",
                                        "up", "left", "lost", "closed"}]
         /\ \A p \in Peers : p \notin ps => peer'[p] = peer[p]
         /\ \A p \in Peers : peer'[p] = "idle" => peer[p] = "idle"
         /\ \A g \in GameClients : (link'[g] = "none") <=> (link[g] = "none")
         /\ \A c \in GameClients :
              /\ (uplink'[c] = "none") <=> (uplink[c] = "none")
              /\ (uplink'[c] = "unstarted") <=> (uplink[c] = "unstarted")
BY DEF TypeOK, NET_Close

-----------------------------------------------------------------------------
(* The two ends and RakNet.                                                *)

\* A packet that reaches the Listener keeps what is known of its inbox.
LEMMA ListenerArrival ==
  ASSUME TypeOK, ListenerInbox, NEW g \in GameClients, NEW e \in Packet,
         Arrives(Listener, e), e.guid = g,
         e.id = "new" => link[g] = "none",
         link'[g] # "none",
         \A h \in GameClients : h # g => link'[h] = link[h],
         UNCHANGED uplink
  PROVE  ListenerInbox'
<1> DEFINE q == inbox[Listener]
           r == inbox'[Listener]
<1>1. /\ Len(r) = Len(q) + 1 /\ Len(q) \in Nat
      /\ \A i \in 1..Len(q) : r[i] = q[i]
      /\ r[Len(q) + 1] = e
  BY ArrivalFacts DEF Peers
<1>2. /\ \A i \in 1..Len(q) :
           /\ q[i].guid \in GameClients
           /\ link[q[i].guid] # "none"
           /\ q[i].id = "new" =>
                /\ uplink[q[i].guid] = "none"
                /\ \A j \in 1..Len(q) : q[j].id = "new" /\ q[j].guid = q[i].guid => j = i
      /\ \A h \in GameClients : link[h] = "none" => uplink[h] = "none"
  BY DEF ListenerInbox
<1> HIDE DEF q, r
<1>3. \A i \in 1..Len(r) : i \in 1..Len(q) \/ i = Len(q) + 1
  BY <1>1
<1>4. e.id = "new" => \A i \in 1..Len(q) : q[i].guid # g
  BY <1>2
<1>5. \A i \in 1..Len(r) :
        /\ r[i].guid \in GameClients
        /\ link'[r[i].guid] # "none"
        /\ r[i].id = "new" => uplink[r[i].guid] = "none"
  BY <1>1, <1>2, <1>3
<1>6. \A i, j \in 1..Len(r) :
        r[i].id = "new" /\ r[j].id = "new" /\ r[j].guid = r[i].guid => j = i
  BY <1>1, <1>2, <1>3, <1>4
<1>7. \A h \in GameClients : link'[h] = "none" => uplink[h] = "none"
  BY <1>2
<1> QED
  BY <1>5, <1>6, <1>7 DEF ListenerInbox, r

\* Connections, data and departures of game clients keep the invariant.
LEMMA GameClientIInv ==
  ASSUME IInv, NEW g \in GameClients,
         GameClientConnects(g) \/ GameClientSends(g) \/ GameClientGone(g)
  PROVE  IInv'
<1> USE NamesDistinct DEF IInv, objects, net, traffic
<1>1. PICK e \in Packet : /\ Arrives(Listener, e)
                          /\ e.guid = g
                          /\ e.id = "new" => link[g] = "none"
                          /\ link[g] = "none" => e.id = "new"
  <2>1. CASE GameClientConnects(g)
    <3>1. Control("new", g) \in Packet
      BY DEF Control, Packet, PacketIds, Kinds
    <3> QED
      BY <2>1, <3>1 DEF GameClientConnects, Control
  <2>2. CASE GameClientSends(g)
    <3>1. Data(g, upSent[g] + 1, "plain") \in Packet
      BY DEF Data, Packet, PacketIds, Kinds, TypeOK
    <3> QED
      BY <2>2, <3>1 DEF GameClientSends, Data
  <2>3. CASE GameClientGone(g)
    <3>1. \A how \in {"left", "lost"} : Control(how, g) \in Packet
      BY DEF Control, Packet, PacketIds, Kinds
    <3> QED
      BY <2>3, <3>1 DEF GameClientGone, Control
  <2> QED
    BY <2>1, <2>2, <2>3
<1>2. /\ link' \in [GameClients -> {"none", "up", "left", "lost", "closed"}]
      /\ link'[g] # "none"
      /\ \A h \in GameClients : h # g => link'[h] = link[h]
      /\ upSent' \in [GameClients -> Nat]
      /\ UNCHANGED <<mainPc, listenPc, serverIdle, server, client, peer, uplink,
                     downSent, upLog, downLog, lostNotice>>
  <2>1. /\ link \in [GameClients -> {"none", "up", "left", "lost", "closed"}]
        /\ upSent \in [GameClients -> Nat]
    BY DEF TypeOK
  <2>2. CASE GameClientConnects(g)
    BY <2>1, <2>2 DEF GameClientConnects
  <2>3. CASE GameClientSends(g)
    BY <2>1, <2>3 DEF GameClientSends
  <2>4. CASE GameClientGone(g)
    BY <2>1, <2>4 DEF GameClientGone
  <2> QED
    BY <2>2, <2>3, <2>4
<1>d. Listener \in Peers /\ \A c \in GameClients : c \in Peers /\ c # Listener
  BY DEF Peers
<1>a. /\ inbox' \in [Peers -> Seq(Packet)]
      /\ \A c \in GameClients : inbox'[c] = inbox[c]
      /\ inbox'[Listener] # <<>>
      /\ Head(inbox'[Listener]) =
           IF inbox[Listener] = <<>> THEN e ELSE Head(inbox[Listener])
  BY <1>1, <1>d, ArrivalFacts
<1>3. TypeOK'
  BY <1>2, <1>a DEF TypeOK
<1>4. ListenerInbox'
  BY <1>1, <1>2, ListenerArrival
<1>5. ClientInbox'
  BY <1>2, <1>a DEF ClientInbox
<1>6. NewFirst'
  BY <1>1, <1>2, <1>a DEF NewFirst, NET_Receive
<1>7. (Phases /\ HandlesValid /\ Paired /\ DownIsolation)'
  BY <1>2 DEF Phases, HandlesValid, Paired, DownIsolation
<1> QED
  BY <1>3, <1>4, <1>5, <1>6, <1>7

\* The outcome of an attempt, data and departure of the game server keep it.
LEMMA GameServerIInv ==
  ASSUME IInv, NEW c \in GameClients,
         AttemptEnds(c) \/ GameServerSends(c) \/ GameServerGone(c)
  PROVE  IInv'
<1> USE NamesDistinct DEF IInv, objects, net, traffic
<1>1. PICK e \in Packet : /\ Arrives(c, e)
                          /\ e.guid \in {GameServer, Wild}
                          /\ e.id = "accepted" => e.guid = GameServer
  <2>1. CASE AttemptEnds(c)
    <3>1. Control("accepted", GameServer) \in Packet /\ Control("refused", Wild) \in Packet
      BY DEF Control, Packet, PacketIds, Kinds
    <3> QED
      BY <2>1, <3>1 DEF AttemptEnds, Control
  <2>2. CASE GameServerSends(c)
    <3>1. \A kind \in {"plain", "env"} :
            Data(GameServer, Len(downSent[c]) + 1, kind) \in Packet
      BY DEF Data, Packet, PacketIds, Kinds, TypeOK
    <3> QED
      BY <2>2, <3>1 DEF GameServerSends, Data
  <2>3. CASE GameServerGone(c)
    <3>1. \A how \in {"left", "lost"} : Control(how, GameServer) \in Packet
      BY DEF Control, Packet, PacketIds, Kinds
    <3> QED
      BY <2>3, <3>1 DEF GameServerGone, Control
  <2> QED
    BY <2>1, <2>2, <2>3
<1>2. /\ uplink[c] \notin {"none", "unstarted"}
      /\ uplink' \in [GameClients -> {"none", "unstarted", "connecting", "refused",
                                      "up", "left", "lost", "closed"}]
      /\ uplink'[c] \notin {"none", "unstarted"}
      /\ \A d \in GameClients : d # c => uplink'[d] = uplink[d]
      /\ downSent' \in [GameClients -> Seq(Kinds)]
      /\ UNCHANGED <<mainPc, listenPc, serverIdle, server, client, peer, link,
                     upSent, upLog, downLog, lostNotice>>
  <2>1. /\ uplink \in [GameClients -> {"none", "unstarted", "connecting", "refused",
                                        "up", "left", "lost", "closed"}]
        /\ downSent \in [GameClients -> Seq(Kinds)]
    BY DEF TypeOK
  <2>2. CASE AttemptEnds(c)
    BY <2>1, <2>2 DEF AttemptEnds
  <2>3. CASE GameServerSends(c)
    BY <2>1, <2>3 DEF GameServerSends, Kinds
  <2>4. CASE GameServerGone(c)
    BY <2>1, <2>4 DEF GameServerGone
  <2> QED
    BY <2>2, <2>3, <2>4
<1>a. /\ inbox' \in [Peers -> Seq(Packet)]
      /\ \A o \in Peers : o # c => inbox'[o] = inbox[o]
      /\ inbox[c] \in Seq(Packet)
      /\ Len(inbox'[c]) = Len(inbox[c]) + 1
      /\ \A i \in 1..Len(inbox[c]) : inbox'[c][i] = inbox[c][i]
      /\ inbox'[c][Len(inbox[c]) + 1] = e
  BY <1>1, ArrivalFacts DEF Peers
<1>b. inbox'[Listener] = inbox[Listener]
  BY <1>a DEF Peers
<1>4. TypeOK'
  BY <1>2, <1>a DEF TypeOK
<1>5. ListenerInbox'
  <2>1. \A d \in GameClients : (uplink'[d] = "none") <=> (uplink[d] = "none")
    BY <1>2
  <2> QED
    BY <1>2, <1>b, <2>1 DEF ListenerInbox
<1>6. ClientInbox'
  <2>1. \A i \in 1..Len(inbox'[c]) : i \in 1..Len(inbox[c]) \/ i = Len(inbox[c]) + 1
    BY <1>a
  <2>2. \A i \in 1..Len(inbox'[c]) :
          /\ inbox'[c][i].guid \in {GameServer, Wild}
          /\ inbox'[c][i].id = "accepted" => inbox'[c][i].guid = GameServer
    <3> SUFFICES ASSUME NEW i \in 1..Len(inbox'[c])
                 PROVE  /\ inbox'[c][i].guid \in {GameServer, Wild}
                        /\ inbox'[c][i].id = "accepted"
                             => inbox'[c][i].guid = GameServer
      OBVIOUS
    <3>1. CASE i \in 1..Len(inbox[c])
      BY <3>1, <1>a DEF ClientInbox
    <3>2. CASE i = Len(inbox[c]) + 1
      BY <3>2, <1>1, <1>a
    <3> QED
      BY <3>1, <3>2, <2>1
  <2>3. \A d \in GameClients : d # c => inbox'[d] = inbox[d]
    BY <1>a DEF Peers
  <2>4. peer[c] # "idle"
    BY <1>2 DEF ClientInbox
  <2> QED
    BY <1>2, <2>2, <2>3, <2>4 DEF ClientInbox
<1>7. NewFirst'
  BY <1>2, <1>b DEF NewFirst, NET_Receive
<1>8. (Phases /\ HandlesValid /\ Paired /\ DownIsolation)'
  BY <1>2 DEF Phases, HandlesValid, Paired, DownIsolation
<1> QED
  BY <1>4, <1>5, <1>6, <1>7, <1>8

\* Nothing the two ends do breaks the invariant.
LEMMA OutsideIInv == IInv /\ Outside => IInv'
BY GameClientIInv, GameServerIInv DEF Outside

-----------------------------------------------------------------------------
(* The steps of the listening thread that only move it on.                 *)

\* The steps that change only the place in the loop keep the invariant.
LEMMA MovesIInv ==
  ASSUME IInv,
         \/ ServerTickDead \/ ServerTickIdle \/ HandshakeWaits \/ ClientTickNone
         \/ ClientTickWild \/ ClientTickDead \/ ClientTickIdle \/ Wakes
  PROVE  IInv'
<1> USE NamesDistinct DEF IInv, objects, net, traffic
<1>1. /\ UNCHANGED <<server, client, peer, link, uplink, inbox, upSent, downSent,
                     upLog, downLog, lostNotice>>
      /\ mainPc' \in {mainPc, "crashed"}
      /\ mainPc # "init"
      /\ serverIdle' = TRUE \/ serverIdle' = serverIdle
  BY DEF ServerTickDead, ServerTickIdle, HandshakeWaits, ClientTickNone, vars,
         ClientTickWild, ClientTickDead, ClientTickIdle, Wakes, ServerTicks,
         ClientTicks, Phases
<1>2. /\ listenPc' \in {"server", "client", "sleep", "stopped", listenPc}
      /\ listenPc' = "client" => server.is_alive \/ listenPc = "client"
      /\ listenPc' = "stopped" => ~server.is_alive
      /\ listenPc \notin {"unborn", "reporting", "stopped"}
      /\ listenPc = "connecting" => listenPc' = "connecting"
      /\ listenPc # "closing"
  BY DEF ServerTickDead, ServerTickIdle, HandshakeWaits, ClientTickNone, vars,
         ClientTickWild, ClientTickDead, ClientTickIdle, Wakes, ServerTicks,
         ClientTicks, Phases, Paired
<1>3. TypeOK'
  <2>1. mainPc' \in {"init", "poll", "exiting", "exited", "crashed"}
    BY <1>1 DEF TypeOK
  <2>2. listenPc' \in {"unborn", "server", "connecting", "client", "closing",
                       "reporting", "sleep", "stopped"}
    BY <1>2 DEF TypeOK
  <2>3. serverIdle' \in BOOLEAN
    BY <1>1 DEF TypeOK
  <2> QED
    BY <1>1, <2>1, <2>2, <2>3 DEF TypeOK
<1>4. (ListenerInbox /\ ClientInbox /\ NewFirst /\ DownIsolation)'
  BY <1>1 DEF ListenerInbox, ClientInbox, NewFirst, NET_Receive, DownIsolation
<1>5. Phases'
  BY <1>1, <1>2 DEF Phases
<1>6. (HandlesValid /\ Paired)'
  BY <1>1, <1>2 DEF HandlesValid, Paired
<1> QED
  BY <1>3, <1>4, <1>5, <1>6

-----------------------------------------------------------------------------
(* Close on either object.                                                 *)

\* Server::Close closes the Listener and resets the object, if it is live.
LEMMA ServerCloseFacts ==
  ASSUME TypeOK, HandlesValid
  PROVE  /\ server.is_alive =>
              /\ ServerCloses = {Listener}
              /\ ServerClosed = [pointer |-> Null, is_alive |-> FALSE,
                                 incoming_guid |-> Null, client |-> server.client]
         /\ ~server.is_alive => ServerCloses = {} /\ ServerClosed = server
<1>1. server = [pointer |-> server.pointer, is_alive |-> server.is_alive,
                incoming_guid |-> server.incoming_guid, client |-> server.client]
  BY DEF TypeOK
<1>2. CASE server.is_alive
  <2>1. server.pointer = Listener
    BY <1>2 DEF HandlesValid
  <2>2. ServerCloses = {Listener}
    BY <1>2, <2>1, NamesDistinct DEF ServerCloses
  <2> QED
    BY <1>1, <1>2, <2>2 DEF ServerClosed
<1>3. CASE ~server.is_alive
  BY <1>3 DEF ServerCloses, ServerClosed
<1> QED
  BY <1>2, <1>3

\* Client::Close closes the Client's own peer, if it is connected.
LEMMA ClientCloseFacts ==
  ASSUME TypeOK, HandlesValid, NEW c \in GameClients
  PROVE  /\ client[c].is_connected =>
              /\ ClientCloses(c) = {c}
              /\ ClientClosed(c) = [pointer |-> Null, is_connected |-> FALSE,
                                    incoming_guid |-> Null]
         /\ ~client[c].is_connected =>
              ClientCloses(c) = {} /\ ClientClosed(c) = client[c]
BY NamesDistinct DEF TypeOK, HandlesValid, ClientCloses, ClientClosed

-----------------------------------------------------------------------------
(* What a receipt leaves of the invariants of the inboxes.                 *)

\* Receipt keeps ListenerInbox, the new packet's own session apart.
LEMMA ListenerReceipt ==
  ASSUME TypeOK, ListenerInbox, inbox[Listener] # <<>>,
         inbox' = AfterReceive(Listener),
         \A h \in GameClients : (link'[h] = "none") <=> (link[h] = "none"),
         \A h \in GameClients :
           \/ (uplink'[h] = "none") <=> (uplink[h] = "none")
           \/ h = NET_Receive(Listener).guid /\ NET_Receive(Listener).id = "new"
  PROVE  ListenerInbox'
<1> DEFINE q == inbox[Listener]
           r == inbox'[Listener]
<1>1. /\ NET_Receive(Listener) = q[1]
      /\ 1 \in 1..Len(q)
      /\ \A i \in 1..Len(r) : i + 1 \in 1..Len(q) /\ r[i] = q[i + 1]
  BY ReceiptFacts DEF Peers
<1>2. /\ \A i \in 1..Len(q) :
           /\ q[i].guid \in GameClients
           /\ link[q[i].guid] # "none"
           /\ q[i].id = "new" =>
                /\ uplink[q[i].guid] = "none"
                /\ \A j \in 1..Len(q) : q[j].id = "new" /\ q[j].guid = q[i].guid => j = i
      /\ \A h \in GameClients : link[h] = "none" => uplink[h] = "none"
  BY DEF ListenerInbox
<1> HIDE DEF q, r
<1>3. \A i \in 1..Len(r) : q[1].id = "new" /\ r[i].id = "new" => r[i].guid # q[1].guid
  <2> TAKE i \in 1..Len(r)
  <2>1. i + 1 \in 1..Len(q) /\ i + 1 # 1 /\ r[i] = q[i + 1]
    BY <1>1
  <2> QED
    BY <1>1, <1>2, <2>1
<1>4. \A i \in 1..Len(r) :
        /\ r[i].guid \in GameClients
        /\ link'[r[i].guid] # "none"
        /\ r[i].id = "new" => uplink'[r[i].guid] = "none"
  <2> TAKE i \in 1..Len(r)
  <2>1. i + 1 \in 1..Len(q) /\ r[i] = q[i + 1]
    BY <1>1
  <2>2. /\ r[i].guid \in GameClients /\ link[r[i].guid] # "none"
        /\ r[i].id = "new" => uplink[r[i].guid] = "none"
    BY <1>2, <2>1
  <2> QED
    BY <1>1, <1>3, <2>2
<1>5. \A i, j \in 1..Len(r) :
        r[i].id = "new" /\ r[j].id = "new" /\ r[j].guid = r[i].guid => j = i
  BY <1>1, <1>2
<1>6. \A h \in GameClients : link'[h] = "none" => uplink'[h] = "none"
  BY <1>1, <1>2
<1> QED
  BY <1>4, <1>5, <1>6 DEF ListenerInbox, r

\* Closing keeps ListenerInbox.
LEMMA ListenerKept ==
  ASSUME ListenerInbox, inbox'[Listener] = inbox[Listener],
         \A h \in GameClients :
           /\ (link'[h] = "none") <=> (link[h] = "none")
           /\ (uplink'[h] = "none") <=> (uplink[h] = "none")
  PROVE  ListenerInbox'
<1>1. \A i \in 1..Len(inbox[Listener]) :
        /\ inbox[Listener][i].guid \in GameClients
        /\ link'[inbox[Listener][i].guid] # "none"
        /\ inbox[Listener][i].id = "new" => uplink'[inbox[Listener][i].guid] = "none"
  BY DEF ListenerInbox
<1>2. \A h \in GameClients : link'[h] = "none" => uplink'[h] = "none"
  BY DEF ListenerInbox
<1> QED
  BY <1>1, <1>2 DEF ListenerInbox

\* Receipt and closing keep ClientInbox.
LEMMA ClientReceipt ==
  ASSUME TypeOK, ClientInbox,
         NEW p \in Peers, inbox[p] # <<>>, inbox' = AfterReceive(p),
         \A c \in GameClients :
           /\ uplink'[c] \in {"none", "unstarted"} <=> uplink[c] \in {"none", "unstarted"}
           /\ (uplink'[c] = "unstarted") <=> (uplink[c] = "unstarted")
           /\ peer'[c] = "idle" => peer[c] = "idle"
  PROVE  ClientInbox'
<1> SUFFICES ASSUME NEW c \in GameClients
             PROVE  /\ \A i \in 1..Len(inbox'[c]) :
                         /\ inbox'[c][i].guid \in {GameServer, Wild}
                         /\ inbox'[c][i].id = "accepted"
                              => inbox'[c][i].guid = GameServer
                    /\ uplink'[c] \in {"none", "unstarted"} => inbox'[c] = <<>>
                    /\ peer'[c] = "idle" => uplink'[c] = "unstarted"
  BY DEF ClientInbox
<1>1. c \in Peers
  BY DEF Peers
<1>2. CASE c = p
  <2>1. uplink[c] \notin {"none", "unstarted"}
    BY <1>2 DEF ClientInbox
  <2>2. \A i \in 1..Len(inbox'[c]) :
          i + 1 \in 1..Len(inbox[c]) /\ inbox'[c][i] = inbox[c][i + 1]
    BY <1>2, ReceiptFacts
  <2> QED
    BY <2>1, <2>2 DEF ClientInbox
<1>3. CASE c # p
  <2>1. inbox'[c] = inbox[c]
    BY <1>1, <1>3, ReceiptFacts
  <2> QED
    BY <2>1 DEF ClientInbox
<1> QED
  BY <1>2, <1>3

-----------------------------------------------------------------------------
(* Server::Tick.                                                           *)

\* What Server::Tick knows of a packet it has received.
LEMMA ServerReceivesFacts ==
  ASSUME TypeOK, ListenerInbox, NewFirst, Phases, HandlesValid, Paired,
         NEW id, ServerReceives(id)
  PROVE  /\ server.pointer = Listener /\ Listener \in Peers
         /\ inbox[Listener] # <<>>
         /\ server.is_alive /\ listenPc = "server" /\ mainPc # "init"
         /\ NET_Receive(Listener).id = id
         /\ NET_Receive(Listener).guid \in GameClients
         /\ id = "new" => uplink[NET_Receive(Listener).guid] = "none"
         /\ id # "new" => server.client \in GameClients
         /\ server.client \in GameClients =>
              /\ client[server.client].is_connected
              /\ server.incoming_guid = server.client
<1>1. /\ server.pointer = Listener /\ Listener \in Peers
      /\ inbox[Listener] # <<>>
      /\ server.is_alive /\ listenPc = "server" /\ mainPc # "init"
      /\ NET_Receive(Listener).id = id
  BY DEF ServerReceives, ServerTicks, HandlesValid, Phases, Peers
<1>2. inbox[Listener] \in Seq(Packet)
  BY <1>1 DEF TypeOK
<1>3. NET_Receive(Listener) = inbox[Listener][1] /\ 1 \in 1..Len(inbox[Listener])
  BY <1>1, <1>2 DEF NET_Receive
<1>4. /\ NET_Receive(Listener).guid \in GameClients
      /\ id = "new" => uplink[NET_Receive(Listener).guid] = "none"
  BY <1>1, <1>3 DEF ListenerInbox
<1>5. id # "new" => server.client \in GameClients
  BY <1>1 DEF NewFirst
<1> QED
  BY <1>1, <1>4, <1>5 DEF Paired

\* A new game client is given a session nobody has used.
LEMMA ServerTickNewIInv == IInv /\ ServerTickNew => IInv'
<1> SUFFICES ASSUME IInv, ServerTickNew PROVE IInv'
  OBVIOUS
<1> USE NamesDistinct DEF IInv, traffic
<1> DEFINE g == NET_Receive(Listener).guid
<1>1. /\ server.pointer = Listener /\ Listener \in Peers
      /\ inbox[Listener] # <<>>
      /\ server.is_alive /\ listenPc = "server" /\ mainPc # "init"
      /\ NET_Receive(Listener).id = "new"
      /\ g \in GameClients
      /\ uplink[g] = "none"
  BY ServerReceivesFacts DEF ServerTickNew, NewClient, Adopts
<1>2. PICK started \in BOOLEAN :
        /\ server' = [server EXCEPT !.incoming_guid = g, !.client = g]
        /\ client' = [client EXCEPT ![g] =
                        [pointer |-> g, is_connected |-> FALSE,
                         incoming_guid |-> Wild]]
        /\ peer' = [peer EXCEPT ![g] = IF started THEN "open" ELSE "idle"]
        /\ uplink' = [uplink EXCEPT ![g] =
                        IF started THEN "connecting" ELSE "unstarted"]
  BY <1>1 DEF ServerTickNew, NewClient, Adopts
<1>3. /\ inbox' = AfterReceive(Listener)
      /\ listenPc' = "connecting"
      /\ UNCHANGED <<mainPc, serverIdle, link, upSent, downSent, upLog, downLog,
                     lostNotice>>
  BY <1>1 DEF ServerTickNew, NewClient, Adopts
<1>4. inbox[g] = <<>> /\ inbox'[g] = <<>>
  BY <1>1, <1>3, ReceiptFacts DEF ClientInbox, Peers
<1> HIDE DEF g
<1>5. /\ inbox' \in [Peers -> Seq(Packet)]
      /\ \A o \in Peers : o # Listener => inbox'[o] = inbox[o]
  BY <1>1, <1>3, ReceiptFacts
<1>6. TypeOK'
  <2>1. server' \in [pointer : {Null, Listener}, is_alive : BOOLEAN,
                     incoming_guid : GameClients \cup {Null},
                     client : GameClients \cup {Null, Wild}]
    BY <1>1, <1>2 DEF TypeOK
  <2>2. client' \in [GameClients ->
                       [pointer : GameClients \cup {Null}, is_connected : BOOLEAN,
                        incoming_guid : {Null, Wild, GameServer}]]
    BY <1>1, <1>2 DEF TypeOK
  <2>3. /\ peer' \in [Peers -> {"none", "idle", "open", "closed"}]
        /\ uplink' \in [GameClients -> {"none", "unstarted", "connecting", "refused",
                                        "up", "left", "lost", "closed"}]
    BY <1>1, <1>2 DEF TypeOK
  <2> QED
    BY <1>3, <1>5, <2>1, <2>2, <2>3 DEF TypeOK
<1>7. ListenerInbox'
  <2>1. \A h \in GameClients : h # g => uplink'[h] = uplink[h]
    BY <1>2 DEF TypeOK
  <2> QED
    BY <1>1, <1>3, <2>1, ListenerReceipt DEF g
<1>8. ClientInbox'
  <2>1. /\ \A c \in GameClients : c # g =>
             uplink'[c] = uplink[c] /\ peer'[c] = peer[c] /\ inbox'[c] = inbox[c]
        /\ peer'[g] = "idle" => uplink'[g] = "unstarted"
    BY <1>1, <1>2, <1>5 DEF TypeOK, Peers
  <2> QED
    BY <1>4, <2>1 DEF ClientInbox
<1>9. /\ server'.client = g /\ server'.incoming_guid = g
      /\ server'.is_alive /\ server'.pointer = Listener
      /\ client'[g].pointer = g /\ ~client'[g].is_connected
      /\ client'[g].incoming_guid # GameServer
      /\ peer'[g] \in {"open", "idle"}
      /\ peer'[Listener] = peer[Listener]
      /\ \A c \in GameClients : c # g => client'[c] = client[c] /\ peer'[c] = peer[c]
  BY <1>1, <1>2 DEF TypeOK, Peers
<1>10. (NewFirst /\ Phases /\ Paired /\ DownIsolation)'
  BY <1>1, <1>3, <1>9 DEF NewFirst, Phases, Paired, DownIsolation
<1>11. HandlesValid'
  BY <1>1, <1>3, <1>9 DEF HandlesValid
<1> QED
  BY <1>6, <1>7, <1>8, <1>10, <1>11

\* Accepted, the session is paired; refused, the Server is closed.
LEMMA HandshakeDoneIInv == IInv /\ HandshakeDone => IInv'
<1> SUFFICES ASSUME IInv, HandshakeDone PROVE IInv'
  OBVIOUS
<1> USE NamesDistinct DEF IInv, traffic
<1> DEFINE c == server.client
           packet == NET_Receive(c)
           accepted == packet.id = "accepted"
           ps == IF accepted THEN {} ELSE ServerCloses
<1>1. /\ c \in GameClients /\ c \in Peers /\ c # Listener
      /\ client[c].pointer = c
      /\ server.is_alive /\ server.incoming_guid = c
      /\ inbox[c] # <<>>
      /\ listenPc = "connecting" /\ mainPc # "init"
  BY DEF HandshakeDone, HandlesValid, Phases, Peers
<1>2. /\ client' = [client EXCEPT ![c] = [@ EXCEPT !.incoming_guid = packet.guid,
                                                 !.is_connected = accepted]]
      /\ server' = IF accepted THEN server ELSE ServerClosed
      /\ NET_Close(ps)
      /\ inbox' = AfterReceive(c)
      /\ serverIdle' = FALSE
      /\ listenPc' = "client"
      /\ UNCHANGED <<mainPc, upSent, downSent, upLog, downLog, lostNotice>>
  BY <1>1 DEF HandshakeDone
<1>3. /\ packet.guid \in {GameServer, Wild}
      /\ accepted => packet.guid = GameServer
      /\ uplink[c] \notin {"none", "unstarted"}
  BY <1>1, <1>2, ReceiptFacts DEF ClientInbox
<1>4. /\ inbox' \in [Peers -> Seq(Packet)]
      /\ inbox'[Listener] = inbox[Listener]
  BY <1>1, <1>2, ReceiptFacts DEF Peers
<1>5. ServerCloses = {Listener} /\ ServerClosed = [pointer |-> Null, is_alive |-> FALSE,
                                 incoming_guid |-> Null, client |-> c]
  BY <1>1, ServerCloseFacts
<1>b. ps = (IF accepted THEN {} ELSE {Listener})
  BY <1>5
<1> HIDE DEF c, packet, accepted, ps
<1>6. /\ peer' \in [Peers -> {"none", "idle", "open", "closed"}]
      /\ link' \in [GameClients -> {"none", "up", "left", "lost", "closed"}]
      /\ uplink' \in [GameClients -> {"none", "unstarted", "connecting", "refused",
                                     "up", "left", "lost", "closed"}]
      /\ \A d \in GameClients : peer'[d] = peer[d]
      /\ accepted => peer'[Listener] = peer[Listener]
      /\ \A p \in Peers : peer'[p] = "idle" => peer[p] = "idle"
      /\ \A g \in GameClients : (link'[g] = "none") <=> (link[g] = "none")
      /\ \A d \in GameClients :
           /\ (uplink'[d] = "none") <=> (uplink[d] = "none")
           /\ (uplink'[d] = "unstarted") <=> (uplink[d] = "unstarted")
  <2>1. \A d \in GameClients : d \in Peers /\ d \notin ps
    BY <1>b DEF Peers
  <2>2. accepted => Listener \notin ps
    BY <1>b
  <2>3. Listener \in Peers
    BY DEF Peers
  <2> QED
    BY <1>2, <2>1, <2>2, <2>3, CloseFacts
<1>7. /\ server' \in [pointer : {Null, Listener}, is_alive : BOOLEAN,
                      incoming_guid : GameClients \cup {Null},
                      client : GameClients \cup {Null, Wild}]
      /\ accepted => server' = server
      /\ ~accepted => ~server'.is_alive /\ server'.incoming_guid = Null
      /\ server'.client = c
  BY <1>1, <1>2, <1>5 DEF TypeOK, c
<1>8. /\ client' \in [GameClients ->
                       [pointer : GameClients \cup {Null}, is_connected : BOOLEAN,
                        incoming_guid : {Null, Wild, GameServer}]]
      /\ client'[c].pointer = c
      /\ client'[c].is_connected = accepted
      /\ client'[c].incoming_guid = packet.guid
      /\ \A d \in GameClients : d # c => client'[d] = client[d]
  <2>1. accepted \in BOOLEAN
    BY DEF accepted
  <2> DEFINE r == client[c]
  <2>2. r \in [pointer : {c}, is_connected : BOOLEAN,
               incoming_guid : {Null, Wild, GameServer}]
    BY <1>1 DEF TypeOK, c
  <2> DEFINE u == [r EXCEPT !.incoming_guid = packet.guid, !.is_connected = accepted]
  <2>3. client' = [client EXCEPT ![c] = u]
    BY <1>2
  <2> HIDE DEF r
  <2>4. /\ u \in [pointer : {c}, is_connected : BOOLEAN, incoming_guid : {Wild, GameServer}]
        /\ u.pointer = c /\ u.is_connected = accepted /\ u.incoming_guid = packet.guid
    BY <1>3, <2>1, <2>2
  <2> HIDE DEF u
  <2>5. client \in [GameClients ->
                      [pointer : GameClients \cup {Null}, is_connected : BOOLEAN,
                       incoming_guid : {Null, Wild, GameServer}]]
    BY DEF TypeOK
  <2> QED
    BY <1>1, <2>3, <2>4, <2>5
<1>9. TypeOK'
  BY <1>2, <1>4, <1>6, <1>7, <1>8 DEF TypeOK
<1>10. ListenerInbox'
  BY <1>4, <1>6, ListenerKept
<1>11. ClientInbox'
  BY <1>1, <1>2, <1>6, ClientReceipt
<1>12. NewFirst' /\ DownIsolation'
  BY <1>1, <1>2, <1>7 DEF NewFirst, DownIsolation
<1>13. Phases'
  BY <1>1, <1>2, <1>7, <1>8 DEF Phases
<1>14. Paired'
  BY <1>1, <1>3, <1>7, <1>8 DEF Paired, c
<1>15. HandlesValid'
  <2>1. peer[c] = "open"
    BY <1>1, <1>3 DEF HandlesValid, ClientInbox, c
  <2> QED
    BY <1>1, <1>2, <1>5, <1>6, <1>7, <1>8, <2>1 DEF HandlesValid
<1> QED
  BY <1>9, <1>10, <1>11, <1>12, <1>13, <1>14, <1>15

-----------------------------------------------------------------------------
(* The handlers that end the session.  Each clears is_alive, or finds it   *)
(* cleared, closes some of the two peers, and resets what it closes.       *)

\* A handler that ends with is_alive cleared, and closes at most the peers of the
\* current session, keeps the invariant.
LEMMA ShutdownIInv ==
  ASSUME IInv, NEW c \in GameClients, server.client = c,
         mainPc # "init", UNCHANGED <<mainPc, serverIdle, upSent, downSent, upLog, downLog>>,
         listenPc' \in {"closing", "reporting", "stopped"},
         NEW ps \in SUBSET {Listener, c}, NET_Close(ps),
         \/ inbox' = inbox
         \/ \E p \in {Listener, c} : inbox[p] # <<>> /\ inbox' = AfterReceive(p),
         server' \in [pointer : {Null, Listener}, is_alive : {FALSE},
                      incoming_guid : GameClients \cup {Null}, client : {c}],
         server'.incoming_guid # Null =>
           /\ server'.incoming_guid = server.incoming_guid
           /\ server'.pointer = server.pointer
           /\ Listener \notin ps,
         listenPc' = "closing" => server'.incoming_guid = Null,
         client' \in [GameClients ->
                        [pointer : GameClients \cup {Null}, is_connected : BOOLEAN,
                         incoming_guid : {Null, Wild, GameServer}]],
         \A d \in GameClients : d # c => client'[d] = client[d],
         client'[c].is_connected => client'[c] = client[c] /\ c \notin ps,
         client'[c].incoming_guid = GameServer =>
           /\ client[c].incoming_guid = GameServer
           /\ client'[c].pointer = client[c].pointer
           /\ c \notin ps,
         lostNotice' \in [up : SUBSET GameClients, down : SUBSET GameClients]
  PROVE  IInv'
<1> USE NamesDistinct DEF IInv
<1>1. /\ Listener \in Peers /\ c # Listener /\ Null \notin GameClients
      /\ \A d \in GameClients : d \in Peers /\ d # Listener
  BY DEF Peers
<1>2. /\ inbox' \in [Peers -> Seq(Packet)]
      /\ ListenerInbox' /\ ClientInbox'
  <2>1. CASE inbox' = inbox
    <3>1. inbox' \in [Peers -> Seq(Packet)] /\ ListenerInbox'
      BY <2>1, CloseFacts, ListenerKept DEF TypeOK
    <3>2. \A d \in GameClients :
            /\ uplink'[d] \in {"none", "unstarted"} <=> uplink[d] \in {"none", "unstarted"}
            /\ (uplink'[d] = "unstarted") <=> (uplink[d] = "unstarted")
            /\ peer'[d] = "idle" => peer[d] = "idle"
      BY <1>1, CloseFacts
    <3>3. ClientInbox'
      BY <2>1, <3>2 DEF ClientInbox
    <3> QED
      BY <3>1, <3>3
  <2>2. ASSUME NEW p \in {Listener, c}, inbox[p] # <<>>, inbox' = AfterReceive(p)
        PROVE  /\ inbox' \in [Peers -> Seq(Packet)]
               /\ ListenerInbox' /\ ClientInbox'
    <3>1. p \in Peers
      BY <1>1
    <3>2. /\ inbox' \in [Peers -> Seq(Packet)]
          /\ p # Listener => inbox'[Listener] = inbox[Listener]
      BY <1>1, <2>2, <3>1, ReceiptFacts
    <3>3. ListenerInbox'
      BY <2>2, <3>2, CloseFacts, ListenerKept, ListenerReceipt
    <3>4. ClientInbox'
      BY <1>1, <2>2, <3>1, CloseFacts, ClientReceipt
    <3> QED
      BY <3>2, <3>3, <3>4
  <2> QED
    BY <2>1, <2>2
<1>3. TypeOK'
  BY <1>2, CloseFacts DEF TypeOK
<1>4. (NewFirst /\ Paired /\ DownIsolation)'
  BY DEF NewFirst, Paired, DownIsolation
<1>5. Phases'
  BY DEF Phases
<1>6. HandlesValid'
  <2>1. \A p \in Peers : p \notin ps => peer'[p] = peer[p]
    BY CloseFacts
  <2>2. /\ ~server'.is_alive
        /\ server'.incoming_guid # Null => /\ server'.pointer = Listener
                                           /\ peer'[Listener] = "open"
    BY <1>1, <2>1 DEF HandlesValid
  <2>3. \A d \in GameClients :
          client'[d].is_connected \/ client'[d].incoming_guid = GameServer =>
            client'[d].pointer = d /\ peer'[d] = "open"
    BY <1>1, <2>1 DEF HandlesValid
  <2> QED
    BY <2>2, <2>3 DEF HandlesValid
<1> QED
  BY <1>2, <1>3, <1>4, <1>5, <1>6

\* Client::Close leaves every Client well formed, and this one not connected.
LEMMA ClosedClients ==
  ASSUME TypeOK, HandlesValid, NEW c \in GameClients,
         client' = [client EXCEPT ![c] = ClientClosed(c)]
  PROVE  /\ client' \in [GameClients ->
                         [pointer : GameClients \cup {Null}, is_connected : BOOLEAN,
                          incoming_guid : {Null, Wild, GameServer}]]
         /\ \A d \in GameClients : d # c => client'[d] = client[d]
         /\ ~client'[c].is_connected
         /\ ClientCloses(c) \in SUBSET {c}
         /\ client'[c].incoming_guid = GameServer =>
              client'[c] = client[c] /\ ClientCloses(c) = {}
<1>1. ClientClosed(c) \in [pointer : GameClients \cup {Null}, is_connected : {FALSE},
                           incoming_guid : {Null, Wild, GameServer}]
  <2>1. CASE client[c].is_connected
    <3>1. ClientClosed(c) = [pointer |-> Null, is_connected |-> FALSE,
                             incoming_guid |-> Null]
      BY <2>1, ClientCloseFacts
    <3> QED
      BY <3>1
  <2>2. CASE ~client[c].is_connected
    <3> DEFINE r == client[c]
    <3>1. r \in [pointer : GameClients \cup {Null}, is_connected : BOOLEAN,
                 incoming_guid : {Null, Wild, GameServer}]
      BY DEF TypeOK
    <3>2. ~r.is_connected /\ ClientClosed(c) = r
      BY <2>2, ClientCloseFacts
    <3> HIDE DEF r
    <3> QED
      BY <3>1, <3>2
  <2> QED
    BY <2>1, <2>2
<1>2. ClientCloses(c) \in SUBSET {c}
  BY ClientCloseFacts
<1>3. client \in [GameClients ->
                    [pointer : GameClients \cup {Null}, is_connected : BOOLEAN,
                     incoming_guid : {Null, Wild, GameServer}]]
  BY DEF TypeOK
<1>4. /\ client'[c] = ClientClosed(c)
      /\ ClientClosed(c).incoming_guid = GameServer =>
           ClientClosed(c) = client[c] /\ ClientCloses(c) = {}
  BY <1>3, ClientCloseFacts, NamesDistinct
<1> QED
  BY <1>1, <1>2, <1>3, <1>4

\* The game client disconnects: both objects are closed.
LEMMA ServerTickLeftIInv == IInv /\ ServerTickLeft => IInv'
<1> SUFFICES ASSUME IInv, ServerTickLeft PROVE IInv'
  OBVIOUS
<1> USE DEF IInv
<1> DEFINE c == server.client
<1>1. /\ server.pointer = Listener /\ inbox[Listener] # <<>> /\ server.is_alive
      /\ mainPc # "init" /\ c \in GameClients
  BY ServerReceivesFacts DEF ServerTickLeft
<1>2. /\ client' = [client EXCEPT ![c] = ClientClosed(c)]
      /\ server' = ServerClosed
      /\ NET_Close(ClientCloses(c) \cup ServerCloses)
      /\ inbox' = AfterReceive(Listener)
      /\ listenPc' = "stopped"
      /\ UNCHANGED <<mainPc, serverIdle, upSent, downSent, upLog, downLog, lostNotice>>
  BY <1>1 DEF ServerTickLeft, traffic
<1>3. /\ ServerCloses = {Listener}
      /\ server' = [pointer |-> Null, is_alive |-> FALSE, incoming_guid |-> Null,
                    client |-> c]
  BY <1>1, <1>2, ServerCloseFacts
<1>4. lostNotice' \in [up : SUBSET GameClients, down : SUBSET GameClients]
  BY <1>2 DEF TypeOK
<1>5. /\ client' \in [GameClients ->
                        [pointer : GameClients \cup {Null}, is_connected : BOOLEAN,
                         incoming_guid : {Null, Wild, GameServer}]]
      /\ \A d \in GameClients : d # c => client'[d] = client[d]
      /\ ~client'[c].is_connected
      /\ ClientCloses(c) \in SUBSET {c}
      /\ client'[c].incoming_guid = GameServer =>
           client'[c] = client[c] /\ ClientCloses(c) = {}
  BY <1>1, <1>2, ClosedClients
<1> DEFINE ps == ClientCloses(c) \cup ServerCloses
<1>6. /\ server.client = c /\ NET_Close(ps)
      /\ ps \in SUBSET {Listener, c}
      /\ ClientCloses(c) = {} => c \notin ps
  BY <1>1, <1>2, <1>3, <1>5, NamesDistinct
<1> HIDE DEF c, ps
<1>7. server' \in [pointer : {Null, Listener}, is_alive : {FALSE},
                   incoming_guid : GameClients \cup {Null}, client : {c}]
      /\ server'.incoming_guid = Null
  BY <1>3
<1>8. /\ client'[c].incoming_guid = GameServer =>
           /\ client[c].incoming_guid = GameServer
           /\ client'[c].pointer = client[c].pointer
           /\ c \notin ps
      /\ client'[c].is_connected => client'[c] = client[c] /\ c \notin ps
  BY <1>5, <1>6
<1>9. /\ client' \in [GameClients ->
                        [pointer : GameClients \cup {Null}, is_connected : BOOLEAN,
                         incoming_guid : {Null, Wild, GameServer}]]
      /\ \A d \in GameClients : d # c => client'[d] = client[d]
  BY <1>5
<1>10. /\ inbox[Listener] # <<>> /\ inbox' = AfterReceive(Listener)
       /\ mainPc # "init" /\ c \in GameClients /\ listenPc' = "stopped"
       /\ UNCHANGED <<mainPc, serverIdle, upSent, downSent, upLog, downLog>>
  BY <1>1, <1>2
<1> HIDE DEF IInv
<1> QED
  BY <1>4, <1>6, <1>7, <1>8, <1>9, <1>10, ShutdownIInv

\* The game client is lost: the Server is closed.
LEMMA ServerTickLostIInv == IInv /\ ServerTickLost => IInv'
<1> SUFFICES ASSUME IInv, ServerTickLost PROVE IInv'
  OBVIOUS
<1> USE DEF IInv
<1> DEFINE c == server.client
<1>1. /\ server.pointer = Listener /\ inbox[Listener] # <<>> /\ server.is_alive
      /\ mainPc # "init" /\ c \in GameClients
  BY ServerReceivesFacts DEF ServerTickLost
<1>2. /\ client' = [client EXCEPT ![c].is_connected = FALSE]
      /\ server' = ServerClosed
      /\ NET_Close(ServerCloses)
      /\ inbox' = AfterReceive(Listener)
      /\ listenPc' = "stopped"
      /\ lostNotice' = [lostNotice EXCEPT !.up = @ \cup ClientSendsTo(c)]
      /\ UNCHANGED <<mainPc, serverIdle, upSent, downSent, upLog, downLog>>
  BY <1>1 DEF ServerTickLost, traffic
<1>3. /\ ServerCloses = {Listener}
      /\ server' = [pointer |-> Null, is_alive |-> FALSE, incoming_guid |-> Null,
                    client |-> c]
  BY <1>1, <1>2, ServerCloseFacts
<1>4. lostNotice' \in [up : SUBSET GameClients, down : SUBSET GameClients]
  <2>1. ClientSendsTo(c) \in SUBSET GameClients
    BY DEF ClientSendsTo
  <2> QED
    BY <1>2, <2>1 DEF TypeOK
<1>5. /\ client' \in [GameClients ->
                        [pointer : GameClients \cup {Null}, is_connected : BOOLEAN,
                         incoming_guid : {Null, Wild, GameServer}]]
      /\ \A d \in GameClients : d # c => client'[d] = client[d]
      /\ ~client'[c].is_connected
      /\ client'[c].pointer = client[c].pointer
      /\ client'[c].incoming_guid = client[c].incoming_guid
  <2> DEFINE r == client[c]
             u == [r EXCEPT !.is_connected = FALSE]
  <2>1. /\ client \in [GameClients ->
                         [pointer : GameClients \cup {Null}, is_connected : BOOLEAN,
                          incoming_guid : {Null, Wild, GameServer}]]
        /\ r \in [pointer : GameClients \cup {Null}, is_connected : BOOLEAN,
                  incoming_guid : {Null, Wild, GameServer}]
        /\ client' = [client EXCEPT ![c] = u]
    BY <1>1, <1>2 DEF TypeOK
  <2> HIDE DEF r
  <2>2. /\ u \in [pointer : GameClients \cup {Null}, is_connected : BOOLEAN,
                  incoming_guid : {Null, Wild, GameServer}]
        /\ ~u.is_connected
        /\ u.pointer = r.pointer /\ u.incoming_guid = r.incoming_guid
    BY <2>1
  <2> HIDE DEF u
  <2> QED
    BY <1>1, <2>1, <2>2 DEF r
<1>6. /\ server.client = c
      /\ ServerCloses \in SUBSET {Listener, c}
      /\ c \notin ServerCloses
  BY <1>1, <1>3, NamesDistinct
<1> HIDE DEF c
<1>7. server' \in [pointer : {Null, Listener}, is_alive : {FALSE},
                   incoming_guid : GameClients \cup {Null}, client : {c}]
      /\ server'.incoming_guid = Null
  BY <1>3
<1>8. client'[c].incoming_guid = GameServer =>
        /\ client[c].incoming_guid = GameServer
        /\ client'[c].pointer = client[c].pointer
        /\ c \notin ServerCloses
  BY <1>5, <1>6
<1>9. client'[c].is_connected => client'[c] = client[c] /\ c \notin ServerCloses
  BY <1>5
<1> HIDE DEF IInv
<1> QED
  BY <1>1, <1>2, <1>4, <1>5, <1>6, <1>7, <1>8, <1>9, ShutdownIInv

\* The Client is closed after the Server.
LEMMA ClosesClientIInv == IInv /\ ClosesClient => IInv'
<1> SUFFICES ASSUME IInv, ClosesClient PROVE IInv'
  OBVIOUS
<1> USE DEF IInv
<1> DEFINE c == server.client
<1>1. /\ listenPc = "closing" /\ mainPc # "init" /\ c \in GameClients
      /\ ~server.is_alive /\ server.incoming_guid = Null
  BY DEF ClosesClient, Phases
<1>2. /\ client' = [client EXCEPT ![c] = ClientClosed(c)]
      /\ NET_Close(ClientCloses(c))
      /\ listenPc' = "stopped"
      /\ UNCHANGED <<mainPc, serverIdle, server, inbox, upSent, downSent, upLog,
                     downLog, lostNotice>>
  BY DEF ClosesClient, traffic
<1>3. /\ client' \in [GameClients ->
                        [pointer : GameClients \cup {Null}, is_connected : BOOLEAN,
                         incoming_guid : {Null, Wild, GameServer}]]
      /\ \A d \in GameClients : d # c => client'[d] = client[d]
      /\ ~client'[c].is_connected
      /\ ClientCloses(c) \in SUBSET {c}
      /\ client'[c].incoming_guid = GameServer =>
           client'[c] = client[c] /\ ClientCloses(c) = {}
  BY <1>1, <1>2, ClosedClients
<1>4. lostNotice' \in [up : SUBSET GameClients, down : SUBSET GameClients]
  BY <1>2 DEF TypeOK
<1>5. /\ server' \in [pointer : {Null, Listener}, is_alive : {FALSE},
                      incoming_guid : GameClients \cup {Null}, client : {c}]
      /\ server'.incoming_guid = Null
  BY <1>1, <1>2 DEF TypeOK
<1>6. server.client = c /\ ClientCloses(c) \in SUBSET {Listener, c}
  BY <1>3
<1> HIDE DEF c, IInv
<1> QED
  BY <1>1, <1>2, <1>3, <1>4, <1>5, <1>6, ShutdownIInv

\* The game client is told of the loss and the Client is closed.
LEMMA ReportsLostIInv == IInv /\ ReportsLost => IInv'
<1> SUFFICES ASSUME IInv, ReportsLost PROVE IInv'
  OBVIOUS
<1> USE DEF IInv
<1> DEFINE c == server.client
<1>1. /\ listenPc = "reporting" /\ mainPc # "init" /\ c \in GameClients
      /\ ~server.is_alive
  BY DEF ReportsLost, Phases
<1>2. /\ client' = [client EXCEPT ![c] = ClientClosed(c)]
      /\ NET_Close(ClientCloses(c))
      /\ listenPc' = "stopped"
      /\ lostNotice' = [lostNotice EXCEPT !.down = @ \cup ServerSendsTo]
      /\ UNCHANGED <<mainPc, serverIdle, server, inbox, upSent, downSent, upLog,
                     downLog>>
  BY DEF ReportsLost, traffic
<1>3. /\ client' \in [GameClients ->
                        [pointer : GameClients \cup {Null}, is_connected : BOOLEAN,
                         incoming_guid : {Null, Wild, GameServer}]]
      /\ \A d \in GameClients : d # c => client'[d] = client[d]
      /\ ~client'[c].is_connected
      /\ ClientCloses(c) \in SUBSET {c}
      /\ client'[c].incoming_guid = GameServer =>
           client'[c] = client[c] /\ ClientCloses(c) = {}
  BY <1>1, <1>2, ClosedClients
<1>4. lostNotice' \in [up : SUBSET GameClients, down : SUBSET GameClients]
  <2>1. ServerSendsTo \in SUBSET GameClients
    BY DEF ServerSendsTo
  <2> QED
    BY <1>2, <2>1 DEF TypeOK
<1>5. server' \in [pointer : {Null, Listener}, is_alive : {FALSE},
                   incoming_guid : GameClients \cup {Null}, client : {c}]
  BY <1>1, <1>2 DEF TypeOK
<1>6. /\ server.client = c /\ ClientCloses(c) \in SUBSET {Listener, c}
      /\ Listener \notin ClientCloses(c)
  BY <1>1, <1>3, NamesDistinct
<1> HIDE DEF c, IInv
<1> QED
  BY <1>1, <1>2, <1>3, <1>4, <1>5, <1>6, ShutdownIInv

-----------------------------------------------------------------------------
(* Client::Tick on a packet it has received.                               *)

\* Client::Tick receives only in a live session, paired with its game client.
LEMMA ClientReceivesFacts ==
  ASSUME IInv, NEW id, ClientReceives(id)
  PROVE  /\ server.client \in GameClients /\ server.client \in Peers
         /\ client[server.client].pointer = server.client
         /\ client[server.client].is_connected
         /\ inbox[server.client] # <<>>
         /\ NET_Receive(server.client).id = id
         /\ server.is_alive /\ server.incoming_guid = server.client
         /\ listenPc = "client" /\ mainPc # "init"
<1>1. /\ server.client \in GameClients /\ client[server.client].is_connected
      /\ listenPc = "client"
      /\ inbox[client[server.client].pointer] # <<>>
      /\ NET_Receive(client[server.client].pointer).id = id
  BY DEF ClientReceives, ClientTicks
<1>2. client[server.client].pointer = server.client
  BY <1>1 DEF IInv, HandlesValid
<1>3. server.is_alive /\ mainPc # "init"
  BY <1>1 DEF IInv, Phases
<1>4. server.incoming_guid = server.client
  BY <1>1, <1>3 DEF IInv, Paired
<1> QED
  BY <1>1, <1>2, <1>3, <1>4 DEF Peers

\* The game server disconnects: the Server is closed first.
LEMMA ClientTickLeftIInv == IInv /\ ClientTickLeft => IInv'
<1> SUFFICES ASSUME IInv, ClientTickLeft PROVE IInv'
  OBVIOUS
<1> DEFINE c == server.client
<1>1. /\ c \in GameClients /\ client[c].pointer = c /\ inbox[c] # <<>>
      /\ server.is_alive /\ mainPc # "init"
  BY ClientReceivesFacts DEF ClientTickLeft
<1>2. /\ server' = ServerClosed
      /\ NET_Close(ServerCloses)
      /\ inbox' = AfterReceive(c)
      /\ listenPc' = "closing"
      /\ UNCHANGED <<mainPc, serverIdle, client, upSent, downSent, upLog, downLog,
                     lostNotice>>
  BY <1>1 DEF ClientTickLeft, traffic
<1>3. /\ ServerCloses = {Listener}
      /\ server' = [pointer |-> Null, is_alive |-> FALSE, incoming_guid |-> Null,
                    client |-> c]
  BY <1>1, <1>2, ServerCloseFacts DEF IInv
<1>4. /\ lostNotice' \in [up : SUBSET GameClients, down : SUBSET GameClients]
      /\ client' \in [GameClients ->
                        [pointer : GameClients \cup {Null}, is_connected : BOOLEAN,
                         incoming_guid : {Null, Wild, GameServer}]]
  BY <1>2 DEF IInv, TypeOK
<1>5. /\ server.client = c
      /\ ServerCloses \in SUBSET {Listener, c}
      /\ c \notin ServerCloses
  BY <1>1, <1>3, NamesDistinct
<1> HIDE DEF c
<1>6. server' \in [pointer : {Null, Listener}, is_alive : {FALSE},
                   incoming_guid : GameClients \cup {Null}, client : {c}]
      /\ server'.incoming_guid = Null
  BY <1>3
<1> QED
  BY <1>1, <1>2, <1>4, <1>5, <1>6, ShutdownIInv

\* The game server is lost: is_alive is cleared and nothing closed yet.
LEMMA ClientTickLostIInv == IInv /\ ClientTickLost => IInv'
<1> SUFFICES ASSUME IInv, ClientTickLost PROVE IInv'
  OBVIOUS
<1> DEFINE c == server.client
<1>1. /\ c \in GameClients /\ client[c].pointer = c /\ inbox[c] # <<>>
      /\ server.is_alive /\ server.incoming_guid = c /\ mainPc # "init"
  BY ClientReceivesFacts DEF ClientTickLost
<1>2. /\ server' = [server EXCEPT !.is_alive = FALSE]
      /\ inbox' = AfterReceive(c)
      /\ listenPc' = "reporting"
      /\ UNCHANGED <<mainPc, serverIdle, client, peer, link, uplink, upSent,
                     downSent, upLog, downLog, lostNotice>>
  BY <1>1 DEF ClientTickLost, traffic, net
<1>3. NET_Close({})
  BY <1>2 DEF NET_Close, IInv, TypeOK
<1>4. /\ lostNotice' \in [up : SUBSET GameClients, down : SUBSET GameClients]
      /\ client' \in [GameClients ->
                        [pointer : GameClients \cup {Null}, is_connected : BOOLEAN,
                         incoming_guid : {Null, Wild, GameServer}]]
  BY <1>2 DEF IInv, TypeOK
<1>5. /\ server' \in [pointer : {Null, Listener}, is_alive : {FALSE},
                      incoming_guid : GameClients \cup {Null}, client : {c}]
      /\ server'.incoming_guid = server.incoming_guid
      /\ server'.pointer = server.pointer
  BY <1>2 DEF IInv, TypeOK
<1>6. server.client = c /\ {} \in SUBSET {Listener, c}
  OBVIOUS
<1> HIDE DEF c
<1> QED
  BY <1>1, <1>2, <1>3, <1>4, <1>5, <1>6, ShutdownIInv

-----------------------------------------------------------------------------
(* The handlers that send a data packet on.                                *)

\* Deliver adds its message to the logs of its receivers and to no other.
LEMMA DeliveredLog ==
  ASSUME NEW log \in [GameClients -> Seq(Message)], NEW to, NEW m \in Message
  PROVE  /\ Deliver(log, to, m) \in [GameClients -> Seq(Message)]
         /\ \A g \in GameClients : \A i \in 1..Len(Deliver(log, to, m)[g]) :
              \/ i \in 1..Len(log[g]) /\ Deliver(log, to, m)[g][i] = log[g][i]
              \/ g \in to /\ Deliver(log, to, m)[g][i] = m
<1>1. \A s \in Seq(Message) :
        /\ Append(s, m) \in Seq(Message)
        /\ \A i \in 1..Len(Append(s, m)) :
             \/ i \in 1..Len(s) /\ Append(s, m)[i] = s[i]
             \/ Append(s, m)[i] = m
  OBVIOUS
<1>2. Deliver(log, to, m) \in [GameClients -> Seq(Message)]
  BY <1>1 DEF Deliver
<1>3. ASSUME NEW g \in GameClients
      PROVE  \A i \in 1..Len(Deliver(log, to, m)[g]) :
              \/ i \in 1..Len(log[g]) /\ Deliver(log, to, m)[g][i] = log[g][i]
              \/ g \in to /\ Deliver(log, to, m)[g][i] = m
  <2>1. CASE g \in to
    <3>1. Deliver(log, to, m)[g] = Append(log[g], m)
      BY <2>1 DEF Deliver
    <3> QED
      BY <1>1, <2>1, <3>1
  <2>2. CASE g \notin to
    <3>1. Deliver(log, to, m)[g] = log[g]
      BY <2>2 DEF Deliver
    <3> QED
      BY <3>1
  <2> QED
    BY <2>1, <2>2
<1> QED
  BY <1>2, <1>3

\* A packet is taken from one of the two inboxes, the objects and connections
\* stay as they are, and the logs grow by nothing foreign; the process may end.
LEMMA RelayedIInv ==
  ASSUME IInv, server.client \in GameClients, server.is_alive,
         NEW p \in {Listener, server.client},
         inbox[p] # <<>>, inbox' = AfterReceive(p),
         mainPc # "init", listenPc' \in {"server", "client"},
         serverIdle' \in BOOLEAN, listenPc \in {"server", "client"},
         mainPc' \in {mainPc, "crashed"},
         UNCHANGED <<server, client, peer, link, uplink, upSent, downSent, lostNotice>>,
         upLog' \in [GameClients -> Seq(Message)],
         downLog' \in [GameClients -> Seq(Message)],
         DownIsolation'
  PROVE  IInv'
<1> USE DEF IInv
<1>1. p \in Peers /\ Listener \in Peers
  BY DEF Peers
<1>2. /\ inbox' \in [Peers -> Seq(Packet)]
      /\ p # Listener => inbox'[Listener] = inbox[Listener]
  BY <1>1, ReceiptFacts
<1>3. TypeOK'
  BY <1>2 DEF TypeOK
<1>4. ListenerInbox'
  BY <1>2, ListenerKept, ListenerReceipt
<1>5. ClientInbox'
  BY <1>1, ClientReceipt
<1>6. (NewFirst /\ Phases /\ HandlesValid /\ Paired)'
  BY DEF NewFirst, Phases, HandlesValid, Paired
<1> QED
  BY <1>3, <1>4, <1>5, <1>6

\* Data from a game client is sent on up.
LEMMA ServerTickDataIInv == IInv /\ ServerTickData => IInv'
<1> SUFFICES ASSUME IInv, ServerTickData PROVE IInv'
  OBVIOUS
<1> DEFINE packet == NET_Receive(Listener)
           m == [from |-> packet.guid, n |-> packet.n, kind |-> packet.kind]
<1>1. /\ server.pointer = Listener /\ Listener \in Peers /\ inbox[Listener] # <<>>
      /\ server.is_alive /\ listenPc = "server" /\ mainPc # "init"
      /\ packet.guid \in GameClients
      /\ server.client \in GameClients
  BY ServerReceivesFacts DEF ServerTickData, IInv
<1>2. /\ upLog' = Deliver(upLog, ClientSendsTo(server.client), m)
      /\ inbox' = AfterReceive(Listener)
      /\ serverIdle' = FALSE
      /\ listenPc' = "client"
      /\ UNCHANGED <<mainPc, server, client, peer, link, uplink, upSent, downSent,
                     downLog, lostNotice>>
  BY <1>1 DEF ServerTickData, objects, net
<1>3. m \in Message
  <2>1. packet \in Packet
    BY <1>1, <1>2, ReceiptFacts DEF IInv
  <2> QED
    BY <1>1, <2>1 DEF Packet, Message
<1> HIDE DEF packet, m
<1>4. upLog' \in [GameClients -> Seq(Message)]
  <2>1. upLog \in [GameClients -> Seq(Message)]
    BY DEF IInv, TypeOK
  <2> QED
    BY <1>2, <1>3, <2>1, DeliveredLog
<1>5. /\ downLog' \in [GameClients -> Seq(Message)]
      /\ DownIsolation'
  BY <1>2 DEF IInv, TypeOK, DownIsolation
<1> QED
  BY <1>1, <1>2, <1>4, <1>5, RelayedIInv

\* Data from the game server is sent on to the session's own game client.
LEMMA ClientTickDataIInv == IInv /\ ClientTickData => IInv'
<1> SUFFICES ASSUME IInv, ClientTickData PROVE IInv'
  OBVIOUS
<1> DEFINE c == server.client
           packet == NET_Receive(c)
<1>1. /\ c \in GameClients /\ c \in Peers /\ client[c].pointer = c
      /\ inbox[c] # <<>> /\ server.is_alive /\ server.incoming_guid = c
      /\ listenPc = "client" /\ mainPc # "init"
  BY ClientReceivesFacts DEF ClientTickData
<1>2. PICK kind \in OnRustPacketReceived(packet.kind) :
        downLog' = Deliver(downLog, ServerSendsTo,
                           [from |-> c, n |-> packet.n, kind |-> kind])
  BY <1>1 DEF ClientTickData
<1>3. /\ inbox' = AfterReceive(c)
      /\ listenPc' = "server"
      /\ UNCHANGED <<mainPc, serverIdle, server, client, peer, link, uplink, upSent,
                     downSent, upLog, lostNotice>>
  BY <1>1 DEF ClientTickData, objects, net
<1> DEFINE m == [from |-> c, n |-> packet.n, kind |-> kind]
<1>4. m \in Message /\ m.from = c
  <2>1. packet \in Packet
    BY <1>1, <1>3, ReceiptFacts DEF IInv
  <2>2. kind \in Kinds
    BY <2>1 DEF OnRustPacketReceived, Packet, Kinds
  <2> QED
    BY <1>1, <2>1, <2>2 DEF Packet, Message
<1> HIDE DEF m
<1>5. downLog \in [GameClients -> Seq(Message)] /\ downLog' = Deliver(downLog, ServerSendsTo, m)
  BY <1>2 DEF IInv, TypeOK, m
<1>6. downLog' \in [GameClients -> Seq(Message)]
  BY <1>4, <1>5, DeliveredLog
<1>7. DownIsolation'
  <2>1. \A g \in ServerSendsTo : g = c
    BY <1>1 DEF ServerSendsTo
  <2>2. \A g \in GameClients : \A i \in 1..Len(downLog'[g]) :
          \/ i \in 1..Len(downLog[g]) /\ downLog'[g][i] = downLog[g][i]
          \/ g \in ServerSendsTo /\ downLog'[g][i] = m
    BY <1>4, <1>5, DeliveredLog
  <2> QED
    BY <1>4, <2>1, <2>2 DEF IInv, DownIsolation
<1>8. /\ upLog' \in [GameClients -> Seq(Message)]
      /\ serverIdle' \in BOOLEAN
  BY <1>3 DEF IInv, TypeOK
<1> HIDE DEF packet
<1> QED
  BY <1>1, <1>3, <1>6, <1>7, <1>8, RelayedIInv

-----------------------------------------------------------------------------
(* The invariant, and what it implies.                                     *)

\* No step of the listening thread breaks the invariant.
LEMMA ListenThreadIInv == IInv /\ ListenThread => IInv'
BY MovesIInv, ServerTickNewIInv, HandshakeDoneIInv, ServerTickLeftIInv,
   ServerTickLostIInv, ServerTickDataIInv, ClientTickLeftIInv, ClosesClientIInv,
   ClientTickLostIInv, ReportsLostIInv, ClientTickDataIInv
   DEF ListenThread, ServerTick, ClientTick

\* Nor does a step that changes nothing.
LEMMA UnchangedIInv == IInv /\ UNCHANGED vars => IInv'
BY DEF vars, objects, net, traffic, IInv, TypeOK, ListenerInbox, ClientInbox,
       NewFirst, Phases, HandlesValid, Paired, DownIsolation, NET_Receive

\* So no step does.
LEMMA StepIInv == IInv /\ [Next]_vars => IInv'
BY MainIInv, ListenThreadIInv, OutsideIInv, UnchangedIInv DEF Next, Ended

\* The inductive invariant holds in every state that the proxy reaches, for any
\* number of game clients and packets.
THEOREM Invariance == Spec => []IInv
BY InitIInv, StepIInv, PTL DEF Spec

\* Each variable keeps its type; in particular the guid the Server answers to
\* is always that of a game client, and no client pointer is made up.
THEOREM TypeCorrect == Spec => []TypeOK
BY Invariance, PTL DEF IInv

\* No handle that Tick, Send or the handshake loop uses is null or closed.
THEOREM HandlesStayValid == Spec => []HandlesValid
BY Invariance, PTL DEF IInv

\* The Client being relayed is connected and belongs to the game client that
\* the Server answers to, across later connections and failed handshakes.
THEOREM SessionsStayPaired == Spec => []Paired
BY Invariance, PTL DEF IInv

\* Server::Tick never uses client before a Client has been made.
THEOREM ClientCreatedFirst == Spec => []ClientCreated
<1>1. IInv => ClientCreated
  BY DEF IInv, NewFirst, ClientCreated
<1> QED
  BY Invariance, <1>1, PTL

\* Whichever exit the listening thread takes, main will see is_alive cleared.
THEOREM StopIsSeen == Spec => []StoppedMeansDead
<1>1. IInv => StoppedMeansDead
  BY DEF IInv, Phases, StoppedMeansDead
<1> QED
  BY Invariance, <1>1, PTL

\* No game client is ever sent a packet of another game client's session.
THEOREM SessionsStayApart == Spec => []DownIsolation
BY Invariance, PTL DEF IInv

\* With is_alive cleared, no step receives or sends on.
LEMMA QuietStep ==
  ASSUME IInv, Next, Over
  PROVE  /\ UNCHANGED <<upLog, downLog>>
         /\ \A p \in Peers : Len(inbox'[p]) >= Len(inbox[p])
<1> USE DEF Over
<1>1. \A p \in Peers : Len(inbox[p]) \in Nat
  BY DEF IInv, TypeOK
<1>2. CASE Main \/ Ended
  <2>1. UNCHANGED <<inbox, upLog, downLog>>
    BY <1>2 DEF Main, InitThrows, StartServer, Polls, Returns, ProcessEnds, Ended,
                vars, traffic
  <2> QED
    BY <1>1, <2>1
<1>3. CASE ListenThread
  <2>1. \A id : ~ServerReceives(id)
    BY DEF ServerReceives
  <2>2. \A id : ~ClientReceives(id)
    BY ClientReceivesFacts
  <2>3. ~HandshakeDone
    BY DEF HandshakeDone, IInv, Phases
  <2>4. UNCHANGED <<inbox, upLog, downLog>>
    BY <1>3, <2>1, <2>2, <2>3
       DEF ListenThread, ServerTick, ClientTick, ServerTickDead, ServerTickIdle,
           ServerTickNew, HandshakeWaits, ServerTickLeft, ServerTickLost,
           ServerTickData, ClientTickNone, ClientTickWild, ClientTickDead,
           ClientTickIdle, ClientTickLeft, ClosesClient, ClientTickLost,
           ReportsLost, ClientTickData, Wakes, vars, traffic
  <2> QED
    BY <1>1, <2>4
<1>4. CASE Outside
  <2>1. UNCHANGED <<upLog, downLog>>
    BY <1>4 DEF Outside, GameClientConnects, GameClientSends, GameClientGone,
                AttemptEnds, GameServerSends, GameServerGone, traffic
  <2>2. ASSUME NEW q \in Peers, NEW e, Arrives(q, e)
        PROVE  \A p \in Peers : Len(inbox'[p]) >= Len(inbox[p])
    <3>1. inbox \in [Peers -> Seq(Packet)]
      BY DEF IInv, TypeOK
    <3>2. \A s \in Seq(Packet) : Len(Append(s, e)) = Len(s) + 1
      OBVIOUS
    <3> QED
      BY <2>2, <1>1, <3>1, <3>2 DEF Arrives
  <2>3. \A g \in GameClients : g \in Peers /\ Listener \in Peers
    BY DEF Peers
  <2>4. ASSUME NEW g \in GameClients,
               GameClientConnects(g) \/ GameClientSends(g) \/ GameClientGone(g)
        PROVE  \A p \in Peers : Len(inbox'[p]) >= Len(inbox[p])
    BY <2>2, <2>3, <2>4 DEF GameClientConnects, GameClientSends, GameClientGone
  <2>5. ASSUME NEW c \in GameClients,
               AttemptEnds(c) \/ GameServerSends(c) \/ GameServerGone(c)
        PROVE  \A p \in Peers : Len(inbox'[p]) >= Len(inbox[p])
    BY <2>2, <2>3, <2>5 DEF AttemptEnds, GameServerSends, GameServerGone
  <2> QED
    BY <1>4, <2>1, <2>4, <2>5 DEF Outside
<1> QED
  BY <1>2, <1>3, <1>4 DEF Next

\* Once is_alive is cleared, nothing is received and nothing is sent on.
THEOREM QuietOnceOver == Spec => QuietAfterShutdown
<1>1. IInv /\ [Next]_vars => [Over => /\ UNCHANGED <<upLog, downLog>>
                                      /\ \A p \in Peers : Len(inbox'[p]) >= Len(inbox[p])]_vars
  BY QuietStep
<1> QED
  BY Invariance, <1>1, PTL DEF Spec, QuietAfterShutdown
=============================================================================
