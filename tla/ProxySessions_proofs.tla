----------------------- MODULE ProxySessions_proofs -----------------------
(***************************************************************************)
(* More about the sessions of Proxy, for any set of game clients and any   *)
(* number of packets, on top of IInv.                                      *)
(*                                                                         *)
(* First, every way out of the loop: the proxy ends for a cause, and       *)
(* closes what it leaves.  Each notice that is queued tells the state of   *)
(* the connection it is about, and what the handshake reads is the answer  *)
(* to its own attempt.                                                     *)
(*                                                                         *)
(* Then, what the game server sends reaches the game client in order and   *)
(* once: Proxy implements Relay under the mapping Down.  The strengthening *)
(* says how the packets queued for a Client continue what its game client  *)
(* has received.                                                           *)
(*                                                                         *)
(* Last, what game clients send: in order and once at most, whichever      *)
(* session it goes up, and, of a game client that is alone, all of it:     *)
(* Proxy then implements Relay under the mapping Up.                       *)
(***************************************************************************)
EXTENDS Proxy_proofs, SequenceTheorems

Gone   == {"left", "lost"}
Ending == {"refused", "left", "lost"}
Early  == {"none", "unstarted", "connecting"}

\* A notice among what the Server is to receive is about a game client that left
\* or was lost, and one among what a Client is to receive about an attempt that
\* was refused or a game server that left or was lost, each as the notice says.
Notices ==
  /\ \A i \in 1..Len(inbox[Listener]) :
       inbox[Listener][i].id \in Gone =>
         link[inbox[Listener][i].guid] = inbox[Listener][i].id
  /\ \A c \in GameClients : \A i \in 1..Len(inbox[c]) :
       inbox[c][i].id \in Ending => uplink[c] = inbox[c][i].id

\* The first packet a Client is to receive in the handshake answers its attempt.
Answered ==
  listenPc = "connecting" =>
    /\ inbox[server.client] = <<>> <=>
         uplink[server.client] \in {"unstarted", "connecting"}
    /\ inbox[server.client] # <<>> =>
         NET_Receive(server.client).id \in {"accepted", "refused"}

Cause == \/ peer[Listener] = "idle"
         \/ \E g \in GameClients : link[g] \in Gone
         \/ server.client \in GameClients /\ uplink[server.client] \in Ending

CInv == Notices /\ Answered /\ EndsForCause

-----------------------------------------------------------------------------
(* Frames: what keeps a notice backed and a cause a cause.                 *)

\* A connection that is gone stays gone, and a refused attempt refused.
Lasting == /\ \A g \in GameClients : link[g] \in Gone => link'[g] = link[g]
           /\ \A c \in GameClients : uplink[c] \in Ending => uplink'[c] = uplink[c]

LEMMA CloseLasts ==
  ASSUME TypeOK, NEW ps, NET_Close(ps)
  PROVE  Lasting /\ (Listener \notin ps => peer'[Listener] = peer[Listener])
BY DEF NET_Close, Lasting, Gone, Ending, TypeOK, Peers

LEMMA CauseLasts ==
  ASSUME Lasting, Cause, peer'[Listener] = peer[Listener],
         server'.client = server.client
  PROVE  Cause'
BY DEF Lasting, Cause

\* Closing the Server keeps which Client it has.
LEMMA ClosedKeepsClient ==
  ASSUME TypeOK
  PROVE  ServerClosed.client = server.client
BY DEF TypeOK, ServerClosed

LEMMA CauseIsEnd ==
  /\ EndsForCause <=> (Over => Cause)
  /\ EndsForCause' <=> (Over' => Cause')
BY DEF EndsForCause, Cause, Gone, Ending

\* Taking a packet keeps the notices that are left backed.
LEMMA NoticesLeft ==
  ASSUME TypeOK, ListenerInbox, Notices, Lasting,
         \/ UNCHANGED inbox
         \/ \E p \in Peers : inbox[p] # <<>> /\ inbox' = AfterReceive(p)
  PROVE  Notices'
<1>1. CASE UNCHANGED inbox
  BY <1>1 DEF Notices, Lasting, ListenerInbox
<1>2. CASE \E p \in Peers : inbox[p] # <<>> /\ inbox' = AfterReceive(p)
  <2>1. PICK p \in Peers : inbox[p] # <<>> /\ inbox' = AfterReceive(p) BY <1>2
  <2>2. ASSUME NEW o \in Peers, NEW i \in 1..Len(inbox'[o])
        PROVE  \E j \in 1..Len(inbox[o]) : inbox'[o][i] = inbox[o][j]
    <3>1. CASE o = p BY <2>1, <2>2, <3>1, ReceiptFacts
    <3>2. CASE o # p BY <2>1, <2>2, <3>2, ReceiptFacts
    <3> QED BY <3>1, <3>2
  <2>3. Listener \in Peers /\ GameClients \subseteq Peers BY DEF Peers
  <2>4. ASSUME NEW i \in 1..Len(inbox'[Listener]), inbox'[Listener][i].id \in Gone
        PROVE  link'[inbox'[Listener][i].guid] = inbox'[Listener][i].id
    <3>1. PICK j \in 1..Len(inbox[Listener]) : inbox'[Listener][i] = inbox[Listener][j]
      BY <2>2, <2>3
    <3> QED BY <2>4, <3>1 DEF Notices, Lasting, ListenerInbox
  <2>5. ASSUME NEW c \in GameClients, NEW i \in 1..Len(inbox'[c]),
               inbox'[c][i].id \in Ending
        PROVE  uplink'[c] = inbox'[c][i].id
    <3>1. PICK j \in 1..Len(inbox[c]) : inbox'[c][i] = inbox[c][j]
      BY <2>2, <2>3
    <3> QED BY <2>5, <3>1 DEF Notices, Lasting
  <2> QED BY <2>4, <2>5 DEF Notices
<1> QED BY <1>1, <1>2

\* An arrival keeps them backed if the packet that arrives is.
LEMMA NoticesArrive ==
  ASSUME TypeOK, ListenerInbox, Notices, Lasting,
         NEW p \in Peers, NEW e \in Packet, Arrives(p, e),
         p = Listener /\ e.id \in Gone => link'[e.guid] = e.id,
         p # Listener /\ e.id \in Ending => uplink'[p] = e.id
  PROVE  Notices'
<1>1. Listener \in Peers /\ GameClients \subseteq Peers BY DEF Peers
<1>2. ASSUME NEW o \in Peers, NEW i \in 1..Len(inbox'[o])
      PROVE  \/ i \in 1..Len(inbox[o]) /\ inbox'[o][i] = inbox[o][i]
             \/ o = p /\ inbox'[o][i] = e
  <2>1. CASE o = p
    <3>1. Len(inbox[p]) \in Nat BY DEF TypeOK
    <3>2. i \in 1..Len(inbox[p]) \/ i = Len(inbox[p]) + 1
      BY <1>2, <2>1, <3>1, ArrivalFacts
    <3> QED BY <2>1, <3>2, ArrivalFacts
  <2>2. CASE o # p BY <1>2, <2>2, ArrivalFacts
  <2> QED BY <2>1, <2>2
<1>3. ASSUME NEW i \in 1..Len(inbox'[Listener]), inbox'[Listener][i].id \in Gone
      PROVE  link'[inbox'[Listener][i].guid] = inbox'[Listener][i].id
  BY <1>1, <1>2, <1>3 DEF Notices, Lasting, ListenerInbox
<1>4. ASSUME NEW c \in GameClients, NEW i \in 1..Len(inbox'[c]),
             inbox'[c][i].id \in Ending
      PROVE  uplink'[c] = inbox'[c][i].id
  <2>1. c # Listener BY NamesDistinct
  <2> QED BY <1>1, <1>2, <1>4, <2>1 DEF Notices, Lasting
<1> QED BY <1>3, <1>4 DEF Notices

-----------------------------------------------------------------------------
(* Each action keeps CInv.                                                 *)

LEMMA InitCInv == Init => CInv
BY NamesDistinct DEF Init, CInv, Notices, Answered, EndsForCause, Over, Peers

\* Steps that touch neither a connection nor an inbox.
LEMMA StillCInv ==
  ASSUME CInv, UNCHANGED <<server, peer, link, uplink, inbox>>,
         listenPc' = "connecting" => listenPc = "connecting",
         listenPc = "unborn" => listenPc' = "unborn"
  PROVE  CInv'
BY DEF CInv, Notices, Answered, NET_Receive, EndsForCause, Over

LEMMA MainCInv ==
  ASSUME IInv, CInv, Main
  PROVE  CInv'
<1>1. CASE StartServer
  <2>1. /\ UNCHANGED <<link, uplink, inbox>> /\ listenPc' = "server"
        /\ server'.is_alive \/ peer'[Listener] = "idle"
    BY <1>1 DEF StartServer, IInv, TypeOK, Peers
  <2> QED BY <2>1 DEF CInv, Notices, Answered, EndsForCause, Over
<1>2. CASE InitThrows \/ Polls \/ Returns \/ ProcessEnds
  BY <1>2, StillCInv DEF InitThrows, Polls, Returns, ProcessEnds, vars, objects, net
<1> QED BY <1>1, <1>2 DEF Main

\* The steps of the listening thread that only move it on.
LEMMA MovesCInv ==
  ASSUME IInv, CInv,
         \/ ServerTickDead \/ ServerTickIdle \/ HandshakeWaits \/ ClientTickNone
         \/ ClientTickWild \/ ClientTickDead \/ ClientTickIdle \/ Wakes
  PROVE  CInv'
<1>1. UNCHANGED <<server, peer, link, uplink, inbox>>
  BY DEF ServerTickDead, ServerTickIdle, HandshakeWaits, ClientTickNone, vars,
     ClientTickWild, ClientTickDead, ClientTickIdle, Wakes, objects, net
<1>2. /\ listenPc' = "connecting" => listenPc = "connecting"
      /\ listenPc # "unborn"
  BY DEF ServerTickDead, ServerTickIdle, HandshakeWaits, ClientTickNone, vars,
     ClientTickWild, ClientTickDead, ClientTickIdle, Wakes, ServerTicks, ClientTicks
<1> QED BY <1>1, <1>2, StillCInv

\* A handler that takes a packet and ends in another place than the handshake.
LEMMA TakesCInv ==
  ASSUME IInv, CInv, Lasting, listenPc' # "connecting", Over' => Cause',
         \/ UNCHANGED inbox
         \/ \E p \in Peers : inbox[p] # <<>> /\ inbox' = AfterReceive(p)
  PROVE  CInv'
<1>1. Notices' BY NoticesLeft DEF IInv, CInv
<1> QED BY <1>1, CauseIsEnd DEF CInv, Answered

\* What is known of a notice that is received.
LEMMA ServerNotice ==
  ASSUME IInv, CInv, NEW id \in Gone, ServerReceives(id)
  PROVE  Cause /\ \E g \in GameClients : link[g] = id
<1>1. /\ inbox[Listener] # <<>> /\ Listener \in Peers
      /\ NET_Receive(Listener).id = id /\ NET_Receive(Listener).guid \in GameClients
  BY ServerReceivesFacts DEF IInv
<1>2. inbox[Listener] \in Seq(Packet) BY <1>1 DEF IInv, TypeOK
<1>3. NET_Receive(Listener) = inbox[Listener][1] /\ 1 \in 1..Len(inbox[Listener])
  BY <1>1, <1>2 DEF NET_Receive
<1>4. link[NET_Receive(Listener).guid] = id BY <1>1, <1>3 DEF CInv, Notices
<1> QED BY <1>1, <1>4 DEF Cause

LEMMA ClientNotice ==
  ASSUME IInv, CInv, NEW c \in GameClients, inbox[c] # <<>>,
         NET_Receive(c).id \in Ending
  PROVE  uplink[c] = NET_Receive(c).id
<1>1. inbox[c] \in Seq(Packet) BY DEF IInv, TypeOK, Peers
<1>2. NET_Receive(c) = inbox[c][1] /\ 1 \in 1..Len(inbox[c])
  BY <1>1 DEF NET_Receive
<1> QED BY <1>2 DEF CInv, Notices

\* A cause that connections give stays one, whatever is closed.
LEMMA ConnectionsCause ==
  ASSUME Lasting, Cause, peer[Listener] # "idle", server'.client = server.client
  PROVE  Cause'
BY DEF Lasting, Cause

LEMMA ServerTickNewCInv ==
  ASSUME IInv, CInv, ServerTickNew
  PROVE  CInv'
<1> DEFINE g == NET_Receive(Listener).guid
<1>1. /\ g \in GameClients /\ g # Listener /\ uplink[g] = "none"
      /\ server.pointer = Listener /\ inbox[Listener] # <<>> /\ Listener \in Peers
      /\ server.is_alive
  BY ServerReceivesFacts, NamesDistinct DEF ServerTickNew, IInv
<1>2. /\ server'.client = g /\ server'.is_alive /\ listenPc' = "connecting"
      /\ uplink'[g] \in {"unstarted", "connecting"} /\ UNCHANGED link
      /\ \A c \in GameClients : c # g => uplink'[c] = uplink[c]
      /\ inbox' = AfterReceive(Listener)
  BY <1>1 DEF ServerTickNew, Adopts, IInv, TypeOK
<1>3. Lasting BY <1>1, <1>2 DEF Lasting, Ending
<1>4. Notices' BY <1>1, <1>2, <1>3, NoticesLeft DEF IInv, CInv
<1>5. inbox'[g] = <<>>
  <2>1. inbox[g] = <<>> BY <1>1 DEF IInv, ClientInbox
  <2>2. g \in Peers BY <1>1 DEF Peers
  <2> QED BY <1>1, <1>2, <2>1, <2>2, ReceiptFacts DEF IInv
<1> QED BY <1>2, <1>4, <1>5 DEF CInv, Answered, EndsForCause, Over

LEMMA HandshakeDoneCInv ==
  ASSUME IInv, CInv, HandshakeDone
  PROVE  CInv'
<1> DEFINE c == server.client
<1>1. /\ listenPc = "connecting" /\ listenPc' = "client" /\ server.is_alive
      /\ c \in GameClients /\ c \in Peers /\ client[c].pointer = c
      /\ inbox[c] # <<>> /\ inbox' = AfterReceive(c)
      /\ peer[Listener] = "open"
  BY DEF HandshakeDone, IInv, Phases, HandlesValid, Peers
<1>2. Lasting
  <2>1. \E ps : NET_Close(ps) BY DEF HandshakeDone
  <2> QED BY <2>1, CloseLasts DEF IInv
<1>3. CASE NET_Receive(c).id = "accepted"
  <2>1. server' = server BY <1>1, <1>3 DEF HandshakeDone
  <2>2. ~Over' BY <1>1, <2>1 DEF Over
  <2> QED BY <1>1, <1>2, <2>2, TakesCInv
<1>4. CASE NET_Receive(c).id # "accepted"
  <2>1. NET_Receive(c).id \in Ending BY <1>1, <1>4 DEF CInv, Answered, Ending
  <2>2. uplink[c] \in Ending BY <1>1, <2>1, ClientNotice
  <2>3. server'.client = c
    BY <1>1, <1>4, ClosedKeepsClient DEF HandshakeDone, IInv
  <2>4. Cause' BY <1>1, <1>2, <2>2, <2>3 DEF Lasting, Cause
  <2> QED BY <1>1, <1>2, <2>4, TakesCInv
<1> QED BY <1>3, <1>4

LEMMA ServerEndsCInv ==
  ASSUME IInv, CInv, ServerTickLeft \/ ServerTickLost
  PROVE  CInv'
<1>1. PICK id \in Gone : ServerReceives(id)
  BY DEF ServerTickLeft, ServerTickLost, Gone
<1>2. /\ server.pointer = Listener /\ Listener \in Peers /\ inbox[Listener] # <<>>
      /\ server.is_alive
  BY <1>1, ServerReceivesFacts DEF IInv
<1>3. peer[Listener] # "idle" BY <1>2 DEF IInv, HandlesValid
<1>4. /\ inbox' = AfterReceive(Listener) /\ listenPc' = "stopped"
      /\ \E ps : NET_Close(ps)
  BY <1>2 DEF ServerTickLeft, ServerTickLost
<1>5. Lasting BY <1>4, CloseLasts DEF IInv
<1>6. server'.client = server.client
  BY ClosedKeepsClient DEF ServerTickLeft, ServerTickLost, IInv
<1>7. Cause' BY <1>1, <1>3, <1>5, <1>6, ServerNotice, ConnectionsCause
<1> QED BY <1>2, <1>4, <1>5, <1>7, TakesCInv

LEMMA ClientEndsCInv ==
  ASSUME IInv, CInv, ClientTickLeft \/ ClientTickLost
  PROVE  CInv'
<1> DEFINE c == server.client
<1>1. PICK id \in Gone : ClientReceives(id)
  BY DEF ClientTickLeft, ClientTickLost, Gone
<1>2. /\ c \in GameClients /\ c \in Peers /\ client[c].pointer = c
      /\ inbox[c] # <<>> /\ NET_Receive(c).id \in Ending
  BY <1>1, ClientReceivesFacts DEF Gone, Ending
<1>3. inbox' = AfterReceive(c) /\ listenPc' # "connecting"
  BY <1>2 DEF ClientTickLeft, ClientTickLost
<1>4. Lasting
  <2>1. (\E ps : NET_Close(ps)) \/ UNCHANGED <<link, uplink>>
    BY DEF ClientTickLeft, ClientTickLost, net
  <2> QED BY <2>1, CloseLasts DEF IInv, Lasting
<1>5. server'.client = c
  BY ClosedKeepsClient DEF ClientTickLeft, ClientTickLost, IInv, TypeOK
<1>6. Cause' BY <1>2, <1>4, <1>5, ClientNotice DEF Lasting, Cause
<1> QED BY <1>2, <1>3, <1>4, <1>6, TakesCInv

\* Closing the Client after the Server, in either way.
LEMMA ClosingCInv ==
  ASSUME IInv, CInv, ClosesClient \/ ReportsLost
  PROVE  CInv'
<1>1. /\ listenPc \in {"closing", "reporting"} /\ listenPc' = "stopped"
      /\ UNCHANGED <<server, inbox>> /\ NET_Close(ClientCloses(server.client))
  BY DEF ClosesClient, ReportsLost
<1>2. Listener \notin ClientCloses(server.client)
  BY <1>1, NamesDistinct DEF ClientCloses, IInv, TypeOK, Phases
<1>3. Lasting /\ peer'[Listener] = peer[Listener]
  BY <1>1, <1>2, CloseLasts DEF IInv
<1>4. Over' => Cause'
  BY <1>1, <1>3, CauseLasts, CauseIsEnd DEF Over, CInv
<1> QED BY <1>1, <1>3, <1>4, TakesCInv

LEMMA DataCInv ==
  ASSUME IInv, CInv, ServerTickData \/ ClientTickData
  PROVE  CInv'
<1>1. /\ UNCHANGED <<server, link, uplink>> /\ listenPc' \in {"client", "server"}
  BY DEF ServerTickData, ClientTickData, objects, net
<1>2. server.is_alive
  BY ServerReceivesFacts, ClientReceivesFacts DEF ServerTickData, ClientTickData, IInv
<1>3. \E p \in Peers : inbox[p] # <<>> /\ inbox' = AfterReceive(p)
  <2>1. CASE ServerTickData
    BY <2>1, ServerReceivesFacts DEF ServerTickData, IInv
  <2>2. CASE ClientTickData
    BY <2>2, ClientReceivesFacts DEF ClientTickData
  <2> QED BY <2>1, <2>2
<1>4. Lasting /\ ~Over' BY <1>1, <1>2 DEF Lasting, Over
<1> QED BY <1>1, <1>3, <1>4, TakesCInv

\* What a game client does reaches the Listener's inbox only.
LEMMA GameClientCInv ==
  ASSUME IInv, CInv, NEW g \in GameClients,
         GameClientConnects(g) \/ GameClientSends(g) \/ GameClientGone(g)
  PROVE  CInv'
<1>1. /\ UNCHANGED <<listenPc, server, peer, uplink>>
      /\ \A h \in GameClients : h # g => link'[h] = link[h]
      /\ link[g] \notin Gone
  BY DEF GameClientConnects, GameClientSends, GameClientGone, objects, net, IInv,
     TypeOK, Gone
<1>2. PICK e \in Packet : Arrives(Listener, e) /\ (e.id \in Gone => link'[e.guid] = e.id)
  <2>1. CASE GameClientConnects(g)
    <3>1. Control("new", g) \in Packet /\ Control("new", g).id \notin Gone
      BY DEF Control, Packet, PacketIds, Kinds, Gone
    <3> QED BY <2>1, <3>1 DEF GameClientConnects
  <2>2. CASE GameClientSends(g)
    <3>1. upSent[g] + 1 \in Nat BY DEF IInv, TypeOK
    <3>2. /\ Data(g, upSent[g] + 1, "plain") \in Packet
          /\ Data(g, upSent[g] + 1, "plain").id \notin Gone
      BY <3>1 DEF Data, Packet, PacketIds, Kinds, Gone
    <3> QED BY <2>2, <3>2 DEF GameClientSends
  <2>3. CASE GameClientGone(g)
    <3>1. PICK how \in Gone : link' = [link EXCEPT ![g] = how]
                              /\ Arrives(Listener, Control(how, g))
      BY <2>3 DEF GameClientGone, Gone
    <3>2. Control(how, g) \in Packet /\ Control(how, g).guid = g
      BY <3>1 DEF Control, Packet, PacketIds, Kinds, Gone
    <3>3. link'[g] = how BY <3>1 DEF IInv, TypeOK
    <3>4. Control(how, g).id = how BY DEF Control
    <3> QED BY <3>1, <3>2, <3>3, <3>4
  <2> QED BY <2>1, <2>2, <2>3
<1>3. Lasting BY <1>1 DEF Lasting
<1>4. Listener \in Peers /\ GameClients \subseteq Peers BY DEF Peers
<1>5. Notices' BY <1>2, <1>3, <1>4, NoticesArrive DEF IInv, CInv
<1>6. \A c \in GameClients : inbox'[c] = inbox[c]
  BY <1>2, <1>4, ArrivalFacts, NamesDistinct DEF IInv
<1>7. Answered'
  <2>1. listenPc = "connecting" => server.client \in GameClients
    BY DEF IInv, HandlesValid
  <2> QED BY <1>1, <1>6, <2>1 DEF CInv, Answered, NET_Receive
<1>8. EndsForCause'
  BY <1>1, <1>3, CauseLasts, CauseIsEnd DEF CInv, Over
<1> QED BY <1>5, <1>7, <1>8 DEF CInv

\* What the game server does reaches the inbox of the session's Client.
LEMMA GameServerCInv ==
  ASSUME IInv, CInv, NEW c \in GameClients,
         AttemptEnds(c) \/ GameServerSends(c) \/ GameServerGone(c)
  PROVE  CInv'
<1>1. /\ UNCHANGED <<listenPc, server, peer, link>>
      /\ \A d \in GameClients : d # c => uplink'[d] = uplink[d]
      /\ uplink[c] \in {"connecting", "up"}
      /\ uplink'[c] \notin {"none", "unstarted", "connecting"}
  BY DEF AttemptEnds, GameServerSends, GameServerGone, objects, net, IInv, TypeOK
<1>2. PICK e \in Packet : /\ Arrives(c, e)
                          /\ e.id \in Ending => uplink'[c] = e.id
                          /\ uplink[c] = "connecting" => e.id \in {"accepted", "refused"}
  <2>1. CASE AttemptEnds(c)
    <3>1. /\ Control("accepted", GameServer) \in Packet
          /\ Control("refused", Wild) \in Packet
          /\ Control("accepted", GameServer).id = "accepted"
          /\ Control("refused", Wild).id = "refused"
      BY DEF Control, Packet, PacketIds, Kinds
    <3>2. uplink \in [GameClients -> {"none", "unstarted", "connecting", "refused",
                                     "up", "left", "lost", "closed"}]
      BY DEF IInv, TypeOK
    <3> QED BY <2>1, <3>1, <3>2 DEF AttemptEnds, Ending
  <2>2. CASE GameServerSends(c)
    <3>1. PICK kind \in Kinds : Arrives(c, Data(GameServer, Len(downSent[c]) + 1, kind))
      BY <2>2 DEF GameServerSends, Kinds
    <3>2. Len(downSent[c]) + 1 \in Nat BY DEF IInv, TypeOK
    <3>3. /\ Data(GameServer, Len(downSent[c]) + 1, kind) \in Packet
          /\ Data(GameServer, Len(downSent[c]) + 1, kind).id = "data"
      BY <3>2 DEF Data, Packet, PacketIds
    <3> QED BY <2>2, <3>1, <3>3 DEF GameServerSends, Ending
  <2>3. CASE GameServerGone(c)
    <3>1. PICK how \in Gone : uplink' = [uplink EXCEPT ![c] = how]
                              /\ Arrives(c, Control(how, GameServer))
      BY <2>3 DEF GameServerGone, Gone
    <3>2. Control(how, GameServer) \in Packet
      BY <3>1 DEF Control, Packet, PacketIds, Kinds, Gone
    <3>3. uplink'[c] = how /\ Control(how, GameServer).id = how
      BY <3>1 DEF IInv, TypeOK, Control
    <3> QED BY <2>3, <3>1, <3>2, <3>3 DEF GameServerGone
  <2> QED BY <2>1, <2>2, <2>3
<1>3. Lasting BY <1>1 DEF Lasting, Ending
<1>4. c \in Peers /\ c # Listener /\ GameClients \subseteq Peers
  BY NamesDistinct DEF Peers
<1>5. Notices' BY <1>2, <1>3, <1>4, NoticesArrive DEF IInv, CInv
<1>6. /\ \A d \in GameClients : d # c => inbox'[d] = inbox[d]
      /\ inbox'[c] # <<>>
      /\ Head(inbox'[c]) = IF inbox[c] = <<>> THEN e ELSE Head(inbox[c])
  BY <1>2, <1>4, ArrivalFacts DEF IInv
<1>7. Answered'
  <2>1. CASE listenPc = "connecting" /\ server.client = c
    <3>1. NET_Receive(c)' = Head(inbox'[c]) /\ NET_Receive(c) = Head(inbox[c])
      BY DEF NET_Receive
    <3>2. Head(inbox'[c]).id \in {"accepted", "refused"}
      BY <1>1, <1>2, <1>6, <2>1, <3>1 DEF CInv, Answered
    <3> QED BY <1>1, <1>6, <2>1, <3>2 DEF Answered, NET_Receive
  <2>2. CASE listenPc = "connecting" /\ server.client # c
    <3>1. server.client \in GameClients BY <2>2 DEF IInv, HandlesValid
    <3> QED BY <1>1, <1>6, <2>2, <3>1 DEF CInv, Answered, NET_Receive
  <2>3. CASE listenPc # "connecting" BY <1>1, <2>3 DEF Answered
  <2> QED BY <2>1, <2>2, <2>3
<1>8. EndsForCause'
  BY <1>1, <1>3, CauseLasts, CauseIsEnd DEF CInv, Over
<1> QED BY <1>5, <1>7, <1>8 DEF CInv

-----------------------------------------------------------------------------
(* The theorems.                                                           *)

LEMMA StepCInv ==
  ASSUME IInv, CInv, [Next]_vars
  PROVE  CInv'
<1>1. CASE Main BY <1>1, MainCInv
<1>2. CASE ListenThread
  BY <1>2, MovesCInv, ServerTickNewCInv, HandshakeDoneCInv, ServerEndsCInv,
     ClientEndsCInv, ClosingCInv, DataCInv DEF ListenThread, ServerTick, ClientTick
<1>3. CASE Outside BY <1>3, GameClientCInv, GameServerCInv DEF Outside
<1>4. CASE UNCHANGED vars
  BY <1>4, StillCInv DEF vars, objects, net
<1> QED BY <1>1, <1>2, <1>3, <1>4 DEF Next, Ended

\* The strengthening holds in every reachable state.
THEOREM CausesInvariance == Spec => []CInv
<1>1. IInv /\ CInv /\ [Next]_vars => CInv' BY StepCInv
<1> QED BY InitCInv, Invariance, <1>1, PTL DEF Spec

\* The proxy gives up no session without a cause: it could not listen, or some
\* game client went away, or some session's game server refused or went away
\* (server.cpp:53-67, client.cpp:8-9).
THEOREM EndsOnlyForCause == Spec => []EndsForCause
<1>1. CInv => EndsForCause BY DEF CInv
<1> QED BY CausesInvariance, <1>1, PTL

-----------------------------------------------------------------------------
(* The connection to the game server is released.                          *)

\* Past its handshake a session's attempt has ended.
Settled == listenPc # "connecting" /\ server.client \in GameClients =>
             uplink[server.client] # "connecting"

\* Where the loop may still be when the Server is closed: it never had a Client,
\* or its session never came up, or the game server went away.
ClosedEarly ==
  /\ ~server.is_alive /\ listenPc \in {"server", "sleep"} =>
       server.client \notin GameClients
  /\ ~server.is_alive /\ listenPc = "client" => uplink[server.client] # "up"
  /\ listenPc \in {"closing", "reporting"} => uplink[server.client] \in Ending

ReleaseInv == Settled /\ ClosedEarly /\ UplinkReleased

LEMMA InitReleaseInv == Init => ReleaseInv
BY NamesDistinct DEF Init, ReleaseInv, Settled, ClosedEarly, UplinkReleased

\* Steps of others than the listening thread: a connection may only go down.
LEMMA ElsewhereReleaseInv ==
  ASSUME IInv, ReleaseInv, UNCHANGED <<listenPc, server>>,
         \A g \in GameClients : link[g] = "lost" => link'[g] = "lost",
         \A c \in GameClients :
           \/ uplink'[c] = uplink[c]
           \/ uplink[c] = "connecting" /\ uplink'[c] # "connecting"
           \/ uplink[c] = "up" /\ uplink'[c] \in Ending
  PROVE  ReleaseInv'
BY DEF ReleaseInv, Settled, ClosedEarly, UplinkReleased, Ending, IInv, Phases

LEMMA OutsideReleaseInv ==
  ASSUME IInv, ReleaseInv, Outside \/ UNCHANGED vars
  PROVE  ReleaseInv'
<1>1. ASSUME NEW g \in GameClients,
             GameClientConnects(g) \/ GameClientSends(g) \/ GameClientGone(g)
      PROVE  ReleaseInv'
  <2>1. /\ UNCHANGED <<listenPc, server, uplink>>
        /\ \A h \in GameClients : link[h] = "lost" => link'[h] = "lost"
    BY <1>1 DEF GameClientConnects, GameClientSends, GameClientGone, objects, net,
       IInv, TypeOK
  <2> QED BY <2>1, ElsewhereReleaseInv
<1>2. ASSUME NEW c \in GameClients,
             AttemptEnds(c) \/ GameServerSends(c) \/ GameServerGone(c)
      PROVE  ReleaseInv'
  <2>1. /\ UNCHANGED <<listenPc, server, link>>
        /\ \A d \in GameClients : d # c => uplink'[d] = uplink[d]
        /\ \/ uplink'[c] = uplink[c]
           \/ uplink[c] = "connecting" /\ uplink'[c] # "connecting"
           \/ uplink[c] = "up" /\ uplink'[c] \in Ending
    BY <1>2 DEF AttemptEnds, GameServerSends, GameServerGone, objects, net, IInv,
       TypeOK, Ending
  <2> QED BY <2>1, ElsewhereReleaseInv
<1>3. CASE UNCHANGED vars
  BY <1>3, ElsewhereReleaseInv DEF vars, objects, net
<1> QED BY <1>1, <1>2, <1>3 DEF Outside

LEMMA MainReleaseInv ==
  ASSUME IInv, ReleaseInv, Main
  PROVE  ReleaseInv'
<1>1. CASE StartServer
  <2>1. listenPc' = "server" /\ server'.client \in Junk
    BY <1>1 DEF StartServer
  <2> QED BY <2>1, NamesDistinct, JunkUndesignated
          DEF ReleaseInv, Settled, ClosedEarly, UplinkReleased
<1>2. CASE InitThrows \/ Polls \/ Returns \/ ProcessEnds
  BY <1>2, ElsewhereReleaseInv
     DEF InitThrows, Polls, Returns, ProcessEnds, vars, objects, net
<1> QED BY <1>1, <1>2 DEF Main

\* A pass of the loop goes on only while the Server is open, or without a Client.
LEMMA MovesReleaseInv ==
  ASSUME IInv, ReleaseInv,
         \/ ServerTickDead \/ ServerTickIdle \/ HandshakeWaits \/ ClientTickNone
         \/ ClientTickWild \/ ClientTickDead \/ ClientTickIdle \/ Wakes
         \/ ServerTickData \/ ClientTickData
  PROVE  ReleaseInv'
<1>1. UNCHANGED <<server, link, uplink>>
  BY DEF ServerTickDead, ServerTickIdle, HandshakeWaits, ClientTickNone, vars,
     ClientTickWild, ClientTickDead, ClientTickIdle, Wakes, ServerTickData,
     ClientTickData, objects, net
<1>2. CASE ServerTickDead
  BY <1>1, <1>2
     DEF ServerTickDead, ServerTicks, ReleaseInv, Settled, ClosedEarly, UplinkReleased
<1>3. CASE ServerTickIdle \/ ServerTickData
  <2>1. listenPc = "server" /\ listenPc' = "client" /\ server.is_alive
    BY <1>3, ServerReceivesFacts DEF ServerTickIdle, ServerTickData, ServerTicks, IInv
  <2> QED BY <1>1, <2>1 DEF ReleaseInv, Settled, ClosedEarly, UplinkReleased
<1>4. CASE HandshakeWaits \/ ClientTickWild
  <2>1. UNCHANGED <<listenPc, server>>
    BY <1>4 DEF HandshakeWaits, ClientTickWild, vars, objects
  <2> QED BY <1>1, <2>1, ElsewhereReleaseInv
<1>5. CASE ClientTickNone
  <2>1. listenPc = "client" /\ listenPc' = "server" /\ server.client \notin GameClients
    BY <1>5, NamesDistinct DEF ClientTickNone, ClientTicks
  <2> QED BY <1>1, <2>1 DEF ReleaseInv, Settled, ClosedEarly, UplinkReleased
<1>6. CASE ClientTickDead
  <2>1. /\ listenPc = "client" /\ listenPc' = "stopped" /\ server.client \in GameClients
        /\ ~client[server.client].is_connected
    BY <1>6 DEF ClientTickDead, ClientTicks
  <2>2. ~server.is_alive BY <2>1 DEF IInv, Paired
  <2> QED BY <1>1, <2>1, <2>2 DEF ReleaseInv, Settled, ClosedEarly, UplinkReleased
<1>7. CASE ClientTickIdle \/ ClientTickData
  <2>1. /\ listenPc = "client" /\ listenPc' \in {"server", "sleep"}
        /\ server.client \in GameClients /\ client[server.client].is_connected
    BY <1>7, ClientReceivesFacts DEF ClientTickIdle, ClientTickData, ClientTicks
  <2>2. server.is_alive BY <2>1 DEF IInv, Phases
  <2> QED BY <1>1, <2>1, <2>2 DEF ReleaseInv, Settled, ClosedEarly, UplinkReleased
<1>8. CASE Wakes
  BY <1>1, <1>8 DEF Wakes, ReleaseInv, Settled, ClosedEarly, UplinkReleased
<1> QED BY <1>2, <1>3, <1>4, <1>5, <1>6, <1>7, <1>8

LEMMA HandshakeReleaseInv ==
  ASSUME IInv, CInv, ReleaseInv, ServerTickNew \/ HandshakeDone
  PROVE  ReleaseInv'
<1>1. CASE ServerTickNew
  <2>1. listenPc' = "connecting" BY <1>1 DEF ServerTickNew
  <2> QED BY <2>1 DEF ReleaseInv, Settled, ClosedEarly, UplinkReleased
<1>2. CASE HandshakeDone
  <2> DEFINE c == server.client
  <2>1. /\ listenPc = "connecting" /\ listenPc' = "client" /\ server.is_alive
        /\ c \in GameClients /\ client[c].pointer = c /\ inbox[c] # <<>>
        /\ server.pointer = Listener
    BY <1>2 DEF HandshakeDone, IInv, Phases, HandlesValid
  <2>2. c \notin ServerCloses BY <2>1, NamesDistinct DEF ServerCloses
  <2>3. server'.client = c /\ uplink'[c] = uplink[c]
    BY <1>2, <2>1, <2>2 DEF HandshakeDone, NET_Close, ServerClosed, IInv, TypeOK
  <2>4. uplink[c] # "connecting" BY <2>1 DEF CInv, Answered
  <2>5. ~server'.is_alive => uplink[c] # "up"
    <3>1. CASE NET_Receive(c).id = "accepted"
      BY <1>2, <2>1, <3>1 DEF HandshakeDone
    <3>2. CASE NET_Receive(c).id # "accepted"
      <4>1. NET_Receive(c).id \in Ending BY <2>1, <3>2 DEF CInv, Answered, Ending
      <4> QED BY <2>1, <4>1, ClientNotice DEF Ending
    <3> QED BY <3>1, <3>2
  <2> QED BY <2>1, <2>3, <2>4, <2>5 DEF ReleaseInv, Settled, ClosedEarly, UplinkReleased
<1> QED BY <1>1, <1>2

\* The game client of some session left: its Client is closed along with the Server.
LEMMA ServerTickLeftReleaseInv ==
  ASSUME IInv, CInv, ReleaseInv, ServerTickLeft
  PROVE  ReleaseInv'
<1> DEFINE c == server.client
<1>1. /\ server.pointer = Listener /\ server.is_alive /\ c \in GameClients
      /\ client[c].is_connected /\ listenPc = "server"
  BY ServerReceivesFacts DEF ServerTickLeft, IInv
<1>2. client[c].pointer = c BY <1>1 DEF IInv, HandlesValid
<1>3. c \in ClientCloses(c) BY <1>1, <1>2, NamesDistinct DEF ClientCloses
<1>4. listenPc' = "stopped" /\ server'.client = c
  BY <1>1 DEF ServerTickLeft, ServerClosed, IInv, TypeOK
<1>5. uplink'[c] \notin {"connecting", "up"}
  BY <1>1, <1>3 DEF ServerTickLeft, NET_Close
<1> QED BY <1>4, <1>5 DEF ReleaseInv, Settled, ClosedEarly, UplinkReleased

\* A connection to a game client was lost: the Client is left as it is.
LEMMA ServerTickLostReleaseInv ==
  ASSUME IInv, CInv, ReleaseInv, ServerTickLost
  PROVE  ReleaseInv'
<1> DEFINE c == server.client
<1>1. /\ server.pointer = Listener /\ server.is_alive /\ c \in GameClients
      /\ listenPc = "server" /\ \E g \in GameClients : link[g] = "lost"
  BY ServerReceivesFacts, ServerNotice DEF ServerTickLost, IInv, Gone
<1>2. c \notin ServerCloses BY <1>1, NamesDistinct DEF ServerCloses
<1>3. /\ listenPc' = "stopped" /\ server'.client = c /\ uplink'[c] = uplink[c]
      /\ \E g \in GameClients : link'[g] = "lost"
  BY <1>1, <1>2 DEF ServerTickLost, ServerClosed, NET_Close, IInv, TypeOK
<1> QED BY <1>1, <1>3 DEF ReleaseInv, Settled, ClosedEarly, UplinkReleased

\* The game server of the session went away.
LEMMA ClientEndsReleaseInv ==
  ASSUME IInv, CInv, ReleaseInv,
         ClientTickLeft \/ ClosesClient \/ ClientTickLost \/ ReportsLost
  PROVE  ReleaseInv'
<1> DEFINE c == server.client
<1>1. CASE ClientTickLeft \/ ClientTickLost
  <2>1. PICK id \in Gone : ClientReceives(id)
    BY <1>1 DEF ClientTickLeft, ClientTickLost, Gone
  <2>2. /\ c \in GameClients /\ inbox[c] # <<>> /\ NET_Receive(c).id \in Ending
    BY <2>1, ClientReceivesFacts DEF Gone, Ending
  <2>3. uplink[c] \in Ending BY <2>2, ClientNotice
  <2>4. uplink'[c] = uplink[c]
    BY <1>1, <2>2, <2>3 DEF ClientTickLeft, ClientTickLost, NET_Close, net, Ending
  <2>5. server'.client = c /\ listenPc' \in {"closing", "reporting"}
    BY <1>1 DEF ClientTickLeft, ClientTickLost, ServerClosed, IInv, TypeOK
  <2> QED BY <2>3, <2>4, <2>5
          DEF ReleaseInv, Settled, ClosedEarly, UplinkReleased, Ending
<1>2. CASE ClosesClient \/ ReportsLost
  <2>1. /\ listenPc \in {"closing", "reporting"} /\ listenPc' = "stopped"
        /\ UNCHANGED server /\ NET_Close(ClientCloses(c))
    BY <1>2 DEF ClosesClient, ReportsLost
  <2>2. c \in GameClients /\ uplink[c] \in Ending
    BY <2>1 DEF IInv, Phases, ReleaseInv, ClosedEarly
  <2>3. uplink'[c] = uplink[c] BY <2>1, <2>2 DEF NET_Close, Ending
  <2> QED BY <2>1, <2>2, <2>3
          DEF ReleaseInv, Settled, ClosedEarly, UplinkReleased, Ending
<1> QED BY <1>1, <1>2

\* The listening thread leaves no connection to the running session's game server
\* open, except by the exit of a lost game client (server.cpp:79).
THEOREM UplinkIsReleased == Spec => []UplinkReleased
<1>1. IInv /\ CInv /\ ReleaseInv /\ [Next]_vars => ReleaseInv'
  <2> SUFFICES ASSUME IInv, CInv, ReleaseInv, [Next]_vars PROVE ReleaseInv' OBVIOUS
  <2>1. CASE Main BY <2>1, MainReleaseInv
  <2>2. CASE ListenThread
    BY <2>2, MovesReleaseInv, HandshakeReleaseInv, ServerTickLeftReleaseInv,
       ServerTickLostReleaseInv, ClientEndsReleaseInv
    DEF ListenThread, ServerTick, ClientTick
  <2>3. CASE Outside \/ UNCHANGED vars BY <2>3, OutsideReleaseInv
  <2> QED BY <2>1, <2>2, <2>3 DEF Next, Ended
<1>2. ReleaseInv => UplinkReleased BY DEF ReleaseInv
<1> QED BY InitReleaseInv, Invariance, CausesInvariance, <1>1, <1>2, PTL DEF Spec

-----------------------------------------------------------------------------
(* What a session delivers: the refinement of Relay.                       *)

\* One if the queue q begins with what its connection begins with.
Opening == {"new", "accepted"}
Greeting(q) == IF q # <<>> /\ q[1].id \in Opening THEN 1 ELSE 0

\* The data packets of the queue q are what comes, in what was sent, behind what
\* came out, without a gap.
Pending(q, out, sent) ==
  \A i \in 1..Len(q) :
    /\ q[i].id \in Opening => i = 1
    /\ q[i].id = "data" => /\ q[i].n = Len(out) + i - Greeting(q)
                           /\ q[i].n \in 1..Len(sent)
                           /\ q[i].kind = sent[q[i].n]

\* A session that was not begun has sent and received nothing.
Fresh(c) == uplink[c] = "none" => downSent[c] = <<>> /\ downLog[c] = <<>>

\* The queue of a session whose game client is there takes up where the game
\* client is, and ends, while the game server is there too, with its last packet.
InStep(c) ==
  ~Over /\ link[c] = "up" =>
    /\ Pending(inbox[c], downLog[c], downSent[c])
    /\ uplink[c] = "up" =>
         Len(downSent[c]) = Len(downLog[c]) + Len(inbox[c]) - Greeting(inbox[c])
    /\ uplink[c] \in {"unstarted", "connecting"} =>
         downSent[c] = <<>> /\ downLog[c] = <<>> /\ inbox[c] = <<>>
    /\ uplink[c] = "connecting" \/ Greeting(inbox[c]) = 1 =>
         listenPc = "connecting" /\ server.client = c

RInv == \A c \in GameClients : Fresh(c) /\ InStep(c)

-----------------------------------------------------------------------------
(* Queues.                                                                 *)

\* Receiving an answer moves the data up by one and the greeting away.
LEMMA PendingGreeted ==
  ASSUME NEW q \in Seq(Packet), q # <<>>, NEW r \in Seq(Packet),
         Len(r) = Len(q) - 1, \A i \in 1..Len(r) : r[i] = q[i + 1],
         NEW out \in Seq(Message), NEW sent \in Seq(Kinds),
         Pending(q, out, sent), Greeting(q) = 1
  PROVE  Pending(r, out, sent) /\ Greeting(r) = 0
<1>1. Greeting(r) = 0
  <2>1. r # <<>> => 1 \in 1..Len(r) /\ 2 \in 1..Len(q) /\ r[1] = q[2] OBVIOUS
  <2>2. r # <<>> => r[1].id \notin Opening BY <2>1 DEF Pending
  <2> QED BY <2>2 DEF Greeting
<1>2. Len(out) \in Nat /\ Len(q) \in Nat OBVIOUS
<1>3. ASSUME NEW i \in 1..Len(r)
      PROVE  /\ r[i].id \notin Opening
             /\ r[i].id = "data" => /\ r[i].n = Len(out) + i - 0
                                    /\ r[i].n \in 1..Len(sent)
                                    /\ r[i].kind = sent[r[i].n]
  <2>1. i + 1 \in 1..Len(q) /\ r[i] = q[i + 1] /\ i + 1 # 1 OBVIOUS
  <2>2. /\ q[i + 1].id \in Opening => i + 1 = 1
        /\ q[i + 1].id = "data" => /\ q[i + 1].n = Len(out) + (i + 1) - 1
                                   /\ q[i + 1].n \in 1..Len(sent)
                                   /\ q[i + 1].kind = sent[q[i + 1].n]
    BY <2>1 DEF Pending
  <2>3. Len(out) + (i + 1) - 1 = Len(out) + i - 0 BY <1>2
  <2> QED BY <2>1, <2>2, <2>3
<1> QED BY <1>1, <1>3 DEF Pending

\* Receiving data, and sending it on, moves both on.
LEMMA PendingTaken ==
  ASSUME NEW q \in Seq(Packet), q # <<>>, NEW r \in Seq(Packet),
         Len(r) = Len(q) - 1, \A i \in 1..Len(r) : r[i] = q[i + 1],
         NEW out \in Seq(Message), NEW after \in Seq(Message),
         Len(after) = Len(out) + 1, NEW sent \in Seq(Kinds),
         Pending(q, out, sent), Greeting(q) = 0
  PROVE  Pending(r, after, sent) /\ Greeting(r) = 0
<1>1. Greeting(r) = 0
  <2>1. r # <<>> => 1 \in 1..Len(r) /\ 2 \in 1..Len(q) /\ r[1] = q[2] OBVIOUS
  <2>2. r # <<>> => r[1].id \notin Opening BY <2>1 DEF Pending
  <2> QED BY <2>2 DEF Greeting
<1>2. Len(out) \in Nat /\ Len(q) \in Nat OBVIOUS
<1>3. ASSUME NEW i \in 1..Len(r)
      PROVE  /\ r[i].id \notin Opening
             /\ r[i].id = "data" => /\ r[i].n = Len(after) + i - 0
                                    /\ r[i].n \in 1..Len(sent)
                                    /\ r[i].kind = sent[r[i].n]
  <2>1. i + 1 \in 1..Len(q) /\ r[i] = q[i + 1] /\ i + 1 # 1 OBVIOUS
  <2>2. /\ q[i + 1].id \in Opening => i + 1 = 1
        /\ q[i + 1].id = "data" => /\ q[i + 1].n = Len(out) + (i + 1) - 0
                                   /\ q[i + 1].n \in 1..Len(sent)
                                   /\ q[i + 1].kind = sent[q[i + 1].n]
    BY <2>1 DEF Pending
  <2>3. Len(out) + (i + 1) - 0 = Len(after) + i - 0 BY <1>2
  <2> QED BY <2>1, <2>2, <2>3
<1> QED BY <1>1, <1>3 DEF Pending

\* The packet e goes behind q, which makes r, and what was sent becomes more.
Arrived(e, q, r, out, sent, more) ==
  /\ Len(r) = Len(q) + 1 /\ \A i \in 1..Len(q) : r[i] = q[i]
  /\ r[Len(q) + 1] = e
  /\ Len(sent) <= Len(more) /\ \A i \in 1..Len(sent) : more[i] = sent[i]
  /\ e.id \in Opening => q = <<>>
  /\ e.id = "data" => /\ e.n = Len(out) + Len(q) + 1 - Greeting(q)
                      /\ e.n \in 1..Len(more) /\ e.kind = more[e.n]

\* A packet that arrives continues the queue.
LEMMA PendingArrived ==
  ASSUME NEW q \in Seq(Packet), NEW r \in Seq(Packet), NEW e \in Packet,
         NEW out \in Seq(Message), NEW sent \in Seq(Kinds), NEW more \in Seq(Kinds),
         Pending(q, out, sent), Arrived(e, q, r, out, sent, more)
  PROVE  /\ Pending(r, out, more)
         /\ e.id \notin Opening => Greeting(r) = Greeting(q)
         /\ e.id \in Opening => Greeting(r) = 1
<1>0. /\ Len(r) = Len(q) + 1 /\ \A i \in 1..Len(q) : r[i] = q[i]
      /\ r[Len(q) + 1] = e
      /\ Len(sent) <= Len(more) /\ \A i \in 1..Len(sent) : more[i] = sent[i]
      /\ e.id \in Opening => q = <<>>
      /\ e.id = "data" => /\ e.n = Len(out) + Len(q) + 1 - Greeting(q)
                          /\ e.n \in 1..Len(more) /\ e.kind = more[e.n]
  BY DEF Arrived
<1>1. Len(out) \in Nat /\ Len(q) \in Nat /\ Len(sent) \in Nat /\ Len(more) \in Nat
  OBVIOUS
<1>2. /\ r # <<>>
      /\ q # <<>> => 1 \in 1..Len(q) /\ r[1] = q[1]
      /\ q = <<>> => r[1] = e
  BY <1>0, <1>1
<1>3. /\ e.id \notin Opening => Greeting(r) = Greeting(q)
      /\ e.id \in Opening => Greeting(r) = 1 /\ q = <<>>
  BY <1>0, <1>2 DEF Greeting
<1>4. ASSUME NEW i \in 1..Len(r)
      PROVE  /\ r[i].id \in Opening => i = 1
             /\ r[i].id = "data" => /\ r[i].n = Len(out) + i - Greeting(r)
                                    /\ r[i].n \in 1..Len(more)
                                    /\ r[i].kind = more[r[i].n]
  <2>1. CASE i = Len(q) + 1
    <3>1. r[i] = e BY <1>0, <2>1
    <3>2. e.id \in Opening => i = 1 BY <1>3, <2>1
    <3>3. CASE e.id = "data"
      <4>1. Greeting(r) = Greeting(q) BY <3>3, <1>3 DEF Opening
      <4>2. Greeting(q) \in {0, 1} BY DEF Greeting
      <4>3. \A l, m \in Nat : \A g \in {0, 1} : l + m + 1 - g = l + (m + 1) - g
        OBVIOUS
      <4>4. e.n = Len(out) + Len(q) + 1 - Greeting(q) BY <1>0, <3>3
      <4>5. Len(out) + Len(q) + 1 - Greeting(q) = Len(out) + (Len(q) + 1) - Greeting(q)
        BY <1>1, <4>2, <4>3
      <4>6. e.n = Len(out) + i - Greeting(r) BY <2>1, <4>1, <4>4, <4>5
      <4> QED BY <1>0, <3>1, <3>3, <4>6
    <3> QED BY <3>1, <3>2, <3>3
  <2>2. CASE i # Len(q) + 1
    <3>1. i \in 1..Len(q) /\ r[i] = q[i] BY <1>0, <1>1, <2>2
    <3>2. q # <<>> BY <3>1
    <3>3. Greeting(r) = Greeting(q) BY <1>3, <3>2
    <3>4. /\ q[i].id \in Opening => i = 1
          /\ q[i].id = "data" => /\ q[i].n = Len(out) + i - Greeting(q)
                                 /\ q[i].n \in 1..Len(sent)
                                 /\ q[i].kind = sent[q[i].n]
      BY <3>1 DEF Pending
    <3>5. \A n \in 1..Len(sent) : n \in 1..Len(more) /\ more[n] = sent[n] BY <1>0, <1>1
    <3> QED BY <3>1, <3>3, <3>4, <3>5
  <2> QED BY <2>1, <2>2
<1> QED BY <1>3, <1>4 DEF Pending

-----------------------------------------------------------------------------
(* Each action keeps RInv.                                                 *)

LEMMA InitRInv == Init => RInv
BY NamesDistinct DEF Init, RInv, Fresh, InStep, Pending, Greeting, Peers

\* A session that a step leaves alone.
LEMMA KeptRInv ==
  ASSUME NEW c \in GameClients, Fresh(c), InStep(c),
         inbox'[c] = inbox[c], downSent'[c] = downSent[c], downLog'[c] = downLog[c],
         uplink'[c] = uplink[c], link'[c] = "up" => link[c] = "up",
         ~Over' => ~Over,
         listenPc = "connecting" /\ server.client = c /\ ~Over' =>
           listenPc' = "connecting" /\ server'.client = c
  PROVE  Fresh(c)' /\ InStep(c)'
<1>1. Fresh(c)' BY DEF Fresh
<1>2. InStep(c)' BY DEF InStep
<1> QED BY <1>1, <1>2

\* Once the proxy shuts down nothing more is sent on.
LEMMA OverRInv ==
  ASSUME RInv, Over', UNCHANGED <<downSent, downLog>>,
         \A c \in GameClients : uplink'[c] = "none" => uplink[c] = "none"
  PROVE  RInv'
BY DEF RInv, Fresh, InStep

\* Steps that leave the sessions alone, and the handshake where it is.
LEMMA StillRInv ==
  ASSUME RInv, UNCHANGED <<link, uplink, downSent, downLog>>,
         \A c \in GameClients : inbox'[c] = inbox[c],
         ~Over' => ~Over,
         listenPc = "connecting" => listenPc' = "connecting" /\ server' = server
  PROVE  RInv'
<1> SUFFICES ASSUME NEW c \in GameClients PROVE Fresh(c)' /\ InStep(c)'
  BY DEF RInv
<1> QED BY KeptRInv DEF RInv

LEMMA MainRInv ==
  ASSUME IInv, RInv, Main
  PROVE  RInv'
<1>1. CASE StartServer
  <2>1. listenPc = "unborn" BY <1>1 DEF StartServer, IInv, Phases
  <2> QED BY <1>1, <2>1, StillRInv DEF StartServer, traffic, Over
<1>2. CASE InitThrows \/ Polls \/ Returns \/ ProcessEnds
  BY <1>2, StillRInv DEF InitThrows, Polls, Returns, ProcessEnds, vars, objects, net,
     traffic, Over
<1> QED BY <1>1, <1>2 DEF Main

\* The steps of the listening thread that only move it on.
LEMMA MovesRInv ==
  ASSUME RInv,
         \/ ServerTickDead \/ ServerTickIdle \/ HandshakeWaits \/ ClientTickNone
         \/ ClientTickWild \/ ClientTickDead \/ ClientTickIdle \/ Wakes
  PROVE  RInv'
<1>1. /\ UNCHANGED <<server, link, uplink, inbox, downSent, downLog>>
      /\ listenPc' # "unborn" /\ listenPc # "unborn"
      /\ listenPc = "connecting" => listenPc' = "connecting"
  BY DEF ServerTickDead, ServerTickIdle, HandshakeWaits, ClientTickNone, vars,
     ClientTickWild, ClientTickDead, ClientTickIdle, Wakes, objects, net, traffic,
     ServerTicks, ClientTicks
<1> QED BY <1>1, StillRInv DEF Over

LEMMA ServerTickNewRInv ==
  ASSUME IInv, RInv, ServerTickNew
  PROVE  RInv'
<1>0. /\ NET_Receive(Listener).guid \in GameClients
      /\ uplink[NET_Receive(Listener).guid] = "none"
      /\ server.pointer = Listener /\ inbox[Listener] # <<>> /\ Listener \in Peers
      /\ server.is_alive /\ listenPc = "server"
  BY ServerReceivesFacts DEF ServerTickNew, IInv
<1>1. PICK g \in GameClients : g = NET_Receive(Listener).guid BY <1>0
<1>2. /\ server'.client = g /\ listenPc' = "connecting"
      /\ uplink'[g] \in {"unstarted", "connecting"}
      /\ UNCHANGED <<link, downSent, downLog>>
      /\ \A c \in GameClients : c # g => uplink'[c] = uplink[c]
      /\ inbox' = AfterReceive(Listener)
  BY <1>0, <1>1 DEF ServerTickNew, Adopts, IInv, TypeOK, traffic
<1>3. \A c \in GameClients : inbox'[c] = inbox[c]
  <2>1. \A c \in GameClients : c \in Peers /\ c # Listener BY NamesDistinct DEF Peers
  <2> QED BY <1>0, <1>2, <2>1, ReceiptFacts DEF IInv
<1>4. ~Over BY <1>0 DEF Over
<1>5. Fresh(g)' /\ InStep(g)'
  <2>1. inbox'[g] = <<>> /\ downSent'[g] = <<>> /\ downLog'[g] = <<>>
    BY <1>0, <1>1, <1>2, <1>3 DEF IInv, ClientInbox, RInv, Fresh
  <2>2. Fresh(g)' BY <2>1 DEF Fresh
  <2>3. InStep(g)' BY <1>2, <2>1 DEF InStep, Pending, Greeting
  <2> QED BY <2>2, <2>3
<1>6. ASSUME NEW c \in GameClients, c # g PROVE Fresh(c)' /\ InStep(c)'
  BY <1>0, <1>2, <1>3, <1>4, <1>6, KeptRInv DEF RInv
<1> QED BY <1>5, <1>6 DEF RInv

\* What the queue of a Client is after it has received.
LEMMA ClientQueue ==
  ASSUME IInv, NEW c \in GameClients, inbox[c] # <<>>, inbox' = AfterReceive(c)
  PROVE  /\ inbox[c] \in Seq(Packet) /\ inbox'[c] \in Seq(Packet)
         /\ inbox[c][1] = NET_Receive(c) /\ NET_Receive(c) \in Packet
         /\ Len(inbox'[c]) = Len(inbox[c]) - 1
         /\ \A i \in 1..Len(inbox'[c]) : inbox'[c][i] = inbox[c][i + 1]
         /\ \A d \in GameClients : d # c => inbox'[d] = inbox[d]
         /\ downSent[c] \in Seq(Kinds) /\ downLog[c] \in Seq(Message)
<1>1. c \in Peers /\ GameClients \subseteq Peers BY DEF Peers
<1>2. inbox[c] \in Seq(Packet) /\ downSent[c] \in Seq(Kinds) /\ downLog[c] \in Seq(Message)
  BY <1>1 DEF IInv, TypeOK
<1>3. inbox'[c] = Tail(inbox[c]) BY <1>1 DEF AfterReceive, IInv, TypeOK
<1>4. Len(inbox'[c]) = Len(inbox[c]) - 1 BY <1>2, <1>3
<1> QED BY <1>1, <1>2, <1>4, ReceiptFacts DEF IInv

LEMMA HandshakeDoneRInv ==
  ASSUME IInv, RInv, HandshakeDone
  PROVE  RInv'
<1>0. PICK c \in GameClients : c = server.client
  BY DEF HandshakeDone, IInv, HandlesValid
<1>1. /\ listenPc = "connecting" /\ listenPc' = "client" /\ server.is_alive
      /\ client[c].pointer = c /\ inbox[c] # <<>> /\ inbox' = AfterReceive(c)
      /\ UNCHANGED <<downSent, downLog>>
  BY <1>0 DEF HandshakeDone, IInv, Phases, HandlesValid, traffic
<1>2. CASE NET_Receive(c).id = "accepted"
  <2>1. server' = server /\ NET_Close({}) BY <1>0, <1>1, <1>2 DEF HandshakeDone
  <2>2. UNCHANGED <<link, uplink>> BY <2>1 DEF NET_Close, IInv, TypeOK
  <2>3. ~Over /\ ~Over' BY <1>1, <2>1 DEF Over
  <2>4. ASSUME NEW d \in GameClients, d # c PROVE Fresh(d)' /\ InStep(d)'
    BY <1>0, <1>1, <2>2, <2>3, <2>4, KeptRInv, ClientQueue DEF RInv
  <2>5. Fresh(c)' BY <1>1, <2>2 DEF RInv, Fresh
  <2>6. InStep(c)'
    <3> SUFFICES ASSUME link[c] = "up" PROVE InStep(c)' BY <2>2 DEF InStep
    <3>1. Greeting(inbox[c]) = 1 BY <1>1, <1>2, ClientQueue DEF Greeting, Opening
    <3>2. /\ Pending(inbox[c], downLog[c], downSent[c])
          /\ uplink[c] = "up" =>
               Len(downSent[c]) = Len(downLog[c]) + Len(inbox[c]) - Greeting(inbox[c])
          /\ uplink[c] \notin {"unstarted", "connecting"}
      BY <1>1, <2>3 DEF RInv, InStep
    <3>3. Pending(inbox'[c], downLog[c], downSent[c]) /\ Greeting(inbox'[c]) = 0
      BY <1>1, <3>1, <3>2, PendingGreeted, ClientQueue
    <3>4. uplink[c] = "up" => Len(downSent[c]) = Len(downLog[c]) + Len(inbox'[c]) - 0
      <4>1. /\ Len(inbox[c]) \in Nat /\ Len(downLog[c]) \in Nat
            /\ Len(inbox'[c]) = Len(inbox[c]) - 1
        BY <1>1, ClientQueue
      <4>2. Len(downLog[c]) + Len(inbox[c]) - 1 = Len(downLog[c]) + Len(inbox'[c]) - 0
        BY <4>1
      <4> QED BY <3>1, <3>2, <4>2
    <3>5. /\ Pending(inbox[c], downLog[c], downSent[c])'
          /\ (uplink[c] = "up" =>
                Len(downSent[c]) = Len(downLog[c]) + Len(inbox[c]) - Greeting(inbox[c]))'
      BY <1>1, <2>2, <3>3, <3>4
    <3>6. ~(uplink[c] = "connecting" \/ Greeting(inbox[c]) = 1)'
      BY <2>2, <3>2, <3>3
    <3>7. ~(uplink[c] \in {"unstarted", "connecting"})'
      BY <2>2, <3>2
    <3> QED BY <3>5, <3>6, <3>7 DEF InStep
  <2> QED BY <2>4, <2>5, <2>6 DEF RInv
<1>3. CASE NET_Receive(c).id # "accepted"
  <2>1. server' = ServerClosed /\ NET_Close(ServerCloses)
    BY <1>0, <1>1, <1>3 DEF HandshakeDone
  <2>2. Over' BY <1>1, <2>1, ServerCloseFacts DEF IInv, Over
  <2>3. \A d \in GameClients : uplink'[d] = "none" => uplink[d] = "none"
    BY <2>1, CloseFacts DEF IInv
  <2> QED BY <1>1, <2>2, <2>3, OverRInv
<1> QED BY <1>2, <1>3

\* The handlers that end the session, or finish its end.
LEMMA EndsRInv ==
  ASSUME IInv, RInv,
         \/ ServerTickLeft \/ ServerTickLost \/ ClientTickLeft \/ ClientTickLost
         \/ ClosesClient \/ ReportsLost
  PROVE  RInv' /\ Over'
<1>1. UNCHANGED <<downSent, downLog>> /\ listenPc' # "unborn"
  BY DEF ServerTickLeft, ServerTickLost, ClientTickLeft, ClientTickLost, ClosesClient,
     ReportsLost, traffic
<1>2. (\E ps : NET_Close(ps)) \/ UNCHANGED uplink
  BY DEF ServerTickLeft, ServerTickLost, ClientTickLeft, ClientTickLost, ClosesClient,
     ReportsLost, net
<1>3. \A c \in GameClients : uplink'[c] = "none" => uplink[c] = "none"
  BY <1>2, CloseFacts DEF IInv
<1>4. ~server'.is_alive
  <2>1. ~ServerClosed.is_alive BY ServerCloseFacts DEF IInv
  <2>2. listenPc \in {"closing", "reporting"} => ~server.is_alive BY DEF IInv, Phases
  <2>3. ~[server EXCEPT !.is_alive = FALSE].is_alive BY DEF IInv, TypeOK
  <2> QED BY <2>1, <2>2, <2>3 DEF ServerTickLeft, ServerTickLost, ClientTickLeft,
     ClientTickLost, ClosesClient, ReportsLost
<1>5. Over' BY <1>1, <1>4 DEF Over
<1> QED BY <1>1, <1>3, <1>5, OverRInv

LEMMA ServerTickDataRInv ==
  ASSUME IInv, RInv, ServerTickData
  PROVE  RInv'
<1>1. /\ server.pointer = Listener /\ Listener \in Peers /\ inbox[Listener] # <<>>
      /\ server.is_alive /\ listenPc = "server"
  BY ServerReceivesFacts DEF ServerTickData, IInv
<1>2. /\ inbox' = AfterReceive(Listener)
      /\ UNCHANGED <<link, uplink, downSent, downLog>>
  BY <1>1 DEF ServerTickData, objects, net
<1>3. \A c \in GameClients : inbox'[c] = inbox[c]
  <2>1. \A c \in GameClients : c \in Peers /\ c # Listener BY NamesDistinct DEF Peers
  <2> QED BY <1>1, <1>2, <2>1, ReceiptFacts DEF IInv
<1> QED BY <1>1, <1>2, <1>3, StillRInv DEF Over

\* The game client c takes the packet it has not had yet, as the hook leaves it.
Takes(c) ==
  /\ Len(downLog[c]) < Len(downSent[c])
  /\ \E kind \in OnRustPacketReceived(downSent[c][Len(downLog[c]) + 1]) :
       downLog' = [downLog EXCEPT ![c] = Append(@, [from |-> c, n |-> Len(downLog[c]) + 1,
                                                    kind |-> kind])]

\* Data that the game client is there for is the next it has to take; without it,
\* nothing is sent on.
LEMMA ClientTickDataRInv ==
  ASSUME IInv, RInv, ClientTickData
  PROVE  /\ RInv' /\ UNCHANGED <<server, downSent>>
         /\ UNCHANGED downLog \/ \E c \in GameClients : Takes(c)
<1>0. PICK c \in GameClients : c = server.client
  BY ClientReceivesFacts DEF ClientTickData
<1>1. /\ client[c].pointer = c /\ inbox[c] # <<>> /\ NET_Receive(c).id = "data"
      /\ server.is_alive /\ server.incoming_guid = c /\ listenPc = "client"
  BY <1>0, ClientReceivesFacts DEF ClientTickData
<1>2. PICK kind \in OnRustPacketReceived(NET_Receive(c).kind) :
        downLog' = Deliver(downLog, ServerSendsTo,
                           [from |-> c, n |-> NET_Receive(c).n, kind |-> kind])
  BY <1>0, <1>1 DEF ClientTickData
<1>3. /\ inbox' = AfterReceive(c) /\ listenPc' = "server"
      /\ UNCHANGED <<server, link, uplink, downSent>>
  BY <1>0, <1>1 DEF ClientTickData, objects, net
<1>4. ServerSendsTo = IF link[c] = "up" THEN {c} ELSE {}
  <2>1. peer[server.pointer] = "open" BY <1>1 DEF IInv, HandlesValid
  <2> QED BY <1>1, <2>1 DEF ServerSendsTo
<1>5. /\ downLog \in [GameClients -> Seq(Message)]
      /\ \A d \in GameClients : d # c => downLog'[d] = downLog[d]
      /\ link[c] # "up" => downLog' = downLog
      /\ link[c] = "up" =>
           downLog' = [downLog EXCEPT ![c] =
                         Append(@, [from |-> c, n |-> NET_Receive(c).n, kind |-> kind])]
  BY <1>2, <1>4 DEF Deliver, IInv, TypeOK
<1>6. ~Over /\ ~Over' BY <1>1, <1>3 DEF Over
<1>7. ASSUME NEW d \in GameClients, d # c PROVE Fresh(d)' /\ InStep(d)'
  BY <1>1, <1>3, <1>5, <1>6, <1>7, KeptRInv, ClientQueue DEF RInv
<1>8. Fresh(c)'
  <2>1. uplink[c] # "none" BY <1>1 DEF IInv, ClientInbox
  <2> QED BY <1>3, <2>1 DEF Fresh
<1>9. CASE link[c] # "up"
  <2>1. InStep(c)' BY <1>3, <1>9 DEF InStep
  <2> QED BY <1>3, <1>5, <1>7, <1>8, <1>9, <2>1, <1>1 DEF RInv
<1>10. CASE link[c] = "up"
  <2>1. /\ Pending(inbox[c], downLog[c], downSent[c])
        /\ uplink[c] = "up" =>
             Len(downSent[c]) = Len(downLog[c]) + Len(inbox[c]) - Greeting(inbox[c])
        /\ uplink[c] \notin {"unstarted", "connecting"} /\ Greeting(inbox[c]) = 0
    <3>1. inbox[c][1].id = "data" BY <1>1, <1>3, ClientQueue
    <3>2. Greeting(inbox[c]) = 0 BY <3>1 DEF Greeting, Opening
    <3> QED BY <1>1, <1>6, <1>10, <3>2 DEF RInv, InStep
  <2>2. /\ NET_Receive(c).n = Len(downLog[c]) + 1
        /\ NET_Receive(c).n \in 1..Len(downSent[c])
        /\ NET_Receive(c).kind = downSent[c][Len(downLog[c]) + 1]
    <3>1. 1 \in 1..Len(inbox[c]) /\ inbox[c][1] = NET_Receive(c) /\ Len(downLog[c]) \in Nat
      BY <1>1, <1>3, ClientQueue
    <3>2. Len(downLog[c]) + 1 - 0 = Len(downLog[c]) + 1 BY <3>1
    <3>3. /\ inbox[c][1].n = Len(downLog[c]) + 1 - Greeting(inbox[c])
          /\ inbox[c][1].n \in 1..Len(downSent[c])
          /\ inbox[c][1].kind = downSent[c][inbox[c][1].n]
      BY <1>1, <2>1, <3>1 DEF Pending
    <3> QED BY <2>1, <3>1, <3>2, <3>3
  <2>3. Takes(c)
    <3>1. Len(downLog[c]) \in Nat /\ Len(downSent[c]) \in Nat BY <1>1, <1>3, ClientQueue
    <3>2. Len(downLog[c]) < Len(downSent[c]) BY <2>2, <3>1
    <3>3. kind \in OnRustPacketReceived(downSent[c][Len(downLog[c]) + 1])
      BY <1>2, <2>2
    <3> QED BY <1>5, <1>10, <2>2, <3>2, <3>3 DEF Takes
  <2>4. downLog'[c] \in Seq(Message) /\ Len(downLog'[c]) = Len(downLog[c]) + 1
    <3> DEFINE m == [from |-> c, n |-> NET_Receive(c).n, kind |-> kind]
    <3>1. downLog[c] \in Seq(Message) /\ NET_Receive(c) \in Packet
      BY <1>1, <1>3, ClientQueue
    <3>2. m \in Message
      BY <1>2, <3>1 DEF Message, Packet, OnRustPacketReceived, Kinds
    <3> HIDE DEF m
    <3>3. downLog'[c] = Append(downLog[c], m) BY <1>5, <1>10 DEF m
    <3> QED BY <3>1, <3>2, <3>3
  <2>5. InStep(c)'
    <3>1. /\ inbox[c] \in Seq(Packet) /\ inbox'[c] \in Seq(Packet)
          /\ Len(inbox'[c]) = Len(inbox[c]) - 1
          /\ \A i \in 1..Len(inbox'[c]) : inbox'[c][i] = inbox[c][i + 1]
          /\ downSent[c] \in Seq(Kinds) /\ downLog[c] \in Seq(Message)
      BY <1>1, <1>3, ClientQueue
    <3>2. Pending(inbox'[c], downLog'[c], downSent[c]) /\ Greeting(inbox'[c]) = 0
      BY <1>1, <2>1, <2>4, <3>1, PendingTaken
    <3>3. Len(downLog[c]) + Len(inbox[c]) - 0 = Len(downLog'[c]) + Len(inbox'[c]) - 0
      <4>1. Len(downLog[c]) \in Nat /\ Len(inbox[c]) \in Nat BY <3>1
      <4>2. \A m, n \in Nat : m + n - 0 = (m + 1) + (n - 1) - 0 OBVIOUS
      <4>3. Len(downLog[c]) + Len(inbox[c]) - 0
              = (Len(downLog[c]) + 1) + (Len(inbox[c]) - 1) - 0
        BY <4>1, <4>2
      <4> QED BY <2>4, <3>1, <4>3
    <3>4. /\ Pending(inbox[c], downLog[c], downSent[c])'
          /\ (uplink[c] = "up" =>
                Len(downSent[c]) = Len(downLog[c]) + Len(inbox[c]) - Greeting(inbox[c]))'
      BY <1>3, <2>1, <3>2, <3>3
    <3>5. ~(uplink[c] = "connecting" \/ Greeting(inbox[c]) = 1)'
      BY <1>3, <2>1, <3>2
    <3>6. ~(uplink[c] \in {"unstarted", "connecting"})'
      BY <1>3, <2>1
    <3> QED BY <3>4, <3>5, <3>6 DEF InStep
  <2> QED BY <1>1, <1>3, <1>7, <1>8, <2>3, <2>5 DEF RInv
<1> QED BY <1>9, <1>10

LEMMA GameClientRInv ==
  ASSUME IInv, RInv, NEW g \in GameClients,
         GameClientConnects(g) \/ GameClientSends(g) \/ GameClientGone(g)
  PROVE  RInv'
<1>1. /\ UNCHANGED <<listenPc, server, uplink, downSent, downLog>>
      /\ \E e : Arrives(Listener, e)
      /\ \A h \in GameClients : h # g => link'[h] = link[h]
      /\ link'[g] = "up" => link[g] \in {"none", "up"}
      /\ link[g] = "none" => uplink[g] = "none"
  BY DEF GameClientConnects, GameClientSends, GameClientGone, objects, net, traffic,
     IInv, TypeOK, ListenerInbox
<1>2. \A c \in GameClients : inbox'[c] = inbox[c]
  <2>1. \A c \in GameClients : c \in Peers /\ c # Listener BY NamesDistinct DEF Peers
  <2> QED BY <1>1, <2>1 DEF Arrives, IInv, TypeOK
<1>3. Over' <=> Over BY <1>1 DEF Over
<1>4. ASSUME NEW c \in GameClients, link'[c] = "up" => link[c] = "up"
      PROVE  Fresh(c)' /\ InStep(c)'
  BY <1>1, <1>2, <1>3, <1>4, KeptRInv DEF RInv
<1>5. ASSUME link[g] = "none" PROVE Fresh(g)' /\ InStep(g)'
  <2>1. /\ uplink'[g] = "none" /\ inbox'[g] = <<>>
        /\ downSent'[g] = <<>> /\ downLog'[g] = <<>>
    BY <1>1, <1>2, <1>5 DEF IInv, ClientInbox, RInv, Fresh
  <2> QED BY <2>1 DEF Fresh, InStep, Pending, Greeting
<1>6. ASSUME NEW c \in GameClients PROVE Fresh(c)' /\ InStep(c)'
  BY <1>1, <1>4, <1>5
<1> QED BY <1>6 DEF RInv

\* What is sent to the session c goes to its queue, and its kind to what was sent.
Puts(c) ==
  /\ Len(downSent[c]) < MaxDown
  /\ \E kind \in {"plain", "env"} : downSent' = [downSent EXCEPT ![c] = Append(@, kind)]

LEMMA GameServerRInv ==
  ASSUME IInv, RInv, NEW c \in GameClients,
         AttemptEnds(c) \/ GameServerSends(c) \/ GameServerGone(c)
  PROVE  RInv'
<1>1. /\ UNCHANGED <<listenPc, server, link, downLog>>
      /\ \A d \in GameClients : d # c => uplink'[d] = uplink[d]
      /\ uplink[c] \in {"connecting", "up"}
      /\ uplink'[c] \notin {"none", "unstarted", "connecting"}
      /\ \/ uplink[c] = "connecting" /\ UNCHANGED downSent
         \/ uplink[c] = "up" /\ (uplink'[c] # "up" => UNCHANGED downSent)
  BY DEF AttemptEnds, GameServerSends, GameServerGone, objects, net, traffic, IInv,
     TypeOK
<1>2. /\ c \in Peers /\ inbox[c] \in Seq(Packet) /\ downLog[c] \in Seq(Message)
      /\ downSent[c] \in Seq(Kinds)
  BY DEF Peers, IInv, TypeOK
<1>3. PICK e \in Packet :
        /\ Arrives(c, e)
        /\ e.id = "accepted" => uplink[c] = "connecting"
        /\ e.id = "refused" => uplink'[c] # "up"
        /\ e.id \in {"left", "lost"} => uplink'[c] # "up"
        /\ uplink[c] = "connecting" => e.id \in {"accepted", "refused"}
        /\ e.id # "data" => UNCHANGED downSent
        /\ e.id = "data" =>
             /\ e.n = Len(downSent[c]) + 1 /\ e.kind \in Kinds
             /\ downSent' = [downSent EXCEPT ![c] = Append(@, e.kind)]
        /\ e.id \in {"accepted", "refused", "left", "lost", "data"}
  <2>1. CASE AttemptEnds(c)
    <3>1. /\ Control("accepted", GameServer) \in Packet /\ Control("refused", Wild) \in Packet
          /\ Control("accepted", GameServer).id = "accepted"
          /\ Control("refused", Wild).id = "refused"
      BY DEF Control, Packet, PacketIds, Kinds
    <3>2. uplink \in [GameClients -> {"none", "unstarted", "connecting", "refused",
                                     "up", "left", "lost", "closed"}]
      BY DEF IInv, TypeOK
    <3> QED BY <2>1, <3>1, <3>2 DEF AttemptEnds, traffic
  <2>2. CASE GameServerSends(c)
    <3>1. PICK kind \in {"plain", "env"} :
            /\ downSent' = [downSent EXCEPT ![c] = Append(@, kind)]
            /\ Arrives(c, Data(GameServer, Len(downSent[c]) + 1, kind))
      BY <2>2 DEF GameServerSends
    <3>2. Len(downSent[c]) + 1 \in Nat BY <1>2
    <3>3. /\ Data(GameServer, Len(downSent[c]) + 1, kind) \in Packet
          /\ Data(GameServer, Len(downSent[c]) + 1, kind).id = "data"
          /\ Data(GameServer, Len(downSent[c]) + 1, kind).n = Len(downSent[c]) + 1
          /\ Data(GameServer, Len(downSent[c]) + 1, kind).kind = kind
      BY <3>2 DEF Data, Packet, PacketIds, Kinds
    <3>4. uplink[c] = "up" BY <2>2 DEF GameServerSends
    <3> QED BY <3>1, <3>3, <3>4 DEF Kinds
  <2>3. CASE GameServerGone(c)
    <3>1. PICK how \in {"left", "lost"} : uplink' = [uplink EXCEPT ![c] = how]
                                          /\ Arrives(c, Control(how, GameServer))
      BY <2>3 DEF GameServerGone
    <3>2. Control(how, GameServer) \in Packet /\ Control(how, GameServer).id = how
      BY <3>1 DEF Control, Packet, PacketIds, Kinds
    <3>3. uplink'[c] # "up" /\ uplink[c] = "up" /\ UNCHANGED downSent
      BY <2>3, <3>1 DEF GameServerGone, IInv, TypeOK, traffic
    <3> QED BY <3>1, <3>2, <3>3
  <2> QED BY <2>1, <2>2, <2>3
<1>4. /\ inbox'[c] \in Seq(Packet) /\ Len(inbox'[c]) = Len(inbox[c]) + 1
      /\ \A i \in 1..Len(inbox[c]) : inbox'[c][i] = inbox[c][i]
      /\ inbox'[c][Len(inbox[c]) + 1] = e
      /\ \A d \in GameClients : d # c => inbox'[d] = inbox[d]
  BY <1>2, <1>3, ArrivalFacts DEF IInv, Peers
<1>5. Over' <=> Over BY <1>1 DEF Over
<1>6. ASSUME NEW d \in GameClients, d # c PROVE Fresh(d)' /\ InStep(d)'
  <2>1. downSent'[d] = downSent[d]
    <3>1. e.id = "data" => downSent'[d] = downSent[d]
      BY <1>3, <1>6 DEF IInv, TypeOK
    <3> QED BY <1>3, <3>1
  <2> QED BY <1>1, <1>4, <1>5, <1>6, <2>1, KeptRInv DEF RInv
<1>7. Fresh(c)' BY <1>1 DEF Fresh
<1>8. InStep(c)'
  <2> SUFFICES ASSUME ~Over, link[c] = "up" PROVE InStep(c)'
    BY <1>1, <1>5 DEF InStep
  <2>1. /\ Pending(inbox[c], downLog[c], downSent[c])
        /\ uplink[c] = "up" =>
             Len(downSent[c]) = Len(downLog[c]) + Len(inbox[c]) - Greeting(inbox[c])
        /\ uplink[c] = "connecting" =>
             /\ downSent[c] = <<>> /\ downLog[c] = <<>> /\ inbox[c] = <<>>
             /\ listenPc = "connecting" /\ server.client = c
        /\ Greeting(inbox[c]) = 1 => listenPc = "connecting" /\ server.client = c
    BY DEF RInv, InStep
  <2>2. /\ downSent'[c] \in Seq(Kinds) /\ Len(downSent[c]) <= Len(downSent'[c])
        /\ \A i \in 1..Len(downSent[c]) : downSent'[c][i] = downSent[c][i]
        /\ e.id = "data" => /\ Len(downSent'[c]) = Len(downSent[c]) + 1
                            /\ downSent'[c][Len(downSent[c]) + 1] = e.kind
        /\ e.id # "data" => downSent'[c] = downSent[c]
    <3>1. CASE e.id = "data"
      <4>1. downSent'[c] = Append(downSent[c], e.kind)
        BY <1>3, <3>1 DEF IInv, TypeOK
      <4> QED BY <1>2, <1>3, <3>1, <4>1
    <3>2. CASE e.id # "data" BY <1>2, <1>3, <3>2
    <3> QED BY <3>1, <3>2
  <2>3. e.id = "data" => uplink[c] = "up" BY <1>1, <1>3
  <2>4. Greeting(inbox[c]) \in {0, 1} BY DEF Greeting
  <2>5. Len(inbox[c]) \in Nat /\ Len(downLog[c]) \in Nat /\ Len(downSent[c]) \in Nat
    BY <1>2
  <2>6. e.id = "data" => /\ e.n = Len(downLog[c]) + Len(inbox[c]) + 1 - Greeting(inbox[c])
                         /\ e.n \in 1..Len(downSent'[c]) /\ e.kind = downSent'[c][e.n]
    <3> SUFFICES ASSUME e.id = "data"
                 PROVE  /\ e.n = Len(downLog[c]) + Len(inbox[c]) + 1 - Greeting(inbox[c])
                        /\ e.n \in 1..Len(downSent'[c]) /\ e.kind = downSent'[c][e.n]
      OBVIOUS
    <3>1. e.n = Len(downSent[c]) + 1 BY <1>3
    <3>2. Len(downSent[c]) = Len(downLog[c]) + Len(inbox[c]) - Greeting(inbox[c])
      BY <2>1, <2>3
    <3>3. \A l, m, n \in Nat : \A g \in {0, 1} : n = l + m - g => n + 1 = l + m + 1 - g
      OBVIOUS
    <3>4. e.n = Len(downLog[c]) + Len(inbox[c]) + 1 - Greeting(inbox[c])
      BY <2>4, <2>5, <3>1, <3>2, <3>3
    <3>5. e.n \in 1..Len(downSent'[c]) BY <2>2, <2>5, <3>1
    <3>6. e.kind = downSent'[c][e.n] BY <2>2, <3>1
    <3> QED BY <3>4, <3>5, <3>6
  <2>7. e.id = "accepted" => inbox[c] = <<>> BY <1>3, <2>1
  <2>8. /\ Pending(inbox'[c], downLog[c], downSent'[c])
        /\ e.id # "accepted" => Greeting(inbox'[c]) = Greeting(inbox[c])
        /\ e.id = "accepted" => Greeting(inbox'[c]) = 1
    <3>1. Arrived(e, inbox[c], inbox'[c], downLog[c], downSent[c], downSent'[c])
      BY <1>3, <1>4, <2>2, <2>6, <2>7 DEF Arrived, Opening
    <3>2. e.id \in Opening <=> e.id = "accepted" BY <1>3 DEF Opening
    <3> QED BY <1>2, <1>3, <1>4, <2>1, <2>2, <3>1, <3>2, PendingArrived
  <2>9. uplink'[c] = "up" =>
          Len(downSent'[c]) = Len(downLog[c]) + Len(inbox'[c]) - Greeting(inbox'[c])
    <3>1. CASE e.id = "data"
      <4>1. Len(downSent[c]) = Len(downLog[c]) + Len(inbox[c]) - Greeting(inbox[c])
        BY <2>1, <2>3, <3>1
      <4>2. \A l, m, n \in Nat : \A g \in {0, 1} :
              n = l + m - g => n + 1 = l + (m + 1) - g
        OBVIOUS
      <4>3. Len(downSent[c]) + 1
              = Len(downLog[c]) + (Len(inbox[c]) + 1) - Greeting(inbox[c])
        BY <2>4, <2>5, <4>1, <4>2
      <4> QED BY <1>4, <2>2, <2>8, <3>1, <4>3
    <3>2. CASE e.id = "accepted"
      <4>1. Len(downSent'[c]) = 0 /\ Len(downLog[c]) = 0 /\ Len(inbox'[c]) = 1
        BY <1>3, <1>4, <2>1, <2>2, <3>2
      <4> QED BY <2>8, <3>2, <4>1
    <3> QED BY <1>3, <3>1, <3>2
  <2>10. Greeting(inbox'[c]) = 1 => listenPc = "connecting" /\ server.client = c
    BY <1>3, <2>1, <2>8
  <2>11. Pending(inbox[c], downLog[c], downSent[c])'
    BY <1>1, <2>8
  <2>12. (uplink[c] = "up" =>
            Len(downSent[c]) = Len(downLog[c]) + Len(inbox[c]) - Greeting(inbox[c]))'
    BY <1>1, <2>9
  <2>13. (uplink[c] = "connecting" \/ Greeting(inbox[c]) = 1 =>
            listenPc = "connecting" /\ server.client = c)'
    BY <1>1, <2>10
  <2>14. ~(uplink[c] \in {"unstarted", "connecting"})' BY <1>1
  <2> QED BY <2>11, <2>12, <2>13, <2>14 DEF InStep
<1> QED BY <1>6, <1>7, <1>8 DEF RInv

LEMMA NextRInv ==
  ASSUME IInv, RInv, [Next]_vars
  PROVE  RInv'
<1>1. CASE Main BY <1>1, MainRInv
<1>2. CASE ListenThread
  BY <1>2, MovesRInv, ServerTickNewRInv, HandshakeDoneRInv, EndsRInv,
     ServerTickDataRInv, ClientTickDataRInv DEF ListenThread, ServerTick, ClientTick
<1>3. CASE Outside BY <1>3, GameClientRInv, GameServerRInv DEF Outside
<1>4. CASE UNCHANGED vars
  BY <1>4, StillRInv DEF vars, objects, net, traffic, Over
<1> QED BY <1>1, <1>2, <1>3, <1>4 DEF Next, Ended

-----------------------------------------------------------------------------
(* Each step is one of the relay's, or a stutter.                          *)

\* The mapping's pipes: what was sent to a session, numbered.
Sent(c, n, kind) == [from |-> c, n |-> n, kind |-> kind]
Pipe(c, sent)    == [n \in 1..Len(sent) |-> Sent(c, n, sent[n])]

LEMMA PipeFacts ==
  ASSUME NEW c \in GameClients, NEW sent \in Seq(Kinds)
  PROVE  /\ Pipe(c, sent) \in Seq(Message) /\ Len(Pipe(c, sent)) = Len(sent)
         /\ \A n \in 1..Len(sent) : Pipe(c, sent)[n] = Sent(c, n, sent[n])
<1>1. Len(sent) \in Nat /\ \A n \in 1..Len(sent) : Sent(c, n, sent[n]) \in Message
  BY DEF Sent, Message
<1> QED BY <1>1 DEF Pipe

LEMMA PipeGrows ==
  ASSUME NEW c \in GameClients, NEW sent \in Seq(Kinds), NEW kind \in Kinds
  PROVE  Pipe(c, Append(sent, kind)) =
           Append(Pipe(c, sent), Sent(c, Len(sent) + 1, kind))
<1> DEFINE more == Append(sent, kind)
           m == Sent(c, Len(sent) + 1, kind)
<1>1. /\ more \in Seq(Kinds) /\ Len(more) = Len(sent) + 1 /\ Len(sent) \in Nat
      /\ \A n \in 1..Len(sent) : more[n] = sent[n]
      /\ more[Len(sent) + 1] = kind
  OBVIOUS
<1>2. m \in Message BY DEF Sent, Message
<1> HIDE DEF more, m
<1>3. /\ Pipe(c, more) \in Seq(Message) /\ Len(Pipe(c, more)) = Len(more)
      /\ \A n \in 1..Len(more) : Pipe(c, more)[n] = Sent(c, n, more[n])
  BY <1>1, PipeFacts
<1>4. /\ Pipe(c, sent) \in Seq(Message) /\ Len(Pipe(c, sent)) = Len(sent)
      /\ \A n \in 1..Len(sent) : Pipe(c, sent)[n] = Sent(c, n, sent[n])
  BY PipeFacts
<1> DEFINE s == Pipe(c, sent)
           t == Pipe(c, more)
<1> HIDE DEF s, t
<1>5. /\ Append(s, m) \in Seq(Message) /\ Len(Append(s, m)) = Len(s) + 1
      /\ \A n \in 1..Len(s) : Append(s, m)[n] = s[n]
      /\ Append(s, m)[Len(s) + 1] = m
  BY <1>2, <1>4 DEF s
<1>6. \A n \in 1..Len(t) : t[n] = Append(s, m)[n]
  <2> SUFFICES ASSUME NEW n \in 1..Len(t) PROVE t[n] = Append(s, m)[n] OBVIOUS
  <2>1. CASE n = Len(sent) + 1
    BY <1>1, <1>3, <1>4, <1>5, <2>1 DEF s, t, m
  <2>2. CASE n # Len(sent) + 1
    <3>1. n \in 1..Len(sent) BY <1>1, <1>3, <2>2 DEF t
    <3> QED BY <1>1, <1>3, <1>4, <1>5, <3>1 DEF s, t
  <2> QED BY <2>1, <2>2
<1>7. t \in Seq(Message) /\ Len(t) = Len(Append(s, m))
  BY <1>1, <1>3, <1>4, <1>5 DEF s, t
<1>8. t = Append(s, m) BY <1>5, <1>6, <1>7, SeqEqual
<1> QED BY <1>8 DEF s, t, more, m

LEMMA InitRelays == Init => Down!RelayInit
<1> SUFFICES ASSUME Init PROVE Down!RelayInit OBVIOUS
<1>1. ~Over BY DEF Init, Over
<1>2. \A c \in GameClients :
        [n \in 1..Len(downSent[c]) |-> [from |-> c, n |-> n, kind |-> downSent[c][n]]] = <<>>
  BY DEF Init
<1> QED BY <1>1, <1>2 DEF Init, Down!RelayInit

\* The mapping, as a definition of its own.
Pipes == [c \in GameClients |-> Pipe(c, downSent[c])]

LEMMA PutRelays ==
  ASSUME TypeOK, NEW c \in GameClients, Puts(c), UNCHANGED downLog, Over' = Over
  PROVE  Down!Put(c)
<1>1. PICK kind \in {"plain", "env"} : downSent' = [downSent EXCEPT ![c] = Append(@, kind)]
  BY DEF Puts
<1>2. /\ downSent[c] \in Seq(Kinds) /\ Len(downSent[c]) \in Nat /\ kind \in Kinds
      /\ downSent'[c] = Append(downSent[c], kind)
      /\ \A d \in GameClients : d # c => downSent'[d] = downSent[d]
  BY <1>1 DEF TypeOK, Kinds
<1> DEFINE m == Sent(c, Len(downSent[c]) + 1, kind)
<1>3. m \in DownMessages(c)
  <2>1. Len(downSent[c]) + 1 \in 1..MaxDown BY <1>2, BoundsNatural DEF Puts
  <2> QED BY <2>1 DEF DownMessages, Sent
<1>4. Pipe(c, downSent'[c]) = Append(Pipe(c, downSent[c]), m)
  BY <1>2, PipeGrows
<1> HIDE DEF m
<1>5. Pipes' = [Pipes EXCEPT ![c] = Append(@, m)]
  BY <1>2, <1>4 DEF Pipes
<1> QED BY <1>3, <1>5 DEF Down!Put, Pipes, Pipe, Sent

LEMMA TakeRelays ==
  ASSUME TypeOK, NEW c \in GameClients, Takes(c), UNCHANGED downSent, ~Over, Over' = Over
  PROVE  Down!Take(c)
<1>1. /\ downSent[c] \in Seq(Kinds) /\ downLog[c] \in Seq(Message)
      /\ Len(downLog[c]) < Len(downSent[c])
  BY DEF TypeOK, Takes
<1> DEFINE n == Len(downLog[c]) + 1
<1>2. n \in 1..Len(downSent[c]) BY <1>1
<1> HIDE DEF n
<1>3. PICK kind \in OnRustPacketReceived(downSent[c][n]) :
        downLog' = [downLog EXCEPT ![c] = Append(@, Sent(c, n, kind))]
  BY DEF Takes, n, Sent
<1>4. /\ Len(Pipe(c, downSent[c])) = Len(downSent[c])
      /\ Pipe(c, downSent[c])[n] = Sent(c, n, downSent[c][n])
  BY <1>1, <1>2, PipeFacts
<1>5. Sent(c, n, kind) \in Forms(Pipe(c, downSent[c])[n])
  <2>1. /\ Sent(c, n, downSent[c][n]).kind = downSent[c][n]
        /\ Sent(c, n, kind) = [Sent(c, n, downSent[c][n]) EXCEPT !.kind = kind]
    BY DEF Sent
  <2> QED BY <1>3, <1>4, <2>1 DEF Forms
<1>6. Pipes[c] = Pipe(c, downSent[c]) /\ Pipes' = Pipes BY DEF Pipes
<1>7. /\ Len(downLog[c]) < Len(Pipes[c])
      /\ \E m \in Forms(Pipes[c][Len(downLog[c]) + 1]) :
           downLog' = [downLog EXCEPT ![c] = Append(@, m)]
  BY <1>1, <1>3, <1>4, <1>5, <1>6 DEF n
<1> QED BY <1>6, <1>7 DEF Down!Take, Pipes, Pipe, Sent

\* What changes neither what was sent nor what came out is a stutter, or ends it.
LEMMA QuietRelays ==
  ASSUME UNCHANGED <<downSent, downLog>>, Over => Over'
  PROVE  [Down!RelayNext]_(Down!relayVars)
<1>1. Pipes' = Pipes BY DEF Pipes
<1>2. CASE Over' = Over
  <2>1. UNCHANGED <<Pipes, downLog, Over>> BY <1>1, <1>2
  <2> QED BY <2>1 DEF Down!relayVars, Pipes, Pipe, Sent
<1>3. CASE Over' # Over
  <2>1. ~Over /\ Over' = TRUE BY <1>3 DEF Over
  <2>2. Down!Finish BY <1>1, <2>1 DEF Down!Finish, Pipes, Pipe, Sent
  <2> QED BY <2>2 DEF Down!RelayNext
<1> QED BY <1>2, <1>3

LEMMA NextRelays ==
  ASSUME IInv, RInv, [Next]_vars
  PROVE  [Down!RelayNext]_(Down!relayVars)
<1>1. CASE Main
  <2>1. /\ UNCHANGED <<downSent, downLog>>
        /\ listenPc # "unborn" => UNCHANGED <<server, listenPc>>
    BY <1>1 DEF Main, InitThrows, StartServer, Polls, Returns, ProcessEnds, vars,
       objects, traffic, IInv, Phases
  <2> QED BY <2>1, QuietRelays DEF Over
<1>2. CASE ListenThread
  <2>1. CASE ClientTickData
    <3>1. /\ UNCHANGED <<server, downSent>>
          /\ UNCHANGED downLog \/ \E c \in GameClients : Takes(c)
      BY <2>1, ClientTickDataRInv
    <3>2. server.is_alive /\ listenPc' = "server"
      BY <2>1, ClientReceivesFacts DEF ClientTickData
    <3>3. ~Over /\ Over' = Over BY <3>1, <3>2 DEF Over
    <3>4. ASSUME NEW c \in GameClients, Takes(c) PROVE Down!RelayNext
      <4>1. Down!Take(c) BY <3>1, <3>3, <3>4, TakeRelays DEF IInv
      <4> QED BY <4>1 DEF Down!RelayNext
    <3> QED BY <3>1, <3>3, <3>4, QuietRelays
  <2>2. CASE \/ ServerTickLeft \/ ServerTickLost \/ ClientTickLeft \/ ClientTickLost
             \/ ClosesClient \/ ReportsLost
    <3>1. UNCHANGED <<downSent, downLog>>
      BY <2>2 DEF ServerTickLeft, ServerTickLost, ClientTickLeft, ClientTickLost,
         ClosesClient, ReportsLost, traffic
    <3> QED BY <2>2, <3>1, EndsRInv, QuietRelays
  <2>3. CASE \/ ServerTickDead \/ ServerTickIdle \/ HandshakeWaits \/ ClientTickNone
             \/ ClientTickWild \/ ClientTickDead \/ ClientTickIdle \/ Wakes
             \/ ServerTickData
    <3>1. UNCHANGED <<server, downSent, downLog>> /\ listenPc' # "unborn"
      BY <2>3 DEF ServerTickDead, ServerTickIdle, HandshakeWaits, ClientTickNone, vars,
         ClientTickWild, ClientTickDead, ClientTickIdle, Wakes, ServerTickData, objects,
         traffic, ClientTicks
    <3> QED BY <3>1, QuietRelays DEF Over
  <2>4. CASE ServerTickNew \/ HandshakeDone
    <3>1. UNCHANGED <<downSent, downLog>> BY <2>4 DEF ServerTickNew, HandshakeDone, traffic
    <3>2. server.is_alive
      BY <2>4 DEF ServerTickNew, ServerReceives, HandshakeDone, IInv, Phases
    <3> QED BY <3>1, <3>2, QuietRelays DEF Over
  <2> QED BY <1>2, <2>1, <2>2, <2>3, <2>4 DEF ListenThread, ServerTick, ClientTick
<1>3. CASE Outside
  <2>1. UNCHANGED <<server, listenPc, downLog>> /\ Over' = Over
    BY <1>3 DEF Outside, GameClientConnects, GameClientSends, GameClientGone, AttemptEnds,
       GameServerSends, GameServerGone, objects, traffic, Over
  <2>2. CASE \E c \in GameClients : GameServerSends(c)
    <3>1. PICK c \in GameClients : GameServerSends(c) BY <2>2
    <3>2. Puts(c) BY <3>1 DEF GameServerSends, Puts
    <3>3. Down!Put(c) BY <2>1, <3>2, PutRelays DEF IInv
    <3> QED BY <3>3 DEF Down!RelayNext
  <2>3. CASE ~\E c \in GameClients : GameServerSends(c)
    <3>1. UNCHANGED downSent
      BY <1>3, <2>3 DEF Outside, GameClientConnects, GameClientSends, GameClientGone,
         AttemptEnds, GameServerGone, traffic
    <3> QED BY <2>1, <3>1, QuietRelays
  <2> QED BY <2>2, <2>3
<1>4. CASE UNCHANGED vars
  BY <1>4, QuietRelays DEF vars, objects, traffic, Over
<1> QED BY <1>1, <1>2, <1>3, <1>4 DEF Next, Ended

-----------------------------------------------------------------------------
(* The theorem.                                                            *)

\* What the game server sends a session reaches that session's game client in
\* order, once, rewritten at most by the hook, until the proxy shuts down, however
\* many game clients connect (client.cpp:34-38, server.cpp:120-126).
THEOREM DownIsReliable == Spec => DownRelays
<1>1. RInv /\ IInv /\ [Next]_vars => RInv' BY NextRInv
<1>2. IInv /\ RInv /\ [Next]_vars => [Down!RelayNext]_(Down!relayVars)
  BY NextRelays
<1> QED
  BY InitRInv, InitRelays, Invariance, <1>1, <1>2, PTL DEF Spec, DownRelays, Down!RelaySpec

\* What is proved of Relay, of the pipes of the game servers.
RP == INSTANCE Relay_proofs WITH
        Sessions <- GameClients, Messages <- DownMessages, Rewrites <- Forms,
        sent <- [c \in GameClients |->
                   [n \in 1..Len(downSent[c]) |->
                      [from |-> c, n |-> n, kind |-> downSent[c][n]]]],
        delivered <- downLog,
        over <- Over

\* RP has Relay's definitions once more.
LEMMA SameRelay ==
  /\ Down!RelayInit => RP!RelayInit
  /\ Down!RelayNext => RP!RelayNext
  /\ UNCHANGED Down!relayVars => UNCHANGED RP!relayVars
  /\ RP!InOrder => Down!InOrder
BY DEF Down!RelayInit, RP!RelayInit, Down!RelayNext, RP!RelayNext, Down!Finish, RP!Finish,
   Down!Put, RP!Put, Down!Take, RP!Take, Down!relayVars, RP!relayVars, Down!InOrder,
   RP!InOrder

\* So at any moment what a game client has received is, packet by packet, what its
\* game server sent first, or what the hook may make of it (client.cpp:34-38).
THEOREM DownComesInOrder == Spec => []Down!InOrder
<1>1. RP!RelaySpec => []RP!InOrder BY RP!OrderIsKept
<1> QED
  BY DownIsReliable, SameRelay, <1>1, PTL DEF DownRelays, Down!RelaySpec, RP!RelaySpec

-----------------------------------------------------------------------------
(* What goes up stays in order, whichever session it goes over.            *)

\* The data packets of the queue q are of those that were sent, and those of each
\* game client are in order.
Rising(q, sent) ==
  \A i \in 1..Len(q) : q[i].id = "data" =>
    /\ q[i].n <= sent[q[i].guid]
    /\ \A j \in 1..Len(q) :
         i < j /\ q[j].id = "data" /\ q[j].guid = q[i].guid => q[i].n < q[j].n

\* What came out was sent, and before what the queue q still has of its sender.
Ahead(out, q, sent) ==
  \A i \in 1..Len(out) :
    /\ out[i].n <= sent[out[i].from]
    /\ \A j \in 1..Len(q) : q[j].id = "data" /\ q[j].guid = out[i].from => out[i].n < q[j].n

\* What the session that runs has sent up is behind what the others did, and one
\* that was not made has sent nothing.
Successive ==
  /\ server.client \in GameClients =>
       \A c \in GameClients : c # server.client => UpBefore(c, server.client)
  /\ \A c \in GameClients : uplink[c] = "none" => upLog[c] = <<>>

OrderInv == /\ Rising(inbox[Listener], upSent)
            /\ \A c \in GameClients : Ahead(upLog[c], inbox[Listener], upSent)
            /\ UpInOrder
            /\ Successive

LEMMA RisingTaken ==
  ASSUME NEW q \in Seq(Packet), NEW r \in Seq(Packet), NEW sent,
         \A i \in 1..Len(r) : i + 1 \in 1..Len(q) /\ r[i] = q[i + 1],
         Rising(q, sent)
  PROVE  /\ Rising(r, sent)
         /\ \A out : Ahead(out, q, sent) => Ahead(out, r, sent)
<1>1. \A i, j \in 1..Len(r) : i < j => i + 1 < j + 1 OBVIOUS
<1> QED BY <1>1 DEF Rising, Ahead

LEMMA RisingArrived ==
  ASSUME NEW q \in Seq(Packet), NEW r \in Seq(Packet), NEW e \in Packet,
         Len(r) = Len(q) + 1, \A i \in 1..Len(q) : r[i] = q[i], r[Len(q) + 1] = e,
         NEW sent \in [GameClients -> Nat], NEW more \in [GameClients -> Nat],
         \/ e.id # "data" /\ more = sent
         \/ e.guid \in GameClients /\ e.n = sent[e.guid] + 1
            /\ more = [sent EXCEPT ![e.guid] = @ + 1],
         \A i \in 1..Len(q) : q[i].guid \in GameClients,
         Rising(q, sent)
  PROVE  /\ Rising(r, more)
         /\ \A out \in Seq(Message) : Ahead(out, q, sent) => Ahead(out, r, more)
<1>1. Len(q) \in Nat /\ \A i \in 1..Len(q) : q[i].n \in Nat
  <2>1. Len(q) \in Nat /\ \A i \in 1..Len(q) : q[i] \in Packet OBVIOUS
  <2> QED BY <2>1 DEF Packet
<1>2. \A g \in GameClients : sent[g] \in Nat /\ more[g] \in Nat /\ sent[g] <= more[g]
  OBVIOUS
<1>3. \A i \in 1..Len(r) : i \in 1..Len(q) \/ i = Len(q) + 1 BY <1>1
<1>4. e.id = "data" => e.guid \in GameClients /\ e.n = sent[e.guid] + 1 /\ e.n <= more[e.guid]
  BY <1>2
<1>5. ASSUME NEW i \in 1..Len(r), r[i].id = "data"
      PROVE  /\ r[i].n <= more[r[i].guid]
             /\ \A j \in 1..Len(r) :
                  i < j /\ r[j].id = "data" /\ r[j].guid = r[i].guid => r[i].n < r[j].n
  <2>1. CASE i = Len(q) + 1
    <3>1. \A j \in 1..Len(r) : ~(i < j) BY <1>1, <2>1
    <3> QED BY <1>4, <1>5, <2>1, <3>1
  <2>2. CASE i \in 1..Len(q)
    <3>1. /\ r[i] = q[i] /\ q[i].guid \in GameClients /\ q[i].n \in Nat
          /\ q[i].n <= sent[q[i].guid]
      BY <1>1, <1>5, <2>2 DEF Rising
    <3>2. r[i].n <= more[r[i].guid] BY <1>2, <3>1
    <3>3. ASSUME NEW j \in 1..Len(r), i < j, r[j].id = "data", r[j].guid = r[i].guid
          PROVE  r[i].n < r[j].n
      <4>1. CASE j = Len(q) + 1 BY <1>2, <1>4, <3>1, <3>3, <4>1
      <4>2. CASE j \in 1..Len(q) BY <1>5, <2>2, <3>1, <3>3, <4>2 DEF Rising
      <4> QED BY <1>3, <4>1, <4>2
    <3> QED BY <3>2, <3>3
  <2> QED BY <1>3, <2>1, <2>2
<1>6. ASSUME NEW out \in Seq(Message), Ahead(out, q, sent), NEW i \in 1..Len(out)
      PROVE  /\ out[i].n <= more[out[i].from]
             /\ \A j \in 1..Len(r) : r[j].id = "data" /\ r[j].guid = out[i].from
                                       => out[i].n < r[j].n
  <2>1. /\ out[i].from \in GameClients /\ out[i].n \in Nat
        /\ out[i].n <= sent[out[i].from]
    <3>1. out[i] \in Message BY <1>6
    <3> QED BY <1>6, <3>1 DEF Ahead, Message
  <2>2. ASSUME NEW j \in 1..Len(r), r[j].id = "data", r[j].guid = out[i].from
        PROVE  out[i].n < r[j].n
    <3>1. CASE j = Len(q) + 1 BY <1>2, <1>4, <2>1, <2>2, <3>1
    <3>2. CASE j \in 1..Len(q) BY <1>6, <2>2, <3>2 DEF Ahead
    <3> QED BY <1>3, <3>1, <3>2
  <2> QED BY <1>2, <2>1, <2>2
<1>7. Rising(r, more) BY <1>5 DEF Rising
<1> QED BY <1>6, <1>7 DEF Ahead

LEMMA InitOrderInv == Init => OrderInv
BY NamesDistinct DEF Init, OrderInv, Rising, Ahead, UpInOrder, UpBefore, Successive, Peers

\* A step that sends nothing up, and makes at most a session of its own.
LEMMA KeptOrderInv ==
  ASSUME OrderInv, UNCHANGED upLog,
         Rising(inbox[Listener], upSent)',
         \A c \in GameClients : Ahead(upLog[c], inbox[Listener], upSent)',
         \A c \in GameClients : uplink'[c] = "none" => uplink[c] = "none",
         server'.client \in GameClients =>
           server'.client = server.client \/ uplink[server'.client] = "none"
  PROVE  OrderInv'
<1>1. UpInOrder' BY DEF OrderInv, UpInOrder, UpBefore
<1>2. ASSUME NEW c \in GameClients, NEW s \in GameClients, s = server'.client, c # s
      PROVE  UpBefore(c, s)'
  <2>1. CASE server.client = s
    <3>1. UpBefore(c, s) BY <1>2, <2>1 DEF OrderInv, Successive
    <3> QED BY <3>1 DEF UpBefore
  <2>2. CASE uplink[s] = "none"
    <3>1. upLog'[s] = <<>> BY <2>2 DEF OrderInv, Successive
    <3> QED BY <3>1 DEF UpBefore
  <2> QED BY <1>2, <2>1, <2>2
<1>3. Successive'
  <2>1. \A c \in GameClients : uplink'[c] = "none" => upLog'[c] = <<>>
    BY DEF OrderInv, Successive
  <2>2. server'.client \in GameClients =>
          \A c \in GameClients : c # server'.client => UpBefore(c, server.client)'
    <3> SUFFICES ASSUME NEW c \in GameClients, server'.client \in GameClients,
                        c # server'.client
                 PROVE  UpBefore(c, server.client)'
      OBVIOUS
    <3>1. PICK s \in GameClients : s = server'.client OBVIOUS
    <3>2. UpBefore(c, s)' BY <1>2, <3>1
    <3> QED BY <3>1, <3>2 DEF UpBefore
  <2> QED BY <2>1, <2>2 DEF Successive
<1> QED BY <1>1, <1>3 DEF OrderInv

\* Nothing happens to the Listener's queue.
LEMMA StillOrderInv ==
  ASSUME OrderInv, UNCHANGED <<upLog, upSent>>, inbox'[Listener] = inbox[Listener],
         \A c \in GameClients : uplink'[c] = "none" => uplink[c] = "none",
         server'.client \in GameClients => server'.client = server.client
  PROVE  OrderInv'
<1>1. /\ Rising(inbox[Listener], upSent)'
      /\ \A c \in GameClients : Ahead(upLog[c], inbox[Listener], upSent)'
  BY DEF OrderInv, Rising, Ahead
<1> QED BY <1>1, KeptOrderInv

\* A packet for the Server is taken and goes nowhere.
LEMMA TakenOrderInv ==
  ASSUME IInv, OrderInv, UNCHANGED <<upLog, upSent>>,
         inbox[Listener] # <<>>, inbox' = AfterReceive(Listener),
         \A c \in GameClients : uplink'[c] = "none" => uplink[c] = "none",
         server'.client \in GameClients =>
           server'.client = server.client \/ uplink[server'.client] = "none"
  PROVE  OrderInv'
<1>1. PICK q \in Seq(Packet), r \in Seq(Packet) :
        /\ q = inbox[Listener] /\ r = inbox'[Listener]
        /\ \A i \in 1..Len(r) : i + 1 \in 1..Len(q) /\ r[i] = q[i + 1]
  <2>1. Listener \in Peers BY DEF Peers
  <2>2. /\ inbox' \in [Peers -> Seq(Packet)] /\ inbox \in [Peers -> Seq(Packet)]
        /\ \A i \in 1..Len(inbox'[Listener]) :
             /\ i + 1 \in 1..Len(inbox[Listener])
             /\ inbox'[Listener][i] = inbox[Listener][i + 1]
    BY <2>1, ReceiptFacts DEF IInv, TypeOK
  <2> QED BY <2>1, <2>2
<1>2. Rising(q, upSent) /\ \A c \in GameClients : Ahead(upLog[c], q, upSent)
  BY <1>1 DEF OrderInv
<1>3. Rising(r, upSent) /\ \A c \in GameClients : Ahead(upLog[c], r, upSent)
  BY <1>1, <1>2, RisingTaken
<1>4. /\ Rising(inbox[Listener], upSent)'
      /\ \A c \in GameClients : Ahead(upLog[c], inbox[Listener], upSent)'
  BY <1>1, <1>3 DEF Rising, Ahead
<1> QED BY <1>4, KeptOrderInv

\* A packet arrives for the Server, the next of its game client if it is data.
LEMMA GameClientOrderInv ==
  ASSUME IInv, OrderInv, NEW g \in GameClients,
         GameClientConnects(g) \/ GameClientSends(g) \/ GameClientGone(g)
  PROVE  OrderInv'
<1>1. /\ UNCHANGED <<server, uplink, upLog>> /\ upSent \in [GameClients -> Nat]
      /\ upLog \in [GameClients -> Seq(Message)] /\ inbox[Listener] \in Seq(Packet)
      /\ Listener \in Peers
  BY DEF GameClientConnects, GameClientSends, GameClientGone, objects, net, traffic, IInv,
     TypeOK, Peers
<1>2. PICK e \in Packet :
        /\ Arrives(Listener, e) /\ e.guid = g
        /\ \/ e.id # "data" /\ upSent' = upSent
           \/ e.n = upSent[g] + 1 /\ upSent' = [upSent EXCEPT ![g] = @ + 1]
  <2>1. CASE GameClientConnects(g) \/ GameClientGone(g)
    <3>1. PICK id \in {"new", "left", "lost"} : Arrives(Listener, Control(id, g))
      BY <2>1 DEF GameClientConnects, GameClientGone
    <3>2. /\ Control(id, g) \in Packet /\ Control(id, g).guid = g
          /\ Control(id, g).id # "data"
      BY DEF Control, Packet, PacketIds, Kinds
    <3> QED BY <2>1, <3>1, <3>2 DEF GameClientConnects, GameClientGone, traffic
  <2>2. CASE GameClientSends(g)
    <3>1. /\ Data(g, upSent[g] + 1, "plain") \in Packet
          /\ Data(g, upSent[g] + 1, "plain").guid = g
          /\ Data(g, upSent[g] + 1, "plain").n = upSent[g] + 1
      BY <1>1 DEF Data, Packet, PacketIds, Kinds
    <3> QED BY <2>2, <3>1 DEF GameClientSends
  <2> QED BY <2>1, <2>2
<1>3. /\ inbox'[Listener] \in Seq(Packet)
      /\ Len(inbox'[Listener]) = Len(inbox[Listener]) + 1
      /\ \A i \in 1..Len(inbox[Listener]) : inbox'[Listener][i] = inbox[Listener][i]
      /\ inbox'[Listener][Len(inbox[Listener]) + 1] = e
  BY <1>1, <1>2, ArrivalFacts DEF IInv
<1>4. PICK q \in Seq(Packet), r \in Seq(Packet) : q = inbox[Listener] /\ r = inbox'[Listener]
  BY <1>1, <1>3
<1>5. PICK sent \in [GameClients -> Nat], more \in [GameClients -> Nat] :
        sent = upSent /\ more = upSent'
  <2>1. upSent' \in [GameClients -> Nat]
    <3>1. upSent[g] + 1 \in Nat BY <1>1
    <3> QED BY <1>1, <1>2, <3>1
  <2> QED BY <1>1, <2>1
<1>6. Rising(q, sent) /\ \A c \in GameClients : Ahead(upLog[c], q, sent)
  BY <1>4, <1>5 DEF OrderInv
<1>7. \A i \in 1..Len(q) : q[i].guid \in GameClients BY <1>4 DEF IInv, ListenerInbox
<1>8. /\ Len(r) = Len(q) + 1 /\ \A i \in 1..Len(q) : r[i] = q[i]
      /\ r[Len(q) + 1] = e
      /\ \/ e.id # "data" /\ more = sent
         \/ e.guid \in GameClients /\ e.n = sent[e.guid] + 1
            /\ more = [sent EXCEPT ![e.guid] = @ + 1]
  BY <1>2, <1>3, <1>4, <1>5
<1>9. /\ Rising(r, more)
      /\ \A out \in Seq(Message) : Ahead(out, q, sent) => Ahead(out, r, more)
  BY <1>6, <1>7, <1>8, RisingArrived
<1>10. /\ Rising(inbox[Listener], upSent)'
       /\ \A c \in GameClients : Ahead(upLog[c], inbox[Listener], upSent)'
  <2>1. \A c \in GameClients : Ahead(upLog[c], r, more) BY <1>1, <1>6, <1>9
  <2> QED BY <1>1, <1>4, <1>5, <1>9, <2>1 DEF Rising, Ahead
<1> QED BY <1>1, <1>10, KeptOrderInv

\* The packet m goes behind what the running session has sent up.
LEMMA SentUp ==
  ASSUME OrderInv, upLog \in [GameClients -> Seq(Message)], NEW s \in GameClients,
         server.client = s, UNCHANGED server, NEW m \in Message,
         upLog' = [upLog EXCEPT ![s] = Append(@, m)],
         \A c \in GameClients : \A i \in 1..Len(upLog[c]) :
           upLog[c][i].from = m.from => upLog[c][i].n < m.n
  PROVE  /\ UpInOrder'
         /\ \A c \in GameClients : c # s => UpBefore(c, s)'
         /\ \A i \in 1..Len(upLog'[s]) :
              \/ i \in 1..Len(upLog[s]) /\ upLog'[s][i] = upLog[s][i]
              \/ i = Len(upLog[s]) + 1 /\ upLog'[s][i] = m
         /\ \A c \in GameClients : c # s => upLog'[c] = upLog[c]
<1>1. /\ upLog[s] \in Seq(Message) /\ Len(upLog[s]) \in Nat
      /\ upLog'[s] = Append(upLog[s], m)
      /\ \A c \in GameClients : c # s => upLog'[c] = upLog[c]
  OBVIOUS
<1>2. \A i \in 1..Len(upLog'[s]) :
        \/ i \in 1..Len(upLog[s]) /\ upLog'[s][i] = upLog[s][i]
        \/ i = Len(upLog[s]) + 1 /\ upLog'[s][i] = m
  BY <1>1
<1>3. ASSUME NEW i \in 1..Len(upLog'[s]), NEW j \in 1..Len(upLog'[s]),
             i < j, upLog'[s][i].from = upLog'[s][j].from
      PROVE  upLog'[s][i].n < upLog'[s][j].n
  <2>1. i \in 1..Len(upLog[s]) /\ upLog'[s][i] = upLog[s][i] BY <1>1, <1>2, <1>3
  <2>2. CASE upLog'[s][j] = m BY <1>3, <2>1, <2>2
  <2>3. CASE j \in 1..Len(upLog[s]) /\ upLog'[s][j] = upLog[s][j]
    BY <1>3, <2>1, <2>3 DEF OrderInv, UpInOrder
  <2> QED BY <1>2, <2>2, <2>3
<1>4. ASSUME NEW c \in GameClients, c # s PROVE UpBefore(c, s)'
  <2>1. UpBefore(c, s) BY <1>4 DEF OrderInv, Successive
  <2>2. ASSUME NEW i \in 1..Len(upLog[c]), NEW j \in 1..Len(upLog'[s]),
               upLog[c][i].from = upLog'[s][j].from
        PROVE  upLog[c][i].n < upLog'[s][j].n
    BY <1>2, <2>1, <2>2 DEF UpBefore
  <2> QED BY <1>1, <1>4, <2>2 DEF UpBefore
<1>5. ASSUME NEW c \in GameClients, NEW d \in GameClients, c # d
      PROVE  UpBefore(c, d)' \/ UpBefore(d, c)'
  <2>1. CASE c # s /\ d # s
    <3>1. UpBefore(c, d) \/ UpBefore(d, c) BY <1>5 DEF OrderInv, UpInOrder
    <3> QED BY <1>1, <2>1, <3>1 DEF UpBefore
  <2> QED BY <1>4, <1>5, <2>1
<1>6. ASSUME NEW c \in GameClients, c # s
      PROVE  \A i, j \in 1..Len(upLog'[c]) :
               i < j /\ upLog'[c][i].from = upLog'[c][j].from
                 => upLog'[c][i].n < upLog'[c][j].n
  BY <1>1, <1>6 DEF OrderInv, UpInOrder
<1>7. UpInOrder'
  <2>1. \A c \in GameClients : \A i, j \in 1..Len(upLog'[c]) :
          i < j /\ upLog'[c][i].from = upLog'[c][j].from
            => upLog'[c][i].n < upLog'[c][j].n
    BY <1>3, <1>6
  <2>2. \A c, d \in GameClients : c # d => UpBefore(c, d)' \/ UpBefore(d, c)'
    BY <1>5
  <2> QED BY <2>1, <2>2 DEF UpInOrder, UpBefore
<1> QED BY <1>1, <1>2, <1>4, <1>7

LEMMA ServerTickDataOrderInv ==
  ASSUME IInv, OrderInv, ServerTickData
  PROVE  OrderInv'
<1>1. /\ server.pointer = Listener /\ Listener \in Peers /\ inbox[Listener] # <<>>
      /\ NET_Receive(Listener).id = "data" /\ NET_Receive(Listener).guid \in GameClients
      /\ server.client \in GameClients
  BY ServerReceivesFacts DEF ServerTickData, IInv
<1>2. PICK s \in GameClients : s = server.client BY <1>1
<1> DEFINE packet == NET_Receive(Listener)
           m == [from |-> packet.guid, n |-> packet.n, kind |-> packet.kind]
<1>3. /\ inbox' = AfterReceive(Listener) /\ upLog' = Deliver(upLog, ClientSendsTo(s), m)
      /\ UNCHANGED <<server, uplink, upSent>>
  BY <1>1, <1>2 DEF ServerTickData, objects, net
<1>4. packet \in Packet /\ m \in Message BY <1>1, <1>3, ReceiptFacts DEF IInv, Message, Packet
<1>5. /\ inbox[Listener] \in Seq(Packet) /\ inbox'[Listener] \in Seq(Packet)
      /\ 1 \in 1..Len(inbox[Listener]) /\ inbox[Listener][1] = packet
      /\ \A i \in 1..Len(inbox'[Listener]) :
           /\ i + 1 \in 1..Len(inbox[Listener])
           /\ inbox'[Listener][i] = inbox[Listener][i + 1]
  BY <1>1, <1>3, ReceiptFacts DEF IInv, TypeOK
<1> HIDE DEF packet
<1>6. CASE ClientSendsTo(s) = {}
  <2>1. upLog' = upLog BY <1>3, <1>6 DEF Deliver, IInv, TypeOK
  <2> QED BY <1>1, <1>3, <2>1, TakenOrderInv
<1>7. CASE ClientSendsTo(s) # {}
  <2>0. upLog \in [GameClients -> Seq(Message)] BY DEF IInv, TypeOK
  <2>1. ClientSendsTo(s) = {s}
    <3>1. client[s].pointer \in {s, Null}
      BY <1>1, <1>2, ServerReceivesFacts DEF ServerTickData, IInv, HandlesValid
    <3> QED BY <1>7, <3>1, NamesDistinct DEF ClientSendsTo
  <2>2. upLog' = [upLog EXCEPT ![s] = Append(@, m)] BY <1>3, <2>0, <2>1 DEF Deliver
  <2>3. PICK q \in Seq(Packet), r \in Seq(Packet) :
          q = inbox[Listener] /\ r = inbox'[Listener]
    BY <1>5
  <2>4. /\ Rising(q, upSent) /\ \A c \in GameClients : Ahead(upLog[c], q, upSent)
        /\ \A i \in 1..Len(r) : i + 1 \in 1..Len(q) /\ r[i] = q[i + 1]
        /\ 1 \in 1..Len(q) /\ q[1] = packet /\ packet.id = "data"
    BY <1>1, <1>5, <2>3 DEF OrderInv, packet
  <2>5. /\ Rising(r, upSent) /\ \A c \in GameClients : Ahead(upLog[c], r, upSent)
    BY <2>4, RisingTaken
  <2>6. \A c \in GameClients : \A i \in 1..Len(upLog[c]) :
          upLog[c][i].from = m.from => upLog[c][i].n < m.n
    BY <2>4 DEF Ahead
  <2>7. /\ m.n <= upSent[m.from]
        /\ \A j \in 1..Len(r) : r[j].id = "data" /\ r[j].guid = m.from => m.n < r[j].n
    <3>1. /\ q[1].n <= upSent[q[1].guid]
          /\ \A j \in 1..Len(q) :
               1 < j /\ q[j].id = "data" /\ q[j].guid = q[1].guid => q[1].n < q[j].n
      BY <2>4 DEF Rising
    <3>2. \A j \in 1..Len(r) : 1 < j + 1 OBVIOUS
    <3> QED BY <2>4, <3>1, <3>2
  <2> HIDE DEF m
  <2>8. /\ UpInOrder'
        /\ \A c \in GameClients : c # s => UpBefore(c, s)'
        /\ \A i \in 1..Len(upLog'[s]) :
             \/ i \in 1..Len(upLog[s]) /\ upLog'[s][i] = upLog[s][i]
             \/ i = Len(upLog[s]) + 1 /\ upLog'[s][i] = m
        /\ \A c \in GameClients : c # s => upLog'[c] = upLog[c]
    BY <1>2, <1>3, <1>4, <2>0, <2>2, <2>6, SentUp
  <2>9. ASSUME NEW c \in GameClients PROVE Ahead(upLog'[c], r, upSent)
    <3>1. CASE c = s BY <2>5, <2>7, <2>8, <3>1 DEF Ahead
    <3>2. CASE c # s BY <2>5, <2>8, <3>2
    <3> QED BY <3>1, <3>2
  <2>10. Successive'
    <3>1. uplink[s] # "none"
      BY <1>7, <2>1 DEF ClientSendsTo
    <3>2. \A c \in GameClients : c # server'.client => UpBefore(c, server.client)'
      BY <1>2, <1>3, <2>8 DEF UpBefore
    <3> QED BY <1>3, <2>8, <3>1, <3>2 DEF OrderInv, Successive
  <2>11. /\ Rising(inbox[Listener], upSent)'
         /\ \A c \in GameClients : Ahead(upLog[c], inbox[Listener], upSent)'
    BY <1>3, <2>3, <2>5, <2>9 DEF Rising, Ahead
  <2> QED BY <2>8, <2>10, <2>11 DEF OrderInv
<1> QED BY <1>6, <1>7

\* The other steps of main and of the listening thread.
LEMMA ServerTickOrderInv ==
  ASSUME IInv, OrderInv, ServerTickNew \/ ServerTickLeft \/ ServerTickLost
  PROVE  OrderInv'
<1>1. /\ server.pointer = Listener /\ inbox[Listener] # <<>>
      /\ ServerTickNew => uplink[NET_Receive(Listener).guid] = "none"
  BY ServerReceivesFacts DEF ServerTickNew, ServerTickLeft, ServerTickLost, IInv
<1>2. inbox' = AfterReceive(Listener) /\ UNCHANGED <<upLog, upSent>>
  BY <1>1 DEF ServerTickNew, ServerTickLeft, ServerTickLost, traffic
<1>3. CASE ServerTickNew
  <2>1. /\ server'.client = NET_Receive(Listener).guid
        /\ \A c \in GameClients : uplink'[c] = "none" => uplink[c] = "none"
    BY <1>1, <1>3 DEF ServerTickNew, Adopts, IInv, TypeOK
  <2> QED BY <1>1, <1>2, <1>3, <2>1, TakenOrderInv
<1>4. CASE ServerTickLeft \/ ServerTickLost
  <2>1. \A c \in GameClients : uplink'[c] = "none" => uplink[c] = "none"
    BY <1>4, CloseFacts DEF ServerTickLeft, ServerTickLost, IInv
  <2>2. server'.client = server.client
    BY <1>4 DEF ServerTickLeft, ServerTickLost, ServerClosed, IInv, TypeOK
  <2> QED BY <1>1, <1>2, <2>1, <2>2, TakenOrderInv
<1> QED BY <1>3, <1>4

LEMMA ClientTickOrderInv ==
  ASSUME IInv, OrderInv,
         HandshakeDone \/ ClientTickLeft \/ ClosesClient \/ ClientTickLost \/ ReportsLost
           \/ ClientTickData
  PROVE  OrderInv'
<1>1. UNCHANGED <<upLog, upSent>> /\ server'.client = server.client
  BY DEF HandshakeDone, ClientTickLeft, ClosesClient, ClientTickLost, ReportsLost,
     ClientTickData, ServerClosed, objects, traffic, IInv, TypeOK
<1>2. \A c \in GameClients : uplink'[c] = "none" => uplink[c] = "none"
  BY CloseFacts DEF HandshakeDone, ClientTickLeft, ClosesClient, ClientTickLost,
     ReportsLost, ClientTickData, net, IInv
<1>3. inbox'[Listener] = inbox[Listener]
  <2>1. CASE ClosesClient \/ ReportsLost BY <2>1 DEF ClosesClient, ReportsLost
  <2>2. CASE HandshakeDone \/ ClientTickLeft \/ ClientTickLost \/ ClientTickData
    <3>1. client[server.client].pointer \in GameClients
      BY <2>2, ClientReceivesFacts DEF HandshakeDone, ClientTickLeft, ClientTickLost,
         ClientTickData, IInv, HandlesValid
    <3>2. inbox' = AfterReceive(client[server.client].pointer)
      BY <2>2 DEF HandshakeDone, ClientTickLeft, ClientTickLost, ClientTickData
    <3> QED BY <3>1, <3>2, NamesDistinct DEF AfterReceive, IInv, TypeOK, Peers
  <2> QED BY <2>1, <2>2
<1> QED BY <1>1, <1>2, <1>3, StillOrderInv

LEMMA StepOrderInv ==
  ASSUME IInv, OrderInv, [Next]_vars
  PROVE  OrderInv'
<1>1. CASE Main
  <2>1. /\ UNCHANGED <<upLog, upSent, inbox, uplink>>
        /\ server'.client \in GameClients => server'.client = server.client
    BY <1>1, NamesDistinct, JunkUndesignated
       DEF Main, InitThrows, StartServer, Polls, Returns, ProcessEnds, vars, objects, net,
           traffic
  <2> QED BY <2>1, StillOrderInv
<1>2. CASE \/ ServerTickDead \/ ServerTickIdle \/ HandshakeWaits \/ ClientTickNone
           \/ ClientTickWild \/ ClientTickDead \/ ClientTickIdle \/ Wakes
           \/ UNCHANGED vars
  <2>1. UNCHANGED <<upLog, upSent, inbox, uplink, server>>
    BY <1>2 DEF ServerTickDead, ServerTickIdle, HandshakeWaits, ClientTickNone,
       ClientTickWild, ClientTickDead, ClientTickIdle, Wakes, vars, objects, net, traffic
  <2> QED BY <2>1, StillOrderInv
<1>3. CASE ListenThread
  BY <1>2, <1>3, ServerTickOrderInv, ClientTickOrderInv, ServerTickDataOrderInv
     DEF ListenThread, ServerTick, ClientTick
<1>4. ASSUME NEW c \in GameClients,
             AttemptEnds(c) \/ GameServerSends(c) \/ GameServerGone(c)
      PROVE  OrderInv'
  <2>1. UNCHANGED <<server, upLog, upSent>> /\ \E e : Arrives(c, e)
    BY <1>4 DEF AttemptEnds, GameServerSends, GameServerGone, objects, traffic
  <2>2. inbox'[Listener] = inbox[Listener]
    BY <2>1, NamesDistinct DEF Arrives, IInv, TypeOK, Peers
  <2>3. \A d \in GameClients : uplink'[d] = "none" => uplink[d] = "none"
    BY <1>4 DEF AttemptEnds, GameServerSends, GameServerGone, net, IInv, TypeOK
  <2> QED BY <2>1, <2>2, <2>3, StillOrderInv
<1>5. CASE Outside BY <1>4, <1>5, GameClientOrderInv DEF Outside
<1> QED BY <1>1, <1>2, <1>3, <1>5 DEF Next, Ended

\* What a game client sends reaches the game server once at most and in order, and
\* no session that was replaced gets a packet behind those of the next, however
\* many game clients connect (server.cpp:40-43, 84-90).
THEOREM UpStaysInOrder == Spec => []UpInOrder
<1>1. IInv /\ OrderInv /\ [Next]_vars => OrderInv' BY StepOrderInv
<1>2. OrderInv => UpInOrder BY DEF OrderInv
<1> QED BY InitOrderInv, Invariance, <1>1, <1>2, PTL DEF Spec

-----------------------------------------------------------------------------
(* What a lone game client delivers: the refinement of Relay, upwards.     *)

\* What it has sent, of which the proxy tells nothing apart.
Plains(k) == [n \in 1..k |-> "plain"]

\* The Listener's queue takes up where the game server is, and ends, while the
\* game client is there, with its last packet: from before the session is made
\* until its connection to the game server ends.
UpInStep(g) ==
  ~Over /\ uplink[g] \in Early \cup {"up"} =>
    /\ Pending(inbox[Listener], upLog[g], Plains(upSent[g]))
    /\ link[g] = "up" =>
         upSent[g] = Len(upLog[g]) + Len(inbox[Listener]) - Greeting(inbox[Listener])

\* Nothing is sent before the connection; no session is there before it is made;
\* and until its attempt ends nothing is received for it, and the loop waits.
Begins(g) ==
  /\ link[g] = "none" => upSent[g] = 0 /\ upLog[g] = <<>>
  /\ uplink[g] = "none" => server.client # g
  /\ uplink[g] \in Early => inbox[g] = <<>>
  /\ ~Over /\ uplink[g] \in {"unstarted", "connecting"} => listenPc = "connecting"

UInv == \A g \in GameClients : UpInStep(g) /\ Begins(g)

\* The hypothesis of this section: no more than one game client connects.
Lone == \A g, h \in GameClients : g = h

LEMMA PlainsFacts ==
  ASSUME NEW k \in Nat
  PROVE  /\ Plains(k) \in Seq(Kinds) /\ Len(Plains(k)) = k
         /\ \A n \in 1..k : Plains(k)[n] = "plain"
BY DEF Plains, Kinds

\* What is known of the two queues and of what went through them.
LEMMA UpTypes ==
  ASSUME IInv, NEW g \in GameClients
  PROVE  /\ Listener \in Peers /\ g \in Peers /\ g # Listener
         /\ inbox[Listener] \in Seq(Packet) /\ inbox[g] \in Seq(Packet)
         /\ upLog[g] \in Seq(Message) /\ upSent[g] \in Nat
BY NamesDistinct DEF IInv, TypeOK, Peers

\* What the Listener's queue is after it has received.
LEMMA ListenerQueue ==
  ASSUME IInv, inbox[Listener] # <<>>, inbox' = AfterReceive(Listener)
  PROVE  \E q, r \in Seq(Packet) :
           /\ q = inbox[Listener] /\ r = inbox'[Listener] /\ q # <<>>
           /\ q[1] = NET_Receive(Listener) /\ NET_Receive(Listener) \in Packet
           /\ Len(r) = Len(q) - 1 /\ \A i \in 1..Len(r) : r[i] = q[i + 1]
           /\ \A g \in GameClients : inbox'[g] = inbox[g]
<1>1. Listener \in Peers /\ \A g \in GameClients : g \in Peers /\ g # Listener
  BY NamesDistinct DEF Peers
<1>2. PICK q \in Seq(Packet) : q = inbox[Listener] BY <1>1 DEF IInv, TypeOK
<1>3. /\ inbox'[Listener] = Tail(q) /\ q # <<>> /\ Tail(q) \in Seq(Packet)
  BY <1>1, <1>2 DEF AfterReceive, IInv, TypeOK
<1>4. Len(Tail(q)) = Len(q) - 1 /\ \A i \in 1..Len(Tail(q)) : Tail(q)[i] = q[i + 1]
  BY <1>3
<1>5. \A g \in GameClients : inbox'[g] = inbox[g] BY <1>1, ReceiptFacts DEF IInv
<1>6. q[1] = NET_Receive(Listener) /\ NET_Receive(Listener) \in Packet
  BY <1>1, <1>2, ReceiptFacts DEF IInv
<1> QED BY <1>2, <1>3, <1>4, <1>5, <1>6

LEMMA InitUInv == Init => UInv
<1> SUFFICES ASSUME Init, NEW g \in GameClients PROVE UpInStep(g) /\ Begins(g)
  BY DEF UInv
<1>1. /\ inbox[Listener] = <<>> /\ inbox[g] = <<>> /\ link[g] = "none" /\ uplink[g] = "none"
      /\ upSent[g] = 0 /\ upLog[g] = <<>> /\ server.client = Null
  BY DEF Init, Peers
<1>2. UpInStep(g) BY <1>1 DEF UpInStep, Pending, Greeting
<1>3. Begins(g) BY <1>1, NamesDistinct DEF Begins, Early
<1> QED BY <1>2, <1>3

\* A step that leaves the Listener's queue and what was sent alone.
LEMMA KeptUpInStep ==
  ASSUME NEW g \in GameClients, UpInStep(g), UNCHANGED <<upSent, upLog>>,
         Over' \/ inbox'[Listener] = inbox[Listener],
         uplink'[g] \in Early \cup {"up"} => uplink[g] \in Early \cup {"up"},
         link'[g] = "up" => link[g] = "up",
         ~Over' => ~Over
  PROVE  UpInStep(g)'
BY DEF UpInStep

\* A step that begins neither a connection nor a session.
LEMMA KeptBegins ==
  ASSUME NEW g \in GameClients, Begins(g), UNCHANGED <<upSent, upLog>>,
         link'[g] = "none" => link[g] = "none",
         uplink'[g] = "none" => uplink[g] = "none" /\ server'.client # g,
         uplink'[g] \in Early => uplink[g] \in Early /\ inbox'[g] = inbox[g],
         ~Over' /\ uplink'[g] \in {"unstarted", "connecting"} =>
           ~Over /\ uplink[g] \in {"unstarted", "connecting"} /\ listenPc' = listenPc
  PROVE  Begins(g)'
BY DEF Begins

LEMMA MainUInv ==
  ASSUME IInv, UInv, Main
  PROVE  UInv'
<1> SUFFICES ASSUME NEW g \in GameClients PROVE UpInStep(g)' /\ Begins(g)' BY DEF UInv
<1>1. UNCHANGED <<upSent, upLog, inbox, link, uplink>>
  BY DEF Main, InitThrows, StartServer, Polls, Returns, ProcessEnds, vars, net, traffic
<1>2. UpInStep(g) /\ Begins(g) BY DEF UInv
<1>3. CASE StartServer
  <2>1. listenPc = "unborn" /\ server'.client # g
    BY <1>3, NamesDistinct, JunkUndesignated DEF StartServer, IInv, Phases
  <2>2. ~Over /\ uplink[g] \notin {"unstarted", "connecting"}
    BY <1>2, <2>1 DEF Over, Begins
  <2> QED BY <1>1, <1>2, <2>1, <2>2, KeptUpInStep, KeptBegins
<1>4. CASE InitThrows \/ Polls \/ Returns \/ ProcessEnds
  <2>1. UNCHANGED <<listenPc, server>> /\ Over' = Over
    BY <1>4 DEF InitThrows, Polls, Returns, ProcessEnds, vars, objects, Over
  <2>2. uplink[g] = "none" => server'.client # g BY <1>2, <2>1 DEF Begins
  <2> QED BY <1>1, <1>2, <2>1, <2>2, KeptUpInStep, KeptBegins
<1> QED BY <1>3, <1>4 DEF Main

\* The steps of the listening thread that only move it on.
LEMMA MovesUInv ==
  ASSUME IInv, UInv,
         \/ ServerTickDead \/ ServerTickIdle \/ HandshakeWaits \/ ClientTickNone
         \/ ClientTickWild \/ ClientTickDead \/ ClientTickIdle \/ Wakes
         \/ UNCHANGED vars
  PROVE  UInv'
<1> SUFFICES ASSUME NEW g \in GameClients PROVE UpInStep(g)' /\ Begins(g)' BY DEF UInv
<1>1. /\ UNCHANGED <<server, upSent, upLog, inbox, link, uplink>>
      /\ listenPc = "unborn" <=> listenPc' = "unborn"
      /\ listenPc = "connecting" => listenPc' = "connecting"
  BY DEF ServerTickDead, ServerTickIdle, HandshakeWaits, ClientTickNone, vars,
     ClientTickWild, ClientTickDead, ClientTickIdle, Wakes, objects, net, traffic,
     ServerTicks, ClientTicks
<1>2. UpInStep(g) /\ Begins(g) /\ Over' = Over BY <1>1 DEF UInv, Over
<1>3. uplink[g] = "none" => server'.client # g BY <1>1, <1>2 DEF Begins
<1>4. ~Over /\ uplink[g] \in {"unstarted", "connecting"} => listenPc' = listenPc
  BY <1>1, <1>2 DEF Begins
<1> QED BY <1>1, <1>2, <1>3, <1>4, KeptUpInStep, KeptBegins

\* The session of the game client is made: what it has sent is still queued.
LEMMA ServerTickNewUInv ==
  ASSUME Lone, IInv, UInv, ServerTickNew
  PROVE  UInv'
<1> SUFFICES ASSUME NEW g \in GameClients PROVE UpInStep(g)' /\ Begins(g)' BY DEF UInv
<1>1. /\ NET_Receive(Listener).guid = g /\ uplink[g] = "none"
      /\ NET_Receive(Listener).id = "new"
      /\ server.pointer = Listener /\ inbox[Listener] # <<>> /\ server.is_alive
  BY ServerReceivesFacts DEF ServerTickNew, IInv, Lone
<1>2. /\ inbox' = AfterReceive(Listener) /\ listenPc' = "connecting"
      /\ UNCHANGED <<link, upSent, upLog>>
      /\ uplink'[g] \in {"unstarted", "connecting"}
  BY <1>1 DEF ServerTickNew, IInv, TypeOK, traffic
<1>3. ~Over BY <1>1 DEF Over
<1>4. PICK q \in Seq(Packet), r \in Seq(Packet) :
        /\ q = inbox[Listener] /\ r = inbox'[Listener] /\ q # <<>> /\ q[1].id = "new"
        /\ Len(r) = Len(q) - 1 /\ \A i \in 1..Len(r) : r[i] = q[i + 1]
  BY <1>1, <1>2, ListenerQueue
<1>5. PICK k \in Nat, out \in Seq(Message) : k = upSent[g] /\ out = upLog[g]
  BY UpTypes
<1>6. /\ Pending(q, out, Plains(k))
      /\ link[g] = "up" => k = Len(out) + Len(q) - Greeting(q)
  BY <1>1, <1>3, <1>4, <1>5 DEF UInv, UpInStep, Early
<1>7. Greeting(q) = 1 BY <1>4 DEF Greeting, Opening
<1>8. Pending(r, out, Plains(k)) /\ Greeting(r) = 0
  BY <1>4, <1>6, <1>7, PlainsFacts, PendingGreeted
<1>9. link[g] = "up" => k = Len(out) + Len(r) - Greeting(r)
  BY <1>4, <1>6, <1>7, <1>8
<1>10. UpInStep(g)'
  <2>1. /\ inbox'[Listener] = r /\ upSent'[g] = k /\ upLog'[g] = out /\ link' = link
    BY <1>2, <1>4, <1>5
  <2> QED BY <1>8, <1>9, <2>1 DEF UpInStep
<1>11. Begins(g)'
  <2>1. link[g] # "none"
    BY <1>1, <1>4, ReceiptFacts, UpTypes, <1>2 DEF IInv, ListenerInbox
  <2>2. inbox'[g] = <<>>
    <3>1. inbox[g] = <<>> BY <1>1 DEF IInv, ClientInbox
    <3> QED BY <1>1, <1>2, <3>1, ListenerQueue
  <2> QED BY <1>2, <2>1, <2>2 DEF Begins
<1> QED BY <1>10, <1>11

\* The attempt has ended when the handshake reads its answer.
LEMMA HandshakeDoneUInv ==
  ASSUME Lone, IInv, UInv, HandshakeDone
  PROVE  UInv'
<1> SUFFICES ASSUME NEW g \in GameClients PROVE UpInStep(g)' /\ Begins(g)' BY DEF UInv
<1>1. /\ listenPc = "connecting" /\ server.client = g /\ server.is_alive
      /\ client[g].pointer = g /\ inbox[g] # <<>>
  BY DEF HandshakeDone, IInv, Phases, HandlesValid, Lone
<1>2. /\ inbox' = AfterReceive(g) /\ UNCHANGED <<upSent, upLog>>
      /\ \E ps : NET_Close(ps)
  BY <1>1 DEF HandshakeDone, traffic
<1>3. inbox'[Listener] = inbox[Listener]
  BY <1>1, <1>2, ReceiptFacts, UpTypes DEF IInv
<1>4. uplink[g] \notin Early BY <1>1 DEF UInv, Begins
<1>5. /\ uplink'[g] \notin Early
      /\ uplink'[g] = "up" => uplink[g] = "up"
      /\ link'[g] = "up" => link[g] = "up"
      /\ link'[g] = "none" => link[g] = "none"
  BY <1>2, <1>4 DEF NET_Close, IInv, TypeOK, Early
<1>6. UpInStep(g) /\ Begins(g) /\ ~Over BY <1>1 DEF UInv, Over
<1>7. UpInStep(g)' BY <1>2, <1>3, <1>5, <1>6, KeptUpInStep
<1>8. Begins(g)' BY <1>2, <1>5, <1>6, KeptBegins DEF Early
<1> QED BY <1>7, <1>8

\* The handlers that end the session, or finish its end.
LEMMA EndsUInv ==
  ASSUME Lone, IInv, RInv, UInv,
         \/ ServerTickLeft \/ ServerTickLost \/ ClientTickLeft \/ ClientTickLost
         \/ ClosesClient \/ ReportsLost
  PROVE  UInv'
<1> SUFFICES ASSUME NEW g \in GameClients PROVE UpInStep(g)' /\ Begins(g)' BY DEF UInv
<1>1. Over' BY EndsRInv
<1>2. UNCHANGED <<upSent, upLog>> /\ server'.client = server.client
  BY DEF ServerTickLeft, ServerTickLost, ClientTickLeft, ClientTickLost, ClosesClient,
     ReportsLost, ServerClosed, traffic, IInv, TypeOK
<1>3. (\E ps : NET_Close(ps)) \/ UNCHANGED <<link, uplink>>
  BY DEF ServerTickLeft, ServerTickLost, ClientTickLeft, ClientTickLost, ClosesClient,
     ReportsLost, net
<1>4. /\ link'[g] = "none" => link[g] = "none"
      /\ uplink'[g] = "none" => uplink[g] = "none"
      /\ uplink'[g] \in Early => uplink[g] \in Early
  BY <1>3 DEF NET_Close, IInv, TypeOK, Early
<1>5. UpInStep(g) /\ Begins(g) BY DEF UInv
<1>6. uplink'[g] \in Early => inbox'[g] = inbox[g]
  <2>1. CASE ServerTickLeft \/ ServerTickLost
    <3>1. inbox' = AfterReceive(Listener) /\ inbox[Listener] # <<>>
      BY <2>1, ServerReceivesFacts DEF ServerTickLeft, ServerTickLost, IInv
    <3> QED BY <3>1, ReceiptFacts, UpTypes DEF IInv
  <2>2. CASE ClientTickLeft \/ ClientTickLost
    <3>1. server.client = g /\ inbox[g] # <<>>
      BY <2>2, ClientReceivesFacts DEF ClientTickLeft, ClientTickLost, Lone
    <3> QED BY <1>4, <1>5, <3>1 DEF Begins
  <2>3. CASE ClosesClient \/ ReportsLost BY <2>3 DEF ClosesClient, ReportsLost
  <2> QED BY <2>1, <2>2, <2>3
<1>7. UpInStep(g)' BY <1>1 DEF UpInStep
<1>8. Begins(g)'
  <2>1. uplink'[g] = "none" => server'.client # g BY <1>2, <1>4, <1>5 DEF Begins
  <2> QED BY <1>1, <1>2, <1>4, <1>5, <1>6, <2>1, KeptBegins
<1> QED BY <1>7, <1>8

\* What comes down does not bear on what goes up.
LEMMA ClientTickDataUInv ==
  ASSUME Lone, IInv, UInv, ClientTickData
  PROVE  UInv'
<1> SUFFICES ASSUME NEW g \in GameClients PROVE UpInStep(g)' /\ Begins(g)' BY DEF UInv
<1>1. /\ server.client = g /\ inbox[g] # <<>> /\ client[g].pointer = g
      /\ server.is_alive
  BY ClientReceivesFacts DEF ClientTickData, Lone
<1>2. /\ inbox' = AfterReceive(g) /\ listenPc' = "server"
      /\ UNCHANGED <<server, link, uplink, upSent, upLog>>
  BY <1>1 DEF ClientTickData, objects, net
<1>3. inbox'[Listener] = inbox[Listener]
  BY <1>1, <1>2, ReceiptFacts, UpTypes DEF IInv
<1>4. UpInStep(g) /\ Begins(g) /\ ~Over BY <1>1 DEF UInv, Over
<1>5. uplink[g] \notin Early BY <1>1, <1>4 DEF Begins
<1>6. UpInStep(g)' BY <1>2, <1>3, <1>4, KeptUpInStep
<1>7. Begins(g)' BY <1>2, <1>4, <1>5, KeptBegins DEF Early
<1> QED BY <1>6, <1>7

\* The game server gets the packet it has not had yet, as it was sent.
TakesUp(g) ==
  /\ Len(upLog[g]) < upSent[g]
  /\ upLog' = [upLog EXCEPT ![g] = Append(@, Sent(g, Len(upLog[g]) + 1, "plain"))]

\* Data that comes while the game server is there is the next it has to get;
\* without it, nothing is sent on.
LEMMA ServerTickDataUInv ==
  ASSUME Lone, IInv, UInv, ServerTickData
  PROVE  /\ UInv' /\ UNCHANGED <<server, upSent>>
         /\ UNCHANGED upLog \/ \E g \in GameClients : TakesUp(g)
<1>0. PICK g \in GameClients : g = server.client
  BY ServerReceivesFacts DEF ServerTickData, IInv
<1>1. /\ NET_Receive(Listener).guid = g /\ NET_Receive(Listener).id = "data"
      /\ server.pointer = Listener /\ inbox[Listener] # <<>> /\ server.is_alive
      /\ client[g].is_connected /\ listenPc = "server"
  BY <1>0, ServerReceivesFacts DEF ServerTickData, IInv, Lone
<1>2. PICK q \in Seq(Packet), e \in Packet :
        /\ q = inbox[Listener] /\ e = NET_Receive(Listener)
        /\ q # <<>> /\ q[1] = e /\ e.guid = g /\ e.id = "data"
  BY <1>1, UpTypes DEF NET_Receive
<1> DEFINE m == [from |-> g, n |-> e.n, kind |-> e.kind]
<1>3. /\ inbox' = AfterReceive(Listener) /\ listenPc' = "client"
      /\ UNCHANGED <<server, link, uplink, upSent>>
      /\ upLog' = Deliver(upLog, ClientSendsTo(g), m)
  BY <1>0, <1>1, <1>2 DEF ServerTickData, objects, net
<1>4. ~Over /\ ~Over' BY <1>1, <1>3 DEF Over
<1>5. PICK r \in Seq(Packet) :
        /\ r = inbox'[Listener] /\ Len(r) = Len(q) - 1
        /\ \A i \in 1..Len(r) : r[i] = q[i + 1]
  BY <1>1, <1>2, <1>3, ListenerQueue
<1>6. PICK k \in Nat, out \in Seq(Message) : k = upSent[g] /\ out = upLog[g]
  BY UpTypes
<1>7. UpInStep(g) /\ Begins(g) BY DEF UInv
<1>8. uplink[g] \notin Early
  BY <1>0, <1>1, <1>4, <1>7 DEF Begins, Early
<1>9. ClientSendsTo(g) = IF uplink[g] = "up" THEN {g} ELSE {}
  <2>1. client[g].pointer = g /\ peer[g] = "open" /\ client[g].incoming_guid = GameServer
    BY <1>0, <1>1 DEF IInv, HandlesValid, Paired
  <2> QED BY <2>1 DEF ClientSendsTo
<1>10. Begins(g)'
  <2>1. link[g] # "none"
    BY <1>1, <1>3, ReceiptFacts, UpTypes DEF IInv, ListenerInbox
  <2> QED BY <1>3, <1>8, <2>1 DEF Begins, Early
<1>11. \A h \in GameClients : h = g BY DEF Lone
<1> HIDE DEF m
<1>12. CASE uplink[g] # "up"
  <2>1. upLog' = upLog BY <1>3, <1>9, <1>12 DEF Deliver, IInv, TypeOK
  <2>2. UpInStep(g)' BY <1>3, <1>8, <1>12 DEF UpInStep
  <2> QED BY <1>3, <1>10, <1>11, <2>1, <2>2 DEF UInv
<1>13. CASE uplink[g] = "up"
  <2>1. /\ Pending(q, out, Plains(k))
        /\ link[g] = "up" => k = Len(out) + Len(q) - Greeting(q)
    BY <1>2, <1>4, <1>6, <1>7, <1>13 DEF UpInStep
  <2>2. Greeting(q) = 0 BY <1>2 DEF Greeting, Opening
  <2>3. 1 \in 1..Len(q) /\ Len(out) \in Nat /\ Len(q) \in Nat BY <1>2
  <2>4. e.n = Len(out) + 1 /\ e.n \in 1..k /\ e.kind = "plain"
    <3>1. /\ q[1].n = Len(out) + 1 - Greeting(q)
          /\ q[1].n \in 1..Len(Plains(k)) /\ q[1].kind = Plains(k)[q[1].n]
      BY <1>2, <2>1, <2>3 DEF Pending
    <3> QED BY <1>2, <2>2, <2>3, <3>1, PlainsFacts
  <2>5. m = Sent(g, Len(upLog[g]) + 1, "plain") BY <1>6, <2>4 DEF m, Sent
  <2>6. upLog' = [upLog EXCEPT ![g] = Append(@, m)]
    BY <1>3, <1>9, <1>13 DEF Deliver, IInv, TypeOK
  <2>7. TakesUp(g) BY <1>6, <2>3, <2>4, <2>5, <2>6 DEF TakesUp
  <2>8. PICK after \in Seq(Message) : after = upLog'[g] /\ Len(after) = Len(out) + 1
    <3>1. m \in Message BY <2>3, <2>5, <1>6 DEF Sent, Message, Kinds
    <3>2. upLog'[g] = Append(out, m) BY <1>6, <2>6 DEF IInv, TypeOK
    <3>3. Append(out, m) \in Seq(Message) /\ Len(Append(out, m)) = Len(out) + 1 BY <3>1
    <3> QED BY <3>2, <3>3
  <2>9. Pending(r, after, Plains(k)) /\ Greeting(r) = 0
    BY <1>2, <1>5, <2>1, <2>2, <2>8, PlainsFacts, PendingTaken
  <2>10. link[g] = "up" => k = Len(after) + Len(r) - Greeting(r)
    <3>1. \A n, d \in Nat : n + d - 0 = (n + 1) + (d - 1) - 0 OBVIOUS
    <3> QED BY <1>5, <2>1, <2>2, <2>3, <2>8, <2>9, <3>1
  <2>11. UpInStep(g)'
    <3>1. upSent'[g] = k BY <1>3, <1>6
    <3> QED BY <1>3, <1>5, <2>8, <2>9, <2>10, <3>1 DEF UpInStep
  <2> QED BY <1>3, <1>10, <1>11, <2>7, <2>11 DEF UInv
<1> QED BY <1>12, <1>13

\* What a lone game client does reaches the Listener, its packets in their order.
LEMMA GameClientUInv ==
  ASSUME Lone, IInv, UInv, NEW g \in GameClients,
         GameClientConnects(g) \/ GameClientSends(g) \/ GameClientGone(g)
  PROVE  UInv'
<1>1. /\ UNCHANGED <<listenPc, server, uplink, upLog>>
      /\ \E p \in Packet : Arrives(Listener, p)
  <2>1. \A id \in {"new", "left", "lost"} : Control(id, g) \in Packet
    BY DEF Control, Packet, PacketIds, Kinds
  <2>2. Data(g, upSent[g] + 1, "plain") \in Packet
    BY UpTypes DEF Data, Packet, PacketIds, Kinds
  <2> QED BY <2>1, <2>2 DEF GameClientConnects, GameClientSends, GameClientGone, objects,
             net, traffic
<1>2. inbox'[g] = inbox[g] BY <1>1, ArrivalFacts, UpTypes DEF IInv
<1>3. UpInStep(g) /\ Begins(g) /\ Over' = Over BY <1>1 DEF UInv, Over
<1>4. PICK q \in Seq(Packet), r \in Seq(Packet), k \in Nat, out \in Seq(Message) :
        q = inbox[Listener] /\ r = inbox'[Listener] /\ k = upSent[g] /\ out = upLog[g]
  <2>1. inbox'[Listener] \in Seq(Packet) BY <1>1, ArrivalFacts, UpTypes DEF IInv
  <2> QED BY <2>1, UpTypes
<1>5. ~Over /\ uplink[g] \in Early \cup {"up"} =>
        /\ Pending(q, out, Plains(k))
        /\ link[g] = "up" => k = Len(out) + Len(q) - Greeting(q)
  BY <1>3, <1>4 DEF UpInStep
<1>6. Len(out) \in Nat /\ Len(q) \in Nat /\ Greeting(q) \in {0, 1} BY DEF Greeting
<1>7. PICK e \in Packet, more \in Nat :
        /\ Arrives(Listener, e) /\ more = upSent'[g] /\ link'[g] # "none"
        /\ \/ /\ e.id = "new" /\ q = <<>> /\ more = k /\ k = 0 /\ out = <<>>
           \/ e.id \in {"left", "lost"} /\ more = k /\ link'[g] # "up"
           \/ /\ e.id = "data" /\ e.n = k + 1 /\ e.kind = "plain" /\ more = k + 1
              /\ link[g] = "up"
  <2>1. CASE GameClientConnects(g)
    <3>1. Control("new", g) \in Packet /\ Control("new", g).id = "new"
      BY DEF Control, Packet, PacketIds, Kinds
    <3>2. link[g] = "none" /\ link'[g] = "up" /\ upSent' = upSent
      BY <2>1 DEF GameClientConnects, IInv, TypeOK, traffic
    <3>3. q = <<>>
      <4>1. \A i \in 1..Len(q) : link[q[i].guid] # "none" /\ q[i].guid = g
        BY <1>4 DEF IInv, ListenerInbox, Lone
      <4>2. q # <<>> => 1 \in 1..Len(q) OBVIOUS
      <4> QED BY <3>2, <4>1, <4>2
    <3>4. k = 0 /\ out = <<>> BY <1>3, <1>4, <3>2 DEF Begins
    <3> QED BY <1>4, <2>1, <3>1, <3>2, <3>3, <3>4 DEF GameClientConnects
  <2>2. CASE GameClientSends(g)
    <3>1. /\ Data(g, k + 1, "plain") \in Packet
          /\ Data(g, k + 1, "plain").id = "data" /\ Data(g, k + 1, "plain").n = k + 1
          /\ Data(g, k + 1, "plain").kind = "plain"
      BY DEF Data, Packet, PacketIds, Kinds
    <3>2. /\ Arrives(Listener, Data(g, k + 1, "plain")) /\ upSent'[g] = k + 1
          /\ link[g] = "up" /\ link'[g] # "none" /\ k + 1 \in Nat
      BY <1>4, <2>2 DEF GameClientSends, IInv, TypeOK, net
    <3> QED BY <3>1, <3>2
  <2>3. CASE GameClientGone(g)
    <3>1. PICK how \in {"left", "lost"} :
            link' = [link EXCEPT ![g] = how] /\ Arrives(Listener, Control(how, g))
      BY <2>3 DEF GameClientGone
    <3>2. Control(how, g) \in Packet /\ Control(how, g).id = how
      BY <3>1 DEF Control, Packet, PacketIds, Kinds
    <3>3. link'[g] = how /\ upSent' = upSent
      BY <2>3, <3>1 DEF GameClientGone, IInv, TypeOK, traffic
    <3> QED BY <1>4, <3>1, <3>2, <3>3
  <2> QED BY <2>1, <2>2, <2>3
<1>8. /\ Len(r) = Len(q) + 1 /\ r[Len(q) + 1] = e
      /\ \A i \in 1..Len(q) : r[i] = q[i]
  BY <1>4, <1>7, ArrivalFacts, UpTypes DEF IInv
<1>9. Begins(g)'
  BY <1>1, <1>2, <1>3, <1>7 DEF Begins
<1>10. ASSUME ~Over, uplink[g] \in Early \cup {"up"}
       PROVE  /\ Pending(r, out, Plains(more))
              /\ link'[g] = "up" => more = Len(out) + Len(r) - Greeting(r)
  <2>1. e.id = "data" => /\ e.n = Len(out) + Len(q) + 1 - Greeting(q)
                         /\ e.n \in 1..more /\ e.kind = "plain"
    <3> SUFFICES ASSUME e.id = "data"
                 PROVE  /\ e.n = Len(out) + Len(q) + 1 - Greeting(q)
                        /\ e.n \in 1..more /\ e.kind = "plain"
      OBVIOUS
    <3>1. \A l, d, n \in Nat : \A j \in {0, 1} : n = l + d - j => n + 1 = l + d + 1 - j
      OBVIOUS
    <3>2. /\ e.n = k + 1 /\ e.kind = "plain" /\ more = k + 1 /\ link[g] = "up"
      BY <1>7
    <3>3. k = Len(out) + Len(q) - Greeting(q) BY <1>5, <1>10, <3>2
    <3>4. k + 1 = Len(out) + Len(q) + 1 - Greeting(q) BY <1>6, <3>1, <3>3
    <3> QED BY <3>2, <3>4
  <2>2. Arrived(e, q, r, out, Plains(k), Plains(more))
    <3>1. k <= more BY <1>7
    <3>2. /\ Len(Plains(k)) = k /\ Len(Plains(more)) = more
          /\ \A n \in 1..more : Plains(more)[n] = "plain"
          /\ \A n \in 1..k : Plains(k)[n] = "plain"
      BY PlainsFacts
    <3>3. \A n \in 1..k : n \in 1..more BY <3>1
    <3> QED BY <1>7, <1>8, <2>1, <3>1, <3>2, <3>3 DEF Arrived, Opening
  <2>3. /\ Pending(r, out, Plains(more))
        /\ e.id \notin Opening => Greeting(r) = Greeting(q)
        /\ e.id \in Opening => Greeting(r) = 1
    BY <1>5, <1>10, <2>2, PlainsFacts, PendingArrived
  <2>4. CASE e.id = "new"
    BY <1>6, <1>7, <1>8, <2>3, <2>4 DEF Opening
  <2>5. CASE e.id = "data"
    <3>1. \A l, d, n \in Nat : \A j \in {0, 1} : n = l + d - j => n + 1 = l + (d + 1) - j
      OBVIOUS
    <3>2. more = k + 1 /\ link[g] = "up" /\ Greeting(r) = Greeting(q)
      BY <1>7, <2>3, <2>5 DEF Opening
    <3>3. k = Len(out) + Len(q) - Greeting(q) BY <1>5, <1>10, <3>2
    <3>4. k + 1 = Len(out) + (Len(q) + 1) - Greeting(q) BY <1>6, <3>1, <3>3
    <3> QED BY <1>8, <2>3, <3>2, <3>4
  <2>6. CASE e.id \in {"left", "lost"} BY <1>7, <2>3, <2>6
  <2> QED BY <1>7, <2>3, <2>4, <2>5, <2>6
<1>11. UpInStep(g)'
  <2>1. upLog'[g] = out BY <1>1, <1>4
  <2> QED BY <1>1, <1>3, <1>4, <1>7, <1>10, <2>1 DEF UpInStep
<1> QED BY <1>9, <1>11 DEF UInv, Lone

\* What the game server does reaches the Client, and may end the session.
LEMMA GameServerUInv ==
  ASSUME Lone, IInv, UInv, NEW g \in GameClients,
         AttemptEnds(g) \/ GameServerSends(g) \/ GameServerGone(g)
  PROVE  UInv'
<1>1. /\ UNCHANGED <<listenPc, server, link, upSent, upLog>> /\ \E e : Arrives(g, e)
      /\ uplink[g] \in Early \cup {"up"} /\ uplink'[g] \notin Early
  BY DEF AttemptEnds, GameServerSends, GameServerGone, objects, net, traffic, Early, IInv,
     TypeOK
<1>2. inbox'[Listener] = inbox[Listener] BY <1>1, UpTypes DEF Arrives, IInv, TypeOK
<1>3. UpInStep(g) /\ Begins(g) /\ Over' = Over BY <1>1 DEF UInv, Over
<1>4. UpInStep(g)' BY <1>1, <1>2, <1>3, KeptUpInStep
<1>5. Begins(g)' BY <1>1, <1>3, KeptBegins DEF Early
<1> QED BY <1>4, <1>5 DEF UInv, Lone

LEMMA NextUInv ==
  ASSUME Lone, IInv, RInv, UInv, [Next]_vars
  PROVE  UInv'
<1>1. CASE Main BY <1>1, MainUInv
<1>2. CASE ListenThread
  BY <1>2, MovesUInv, ServerTickNewUInv, HandshakeDoneUInv, EndsUInv, ServerTickDataUInv,
     ClientTickDataUInv DEF ListenThread, ServerTick, ClientTick
<1>3. CASE Outside BY <1>3, GameClientUInv, GameServerUInv DEF Outside
<1>4. CASE UNCHANGED vars BY <1>4, MovesUInv
<1> QED BY <1>1, <1>2, <1>3, <1>4 DEF Next, Ended

\* The mapping's pipe: what was sent up, numbered.
UpPipe(g, k) == [n \in 1..k |-> Sent(g, n, "plain")]
UpPipes      == [g \in GameClients |-> UpPipe(g, upSent[g])]

LEMMA UpPipeFacts ==
  ASSUME NEW g \in GameClients, NEW k \in Nat
  PROVE  /\ UpPipe(g, k) \in Seq(Message) /\ Len(UpPipe(g, k)) = k
         /\ \A n \in 1..k : UpPipe(g, k)[n] = Sent(g, n, "plain")
<1>1. \A n \in 1..k : Sent(g, n, "plain") \in Message BY DEF Sent, Message, Kinds
<1> QED BY <1>1 DEF UpPipe

LEMMA UpPipeGrows ==
  ASSUME NEW g \in GameClients, NEW k \in Nat
  PROVE  UpPipe(g, k + 1) = Append(UpPipe(g, k), Sent(g, k + 1, "plain"))
<1>1. PICK s \in Seq(Message), t \in Seq(Message), m \in Message :
        /\ s = UpPipe(g, k) /\ t = UpPipe(g, k + 1) /\ m = Sent(g, k + 1, "plain")
  <2>1. Sent(g, k + 1, "plain") \in Message BY DEF Sent, Message, Kinds
  <2>2. k + 1 \in Nat OBVIOUS
  <2> QED BY <2>1, <2>2, UpPipeFacts
<1>2. /\ Len(s) = k /\ Len(t) = k + 1
      /\ \A n \in 1..k : s[n] = Sent(g, n, "plain")
      /\ \A n \in 1..(k + 1) : t[n] = Sent(g, n, "plain")
  BY <1>1, UpPipeFacts
<1>3. /\ Append(s, m) \in Seq(Message) /\ Len(Append(s, m)) = k + 1
      /\ \A n \in 1..k : Append(s, m)[n] = s[n]
      /\ Append(s, m)[k + 1] = m
  BY <1>2
<1>4. \A n \in 1..(k + 1) : n \in 1..k \/ n = k + 1 OBVIOUS
<1>5. \A n \in 1..Len(t) : t[n] = Append(s, m)[n] BY <1>1, <1>2, <1>3, <1>4
<1>6. t = Append(s, m) BY <1>2, <1>3, <1>5, SeqEqual
<1> QED BY <1>1, <1>6

LEMMA InitUpRelays == Init => Up!RelayInit
<1> SUFFICES ASSUME Init PROVE Up!RelayInit OBVIOUS
<1>1. ~Over BY DEF Init, Over
<1>2. \A g \in GameClients :
        [n \in 1..upSent[g] |-> [from |-> g, n |-> n, kind |-> "plain"]] = <<>>
  BY DEF Init
<1> QED BY <1>1, <1>2 DEF Init, Up!RelayInit

LEMMA PutUpRelays ==
  ASSUME TypeOK, NEW g \in GameClients, GameClientSends(g)
  PROVE  Up!Put(g)
<1>1. PICK k \in Nat : k = upSent[g] BY DEF TypeOK
<1>2. /\ k < MaxUp /\ upSent' = [upSent EXCEPT ![g] = k + 1]
      /\ UNCHANGED upLog /\ Over' = Over
  BY <1>1 DEF GameClientSends, objects, Over
<1>3. Sent(g, k + 1, "plain") \in UpMessages(g)
  <2>1. k + 1 \in 1..MaxUp BY <1>2, BoundsNatural
  <2> QED BY <2>1 DEF UpMessages, Sent
<1>4. UpPipe(g, k + 1) = Append(UpPipe(g, k), Sent(g, k + 1, "plain")) BY UpPipeGrows
<1>5. UpPipes' = [UpPipes EXCEPT ![g] = Append(@, Sent(g, k + 1, "plain"))]
  BY <1>1, <1>2, <1>4 DEF UpPipes, TypeOK
<1> QED BY <1>2, <1>3, <1>5 DEF Up!Put, UpPipes, UpPipe, Sent

LEMMA TakeUpRelays ==
  ASSUME TypeOK, NEW g \in GameClients, TakesUp(g), UNCHANGED upSent, ~Over, Over' = Over
  PROVE  Up!Take(g)
<1>1. PICK k \in Nat, l \in Nat : k = upSent[g] /\ l = Len(upLog[g]) BY DEF TypeOK
<1>2. /\ l < k /\ upLog' = [upLog EXCEPT ![g] = Append(@, Sent(g, l + 1, "plain"))]
  BY <1>1 DEF TakesUp
<1>3. UpPipes[g] = UpPipe(g, k) /\ UpPipes' = UpPipes BY <1>1 DEF UpPipes
<1>4. Len(UpPipe(g, k)) = k /\ UpPipe(g, k)[l + 1] = Sent(g, l + 1, "plain")
  <2>1. l + 1 \in 1..k BY <1>2
  <2> QED BY <2>1, UpPipeFacts
<1>5. Sent(g, l + 1, "plain") \in Forms(Sent(g, l + 1, "plain"))
  BY DEF Forms, Sent, OnRustPacketReceived
<1>6. /\ Len(upLog[g]) < Len(UpPipes[g])
      /\ \E m \in Forms(UpPipes[g][Len(upLog[g]) + 1]) :
           upLog' = [upLog EXCEPT ![g] = Append(@, m)]
  BY <1>1, <1>2, <1>3, <1>4, <1>5
<1> QED BY <1>3, <1>6 DEF Up!Take, UpPipes, UpPipe, Sent

\* What changes neither what was sent nor what came out is a stutter, or ends it.
LEMMA QuietUpRelays ==
  ASSUME UNCHANGED <<upSent, upLog>>, Over => Over'
  PROVE  [Up!RelayNext]_(Up!relayVars)
<1>1. UpPipes' = UpPipes BY DEF UpPipes
<1>2. CASE Over' = Over
  <2>1. UNCHANGED <<UpPipes, upLog, Over>> BY <1>1, <1>2
  <2> QED BY <2>1 DEF Up!relayVars, UpPipes, UpPipe, Sent
<1>3. CASE Over' # Over
  <2>1. ~Over /\ Over' = TRUE BY <1>3 DEF Over
  <2>2. Up!Finish BY <1>1, <2>1 DEF Up!Finish, UpPipes, UpPipe, Sent
  <2> QED BY <2>2 DEF Up!RelayNext
<1> QED BY <1>2, <1>3

LEMMA NextUpRelays ==
  ASSUME Lone, IInv, RInv, UInv, [Next]_vars
  PROVE  [Up!RelayNext]_(Up!relayVars)
<1>1. CASE ServerTickData
  <2>1. /\ UNCHANGED <<server, upSent>>
        /\ UNCHANGED upLog \/ \E g \in GameClients : TakesUp(g)
    BY <1>1, ServerTickDataUInv
  <2>2. server.is_alive BY <1>1 DEF ServerTickData, ServerReceives
  <2>3. ~Over /\ Over' = Over BY <2>1, <2>2 DEF Over
  <2>4. ASSUME NEW g \in GameClients, TakesUp(g) PROVE Up!RelayNext
    <3>1. Up!Take(g) BY <2>1, <2>3, <2>4, TakeUpRelays DEF IInv
    <3> QED BY <3>1 DEF Up!RelayNext
  <2> QED BY <2>1, <2>3, <2>4, QuietUpRelays
<1>2. CASE \E g \in GameClients : GameClientSends(g)
  <2>1. PICK g \in GameClients : GameClientSends(g) BY <1>2
  <2>2. Up!Put(g) BY <2>1, PutUpRelays DEF IInv
  <2> QED BY <2>2 DEF Up!RelayNext
<1>3. CASE \/ ServerTickLeft \/ ServerTickLost \/ ClientTickLeft \/ ClientTickLost
           \/ ClosesClient \/ ReportsLost
  <2>1. UNCHANGED <<upSent, upLog>>
    BY <1>3 DEF ServerTickLeft, ServerTickLost, ClientTickLeft, ClientTickLost,
       ClosesClient, ReportsLost, traffic
  <2> QED BY <1>3, <2>1, EndsRInv, QuietUpRelays
<1>4. CASE ServerTickNew \/ HandshakeDone
  <2>1. UNCHANGED <<upSent, upLog>> BY <1>4 DEF ServerTickNew, HandshakeDone, traffic
  <2>2. server.is_alive
    BY <1>4 DEF ServerTickNew, ServerReceives, HandshakeDone, IInv, Phases
  <2> QED BY <2>1, <2>2, QuietUpRelays DEF Over
<1>5. CASE Main
  <2>1. /\ UNCHANGED <<upSent, upLog>>
        /\ listenPc # "unborn" => UNCHANGED <<server, listenPc>>
    BY <1>5 DEF Main, InitThrows, StartServer, Polls, Returns, ProcessEnds, vars,
       objects, traffic, IInv, Phases
  <2> QED BY <2>1, QuietUpRelays DEF Over
<1>6. CASE \/ ServerTickDead \/ ServerTickIdle \/ HandshakeWaits \/ ClientTickNone
           \/ ClientTickWild \/ ClientTickDead \/ ClientTickIdle \/ Wakes
           \/ ClientTickData
  <2>1. UNCHANGED <<server, upSent, upLog>> /\ listenPc' # "unborn"
    BY <1>6 DEF ServerTickDead, ServerTickIdle, HandshakeWaits, ClientTickNone, vars,
       ClientTickWild, ClientTickDead, ClientTickIdle, Wakes, ClientTickData, objects,
       traffic, ClientTicks
  <2> QED BY <2>1, QuietUpRelays DEF Over
<1>7. CASE \/ UNCHANGED vars
           \/ \E g \in GameClients : \/ GameClientConnects(g) \/ GameClientGone(g)
                                     \/ AttemptEnds(g) \/ GameServerSends(g)
                                     \/ GameServerGone(g)
  <2>1. UNCHANGED <<server, listenPc, upSent, upLog>>
    BY <1>7 DEF GameClientConnects, GameClientGone, AttemptEnds, GameServerSends,
       GameServerGone, vars, objects, traffic
  <2> QED BY <2>1, QuietUpRelays DEF Over
<1> QED BY <1>1, <1>2, <1>3, <1>4, <1>5, <1>6, <1>7
        DEF Next, ListenThread, ServerTick, ClientTick, Outside, Ended

\* What a lone game client sends reaches the game server over its session in order,
\* once and unchanged, until the proxy shuts down (server.cpp:84-86,
\* client.cpp:59-65): no more than one game client connects, since what a second
\* one takes over goes up its own session.
THEOREM UpIsReliable ==
  ASSUME \A g, h \in GameClients : g = h
  PROVE  Spec => UpRelays
<1>0. Lone BY DEF Lone
<1>1. RInv /\ IInv /\ [Next]_vars => RInv' BY NextRInv
<1>2. IInv /\ RInv /\ UInv /\ [Next]_vars => UInv' BY <1>0, NextUInv
<1>3. IInv /\ RInv /\ UInv /\ [Next]_vars => [Up!RelayNext]_(Up!relayVars)
  BY <1>0, NextUpRelays
<1> QED
  BY InitRInv, InitUInv, InitUpRelays, Invariance, <1>1, <1>2, <1>3, PTL
     DEF Spec, UpRelays, Up!RelaySpec
=============================================================================
