------------------------------- MODULE Proxy -------------------------------
(***************************************************************************)
(* The proxy proper: Proxy::Server (the peer the game client connects to), *)
(* Proxy::Client (the peer that connects on to the game server), the       *)
(* listening thread that ticks them in turn, and main, which polls         *)
(* Server.is_alive from another thread and ends the process.               *)
(*                                                                         *)
(* RakNet and the two remote programs are outside src/; they are modelled  *)
(* from the use the code makes of them: an ordered inbox per RakPeer that  *)
(* NET_Receive pops, and connections that come up, are closed by an end,   *)
(* or are lost.                                                            *)
(*                                                                         *)
(* A Client object is named by the game client whose connection made       *)
(* Server::Tick allocate it, and so is the RakPeer that the object owns.   *)
(***************************************************************************)
EXTENDS Integers, Sequences, FiniteSets

CONSTANTS GameClients,  \* the game clients that may connect, each at most once
          Listener,     \* the RakPeer of Proxy::Server
          GameServer,   \* the RakNet guid of the game server
          Null,         \* a null pointer, or a guid of 0
          Wild,         \* a pointer or guid that designates nothing
          Junk,         \* what the uninitialised Server.client may hold
          MaxUp,        \* bound: data packets each game client sends
          MaxDown       \* bound: data packets the game server sends a session

ASSUME NamesDistinct ==
  /\ {Listener, GameServer, Null, Wild} \cap GameClients = {}
  /\ Listener # GameServer /\ Listener # Null /\ Listener # Wild
  /\ GameServer # Null /\ GameServer # Wild /\ Null # Wild
ASSUME JunkUndesignated == Junk \subseteq {Null, Wild}
ASSUME BoundsNatural == MaxUp \in Nat /\ MaxDown \in Nat

VARIABLES
  mainPc,      \* where main is: "init", "poll", "exiting", "exited", "crashed"
  listenPc,    \* where ListenThread is
  serverIdle,  \* server_result = TICK_NO_MORE_PACKETS in this pass of the loop
  server,      \* the fields of the Proxy::Server object
  client,      \* the fields of each Proxy::Client object
  peer,        \* the state of each RakPeer
  link,        \* each game client's connection to the Listener
  uplink,      \* each session's connection to the game server
  inbox,       \* packets NET_Receive has yet to return, per RakPeer
  upSent,      \* how many data packets each game client has sent
  downSent,    \* the kinds of the data packets the game server sent a session
  upLog,       \* data packets that reached the game server, per session
  downLog,     \* data packets that reached each game client
  lostNotice   \* to whom an ID_CONNECTION_LOST was sent on, per direction

objects == <<server, client>>
net     == <<peer, link, uplink>>
traffic == <<upSent, downSent, upLog, downLog>>
vars    == <<mainPc, listenPc, serverIdle, objects, net, inbox, traffic,
             lostNotice>>

Peers == {Listener} \cup GameClients

PacketIds == {"new", "accepted", "refused", "left", "lost", "data"}

\* The only distinction between data packets that the proxy makes on the way
\* through: an Entities packet with an environment may be rewritten.
Kinds == {"plain", "env", "env_rewritten"}

Packet  == [id : PacketIds, guid : GameClients \cup {GameServer, Wild},
            n : Nat, kind : Kinds]
Message == [from : GameClients, n : Nat, kind : Kinds]

TypeOK ==
  /\ mainPc \in {"init", "poll", "exiting", "exited", "crashed"}
  /\ listenPc \in {"unborn", "server", "connecting", "client", "closing",
                   "reporting", "sleep", "stopped"}
  /\ serverIdle \in BOOLEAN
  /\ server \in [pointer : {Null, Listener}, is_alive : BOOLEAN,
                 incoming_guid : GameClients \cup {Null},
                 client : GameClients \cup {Null, Wild}]
  /\ client \in [GameClients ->
                   [pointer : GameClients \cup {Null}, is_connected : BOOLEAN,
                    incoming_guid : {Null, Wild, GameServer}]]
  /\ peer \in [Peers -> {"none", "idle", "open", "closed"}]
  /\ link \in [GameClients -> {"none", "up", "left", "lost", "closed"}]
  /\ uplink \in [GameClients -> {"none", "unstarted", "connecting", "refused",
                                 "up", "left", "lost", "closed"}]
  /\ inbox \in [Peers -> Seq(Packet)]
  /\ upSent \in [GameClients -> Nat]
  /\ downSent \in [GameClients -> Seq(Kinds)]
  /\ upLog \in [GameClients -> Seq(Message)]
  /\ downLog \in [GameClients -> Seq(Message)]
  /\ lostNotice \in [up : SUBSET GameClients, down : SUBSET GameClients]

Init ==
  /\ mainPc = "init" /\ listenPc = "unborn" /\ serverIdle = FALSE
  /\ server = [pointer |-> Null, is_alive |-> FALSE,
               incoming_guid |-> Null, client |-> Null]
  /\ client = [c \in GameClients |-> [pointer |-> Null, is_connected |-> FALSE,
                                      incoming_guid |-> Wild]]
  /\ peer = [p \in Peers |-> "none"]
  /\ link = [g \in GameClients |-> "none"]
  /\ uplink = [c \in GameClients |-> "none"]
  /\ inbox = [p \in Peers |-> <<>>]
  /\ upSent = [g \in GameClients |-> 0]
  /\ downSent = [c \in GameClients |-> <<>>]
  /\ upLog = [c \in GameClients |-> <<>>]
  /\ downLog = [g \in GameClients |-> <<>>]
  /\ lostNotice = [up |-> {}, down |-> {}]

Running == mainPc \notin {"exited", "crashed"}

-----------------------------------------------------------------------------
(* RakNet, as the code uses it.                                            *)

Control(id, guid)    == [id |-> id, guid |-> guid, n |-> 0, kind |-> "plain"]
Data(guid, n, kind)  == [id |-> "data", guid |-> guid, n |-> n, kind |-> kind]

Arrives(p, packet) == inbox' = [inbox EXCEPT ![p] = Append(@, packet)]

\* NET_Receive: the oldest packet of the peer, which it then forgets.
NET_Receive(p) == Head(inbox[p])
AfterReceive(p) == [inbox EXCEPT ![p] = Tail(@)]

\* NET_Close on the peers ps: their connections end and are notified.
NET_Close(ps) ==
  /\ peer' = [p \in Peers |-> IF p \in ps THEN "closed" ELSE peer[p]]
  /\ link' = [g \in GameClients |->
                IF Listener \in ps /\ link[g] = "up" THEN "closed" ELSE link[g]]
  /\ uplink' = [c \in GameClients |->
                  IF c \in ps /\ uplink[c] \in {"connecting", "up"}
                  THEN "closed" ELSE uplink[c]]

-----------------------------------------------------------------------------
(* The member functions of Server and Client that others call.             *)

\* Fault: each test of is_alive or is_connected is negated.
ServerCloses_Dead       == {p \in {server.pointer} : p # Null /\ ~server.is_alive}
ClientCloses_Unconnected(c) ==
  {p \in {client[c].pointer} : p # Null /\ ~client[c].is_connected}

\* Server::Close and Client::Close act only on an open, live object ...
ServerCloses    == {p \in {server.pointer} : p # Null /\ server.is_alive}
ClientCloses(c) == {p \in {client[c].pointer} : p # Null /\ client[c].is_connected}

\* Fault: the guid survives the close.
ServerClosed_KeepsGuid ==
  IF ServerCloses = {} THEN server
  ELSE [server EXCEPT !.pointer = Null, !.is_alive = FALSE]

\* Fault: the guid is reset to RakNet's "unassigned" rather than to 0.
ServerClosed_WildGuid ==
  IF ServerCloses = {} THEN server
  ELSE [server EXCEPT !.pointer = Null, !.is_alive = FALSE, !.incoming_guid = Wild]

\* ... and reset it.
ServerClosed ==
  IF ServerCloses = {} THEN server
  ELSE [server EXCEPT !.pointer = Null, !.is_alive = FALSE,
                      !.incoming_guid = Null]
ClientClosed(c) ==
  IF ClientCloses(c) = {} THEN client[c]
  ELSE [pointer |-> Null, is_connected |-> FALSE, incoming_guid |-> Null]

\* Fault: only a Client without a guid sends.
ClientSendsTo_Unset(c) ==
  {s \in GameClients : /\ client[c].incoming_guid = Null
                       /\ s = client[c].pointer
                       /\ peer[s] = "open"
                       /\ uplink[s] = "up"}

\* Server::Send and Client::Send: the receivers a packet gets to, a set of at
\* most one.  Nothing goes out without a guid, or over a connection that is
\* not up.
ServerSendsTo ==
  {g \in GameClients : /\ g = server.incoming_guid
                       /\ peer[server.pointer] = "open"
                       /\ link[g] = "up"}
ClientSendsTo(c) ==
  {s \in GameClients : /\ client[c].incoming_guid = GameServer
                       /\ s = client[c].pointer
                       /\ peer[s] = "open"
                       /\ uplink[s] = "up"}

\* Fault: no NETSND_Start, so what was written before goes out again.
Deliver_NoStart(log, to, message) ==
  [r \in GameClients |->
     IF r \in to THEN log[r] \o log[r] \o <<message>> ELSE log[r]]

Deliver(log, to, message) ==
  [r \in GameClients |-> IF r \in to THEN Append(log[r], message) ELSE log[r]]

\* What OnRustPacketReceived may leave of a packet: the weather settings are
\* changed by the overlay's thread at any time.
OnRustPacketReceived(kind) ==
  IF kind = "env" THEN {"env", "env_rewritten"} ELSE {kind}

-----------------------------------------------------------------------------
(* main.                                                                   *)

\* Rust::API::Init or StringPool::Initialize throws, main returns 1.
InitThrows ==
  /\ mainPc = "init"
  /\ mainPc' = "exiting"
  /\ UNCHANGED <<listenPc, serverIdle, objects, net, inbox, traffic, lostNotice>>

\* The Server's constructor (NET_StartServer may fail) and Server::Start.
\* The constructor does not assign client, which holds what it held.
StartServer ==
  /\ mainPc = "init"
  /\ \E started \in BOOLEAN, junk \in Junk :
       /\ server' = [pointer |-> Listener, is_alive |-> started,
                     incoming_guid |-> Null, client |-> junk]
       /\ peer' = [peer EXCEPT ![Listener] = IF started THEN "open" ELSE "idle"]
  /\ mainPc' = "poll"
  /\ listenPc' = "server"
  /\ UNCHANGED <<serverIdle, client, link, uplink, inbox, traffic, lostNotice>>

\* while (server->is_alive) Sleep(1000)
Polls ==
  /\ mainPc = "poll" /\ server.is_alive
  /\ UNCHANGED vars

\* Fault: main does not wait.
Returns_AtOnce ==
  /\ mainPc = "poll" /\ mainPc' = "exiting"
  /\ UNCHANGED <<listenPc, serverIdle, objects, net, inbox, traffic, lostNotice>>

Returns ==
  /\ mainPc = "poll" /\ ~server.is_alive
  /\ mainPc' = "exiting"
  /\ UNCHANGED <<listenPc, serverIdle, objects, net, inbox, traffic, lostNotice>>

\* The process ends, wherever the listening thread is.
ProcessEnds ==
  /\ mainPc = "exiting"
  /\ mainPc' = "exited"
  /\ UNCHANGED <<listenPc, serverIdle, objects, net, inbox, traffic, lostNotice>>

Main == InitThrows \/ StartServer \/ Polls \/ Returns \/ ProcessEnds

-----------------------------------------------------------------------------
(* ListenThread: Server::Tick.                                             *)

ServerTicks == Running /\ listenPc = "server"

ServerReceives(id) ==
  /\ ServerTicks /\ server.is_alive
  /\ inbox[server.pointer] # <<>>
  /\ NET_Receive(server.pointer).id = id

ServerTickDead ==
  /\ ServerTicks /\ ~server.is_alive
  /\ listenPc' = "stopped"
  /\ UNCHANGED <<mainPc, serverIdle, objects, net, inbox, traffic, lostNotice>>

ServerTickIdle ==
  /\ ServerTicks /\ server.is_alive
  /\ inbox[server.pointer] = <<>>
  /\ listenPc' = "client"
  /\ serverIdle' = TRUE
  /\ UNCHANGED <<mainPc, objects, net, inbox, traffic, lostNotice>>

\* Client's constructor: a peer of its own; incoming_guid is not assigned.
NewClient(g) == [pointer |-> g, is_connected |-> FALSE, incoming_guid |-> Wild]

\* Fault: of a second game client only the Client is stored, or only the guid.
Adopts_KeepsGuid(g) ==
  [server EXCEPT !.incoming_guid = IF @ = Null THEN g ELSE @, !.client = g]
Adopts_KeepsClient(g) ==
  [server EXCEPT !.incoming_guid = g, !.client = IF @ \in GameClients THEN @ ELSE g]

\* The Server turns to the game client g and to the Client made for it.
Adopts(g) == [server EXCEPT !.incoming_guid = g, !.client = g]

\* Fault: the connection's packet is ignored.
ServerTickNew_Ignores ==
  /\ ServerReceives("new")
  /\ inbox' = AfterReceive(server.pointer) /\ listenPc' = "client"
  /\ UNCHANGED <<mainPc, serverIdle, objects, net, traffic, lostNotice>>

\* NEW_INCOMING_CONNECTION: a new Client, whose constructor starts the
\* connection to the game server; NET_StartClient may fail, and the
\* constructor then only says so.
ServerTickNew ==
  /\ ServerReceives("new")
  /\ LET g == NET_Receive(server.pointer).guid
     IN \E started \in BOOLEAN :
          /\ server' = Adopts(g)
          /\ client' = [client EXCEPT ![g] = NewClient(g)]
          /\ peer' = [peer EXCEPT ![g] = IF started THEN "open" ELSE "idle"]
          /\ uplink' = [uplink EXCEPT ![g] =
                          IF started THEN "connecting" ELSE "unstarted"]
  /\ inbox' = AfterReceive(server.pointer)
  /\ listenPc' = "connecting"
  /\ UNCHANGED <<mainPc, serverIdle, link, traffic, lostNotice>>

\* while (!NET_Receive(client->pointer)) Sleep(10)
HandshakeWaits ==
  /\ Running /\ listenPc = "connecting"
  /\ inbox[client[server.client].pointer] = <<>>
  /\ UNCHANGED vars

\* The first packet from the game server decides the handshake.
HandshakeDone ==
  /\ Running /\ listenPc = "connecting"
  /\ inbox[client[server.client].pointer] # <<>>
  /\ LET c == server.client
         packet == NET_Receive(client[c].pointer)
         accepted == packet.id = "accepted"
     IN /\ client' = [client EXCEPT ![c] =
                        [@ EXCEPT !.incoming_guid = packet.guid,
                                  !.is_connected = accepted]]
        /\ server' = IF accepted THEN server ELSE ServerClosed
        /\ NET_Close(IF accepted THEN {} ELSE ServerCloses)
        /\ inbox' = AfterReceive(client[c].pointer)
  /\ serverIdle' = FALSE
  /\ listenPc' = "client"
  /\ UNCHANGED <<mainPc, traffic, lostNotice>>

\* Fault: the Client is not closed and the loop is not told to stop.
ServerTickLeft_Continues ==
  /\ ServerReceives("left")
  /\ server' = ServerClosed
  /\ NET_Close(ServerCloses)
  /\ inbox' = AfterReceive(server.pointer)
  /\ serverIdle' = FALSE
  /\ listenPc' = "client"
  /\ UNCHANGED <<mainPc, client, traffic, lostNotice>>

\* ID_DISCONNECTION_NOTIFICATION: close the Client, then the Server.
ServerTickLeft ==
  /\ ServerReceives("left")
  /\ client' = [client EXCEPT ![server.client] = ClientClosed(server.client)]
  /\ server' = ServerClosed
  /\ NET_Close(ClientCloses(server.client) \cup ServerCloses)
  /\ inbox' = AfterReceive(server.pointer)
  /\ listenPc' = "stopped"
  /\ UNCHANGED <<mainPc, serverIdle, traffic, lostNotice>>

\* ID_CONNECTION_LOST: the Client stops receiving, the packet is sent on to
\* the game server, and the Server closes.
ServerTickLost ==
  /\ ServerReceives("lost")
  /\ client' = [client EXCEPT ![server.client].is_connected = FALSE]
  /\ lostNotice' = [lostNotice EXCEPT !.up = @ \cup ClientSendsTo(server.client)]
  /\ server' = ServerClosed
  /\ NET_Close(ServerCloses)
  /\ inbox' = AfterReceive(server.pointer)
  /\ listenPc' = "stopped"
  /\ UNCHANGED <<mainPc, serverIdle, traffic>>

\* Any other packet is sent on to the game server (OnRustPacketSent is empty).
ServerTickData ==
  /\ ServerReceives("data")
  /\ LET packet == NET_Receive(server.pointer)
     IN upLog' = Deliver(upLog, ClientSendsTo(server.client),
                   [from |-> packet.guid, n |-> packet.n, kind |-> packet.kind])
  /\ inbox' = AfterReceive(server.pointer)
  /\ serverIdle' = FALSE
  /\ listenPc' = "client"
  /\ UNCHANGED <<mainPc, objects, net, upSent, downSent, downLog, lostNotice>>

ServerTick == \/ ServerTickDead \/ ServerTickIdle \/ ServerTickNew
              \/ HandshakeWaits \/ HandshakeDone
              \/ ServerTickLeft \/ ServerTickLost \/ ServerTickData

-----------------------------------------------------------------------------
(* ListenThread: Client::Tick, and the end of a pass of the loop.          *)

ClientTicks == Running /\ listenPc = "client"

\* server->client ? ... : 0, and a result of 0 does not let the loop sleep.
ClientTickNone ==
  /\ ClientTicks /\ server.client = Null
  /\ listenPc' = "server"
  /\ UNCHANGED <<mainPc, serverIdle, objects, net, inbox, traffic, lostNotice>>

\* Tick on an object that is not there is an access violation.
ClientTickWild ==
  /\ ClientTicks /\ server.client = Wild
  /\ mainPc' = "crashed"
  /\ UNCHANGED <<listenPc, serverIdle, objects, net, inbox, traffic, lostNotice>>

ClientReceives(id) ==
  /\ ClientTicks /\ server.client \in GameClients
  /\ client[server.client].is_connected
  /\ inbox[client[server.client].pointer] # <<>>
  /\ NET_Receive(client[server.client].pointer).id = id

ClientTickDead ==
  /\ ClientTicks /\ server.client \in GameClients
  /\ ~client[server.client].is_connected
  /\ listenPc' = "stopped"
  /\ UNCHANGED <<mainPc, serverIdle, objects, net, inbox, traffic, lostNotice>>

\* Nothing from the game server; sleep if the Server had nothing either.
ClientTickIdle ==
  /\ ClientTicks /\ server.client \in GameClients
  /\ client[server.client].is_connected
  /\ inbox[client[server.client].pointer] = <<>>
  /\ listenPc' = IF serverIdle THEN "sleep" ELSE "server"
  /\ UNCHANGED <<mainPc, serverIdle, objects, net, inbox, traffic, lostNotice>>

\* ID_DISCONNECTION_NOTIFICATION: close the Server, which main may see ...
ClientTickLeft ==
  /\ ClientReceives("left")
  /\ server' = ServerClosed
  /\ NET_Close(ServerCloses)
  /\ inbox' = AfterReceive(client[server.client].pointer)
  /\ listenPc' = "closing"
  /\ UNCHANGED <<mainPc, serverIdle, client, traffic, lostNotice>>

\* ... before the Client is closed.
ClosesClient ==
  /\ Running /\ listenPc = "closing"
  /\ client' = [client EXCEPT ![server.client] = ClientClosed(server.client)]
  /\ NET_Close(ClientCloses(server.client))
  /\ listenPc' = "stopped"
  /\ UNCHANGED <<mainPc, serverIdle, server, inbox, traffic, lostNotice>>

\* ID_CONNECTION_LOST: is_alive is cleared, which main may see ...
ClientTickLost ==
  /\ ClientReceives("lost")
  /\ server' = [server EXCEPT !.is_alive = FALSE]
  /\ inbox' = AfterReceive(client[server.client].pointer)
  /\ listenPc' = "reporting"
  /\ UNCHANGED <<mainPc, serverIdle, client, net, traffic, lostNotice>>

\* ... before the packet is sent on to the game client and the Client closed.
ReportsLost ==
  /\ Running /\ listenPc = "reporting"
  /\ lostNotice' = [lostNotice EXCEPT !.down = @ \cup ServerSendsTo]
  /\ client' = [client EXCEPT ![server.client] = ClientClosed(server.client)]
  /\ NET_Close(ClientCloses(server.client))
  /\ listenPc' = "stopped"
  /\ UNCHANGED <<mainPc, serverIdle, server, inbox, traffic>>

\* Any other packet is sent on to the game client, as the hook left it.
ClientTickData ==
  /\ ClientReceives("data")
  /\ LET packet == NET_Receive(client[server.client].pointer)
     IN \E kind \in OnRustPacketReceived(packet.kind) :
          downLog' = Deliver(downLog, ServerSendsTo,
                       [from |-> server.client, n |-> packet.n, kind |-> kind])
  /\ inbox' = AfterReceive(client[server.client].pointer)
  /\ listenPc' = "server"
  /\ UNCHANGED <<mainPc, serverIdle, objects, net, upSent, downSent, upLog,
                 lostNotice>>

\* Sleep(PROXY_TICK_MS) returns.
Wakes ==
  /\ Running /\ listenPc = "sleep"
  /\ listenPc' = "server"
  /\ UNCHANGED <<mainPc, serverIdle, objects, net, inbox, traffic, lostNotice>>

ClientTick == \/ ClientTickNone \/ ClientTickWild \/ ClientTickDead
              \/ ClientTickIdle \/ ClientTickLeft \/ ClosesClient
              \/ ClientTickLost \/ ReportsLost \/ ClientTickData

ListenThread == ServerTick \/ ClientTick \/ Wakes

-----------------------------------------------------------------------------
(* The two ends, and RakNet between them and the proxy.                    *)

GameClientConnects(g) ==
  /\ Running /\ link[g] = "none" /\ peer[Listener] = "open"
  /\ link' = [link EXCEPT ![g] = "up"]
  /\ Arrives(Listener, Control("new", g))
  /\ UNCHANGED <<mainPc, listenPc, serverIdle, objects, peer, uplink, traffic,
                 lostNotice>>

GameClientSends(g) ==
  /\ Running /\ link[g] = "up" /\ upSent[g] < MaxUp
  /\ upSent' = [upSent EXCEPT ![g] = @ + 1]
  /\ Arrives(Listener, Data(g, upSent[g] + 1, "plain"))
  /\ UNCHANGED <<mainPc, listenPc, serverIdle, objects, net, downSent, upLog,
                 downLog, lostNotice>>

\* The game client disconnects, or stops answering.
GameClientGone(g) ==
  /\ Running /\ link[g] = "up"
  /\ \E how \in {"left", "lost"} :
       /\ link' = [link EXCEPT ![g] = how]
       /\ Arrives(Listener, Control(how, g))
  /\ UNCHANGED <<mainPc, listenPc, serverIdle, objects, peer, uplink, traffic,
                 lostNotice>>

\* The game server answers the connection attempt, or RakNet gives up on it
\* (CLIENT_MAX_RETRIES attempts CLIENT_RETRY_DELAY apart).
AttemptEnds(c) ==
  /\ Running /\ uplink[c] = "connecting"
  /\ \/ /\ uplink' = [uplink EXCEPT ![c] = "up"]
        /\ Arrives(c, Control("accepted", GameServer))
     \/ /\ uplink' = [uplink EXCEPT ![c] = "refused"]
        /\ Arrives(c, Control("refused", Wild))
  /\ UNCHANGED <<mainPc, listenPc, serverIdle, objects, peer, link, traffic,
                 lostNotice>>

GameServerSends(c) ==
  /\ Running /\ uplink[c] = "up" /\ Len(downSent[c]) < MaxDown
  /\ \E kind \in {"plain", "env"} :
       /\ downSent' = [downSent EXCEPT ![c] = Append(@, kind)]
       /\ Arrives(c, Data(GameServer, Len(downSent[c]) + 1, kind))
  /\ UNCHANGED <<mainPc, listenPc, serverIdle, objects, net, upSent, upLog,
                 downLog, lostNotice>>

\* The game server disconnects the session, or stops answering for
\* CLIENT_TIMEOUT.
GameServerGone(c) ==
  /\ Running /\ uplink[c] = "up"
  /\ \E how \in {"left", "lost"} :
       /\ uplink' = [uplink EXCEPT ![c] = how]
       /\ Arrives(c, Control(how, GameServer))
  /\ UNCHANGED <<mainPc, listenPc, serverIdle, objects, peer, link, traffic,
                 lostNotice>>

Outside ==
  \/ \E g \in GameClients : \/ GameClientConnects(g) \/ GameClientSends(g)
                            \/ GameClientGone(g)
  \/ \E c \in GameClients : \/ AttemptEnds(c) \/ GameServerSends(c)
                            \/ GameServerGone(c)

\* The process is gone.
Ended == ~Running /\ UNCHANGED vars

Next == Main \/ ListenThread \/ Outside \/ Ended

\* Both threads keep being scheduled, and a connection attempt comes to an end.
Fairness == /\ WF_vars(Main)
            /\ WF_vars(ListenThread)
            /\ \A c \in GameClients : WF_vars(AttemptEnds(c))

Spec     == Init /\ [][Next]_vars
FairSpec == Spec /\ Fairness

-----------------------------------------------------------------------------
(* Safety.                                                                 *)

\* is_alive has been cleared, or never set: the proxy is shutting down.
Over == listenPc # "unborn" /\ ~server.is_alive

\* Every RakPeer handle the code is about to use designates an open peer (one
\* that failed to start, in the handshake): NET_Receive on the server runs under
\* is_alive, on a client under is_connected or in the handshake loop, and
\* Server::Send and Client::Send under a guid (server.cpp:25-28, 46, 122;
\* client.cpp:8-11, 66).
HandlesValid ==
  /\ server.is_alive => server.pointer = Listener
  /\ server.pointer = Listener /\ (server.is_alive \/ server.incoming_guid # Null)
       => peer[Listener] = "open"
  /\ server.incoming_guid # Null => server.pointer = Listener
  /\ listenPc = "connecting" =>
       /\ server.client \in GameClients
       /\ client[server.client].pointer = server.client
       /\ peer[server.client] \in {"open", "idle"}
  /\ \A c \in GameClients :
       client[c].is_connected \/ client[c].incoming_guid = GameServer =>
         client[c].pointer = c /\ peer[c] = "open"

\* While a session is being relayed, the Client is connected, knows the game
\* server's guid, and belongs to the game client the Server answers to, though
\* later game clients replace both and a handshake may fail half way
\* (server.cpp:40-66, client.cpp:65).
Paired ==
  server.is_alive /\ server.client \in GameClients /\ listenPc # "connecting" =>
    /\ client[server.client].is_connected
    /\ client[server.client].incoming_guid = GameServer
    /\ server.incoming_guid = server.client

\* Server::Tick uses client without a test in three of its cases; no packet
\* that reaches them can be the first one, so the object is there
\* (server.cpp:73, 79, 85).
ClientCreated ==
  server.is_alive /\ listenPc = "server" /\ inbox[Listener] # <<>>
    => \/ NET_Receive(Listener).id = "new"
       \/ server.client \in GameClients

\* The listening thread ends only when it has cleared is_alive, whichever of
\* its exits it takes; otherwise main would poll forever (server.cpp:11-16,
\* main.cpp:155).
StoppedMeansDead == listenPc = "stopped" => ~server.is_alive

\* What a game client receives was sent for its own session, however many game
\* clients have connected (server.cpp:40-43, client.cpp:36).
DownIsolation ==
  \A g \in GameClients : \A i \in 1..Len(downLog[g]) : downLog[g][i].from = g

\* What a game client sends reaches the game server once at most and in the order
\* it was sent, though the Server may turn from session to session meanwhile and
\* it may go up another's: no session that was replaced gets a packet behind those
\* of the next (server.cpp:40-43, 84-90).
UpBefore(c, d) ==
  \A i \in 1..Len(upLog[c]), j \in 1..Len(upLog[d]) :
    upLog[c][i].from = upLog[d][j].from => upLog[c][i].n < upLog[d][j].n

UpInOrder ==
  /\ \A c \in GameClients : \A i, j \in 1..Len(upLog[c]) :
       i < j /\ upLog[c][i].from = upLog[c][j].from => upLog[c][i].n < upLog[c][j].n
  /\ \A c, d \in GameClients : c # d => UpBefore(c, d) \/ UpBefore(d, c)

\* The proxy gives up no session without a cause: it shuts down only if it could
\* not listen, a game client went away, or the running session's game server
\* refused or went away.  That of a replaced session ends nothing, a handshake
\* takes no later packet for a refusal, and a Client that stops is never the one
\* of a session that goes on.  The game client may be one whose session was
\* replaced: the Server closes at any one's notice (server.cpp:53-80,
\* client.cpp:8-9, 21-28).
EndsForCause ==
  Over => \/ peer[Listener] = "idle"
          \/ \E g \in GameClients : link[g] \in {"left", "lost"}
          \/ /\ server.client \in GameClients
             /\ uplink[server.client] \in {"refused", "left", "lost"}

\* Once is_alive is cleared main may be running the process's exit code, which
\* destroys the message hook's globals: the listening thread receives nothing
\* more, so it runs no hook, and sends no more data on in either direction
\* (client.cpp:28, server.cpp:132-135, main.cpp:155-157).
QuietAfterShutdown ==
  [][Over => /\ UNCHANGED <<upLog, downLog>>
             /\ \A p \in Peers : Len(inbox'[p]) >= Len(inbox[p])]_vars

\* When the listening thread has ended, the running session's connection to the
\* game server is closed, unless a connection to a game client was lost: of all
\* the ways out only that one leaves it (server.cpp:79, 73; client.cpp:23, 30).
UplinkReleased ==
  listenPc = "stopped" /\ server.client \in GameClients /\ uplink[server.client] = "up"
    => \E g \in GameClients : link[g] = "lost"

-----------------------------------------------------------------------------
(* The proxy implements Relay, in each direction.                          *)

Forms(message) == {[message EXCEPT !.kind = kind] :
                     kind \in OnRustPacketReceived(message.kind)}

UpMessages(g)   == [from : {g}, n : 1..MaxUp, kind : {"plain"}]
DownMessages(c) == [from : {c}, n : 1..MaxDown, kind : {"plain", "env"}]

Up == INSTANCE Relay WITH
        Sessions <- GameClients, Messages <- UpMessages, Rewrites <- Forms,
        sent <- [g \in GameClients |->
                   [n \in 1..upSent[g] |-> [from |-> g, n |-> n, kind |-> "plain"]]],
        delivered <- upLog,
        over <- Over

Down == INSTANCE Relay WITH
          Sessions <- GameClients, Messages <- DownMessages, Rewrites <- Forms,
          sent <- [c \in GameClients |->
                     [n \in 1..Len(downSent[c]) |->
                        [from |-> c, n |-> n, kind |-> downSent[c][n]]]],
          delivered <- downLog,
          over <- Over

\* What the game server sends a session reaches that session's game client in
\* order, once, rewritten at most by the hook, until the proxy shuts down.
DownRelays == Down!RelaySpec

\* What a lone game client sends reaches the game server over its session in
\* order, once and unchanged, until the proxy shuts down.
UpRelays == Up!RelaySpec

-----------------------------------------------------------------------------
(* Liveness, under FairSpec.                                               *)

\* The handshake loop waits on a Client whose start failed.
Hung == listenPc = "connecting" /\ uplink[server.client] = "unstarted"

\* When either end goes away or the game server refuses, the process comes to
\* an end: the notice is read behind all data, both objects are closed, the
\* thread and then main return (server.cpp:62-82, client.cpp:21-31).
SessionEnds ==
  \A g \in GameClients :
    (link[g] \in {"left", "lost"} \/ uplink[g] \in {"refused", "left", "lost"})
      ~> (~Running \/ Hung)

\* Each data packet is sent on while the session lasts: neither direction
\* starves the other in ListenThread's loop (server.cpp:8-20).
EventuallyRelayed ==
  /\ \A g \in GameClients : \A n \in 1..MaxUp :
       upSent[g] >= n ~> (Len(upLog[g]) >= n \/ Over \/ ~Running \/ Hung)
  /\ \A g \in GameClients : \A n \in 1..MaxDown :
       Len(downSent[g]) >= n ~> (Len(downLog[g]) >= n \/ Over \/ ~Running)
=============================================================================
