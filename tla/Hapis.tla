------------------------------- MODULE Hapis -------------------------------
(***************************************************************************)
(* The whole process: the proxy's sessions (Proxy) carry the game server's *)
(* packets to the message hook, whose globals the overlay draws (World),   *)
(* and main's return destroys them under the overlay.                      *)
(*                                                                         *)
(* World takes it for granted that the packets of one session reach the    *)
(* hook in order, and that its queue is new with each session.  Here the   *)
(* packets go through the Client's RakPeer, and the composition is shown   *)
(* to implement World.                                                     *)
(***************************************************************************)
EXTENDS Proxy

CONSTANTS Others, Me, Things, None, Choices, MaxMoves  \* as in World

VARIABLES visible, ghosts, place, told, players, localPlayer, settings, frame,
          crashed,   \* as in World
          payload,   \* what the data packets the game server sent a session say
          destroyed  \* main's exit has destroyed the map players

worldly   == <<visible, ghosts, place, told, players, localPlayer, settings, frame,
               crashed>>
hapisVars == <<vars, worldly, payload, destroyed>>

\* The session that runs.
Session == {server.client} \cap GameClients

\* How many packets of a Client's queue come before the data, and behind it: the
\* answer to the connection attempt, and the notice of its end.
Before(q) == IF q # <<>> /\ q[1].id = "accepted" THEN 1 ELSE 0
Behind(q) == IF q # <<>> /\ q[Len(q)].id \in {"refused", "left", "lost"} THEN 1 ELSE 0

\* What the running session's Client has yet to receive and the hook to handle.
InFlight ==
  IF server.client \in GameClients
  THEN LET q == inbox[server.client]
       IN  [i \in 1..(Len(q) - Before(q) - Behind(q)) |->
              payload[server.client][q[Before(q) + i].n]]
  ELSE <<>>

W == INSTANCE World WITH queue <- InFlight, MaxQueue <- MaxDown

ASSUME WorldConstants == W!EntitiesDistinct /\ W!WorldBounds

HapisInit == /\ Init /\ W!WorldInit
             /\ payload = [c \in GameClients |-> <<>>] /\ destroyed = FALSE

\* The game server tells the session something of the game, or an environment.
Tells(c) ==
  /\ GameServerSends(c)
  /\ \E m \in W!WorldPackets :
       /\ downSent'[c][Len(downSent'[c])] = "env" <=> m = W!Environment
       /\ payload' = [payload EXCEPT ![c] = Append(@, m)]
       /\ W!GameServerActs(m)
  /\ UNCHANGED destroyed

\* A connection anew: the hook's globals stay as the old session left them.
Reconnects == ServerTickNew /\ W!Reconnects /\ UNCHANGED <<payload, destroyed>>

\* Fault: the hook is left out when nobody is there to send the packet on to.
Hooks_Skips ==
  LET n == NET_Receive(client[server.client].pointer).n
  IN  /\ IF ServerSendsTo # {} THEN W!OnRustPacketReceived(payload[server.client][n])
         ELSE UNCHANGED worldly
      /\ payload' = [payload EXCEPT ![server.client][n] = None]
      /\ UNCHANGED destroyed

\* Client::Tick hands the hook a packet, of which nothing is kept, ...
Hooks ==
  LET n == NET_Receive(client[server.client].pointer).n
  IN  /\ W!OnRustPacketReceived(payload[server.client][n])
      /\ payload' = [payload EXCEPT ![server.client][n] = None]
      /\ UNCHANGED destroyed

\* ... and sends it on, unless an access violation in the hook ends the process.
ClientTickHooks == ClientTickData /\ Hooks /\ ~crashed'

ClientTickCrashes ==
  /\ ClientReceives("data") /\ Hooks /\ crashed'
  /\ inbox' = AfterReceive(client[server.client].pointer)
  /\ mainPc' = "crashed"
  /\ UNCHANGED <<listenPc, serverIdle, objects, net, traffic, lostNotice>>

\* A step of the overlay's thread, which started before all else.
Draws == /\ Running /\ W!Render
         /\ mainPc' = IF crashed' THEN "crashed" ELSE mainPc
         /\ UNCHANGED <<listenPc, serverIdle, objects, net, inbox, traffic,
                        lostNotice, payload, destroyed>>

\* main's return runs the destructor of players, and then ends the process.
DestroysPlayers ==
  /\ mainPc = "exiting" /\ ~destroyed
  /\ destroyed' = TRUE
  /\ UNCHANGED <<vars, worldly, payload>>

ExitsProcess == destroyed /\ ProcessEnds /\ UNCHANGED <<worldly, payload, destroyed>>

\* The overlay's loop over a map that is destroyed.
DrawsDestroyed ==
  /\ Running /\ destroyed
  /\ \/ frame.pc \in W!Loops
     \/ frame.pc = "esp?" /\ settings.esp
     \/ frame.pc = "radar?" /\ settings.radar
  /\ mainPc' = "crashed"
  /\ UNCHANGED <<listenPc, serverIdle, objects, net, inbox, traffic, lostNotice,
                 worldly, payload, destroyed>>

\* What else main, the listening thread and the network do.
OfMain   == InitThrows \/ StartServer \/ Polls \/ Returns
OfListen == \/ ServerTickDead \/ ServerTickIdle \/ HandshakeWaits \/ HandshakeDone
            \/ ServerTickLeft \/ ServerTickLost \/ ServerTickData
            \/ ClientTickNone \/ ClientTickWild \/ ClientTickDead \/ ClientTickIdle
            \/ ClientTickLeft \/ ClosesClient \/ ClientTickLost \/ ReportsLost \/ Wakes
OfNet    == \/ \E g \in GameClients :
                 GameClientConnects(g) \/ GameClientSends(g) \/ GameClientGone(g)
            \/ \E c \in GameClients : AttemptEnds(c) \/ GameServerGone(c)
            \/ \E c \in GameClients \ Session : GameServerSends(c)

Apart(action) == action /\ UNCHANGED <<worldly, payload, destroyed>>

HapisMain   == Apart(OfMain) \/ DestroysPlayers \/ ExitsProcess
HapisListen == Apart(OfListen) \/ Reconnects \/ ClientTickHooks \/ ClientTickCrashes

HapisNext == \/ HapisMain \/ HapisListen \/ Draws \/ DrawsDestroyed
             \/ \E c \in Session : Tells(c)
             \/ Apart(OfNet) \/ Apart(Ended)

\* As in Proxy; of the overlay's thread nothing is asked.
HapisFairness ==
  /\ WF_hapisVars(HapisMain) /\ WF_hapisVars(HapisListen)
  /\ \A c \in GameClients : WF_hapisVars(Apart(AttemptEnds(c)))

HapisSpec     == HapisInit /\ [][HapisNext]_hapisVars
FairHapisSpec == HapisSpec /\ HapisFairness

-----------------------------------------------------------------------------
(* Properties.                                                             *)

\* The composition does what World says of the hook and the overlay: through
\* RakNet, the handshake and the loop of the listening thread the packets of
\* the running session, and no others, reach the hook in order and once, and
\* the next session's start with nothing of it in flight (client.cpp:35,
\* server.cpp:43).
ImplementsWorld == W!WorldSpec

\* The hook never touches the globals once main's exit has destroyed them: only
\* the overlay's thread can meet them so (client.cpp:28, main.cpp:155-157).
HookNeverAfterExit == [][destroyed => UNCHANGED <<players, localPlayer>>]_hapisVars

\* A player the game server shows comes to be in the players map, unless it is
\* destroyed first, another session begins, or the process stops: no environment,
\* loss of the other side, or packet the other way keeps the hook from hearing of
\* it.  Nothing is said of the overlay, which draws from the map if its settings
\* say so (server.cpp:8-20, main.cpp:66).
PlayersBecomeKnown ==
  \A p \in Others :
    p \in visible ~> (p \in DOMAIN players \/ p \notin visible \/ Over \/ ~Running)
=============================================================================
