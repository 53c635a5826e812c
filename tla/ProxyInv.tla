------------------------------ MODULE ProxyInv ------------------------------
(***************************************************************************)
(* The inductive invariant of Proxy.  The safety invariants of Proxy are   *)
(* not inductive by themselves: what a handler may assume of the object it *)
(* uses depends on what the packets still queued in RakNet can be, and on  *)
(* which exit of the loop the listening thread is taking.                  *)
(***************************************************************************)
EXTENDS Proxy

\* What is queued for the Server comes from game clients that connected; the
\* NEW_INCOMING_CONNECTION of each, of which there is one, stands for a session
\* that has not been made yet, and no session is made without one.
ListenerInbox ==
  /\ \A i \in 1..Len(inbox[Listener]) :
       /\ inbox[Listener][i].guid \in GameClients
       /\ link[inbox[Listener][i].guid] # "none"
       /\ inbox[Listener][i].id = "new" =>
            /\ uplink[inbox[Listener][i].guid] = "none"
            /\ \A j \in 1..Len(inbox[Listener]) :
                 /\ inbox[Listener][j].id = "new"
                 /\ inbox[Listener][j].guid = inbox[Listener][i].guid
                 => j = i
  /\ \A g \in GameClients : link[g] = "none" => uplink[g] = "none"

\* What is queued for a Client comes from its connection attempt or from the
\* game server, and there is nothing before the attempt.
ClientInbox ==
  \A c \in GameClients :
    /\ \A i \in 1..Len(inbox[c]) :
         /\ inbox[c][i].guid \in {GameServer, Wild}
         /\ inbox[c][i].id = "accepted" => inbox[c][i].guid = GameServer
    /\ uplink[c] \in {"none", "unstarted"} => inbox[c] = <<>>
    /\ peer[c] = "idle" => uplink[c] = "unstarted"

\* Before the first Client is made, the first packet to come is a "new" one.
NewFirst ==
  server.client \notin GameClients =>
    \/ inbox[Listener] = <<>> /\ \A g \in GameClients : link[g] = "none"
    \/ inbox[Listener] # <<>> /\ NET_Receive(Listener).id = "new"

\* What each place in the listening thread's loop implies of the objects.
Phases ==
  /\ mainPc = "init" => listenPc = "unborn"
  /\ listenPc = "unborn" => server = [pointer |-> Null, is_alive |-> FALSE,
                                      incoming_guid |-> Null, client |-> Null]
  /\ listenPc = "connecting" =>
       server.is_alive /\ server.incoming_guid = server.client
  /\ listenPc \in {"closing", "reporting"} => server.client \in GameClients
  /\ listenPc \in {"closing", "reporting", "stopped"} => ~server.is_alive
  /\ ~server.is_alive /\ listenPc \notin {"reporting", "stopped"}
       => server.incoming_guid = Null
  /\ ~server.is_alive /\ listenPc = "client" =>
       server.client \in GameClients /\ ~client[server.client].is_connected

IInv == /\ TypeOK
        /\ ListenerInbox
        /\ ClientInbox
        /\ NewFirst
        /\ Phases
        /\ HandlesValid
        /\ Paired
        /\ DownIsolation
=============================================================================
