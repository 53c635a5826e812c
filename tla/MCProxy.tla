------------------------------ MODULE MCProxy ------------------------------
(***************************************************************************)
(* Proxy on small instances, and the statements that comments and log      *)
(* lines of the code make about it which the code does not keep.           *)
(***************************************************************************)
EXTENDS ProxyInv, TLC

Symmetry == Permutations(GameClients)

\* Bound: a second packet goes up only where none has come down.
OneWay == (\E g \in GameClients : upSent[g] > 1) =>
            \A c \in GameClients : downSent[c] = <<>>

-----------------------------------------------------------------------------
(* Statements of the code that it does not keep; each run on one of them   *)
(* ends in a counterexample.                                               *)

\* server.cpp:14 asks whether client is null before it is used, so a Server
\* without a game client is expected to tick over.
TicksWithoutClient == mainPc # "crashed"

\* server.cpp:64-65, "tell the client we couldn't connect to the server" and
\* "Failed to connect to server, closing connection to client...": when the
\* connection to the game server fails, the game client's is closed.
FailureReachesClient ==
  \A c \in GameClients :
    uplink[c] \in {"unstarted", "refused"} ~> (link[c] # "up" \/ ~Running)

\* client.cpp:27, "Connection to game server lost, disconnecting from client and
\* closing...": when the process has ended for that reason, a game client that
\* is still connected has been told.
GameClientTold ==
  mainPc = "exited" =>
    \A g \in GameClients : link[g] = "up" => g \in lostNotice.down

\* server.h:51, "the identifier for the client we are connected to (our pc)":
\* what goes up a session to the game server comes from its own game client.
UpIsolation ==
  \A c \in GameClients : \A i \in 1..Len(upLog[c]) : upLog[c][i].from = c
=============================================================================
