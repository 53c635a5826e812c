------------------------------- MODULE World -------------------------------
(***************************************************************************)
(* What the proxy knows of the game: the globals players and localPlayer,  *)
(* which the message hook OnRustPacketReceived writes on the listening     *)
(* thread and Overlay::render reads on the overlay's thread, with no lock  *)
(* between them.                                                           *)
(*                                                                         *)
(* The game server is outside src/: it announces entities, moves and       *)
(* destroys them, and its packets reach the hook in order (Proxy).  A      *)
(* position is the number of times its entity has moved; what the hook     *)
(* stores for a player that was announced and has not moved is the origin. *)
(* The player's game client may connect anew while its old connection is   *)
(* not yet known to be lost: the proxy then turns to a new session, whose  *)
(* game server announces everything again, and nothing clears the globals. *)
(***************************************************************************)
EXTENDS Integers, Sequences, FiniteSets

CONSTANTS Others,    \* entities that are other players
          Me,        \* the entity of the player, announced with a metabolism
          Things,    \* entities that are not players
          None,      \* a null localPlayer, and an iterator at the end
          Choices,   \* bound: the settings the user chooses among
          MaxMoves,  \* bound: how often each entity moves
          MaxQueue   \* bound: packets of the game server not yet handled

ASSUME EntitiesDistinct == /\ Me \notin Others /\ Me \notin Things
                           /\ Others \cap Things = {}
                           /\ None \notin Others /\ None # Me /\ None \notin Things
                           /\ None \notin [id : {Me}, place : 0..MaxMoves]
ASSUME WorldBounds == /\ MaxMoves \in Nat /\ MaxQueue \in Nat
                      /\ Choices \subseteq [esp : BOOLEAN, radar : BOOLEAN]

Players  == Others \cup {Me}
Entities == Players \cup Things

VARIABLES
  visible,      \* the entities this session's game server shows
  ghosts,       \* the players known from an earlier session and not shown since
  place,        \* where each entity is, for the game server
  told,         \* where the last packet on a player has the map put it
  queue,        \* packets on their way to the hook, in order
  players,      \* the map of that name: a function on the ids it holds
  localPlayer,  \* None, or the LocalPlayer it points to
  settings,     \* settings->esp and settings->radar
  frame,        \* render: where it is, the player its loop's iterator is at
                \* (None at the end), the players the loop has been at, and
                \* whether the map was restructured since the loop began
  crashed       \* the process has ended in an access violation

game  == <<visible, ghosts, place, told, queue>>
known == <<players, localPlayer>>
worldVars == <<game, known, settings, frame, crashed>>

Origin == -1
Places == {Origin} \cup 0..MaxMoves
Loops  == {"esp", "radar"}

\* An environment is of no entity, and no other packet is of none.
Environment  == [type |-> "Environment", id |-> None, place |-> 0]
WorldPackets == [type : {"Entities", "EntityPosition", "EntityDestroy"},
                 id : Entities, place : 0..MaxMoves] \cup {Environment}

WorldTypeOK ==
  /\ visible \in SUBSET Entities /\ ghosts \in SUBSET Players
  /\ place \in [Entities -> 0..MaxMoves]
  /\ told \in [Others -> Places]
  /\ queue \in Seq(WorldPackets)
  /\ DOMAIN players \in SUBSET Others
  /\ players \in [DOMAIN players -> Places]
  /\ localPlayer \in {None} \cup [id : {Me}, place : 0..MaxMoves]
  /\ settings \in [esp : BOOLEAN, radar : BOOLEAN]
  /\ frame \in [pc : Loops \cup {"esp?", "radar?", "gui"},
                at : Others \cup {None}, passed : SUBSET Others,
                disturbed : BOOLEAN]
  /\ crashed \in BOOLEAN

\* render between two loops.
Resting(pc) == [pc |-> pc, at |-> None, passed |-> {}, disturbed |-> FALSE]

WorldInit ==
  /\ visible = {} /\ ghosts = {} /\ queue = <<>>
  /\ place = [e \in Entities |-> 0] /\ told = [p \in Others |-> Origin]
  /\ players = <<>> /\ localPlayer = None
  /\ settings = [esp |-> FALSE, radar |-> FALSE] /\ frame = Resting("esp?")
  /\ crashed = FALSE

-----------------------------------------------------------------------------
(* The game server, and the game client that connects anew.                *)

\* An entity comes into view, or is described again.
Announces(m) == /\ m.type = "Entities" /\ m.place = place[m.id]
                /\ visible' = visible \cup {m.id} /\ ghosts' = ghosts \ {m.id}
                /\ told' = [p \in Others |-> IF p = m.id THEN Origin ELSE told[p]]
                /\ UNCHANGED place

Moves(m) == /\ m.type = "EntityPosition" /\ m.id \in visible
            /\ m.place = place[m.id] + 1
            /\ place' = [place EXCEPT ![m.id] = m.place]
            /\ told' = [p \in Others |-> IF p = m.id THEN m.place ELSE told[p]]
            /\ UNCHANGED <<visible, ghosts>>

Destroys(m) == /\ m.type = "EntityDestroy" /\ m.id \in visible /\ m.place = place[m.id]
               /\ visible' = visible \ {m.id}
               /\ UNCHANGED <<ghosts, place, told>>

\* The weather, which tells nothing of the entities.
Blows(m) == m = Environment /\ UNCHANGED <<visible, ghosts, place, told>>

\* What the game server does when it sends the packet m.
GameServerActs(m) == /\ Announces(m) \/ Moves(m) \/ Destroys(m) \/ Blows(m)
                     /\ UNCHANGED <<known, settings, frame, crashed>>

\* A new session: what is known is a matter of the old one.
Reconnects == /\ visible' = {}
              /\ ghosts' = {p \in Players : \/ p \in DOMAIN players
                                           \/ (p = Me /\ localPlayer # None)}
              /\ told' = [p \in Others |-> IF p \in DOMAIN players THEN players[p]
                                           ELSE Origin]
              /\ UNCHANGED <<place, known, settings, frame, crashed>>

-----------------------------------------------------------------------------
(* OnRustPacketReceived, on the packet m.                                  *)

\* Fault: insert, which leaves an entry there is as it is.
Store_Inserts(id, where) ==
  [p \in DOMAIN players \cup {id} |-> IF p \in DOMAIN players THEN players[p] ELSE where]

\* Fault: what was destroyed stays in the map.
Erase_Keeps(id) == players

\* players[id] = where, and players.erase(id) if it is there.
Store(id, where) ==
  [p \in DOMAIN players \cup {id} |-> IF p = id THEN where ELSE players[p]]
Erase(id) == [p \in DOMAIN players \ {id} |-> players[p]]

\* Fault: the LocalPlayer is left where it is.
updatePosition_Stays(where) == localPlayer

\* What localPlayer points to, and updatePosition on it.
LocalPlayer(id, where) == [id |-> id, place |-> where]
updatePosition(where)  == [localPlayer EXCEPT !.place = where]

\* Fault: any player is taken for the one that is played.
HasMetabolism_Any(id) == id \in Players
\* Fault: the test is negated.
HasMetabolism_Not(id) == id # Me

HasMetabolism(id) == id = Me

\* The hook leaves this map and this localPlayer.  Inserting into the map or
\* erasing from it under the overlay's iterator disturbs the frame.
Learns(map, local) ==
  /\ players' = map /\ localPlayer' = local
  /\ frame' = [frame EXCEPT !.disturbed =
                 @ \/ (frame.pc \in Loops /\ DOMAIN map # DOMAIN players)]
  /\ UNCHANGED crashed

\* Entities, of the player: the LocalPlayer is made anew.
HookLocalPlayer(m) == /\ m.type = "Entities" /\ m.id \in Players /\ HasMetabolism(m.id)
                      /\ Learns(players, LocalPlayer(m.id, m.place))

\* Entities, of another player: the map holds it, at the origin.
HookPlayer(m) == /\ m.type = "Entities" /\ m.id \in Players /\ ~HasMetabolism(m.id)
                 /\ Learns(Store(m.id, Origin), localPlayer)

\* Entities, of anything else.
HookEntity(m) == m.type = "Entities" /\ m.id \in Things /\ Learns(players, localPlayer)

\* Entities, of an environment: it is rewritten (Packets, which has what that
\* does to the packet), and nothing is kept.
HookEnvironment(m) == m.type = "Environment" /\ Learns(players, localPlayer)

\* EntityPosition: of a player in the map ...
HookPlayerMoved(m) == /\ m.type = "EntityPosition" /\ m.id \in DOMAIN players
                      /\ Learns(Store(m.id, m.place), localPlayer)

\* ... or else localPlayer is used, which may be null, ...
HookMovedWild(m) == /\ m.type = "EntityPosition" /\ m.id \notin DOMAIN players
                    /\ localPlayer = None
                    /\ crashed' = TRUE /\ UNCHANGED <<known, frame>>

\* ... to see whether it is the one that moved.
HookMoved(m) ==
  /\ m.type = "EntityPosition" /\ m.id \notin DOMAIN players /\ localPlayer # None
  /\ Learns(players, IF m.id = localPlayer.id THEN updatePosition(m.place)
                     ELSE localPlayer)

HookDestroyed(m) == m.type = "EntityDestroy" /\ Learns(Erase(m.id), localPlayer)

OnRustPacketReceived(m) ==
  /\ \/ HookLocalPlayer(m) \/ HookPlayer(m) \/ HookEntity(m) \/ HookEnvironment(m)
     \/ HookPlayerMoved(m) \/ HookMovedWild(m) \/ HookMoved(m) \/ HookDestroyed(m)
  /\ UNCHANGED <<visible, ghosts, place, told, settings>>

-----------------------------------------------------------------------------
(* Overlay::render, one frame after another; each step of a loop reads the *)
(* shared map and localPlayer once more.                                   *)

Renders(pc) == /\ ~crashed /\ frame.pc = pc
               /\ UNCHANGED <<visible, ghosts, place, told, known>>

\* A loop over players begins: its iterator is at any of them.
Enters(loop) ==
  \E p \in IF DOMAIN players = {} THEN {None} ELSE DOMAIN players :
    frame' = [Resting(loop) EXCEPT !.at = p]

RenderEsp == /\ Renders("esp?")
             /\ IF settings.esp THEN Enters("esp") ELSE frame' = Resting("radar?")
             /\ UNCHANGED <<settings, crashed>>

RenderRadar == /\ Renders("radar?")
               /\ IF settings.radar THEN Enters("radar") ELSE frame' = Resting("gui")
               /\ UNCHANGED <<settings, crashed>>

\* Where the iterator goes from at: to a player it has not been at, in the
\* order the map has; anywhere if the map was restructured meanwhile.
Following ==
  LET left == DOMAIN players \ (frame.passed \cup {frame.at})
  IN  IF frame.disturbed THEN Others \cup {None}
      ELSE IF left = {} THEN {None} ELSE left

RenderPlayer(loop) ==
  /\ Renders(loop) /\ frame.at # None /\ localPlayer # None
  /\ \E p \in Following :
       frame' = [frame EXCEPT !.at = p, !.passed = @ \cup {frame.at}]
  /\ UNCHANGED <<settings, crashed>>

\* A player is drawn where it is seen from, which may be nowhere; and the
\* iterator may be at an entry that is gone.
RenderWild(loop) ==
  /\ Renders(loop) /\ frame.at # None
  /\ localPlayer = None \/ frame.disturbed
  /\ crashed' = TRUE
  /\ UNCHANGED <<settings, frame>>

RenderLoopEnds(loop) ==
  /\ Renders(loop) /\ frame.at = None
  /\ frame' = Resting(IF loop = "esp" THEN "radar?" ELSE "gui")
  /\ UNCHANGED <<settings, crashed>>

\* The GUI, and the end of the frame.
RenderGui ==
  /\ Renders("gui") /\ frame' = Resting("esp?")
  /\ settings' \in Choices
  /\ UNCHANGED crashed

Render == \/ RenderEsp \/ RenderRadar \/ RenderGui
          \/ \E loop \in Loops :
               RenderPlayer(loop) \/ RenderWild(loop) \/ RenderLoopEnds(loop)

\* The process has ended.
WorldEnded == crashed /\ UNCHANGED worldVars

WorldNext ==
  \/ /\ ~crashed /\ Len(queue) < MaxQueue
     /\ \E m \in WorldPackets : GameServerActs(m) /\ queue' = Append(queue, m)
  \/ ~crashed /\ Reconnects /\ queue' = <<>>
  \/ /\ ~crashed /\ queue # <<>>
     /\ OnRustPacketReceived(Head(queue)) /\ queue' = Tail(queue)
  \/ Render /\ UNCHANGED queue
  \/ WorldEnded

WorldSpec == WorldInit /\ [][WorldNext]_worldVars

-----------------------------------------------------------------------------
(* Properties.                                                             *)

Queued(types, e) == \E i \in DOMAIN queue : /\ queue[i].id = e
                                            /\ queue[i].type \in types

\* The players map is what the game server shows, and what an earlier session
\* left behind: with nothing of a player's coming or going still on its way, the
\* map holds it exactly if it is in view or was never shown since the last
\* session, however the packets of others are interleaved (main.cpp:66, :97).
Mirrors ==
  \A p \in Others :
    Queued({"Entities", "EntityDestroy"}, p)
      \/ (p \in DOMAIN players <=> p \in visible \cup ghosts)

\* A position in the map is never an outdated one: with nothing of a player's
\* on its way it is where the last packet on it put it, the origin if that
\* announced it (main.cpp:42, :66).
PositionsCurrent ==
  \A p \in DOMAIN players :
    Queued({"Entities", "EntityPosition", "EntityDestroy"}, p)
      \/ players[p] = told[p]

\* localPlayer is where the player is, with nothing of its on its way, also
\* after it was destroyed and announced again; unless a new session has not
\* shown it yet (main.cpp:44-46, :58-64).
LocalCurrent ==
  localPlayer # None =>
    \/ Queued({"Entities", "EntityPosition"}, Me) \/ Me \in ghosts
    \/ localPlayer.place = place[Me]

\* While the player is in the game and its announcement was handled, what the
\* two threads share can end the process only through the unlocked map: by a
\* player added or removed under the overlay's iterator (overlay.cpp:93, :123).
\* Before, localPlayer may be null at main.cpp:44 and overlay.cpp:99.
CrashExplained ==
  crashed /\ Me \in visible /\ ~Queued({"Entities"}, Me) => frame.disturbed
=============================================================================
