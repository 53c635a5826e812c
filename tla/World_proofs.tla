---------------------------- MODULE World_proofs ----------------------------
(***************************************************************************)
(* Proofs about World: for any entities, any number of moves and of        *)
(* packets on their way, and any settings the user chooses.                *)
(***************************************************************************)
EXTENDS World, SequenceTheorems, TLAPS

-----------------------------------------------------------------------------
(* The last packet on an entity.                                           *)

On(m, types, e)     == m.id = e /\ m.type \in types
SomeOn(q, types, e) == \E i \in DOMAIN q : On(q[i], types, e)

\* The packets on e of one of the types behind which there is no other: none, or
\* the last one.
LastOn(q, types, e) ==
  {q[i] : i \in {k \in DOMAIN q : /\ On(q[k], types, e)
                                  /\ \A j \in DOMAIN q : j > k => ~On(q[j], types, e)}}

\* What a packet says; an environment, and no other packet, is of no entity.
LEMMA PacketFacts ==
  ASSUME NEW m \in WorldPackets
  PROVE  /\ m.type \in {"Entities", "EntityPosition", "EntityDestroy", "Environment"}
         /\ m.id \in Entities \cup {None} /\ m.place \in 0..MaxMoves
         /\ m.type # "Environment" => m.id \in Entities
         /\ m.type = "Environment" <=> m = Environment
         /\ m = Environment => m.id \notin Entities
<1>1. 0 \in 0..MaxMoves /\ None \notin Entities
  BY WorldBounds, EntitiesDistinct DEF Entities, Players
<1> QED BY <1>1 DEF WorldPackets, Environment

LEMMA QueuedIsSome ==
  ASSUME NEW types, NEW e
  PROVE  Queued(types, e) <=> SomeOn(queue, types, e)
BY DEF Queued, SomeOn, On

\* A packet behind the others is the last one if it is one of those meant.
LEMMA LastOfAppend ==
  ASSUME NEW q \in Seq(WorldPackets), NEW m \in WorldPackets, NEW types, NEW e
  PROVE  /\ SomeOn(Append(q, m), types, e) <=> On(m, types, e) \/ SomeOn(q, types, e)
         /\ On(m, types, e) => \A x \in LastOn(Append(q, m), types, e) : x = m
         /\ ~On(m, types, e) => LastOn(Append(q, m), types, e) \subseteq LastOn(q, types, e)
<1> DEFINE r == Append(q, m)
           n == Len(q)
<1>1. /\ n \in Nat /\ DOMAIN q = 1..n /\ DOMAIN r = 1..(n + 1)
      /\ r[n + 1] = m /\ \A i \in 1..n : r[i] = q[i]
  BY AppendProperties, LenProperties
<1> HIDE DEF r, n
<1>2. SomeOn(r, types, e) <=> On(m, types, e) \/ SomeOn(q, types, e)
  BY <1>1 DEF SomeOn
<1>3. ASSUME On(m, types, e), NEW x \in LastOn(r, types, e) PROVE x = m
  <2>1. PICK i \in DOMAIN r : /\ x = r[i]
                              /\ \A j \in DOMAIN r : j > i => ~On(r[j], types, e)
    BY <1>3 DEF LastOn
  <2>2. ~(n + 1 > i) BY <1>1, <1>3, <2>1
  <2>3. i = n + 1 BY <1>1, <2>2
  <2> QED BY <1>1, <2>1, <2>3
<1>4. ASSUME ~On(m, types, e), NEW x \in LastOn(r, types, e)
      PROVE  x \in LastOn(q, types, e)
  <2>1. PICK i \in DOMAIN r : /\ x = r[i] /\ On(r[i], types, e)
                              /\ \A j \in DOMAIN r : j > i => ~On(r[j], types, e)
    BY <1>4 DEF LastOn
  <2>2. i # n + 1 BY <1>1, <1>4, <2>1
  <2>3. i \in 1..n BY <1>1, <2>2
  <2>4. /\ x = q[i] /\ On(q[i], types, e)
        /\ \A j \in DOMAIN q : j > i => ~On(q[j], types, e)
    BY <1>1, <2>1, <2>3
  <2> QED BY <1>1, <2>3, <2>4 DEF LastOn
<1> QED BY <1>2, <1>3, <1>4 DEF r

\* Once its first packet is taken, the last one of the rest is the last one; and
\* if there is none left, the one taken was.
LEMMA LastOfTail ==
  ASSUME NEW q \in Seq(WorldPackets), q # <<>>, NEW types, NEW e
  PROVE  /\ Head(q) \in WorldPackets /\ Tail(q) \in Seq(WorldPackets)
         /\ LastOn(Tail(q), types, e) \subseteq LastOn(q, types, e)
         /\ SomeOn(q, types, e) =>
              \/ SomeOn(Tail(q), types, e)
              \/ On(Head(q), types, e) /\ Head(q) \in LastOn(q, types, e)
         /\ On(Head(q), types, e) => SomeOn(q, types, e)
<1> DEFINE r == Tail(q)
           m == Head(q)
           n == Len(q)
<1>1. /\ m \in WorldPackets /\ r \in Seq(WorldPackets)
      /\ n \in Nat \ {0} /\ DOMAIN q = 1..n /\ DOMAIN r = 1..(n - 1)
      /\ m = q[1] /\ \A i \in 1..(n - 1) : r[i] = q[i + 1]
  BY HeadTailProperties, LenProperties, EmptySeq
<1> HIDE DEF r, m, n
<1>2. ASSUME NEW x \in LastOn(r, types, e) PROVE x \in LastOn(q, types, e)
  <2>1. PICK i \in DOMAIN r : /\ x = r[i] /\ On(r[i], types, e)
                              /\ \A j \in DOMAIN r : j > i => ~On(r[j], types, e)
    BY <1>2 DEF LastOn
  <2>2. i + 1 \in DOMAIN q /\ x = q[i + 1] /\ On(q[i + 1], types, e)
    BY <1>1, <2>1
  <2>3. ASSUME NEW j \in DOMAIN q, j > i + 1 PROVE ~On(q[j], types, e)
    <3>1. j - 1 \in DOMAIN r /\ j - 1 > i /\ r[j - 1] = q[j]
      BY <1>1, <2>1, <2>3
    <3> QED BY <2>1, <3>1
  <2> QED BY <2>2, <2>3 DEF LastOn
<1>3. ASSUME SomeOn(q, types, e), ~SomeOn(r, types, e)
      PROVE  On(m, types, e) /\ m \in LastOn(q, types, e)
  <2>1. ASSUME NEW j \in DOMAIN q, j > 1 PROVE ~On(q[j], types, e)
    <3>1. j - 1 \in DOMAIN r /\ r[j - 1] = q[j] BY <1>1, <2>1
    <3> QED BY <1>3, <3>1 DEF SomeOn
  <2>2. On(q[1], types, e) /\ 1 \in DOMAIN q BY <1>1, <1>3, <2>1 DEF SomeOn
  <2> QED BY <1>1, <2>1, <2>2 DEF LastOn
<1>4. On(m, types, e) => SomeOn(q, types, e) BY <1>1 DEF SomeOn
<1> QED BY <1>1, <1>2, <1>3, <1>4 DEF r, m

LEMMA NoneOnEmpty ==
  ASSUME NEW types, NEW e
  PROVE  ~SomeOn(<<>>, types, e) /\ LastOn(<<>>, types, e) = {}
BY DEF SomeOn, LastOn

-----------------------------------------------------------------------------
(* The strengthened invariant: what the last packet on its way will leave  *)
(* is what the game server shows.                                          *)

Coming     == {"Entities", "EntityDestroy"}
Positioned == {"Entities", "EntityPosition", "EntityDestroy"}
Placed     == {"Entities", "EntityPosition"}
Announced  == {"Entities"}

PlayerMirrored(p) ==
  /\ \A m \in LastOn(queue, Coming, p) : m.type = "Entities" <=> p \in visible \cup ghosts
  /\ SomeOn(queue, Coming, p) \/ (p \in DOMAIN players <=> p \in visible \cup ghosts)

PlayerCurrent(p) ==
  /\ \A m \in LastOn(queue, Positioned, p) :
       /\ m.type = "Entities" => told[p] = Origin
       /\ m.type = "EntityPosition" => told[p] = m.place
  /\ SomeOn(queue, Positioned, p) \/ (p \in DOMAIN players => players[p] = told[p])

MeCurrent ==
  /\ \A m \in LastOn(queue, Placed, Me) : m.place = place[Me]
  /\ localPlayer # None => \/ SomeOn(queue, Placed, Me) \/ Me \in ghosts
                           \/ localPlayer.place = place[Me]

\* Without a localPlayer the player is not in view, or still announced.
MeKnown == Me \in visible => SomeOn(queue, Announced, Me) \/ localPlayer # None

Explained == crashed => localPlayer = None \/ frame.disturbed

WorldInv ==
  /\ WorldTypeOK
  /\ visible \cap ghosts = {}
  /\ \A p \in Others : PlayerMirrored(p)
  /\ \A p \in Others : PlayerCurrent(p)
  /\ MeCurrent
  /\ MeKnown
  /\ Explained

Frames == [pc : Loops \cup {"esp?", "radar?", "gui"}, at : Others \cup {None},
           passed : SUBSET Others, disturbed : BOOLEAN]

-----------------------------------------------------------------------------
(* What the hook leaves.                                                   *)

\* A packet touches the entry of its own player only: an announcement makes it,
\* a position is written over one that is there, a destruction takes it away.
LEMMA HookPlayers ==
  ASSUME WorldTypeOK, NEW m \in WorldPackets, OnRustPacketReceived(m)
  PROVE  /\ DOMAIN players' \in SUBSET Others
         /\ players' \in [DOMAIN players' -> Places]
         /\ \A p \in Others \ {m.id} :
              /\ p \in DOMAIN players' <=> p \in DOMAIN players
              /\ p \in DOMAIN players => players'[p] = players[p]
         /\ \A p \in Others : p = m.id =>
              /\ m.type = "Entities" => p \in DOMAIN players' /\ players'[p] = Origin
              /\ m.type = "EntityPosition" =>
                   /\ p \in DOMAIN players' <=> p \in DOMAIN players
                   /\ p \in DOMAIN players' => players'[p] = m.place
              /\ m.type = "EntityDestroy" => p \notin DOMAIN players'
<1>1. /\ DOMAIN players \in SUBSET Others /\ players \in [DOMAIN players -> Places]
      /\ m.place \in Places /\ Origin \in Places
      /\ m.type \in {"Entities", "EntityPosition", "EntityDestroy", "Environment"}
      /\ m.type = "Environment" => m.id \notin Others
  BY PacketFacts DEF WorldTypeOK, Places, Entities, Players
<1>2. CASE HookLocalPlayer(m)
  BY <1>1, <1>2, EntitiesDistinct DEF HookLocalPlayer, HasMetabolism, Learns
<1>3. CASE HookPlayer(m)
  <2>1. /\ m.id \in Others /\ m.type = "Entities" /\ players' = Store(m.id, Origin)
    BY <1>3 DEF HookPlayer, HasMetabolism, Learns, Players
  <2> QED BY <1>1, <2>1 DEF Store
<1>4. CASE HookEntity(m)
  BY <1>1, <1>4, EntitiesDistinct DEF HookEntity, Learns
<1>5. CASE HookPlayerMoved(m)
  <2>1. /\ m.id \in DOMAIN players /\ m.type = "EntityPosition"
        /\ players' = Store(m.id, m.place)
    BY <1>5 DEF HookPlayerMoved, Learns
  <2> QED BY <1>1, <2>1 DEF Store
<1>6. CASE HookMovedWild(m) \/ HookMoved(m)
  BY <1>1, <1>6 DEF HookMovedWild, HookMoved, Learns, known
<1>7. CASE HookDestroyed(m)
  <2>1. m.type = "EntityDestroy" /\ players' = Erase(m.id)
    BY <1>7 DEF HookDestroyed, Learns
  <2> QED BY <1>1, <2>1 DEF Erase
<1>8. CASE HookEnvironment(m)
  BY <1>1, <1>8 DEF HookEnvironment, Learns
<1> QED BY <1>2, <1>3, <1>4, <1>5, <1>6, <1>7, <1>8 DEF OnRustPacketReceived

\* localPlayer is made by an announcement of the player and moved by its
\* positions; the hook ends the process only where there is none.
LEMMA HookLocal ==
  ASSUME WorldTypeOK, ~crashed, NEW m \in WorldPackets, OnRustPacketReceived(m)
  PROVE  /\ localPlayer' \in {None} \cup [id : {Me}, place : 0..MaxMoves]
         /\ localPlayer # None => localPlayer' # None
         /\ On(m, Announced, Me) => localPlayer' # None
         /\ On(m, Placed, Me) /\ localPlayer' # None => localPlayer'.place = m.place
         /\ ~On(m, Placed, Me) => localPlayer' = localPlayer
         /\ frame' \in Frames
         /\ crashed' \in BOOLEAN /\ (crashed' => localPlayer' = None)
<1>1. /\ localPlayer \in {None} \cup [id : {Me}, place : 0..MaxMoves]
      /\ m.place \in 0..MaxMoves /\ DOMAIN players \in SUBSET Others
      /\ m.type \in {"Entities", "EntityPosition", "EntityDestroy", "Environment"}
      /\ frame \in Frames /\ Me \notin DOMAIN players
  BY PacketFacts, EntitiesDistinct DEF WorldTypeOK, Frames
<1>2. ASSUME NEW map, NEW local, Learns(map, local)
      PROVE  /\ frame' \in Frames /\ localPlayer' = local
             /\ crashed' \in BOOLEAN /\ ~crashed'
  <2> DEFINE d == \/ frame.disturbed
                  \/ frame.pc \in Loops /\ DOMAIN map # DOMAIN players
  <2>1. d \in BOOLEAN BY <1>1 DEF Frames
  <2>2. frame' = [frame EXCEPT !.disturbed = d] BY <1>2 DEF Learns
  <2> HIDE DEF d
  <2>3. frame' \in Frames BY <1>1, <2>1, <2>2 DEF Frames
  <2> QED BY <1>2, <2>3 DEF Learns, WorldTypeOK
<1>3. CASE HookLocalPlayer(m)
  <2>1. /\ m.id = Me /\ m.type = "Entities"
        /\ Learns(players, [id |-> Me, place |-> m.place])
    BY <1>3 DEF HookLocalPlayer, HasMetabolism, LocalPlayer
  <2>2. [id |-> Me, place |-> m.place] \in [id : {Me}, place : 0..MaxMoves]
    BY <1>1
  <2>3. localPlayer' = [id |-> Me, place |-> m.place] BY <1>2, <2>1
  <2>4. On(m, Placed, Me) BY <2>1 DEF On, Placed
  <2> QED BY <1>2, <2>1, <2>2, <2>3, <2>4, EntitiesDistinct
<1>4. CASE HookPlayer(m) \/ HookEntity(m)
  <2>1. m.id # Me /\ \E map : Learns(map, localPlayer)
    BY <1>4, EntitiesDistinct DEF HookPlayer, HasMetabolism, HookEntity
  <2> QED BY <1>1, <1>2, <2>1 DEF On, Announced
<1>5. CASE HookPlayerMoved(m)
  <2>1. m.id # Me /\ Learns(Store(m.id, m.place), localPlayer)
    BY <1>1, <1>5 DEF HookPlayerMoved
  <2> QED BY <1>1, <1>2, <2>1 DEF On, Announced
<1>6. CASE HookMovedWild(m)
  BY <1>1, <1>6 DEF HookMovedWild, known, On, Announced
<1>7. CASE HookMoved(m)
  <2>1. /\ m.type = "EntityPosition" /\ localPlayer # None
        /\ Learns(players, IF m.id = Me THEN [localPlayer EXCEPT !.place = m.place]
                           ELSE localPlayer)
    BY <1>1, <1>7 DEF HookMoved, updatePosition
  <2>2. /\ [localPlayer EXCEPT !.place = m.place] \in [id : {Me}, place : 0..MaxMoves]
        /\ [localPlayer EXCEPT !.place = m.place].place = m.place
    BY <1>1, <2>1
  <2>3. localPlayer' = IF m.id = Me THEN [localPlayer EXCEPT !.place = m.place]
                       ELSE localPlayer
    BY <1>2, <2>1
  <2>4. localPlayer' \in [id : {Me}, place : 0..MaxMoves]
    BY <1>1, <2>1, <2>2, <2>3
  <2>5. /\ ~On(m, Announced, Me) /\ (On(m, Placed, Me) <=> m.id = Me)
    BY <2>1 DEF On, Announced, Placed
  <2> QED BY <1>2, <2>1, <2>2, <2>3, <2>4, <2>5, EntitiesDistinct
<1>8. CASE HookDestroyed(m) \/ HookEnvironment(m)
  BY <1>1, <1>2, <1>8 DEF HookDestroyed, HookEnvironment, On, Announced, Placed
<1> QED BY <1>3, <1>4, <1>5, <1>6, <1>7, <1>8 DEF OnRustPacketReceived

-----------------------------------------------------------------------------
(* Each action keeps the invariant.                                        *)

LEMMA InitialInv == WorldInit => WorldInv
<1> SUFFICES ASSUME WorldInit PROVE WorldInv OBVIOUS
<1>1. WorldTypeOK
  <2>1. 0 \in 0..MaxMoves /\ Origin \in Places BY WorldBounds DEF Places
  <2>2. <<>> \in Seq(WorldPackets) /\ DOMAIN players = {} /\ players \in [{} -> Places]
    BY EmptySeq DEF WorldInit
  <2> QED BY <2>1, <2>2 DEF WorldInit, WorldTypeOK, Resting, Loops
<1>2. \A p \in Others : PlayerMirrored(p) /\ PlayerCurrent(p)
  BY NoneOnEmpty DEF WorldInit, PlayerMirrored, PlayerCurrent
<1>3. MeCurrent /\ MeKnown /\ Explained
  BY NoneOnEmpty DEF WorldInit, MeCurrent, MeKnown, Explained
<1> QED BY <1>1, <1>2, <1>3 DEF WorldInit, WorldInv

LEMMA ServerInv ==
  ASSUME WorldInv, NEW m \in WorldPackets, GameServerActs(m), queue' = Append(queue, m)
  PROVE  WorldInv'
<1>1. /\ WorldTypeOK /\ visible \cap ghosts = {} /\ queue \in Seq(WorldPackets)
      /\ m.type # "Environment" => m.id \in Entities
      /\ m.place \in 0..MaxMoves
      /\ place \in [Entities -> 0..MaxMoves] /\ told \in [Others -> Places]
      /\ Me \in Entities /\ Others \subseteq Entities
      /\ UNCHANGED <<players, localPlayer, settings, frame, crashed>>
  BY PacketFacts DEF WorldInv, WorldTypeOK, GameServerActs, known, Entities, Players
<1>2. /\ Announces(m) =>
           /\ m.type = "Entities" /\ m.place = place[m.id] /\ place' = place
           /\ visible' = visible \cup {m.id} /\ ghosts' = ghosts \ {m.id}
           /\ told' = [p \in Others |-> IF p = m.id THEN Origin ELSE told[p]]
      /\ Moves(m) =>
           /\ m.type = "EntityPosition" /\ m.id \in visible
           /\ place' = [place EXCEPT ![m.id] = m.place]
           /\ visible' = visible /\ ghosts' = ghosts
           /\ told' = [p \in Others |-> IF p = m.id THEN m.place ELSE told[p]]
      /\ Destroys(m) =>
           /\ m.type = "EntityDestroy" /\ m.id \in visible /\ m.place = place[m.id]
           /\ visible' = visible \ {m.id}
           /\ ghosts' = ghosts /\ place' = place /\ told' = told
      /\ Blows(m) =>
           /\ m.type = "Environment"
           /\ UNCHANGED <<visible, ghosts, place, told>>
      /\ Announces(m) \/ Moves(m) \/ Destroys(m) \/ Blows(m)
  BY PacketFacts DEF Announces, Moves, Destroys, Blows, GameServerActs
<1>3. WorldTypeOK'
  <2>1. visible' \in SUBSET Entities /\ ghosts' \in SUBSET Players
    BY <1>1, <1>2 DEF WorldTypeOK
  <2>2. place' \in [Entities -> 0..MaxMoves] BY <1>1, <1>2
  <2>3. told' \in [Others -> Places]
    <3>1. Origin \in Places /\ m.place \in Places BY <1>1 DEF Places
    <3> QED BY <1>1, <1>2, <3>1
  <2>4. queue' \in Seq(WorldPackets) BY <1>1, AppendProperties
  <2> QED BY <1>1, <2>1, <2>2, <2>3, <2>4 DEF WorldTypeOK
<1>4. visible' \cap ghosts' = {} BY <1>1, <1>2
<1>5. ASSUME NEW p \in Others PROVE PlayerMirrored(p)'
  <2>1. PlayerMirrored(p) BY DEF WorldInv
  <2>2. CASE On(m, Coming, p)
    <3>1. m.id = p /\ (m.type = "Entities" <=> p \in visible' \cup ghosts')
      BY <1>1, <1>2, <2>2 DEF On, Coming
    <3> QED BY <1>1, <2>2, <3>1, LastOfAppend DEF PlayerMirrored
  <2>3. CASE ~On(m, Coming, p)
    <3>1. p \in visible' \cup ghosts' <=> p \in visible \cup ghosts
      BY <1>1, <1>2, <2>3 DEF On, Coming
    <3> QED BY <1>1, <2>1, <2>3, <3>1, LastOfAppend DEF PlayerMirrored
  <2> QED BY <2>2, <2>3
<1>6. ASSUME NEW p \in Others PROVE PlayerCurrent(p)'
  <2>1. PlayerCurrent(p) BY DEF WorldInv
  <2>2. CASE On(m, Positioned, p)
    <3>1. /\ m.type = "Entities" => told'[p] = Origin
          /\ m.type = "EntityPosition" => told'[p] = m.place
      BY <1>2, <2>2 DEF On
    <3> QED BY <1>1, <2>2, <3>1, LastOfAppend DEF PlayerCurrent
  <2>3. CASE ~On(m, Positioned, p)
    <3>1. m.id # p \/ m.type = "Environment" BY <1>2, <2>3 DEF On, Positioned
    <3>2. told'[p] = told[p] BY <1>1, <1>2, <3>1
    <3> QED BY <1>1, <2>1, <2>3, <3>2, LastOfAppend DEF PlayerCurrent
  <2> QED BY <2>2, <2>3
<1>7. MeCurrent'
  <2>1. MeCurrent BY DEF WorldInv
  <2>2. CASE On(m, Placed, Me)
    <3>1. m.place = place'[Me] BY <1>1, <1>2, <2>2 DEF On, Placed
    <3> QED BY <1>1, <2>2, <3>1, LastOfAppend DEF MeCurrent
  <2>3. CASE ~On(m, Placed, Me)
    <3>1. place'[Me] = place[Me] /\ (Me \in ghosts' <=> Me \in ghosts)
      BY <1>1, <1>2, <2>3 DEF On, Placed
    <3> QED BY <1>1, <2>1, <2>3, <3>1, LastOfAppend DEF MeCurrent
  <2> QED BY <2>2, <2>3
<1>8. MeKnown'
  <2>1. MeKnown BY DEF WorldInv
  <2>2. Me \in visible' => Me \in visible \/ On(m, Announced, Me)
    BY <1>2 DEF On, Announced
  <2> QED BY <1>1, <2>1, <2>2, LastOfAppend DEF MeKnown
<1>9. Explained' BY <1>1 DEF WorldInv, Explained
<1> QED BY <1>3, <1>4, <1>5, <1>6, <1>7, <1>8, <1>9 DEF WorldInv

LEMMA ReconnectInv ==
  ASSUME WorldInv, Reconnects, queue' = <<>>
  PROVE  WorldInv'
<1>1. /\ visible' = {} /\ UNCHANGED <<place, players, localPlayer, settings, frame, crashed>>
      /\ ghosts' = {p \in Players : p \in DOMAIN players \/ (p = Me /\ localPlayer # None)}
      /\ told' = [p \in Others |-> IF p \in DOMAIN players THEN players[p] ELSE Origin]
  BY DEF Reconnects, known
<1>2. WorldTypeOK'
  <2>1. told' \in [Others -> Places] BY <1>1 DEF WorldInv, WorldTypeOK, Places
  <2>2. <<>> \in Seq(WorldPackets) BY EmptySeq
  <2> QED BY <1>1, <2>1, <2>2 DEF WorldInv, WorldTypeOK
<1>3. ASSUME NEW p \in Others PROVE PlayerMirrored(p)' /\ PlayerCurrent(p)'
  <2>1. p \in visible' \cup ghosts' <=> p \in DOMAIN players
    BY <1>1, EntitiesDistinct DEF Players
  <2> QED BY <1>1, <2>1, NoneOnEmpty DEF PlayerMirrored, PlayerCurrent
<1>4. MeCurrent' /\ MeKnown'
  BY <1>1, NoneOnEmpty DEF MeCurrent, MeKnown, Players
<1>5. Explained' BY <1>1 DEF WorldInv, Explained
<1> QED BY <1>1, <1>2, <1>3, <1>4, <1>5 DEF WorldInv

LEMMA HookInv ==
  ASSUME WorldInv, ~crashed, queue # <<>>, OnRustPacketReceived(Head(queue)),
         queue' = Tail(queue)
  PROVE  WorldInv'
<1> DEFINE m == Head(queue)
<1>1. /\ WorldTypeOK /\ queue \in Seq(WorldPackets)
      /\ UNCHANGED <<visible, ghosts, place, told, settings>>
  BY DEF WorldInv, WorldTypeOK, OnRustPacketReceived
<1>2. m \in WorldPackets /\ queue' \in Seq(WorldPackets) BY <1>1, LastOfTail
<1>3. ASSUME NEW types, NEW e
      PROVE  /\ LastOn(queue', types, e) \subseteq LastOn(queue, types, e)
             /\ SomeOn(queue, types, e) =>
                  \/ SomeOn(queue', types, e)
                  \/ On(m, types, e) /\ m \in LastOn(queue, types, e)
             /\ On(m, types, e) => SomeOn(queue, types, e)
  BY <1>1, LastOfTail
<1> HIDE DEF m
<1>4. /\ DOMAIN players' \in SUBSET Others
      /\ players' \in [DOMAIN players' -> Places]
      /\ \A p \in Others \ {m.id} :
           /\ p \in DOMAIN players' <=> p \in DOMAIN players
           /\ p \in DOMAIN players => players'[p] = players[p]
      /\ \A p \in Others : p = m.id =>
           /\ m.type = "Entities" => p \in DOMAIN players' /\ players'[p] = Origin
           /\ m.type = "EntityPosition" =>
                /\ p \in DOMAIN players' <=> p \in DOMAIN players
                /\ p \in DOMAIN players' => players'[p] = m.place
           /\ m.type = "EntityDestroy" => p \notin DOMAIN players'
  BY <1>1, <1>2, HookPlayers DEF m
<1>5. /\ localPlayer' \in {None} \cup [id : {Me}, place : 0..MaxMoves]
      /\ localPlayer # None => localPlayer' # None
      /\ On(m, Announced, Me) => localPlayer' # None
      /\ On(m, Placed, Me) /\ localPlayer' # None => localPlayer'.place = m.place
      /\ ~On(m, Placed, Me) => localPlayer' = localPlayer
      /\ frame' \in Frames
      /\ crashed' \in BOOLEAN /\ (crashed' => localPlayer' = None)
  BY <1>1, <1>2, HookLocal DEF m
<1>6. WorldTypeOK' BY <1>1, <1>2, <1>4, <1>5 DEF WorldTypeOK, Frames
<1>7. visible' \cap ghosts' = {} BY <1>1 DEF WorldInv
<1>8. /\ m.type \in {"Entities", "EntityPosition", "EntityDestroy", "Environment"}
      /\ m.type = "Environment" => m.id \notin Others
  BY <1>2, PacketFacts DEF Entities, Players
<1>9. ASSUME NEW p \in Others PROVE PlayerMirrored(p)'
  <2>1. PlayerMirrored(p) BY DEF WorldInv
  <2>2. \A x \in LastOn(queue', Coming, p) :
          x.type = "Entities" <=> p \in visible' \cup ghosts'
    BY <1>1, <1>3, <2>1 DEF PlayerMirrored
  <2>3. CASE On(m, Coming, p) /\ m \in LastOn(queue, Coming, p)
    <3>1. m.type = "Entities" <=> p \in visible' \cup ghosts'
      BY <1>1, <2>1, <2>3 DEF PlayerMirrored
    <3>2. m.type = "Entities" <=> p \in DOMAIN players'
      BY <1>4, <2>3 DEF On, Coming
    <3> QED BY <2>2, <3>1, <3>2 DEF PlayerMirrored
  <2>4. CASE ~On(m, Coming, p)
    <3>1. p \in DOMAIN players' <=> p \in DOMAIN players
      BY <1>4, <1>8, <2>4 DEF On, Coming
    <3> QED BY <1>1, <1>3, <2>1, <2>2, <2>4, <3>1 DEF PlayerMirrored
  <2>5. CASE SomeOn(queue', Coming, p) BY <2>2, <2>5 DEF PlayerMirrored
  <2> QED BY <1>3, <2>3, <2>4, <2>5
<1>10. ASSUME NEW p \in Others PROVE PlayerCurrent(p)'
  <2>1. PlayerCurrent(p) BY DEF WorldInv
  <2>2. \A x \in LastOn(queue', Positioned, p) :
          /\ x.type = "Entities" => told'[p] = Origin
          /\ x.type = "EntityPosition" => told'[p] = x.place
    BY <1>1, <1>3, <2>1 DEF PlayerCurrent
  <2>3. CASE On(m, Positioned, p) /\ m \in LastOn(queue, Positioned, p)
    <3>1. /\ m.type = "Entities" => told'[p] = Origin
          /\ m.type = "EntityPosition" => told'[p] = m.place
      BY <1>1, <2>1, <2>3 DEF PlayerCurrent
    <3>2. p \in DOMAIN players' => players'[p] = told'[p]
      BY <1>4, <1>8, <2>3, <3>1 DEF On
    <3> QED BY <2>2, <3>2 DEF PlayerCurrent
  <2>4. CASE ~On(m, Positioned, p)
    <3>1. p # m.id BY <1>8, <2>4 DEF On, Positioned
    <3>2. /\ p \in DOMAIN players' <=> p \in DOMAIN players
          /\ p \in DOMAIN players => players'[p] = players[p]
      BY <1>4, <3>1
    <3> QED BY <1>1, <1>3, <2>1, <2>2, <2>4, <3>2 DEF PlayerCurrent
  <2>5. CASE SomeOn(queue', Positioned, p) BY <2>2, <2>5 DEF PlayerCurrent
  <2> QED BY <1>3, <2>3, <2>4, <2>5
<1>11. MeCurrent'
  <2>1. MeCurrent BY DEF WorldInv
  <2>2. \A x \in LastOn(queue', Placed, Me) : x.place = place'[Me]
    BY <1>1, <1>3, <2>1 DEF MeCurrent
  <2>3. CASE On(m, Placed, Me) /\ m \in LastOn(queue, Placed, Me)
    <3>1. m.place = place'[Me] BY <1>1, <2>1, <2>3 DEF MeCurrent
    <3> QED BY <1>5, <2>2, <2>3, <3>1 DEF MeCurrent
  <2>4. CASE ~On(m, Placed, Me)
    BY <1>1, <1>3, <1>5, <2>1, <2>2, <2>4 DEF MeCurrent
  <2>5. CASE SomeOn(queue', Placed, Me) BY <2>2, <2>5 DEF MeCurrent
  <2> QED BY <1>3, <2>3, <2>4, <2>5
<1>12. MeKnown' BY <1>1, <1>3, <1>5 DEF WorldInv, MeKnown
<1>13. Explained' BY <1>5 DEF Explained
<1> QED BY <1>6, <1>7, <1>9, <1>10, <1>11, <1>12, <1>13 DEF WorldInv

LEMMA RenderInv ==
  ASSUME WorldInv, Render, UNCHANGED queue
  PROVE  WorldInv'
<1>1. /\ UNCHANGED <<visible, ghosts, place, told, players, localPlayer, queue>>
      /\ ~crashed
  BY DEF Render, RenderEsp, RenderRadar, RenderGui, RenderPlayer, RenderWild,
     RenderLoopEnds, Renders, known
<1>2. WorldTypeOK /\ DOMAIN players \subseteq Others /\ frame \in Frames
  BY DEF WorldInv, WorldTypeOK, Frames
<1>3. \A pc \in Loops \cup {"esp?", "radar?", "gui"} : Resting(pc) \in Frames
  BY DEF Resting, Frames
<1>4. ASSUME NEW loop \in Loops, Enters(loop) PROVE frame' \in Frames
  BY <1>2, <1>4 DEF Enters, Resting, Frames
<1>5. /\ frame' \in Frames /\ crashed' \in BOOLEAN
      /\ settings' \in [esp : BOOLEAN, radar : BOOLEAN]
      /\ crashed' => localPlayer' = None \/ frame'.disturbed
  <2>1. CASE RenderEsp BY <1>1, <1>2, <1>3, <1>4, <2>1 DEF RenderEsp, Loops, WorldTypeOK
  <2>2. CASE RenderRadar
    BY <1>1, <1>2, <1>3, <1>4, <2>2 DEF RenderRadar, Loops, WorldTypeOK
  <2>3. CASE RenderGui 
    BY <1>1, <1>2, <1>3, <2>3, WorldBounds DEF RenderGui, WorldTypeOK
  <2>4. ASSUME NEW loop \in Loops, RenderPlayer(loop)
        PROVE  frame' \in Frames /\ UNCHANGED <<settings, crashed>>
    <3>1. Following \subseteq Others \cup {None} /\ frame.at \in Others
      BY <1>2, <2>4 DEF Following, RenderPlayer, Frames
    <3>2. PICK p \in Following :
            frame' = [frame EXCEPT !.at = p, !.passed = frame.passed \cup {frame.at}]
      BY <2>4 DEF RenderPlayer
    <3>3. p \in Others \cup {None} /\ frame.passed \cup {frame.at} \in SUBSET Others
      BY <1>2, <3>1, <3>2 DEF Frames
    <3>4. frame' \in Frames BY <1>2, <3>2, <3>3 DEF Frames
    <3> QED BY <2>4, <3>4 DEF RenderPlayer
  <2>5. ASSUME NEW loop \in Loops, RenderWild(loop)
        PROVE  /\ UNCHANGED <<settings, frame>> /\ crashed' = TRUE
               /\ localPlayer = None \/ frame.disturbed
    BY <2>5 DEF RenderWild
  <2>6. ASSUME NEW loop \in Loops, RenderLoopEnds(loop)
        PROVE  frame' \in Frames /\ UNCHANGED <<settings, crashed>>
    BY <1>3, <2>6 DEF RenderLoopEnds
  <2> QED BY <1>1, <1>2, <2>1, <2>2, <2>3, <2>4, <2>5, <2>6 DEF Render, WorldTypeOK
<1>6. WorldTypeOK' BY <1>1, <1>2, <1>5 DEF WorldTypeOK, Frames
<1>7. Explained' BY <1>5 DEF Explained
<1>8. /\ \A p \in Others : PlayerMirrored(p)' /\ PlayerCurrent(p)'
      /\ MeCurrent' /\ MeKnown' /\ visible' \cap ghosts' = {}
  BY <1>1 DEF WorldInv, PlayerMirrored, PlayerCurrent, MeCurrent, MeKnown
<1> QED BY <1>6, <1>7, <1>8 DEF WorldInv

LEMMA UnchangedInv ==
  ASSUME WorldInv, UNCHANGED worldVars
  PROVE  WorldInv'
<1>1. /\ UNCHANGED <<visible, ghosts, place, told, queue, players, localPlayer>>
      /\ UNCHANGED <<settings, frame, crashed>>
  BY DEF worldVars, game, known
<1> QED BY <1>1 DEF WorldInv, WorldTypeOK, PlayerMirrored, PlayerCurrent, MeCurrent,
           MeKnown, Explained

-----------------------------------------------------------------------------
(* The theorems.                                                           *)

\* The strengthened invariant holds in every behaviour of the hook and the
\* overlay's thread (main.cpp:34-121, overlay.cpp:65-170).
THEOREM WorldInvariance == WorldSpec => []WorldInv
<1>1. WorldInv /\ [WorldNext]_worldVars => WorldInv'
  <2> SUFFICES ASSUME WorldInv, [WorldNext]_worldVars PROVE WorldInv' OBVIOUS
  <2> QED BY ServerInv, ReconnectInv, HookInv, RenderInv, UnchangedInv
             DEF WorldNext, WorldEnded
<1> QED BY InitialInv, <1>1, PTL DEF WorldSpec

\* Every variable has its type: the map never holds the player of this game, nor
\* anything that is not a player (main.cpp:58-66).
THEOREM TypeCorrect == WorldSpec => []WorldTypeOK
<1>1. WorldInv => WorldTypeOK BY DEF WorldInv
<1> QED BY <1>1, WorldInvariance, PTL

\* With nothing of a player's coming or going on its way, the map holds it
\* exactly if the game server shows it or an earlier session left it behind
\* (main.cpp:66, :97).
THEOREM MapMirrors == WorldSpec => []Mirrors
<1>1. WorldInv => Mirrors
  BY QueuedIsSome DEF WorldInv, PlayerMirrored, Mirrors, Coming
<1> QED BY <1>1, WorldInvariance, PTL

\* A position in the map is where the last packet on its player put it, once that
\* was handled (main.cpp:42, :66).
THEOREM MapIsCurrent == WorldSpec => []PositionsCurrent
<1>1. WorldInv => PositionsCurrent
  <2> SUFFICES ASSUME WorldInv, NEW p \in DOMAIN players
               PROVE  Queued(Positioned, p) \/ players[p] = told[p]
    BY DEF PositionsCurrent, Positioned
  <2>1. p \in Others BY DEF WorldInv, WorldTypeOK
  <2> QED BY <2>1, QueuedIsSome DEF WorldInv, PlayerCurrent
<1> QED BY <1>1, WorldInvariance, PTL

\* localPlayer is where the player is, once what tells it was handled, unless a
\* new session has not shown it yet (main.cpp:44-46, :58-64).
THEOREM LocalIsCurrent == WorldSpec => []LocalCurrent
<1>1. WorldInv => LocalCurrent
  BY QueuedIsSome DEF WorldInv, MeCurrent, LocalCurrent, Placed
<1> QED BY <1>1, WorldInvariance, PTL

\* Once the player is announced, only the map changing under the overlay's
\* iterator can end the process (overlay.cpp:93, :123).
THEOREM CrashIsExplained == WorldSpec => []CrashExplained
<1>1. WorldInv => CrashExplained
  BY QueuedIsSome DEF WorldInv, MeKnown, Explained, CrashExplained, Announced
<1> QED BY <1>1, WorldInvariance, PTL
=============================================================================
