---------------------------- MODULE Hapis_proofs ----------------------------
(***************************************************************************)
(* Proofs about Hapis, for any game clients, entities and bounds.          *)
(*                                                                         *)
(* First, the proxy's invariant survives the composition with the hook and *)
(* the overlay, and with it the hook never meets what main's exit          *)
(* destroyed.                                                              *)
(*                                                                         *)
(* Then, Hapis implements World, with the queue of the running session in  *)
(* the place of World's own: what the hook handles is what the game sent,  *)
(* in its order, whatever the other sessions do.  So all that is proved of *)
(* World holds of the whole process.                                       *)
(***************************************************************************)
EXTENDS Hapis, ProxySessions_proofs

\* main gets to its exit, and to the destruction of the globals, only when
\* is_alive is cleared, and nothing sets it again.
Exits == mainPc = "exiting" \/ destroyed => ~server.is_alive /\ mainPc # "init"

HapisInv == IInv /\ Exits

-----------------------------------------------------------------------------
(* The steps of the composition, as the proxy sees them.                   *)

\* The overlay's thread, or the hook, ends the process.
Crashes ==
  /\ mainPc' = "crashed"
  /\ UNCHANGED <<serverIdle, objects, net, traffic, lostNotice, listenPc>>
  /\ \/ UNCHANGED inbox
     \/ ClientReceives("data") /\ inbox' = AfterReceive(client[server.client].pointer)

\* A step of the composition is one of the proxy, or ends the process.
LEMMA StepsAreProxys ==
  ASSUME HapisNext
  PROVE  Next \/ UNCHANGED vars \/ Crashes
<1>1. CASE HapisMain
  <2>1. Main \/ UNCHANGED vars
    BY <1>1 DEF HapisMain, Apart, OfMain, DestroysPlayers, ExitsProcess, Main
  <2> QED BY <2>1 DEF Next
<1>2. CASE Apart(OfListen) \/ Reconnects \/ ClientTickHooks
  <2>1. ListenThread
    BY <1>2 DEF Apart, OfListen, Reconnects, ClientTickHooks, ListenThread, ServerTick,
       ClientTick
  <2> QED BY <2>1 DEF Next
<1>3. CASE ClientTickCrashes BY <1>3 DEF ClientTickCrashes, Crashes
<1>4. CASE Draws \/ DrawsDestroyed
  <2>1. /\ mainPc' \in {mainPc, "crashed"}
        /\ UNCHANGED <<listenPc, serverIdle, objects, net, inbox, traffic, lostNotice>>
    BY <1>4 DEF Draws, DrawsDestroyed
  <2> QED BY <2>1 DEF Crashes, vars
<1>5. CASE (\E c \in Session : Tells(c)) \/ Apart(OfNet) \/ Apart(Ended)
  <2>1. Outside \/ Ended
    BY <1>5 DEF Tells, Apart, OfNet, Session, Outside
  <2> QED BY <2>1 DEF Next
<1> QED BY <1>1, <1>2, <1>3, <1>4, <1>5 DEF HapisNext, HapisListen

LEMMA CrashesIInv ==
  ASSUME IInv, Crashes
  PROVE  IInv'
<1>1. /\ mainPc' = "crashed"
      /\ UNCHANGED <<listenPc, serverIdle, server, client, peer, link, uplink, upSent,
                     downSent, upLog, downLog, lostNotice>>
  BY DEF Crashes, objects, net, traffic
<1>2. CASE UNCHANGED inbox
  BY <1>1, <1>2 DEF IInv, TypeOK, ListenerInbox, ClientInbox, NewFirst, Phases,
     HandlesValid, Paired, DownIsolation, NET_Receive
<1>3. CASE ClientReceives("data") /\ inbox' = AfterReceive(client[server.client].pointer)
  <2>1. /\ server.client \in GameClients /\ inbox[server.client] # <<>>
        /\ inbox' = AfterReceive(server.client) /\ server.is_alive
        /\ listenPc = "client" /\ mainPc # "init"
    BY <1>3, ClientReceivesFacts
  <2>2. /\ upLog' \in [GameClients -> Seq(Message)] /\ serverIdle' \in BOOLEAN
        /\ downLog' \in [GameClients -> Seq(Message)] /\ DownIsolation'
    BY <1>1 DEF IInv, TypeOK, DownIsolation
  <2> QED BY <1>1, <2>1, <2>2, RelayedIInv
<1> QED BY <1>2, <1>3 DEF Crashes

\* The proxy's own steps set is_alive once only, before main polls it.
LEMMA NeverRevived ==
  ASSUME IInv, [Next]_vars \/ Crashes, ~server.is_alive, mainPc # "init"
  PROVE  ~server'.is_alive /\ mainPc' # "init"
<1>1. CASE Main
  BY <1>1 DEF Main, InitThrows, StartServer, Polls, Returns, ProcessEnds, vars, objects
<1>2. CASE ListenThread
  <2>1. mainPc' # "init"
    BY <1>2 DEF ListenThread, ServerTick, ClientTick, ServerTickDead, ServerTickIdle,
       ServerTickNew, HandshakeWaits, HandshakeDone, ServerTickLeft, ServerTickLost,
       ServerTickData, ClientTickNone, ClientTickWild, ClientTickDead, ClientTickIdle,
       ClientTickLeft, ClosesClient, ClientTickLost, ReportsLost, ClientTickData, Wakes,
       vars
  <2>2. (\A id : ~ServerReceives(id)) /\ ~HandshakeDone
    BY DEF ServerReceives, HandshakeDone, IInv, Phases
  <2>3. \A id : ~ClientReceives(id) BY ClientReceivesFacts
  <2>4. UNCHANGED server
    BY <1>2, <2>2, <2>3 DEF ListenThread, ServerTick, ClientTick, ServerTickDead,
       ServerTickIdle, ServerTickNew, HandshakeWaits, ServerTickLeft, ServerTickLost,
       ServerTickData, ClientTickNone, ClientTickWild, ClientTickDead, ClientTickIdle,
       ClientTickLeft, ClosesClient, ClientTickLost, ReportsLost, ClientTickData, Wakes,
       vars, objects
  <2> QED BY <2>1, <2>4
<1>3. CASE Outside \/ Ended \/ UNCHANGED vars \/ Crashes
  BY <1>3 DEF Outside, Ended, GameClientConnects, GameClientSends, GameClientGone,
     AttemptEnds, GameServerSends, GameServerGone, Crashes, vars, objects
<1> QED BY <1>1, <1>2, <1>3 DEF Next

\* main gets to its exit by the two steps that say so, and to the destruction of
\* the globals only from there.
LEMMA ExitsByMain ==
  ASSUME HapisNext
  PROVE  /\ mainPc' = "exiting" => mainPc = "exiting" \/ InitThrows \/ Returns
         /\ destroyed' => destroyed \/ mainPc = "exiting"
<1>1. CASE HapisMain
  BY <1>1 DEF HapisMain, Apart, OfMain, StartServer, Polls, DestroysPlayers, ExitsProcess,
     ProcessEnds, vars
<1>2. CASE Apart(OfListen)
  <2>1. OfListen /\ UNCHANGED destroyed
    BY <1>2 DEF Apart
  <2>2. ASSUME \/ ServerTickDead \/ ServerTickIdle \/ HandshakeDone
               \/ ServerTickLeft \/ ServerTickLost \/ ServerTickData
        PROVE  UNCHANGED mainPc
    BY <2>2 DEF ServerTickDead, ServerTickIdle, HandshakeDone, ServerTickLeft,
       ServerTickLost, ServerTickData
  <2>3. ASSUME \/ ClientTickNone \/ ClientTickWild \/ ClientTickDead \/ ClientTickIdle
               \/ ClientTickLeft \/ ClosesClient \/ ClientTickLost \/ ReportsLost
        PROVE  mainPc' \in {mainPc, "crashed"}
    BY <2>3 DEF ClientTickNone, ClientTickWild, ClientTickDead, ClientTickIdle,
       ClientTickLeft, ClosesClient, ClientTickLost, ReportsLost
  <2>4. ASSUME HandshakeWaits \/ Wakes PROVE UNCHANGED mainPc
    BY <2>4 DEF HandshakeWaits, Wakes, vars
  <2> QED BY <2>1, <2>2, <2>3, <2>4 DEF OfListen
<1>3. CASE Reconnects
  BY <1>3 DEF Reconnects, ServerTickNew
<1>4. CASE ClientTickHooks \/ ClientTickCrashes
  BY <1>4 DEF ClientTickHooks, ClientTickData, ClientTickCrashes, Hooks
<1>5. CASE Draws \/ DrawsDestroyed
  BY <1>5 DEF Draws, DrawsDestroyed
<1>6. CASE (\E c \in Session : Tells(c)) \/ Apart(OfNet) \/ Apart(Ended)
  BY <1>6 DEF Tells, Apart, OfNet, Ended, GameClientConnects, GameClientSends,
     GameClientGone, AttemptEnds, GameServerSends, GameServerGone, vars
<1> QED BY <1>1, <1>2, <1>3, <1>4, <1>5, <1>6 DEF HapisNext, HapisListen

LEMMA ExitsStep ==
  ASSUME HapisInv, HapisNext
  PROVE  Exits'
<1>1. [Next]_vars \/ Crashes BY StepsAreProxys
<1>2. CASE mainPc = "exiting" \/ destroyed
  BY <1>1, <1>2, NeverRevived DEF HapisInv, Exits
<1>3. CASE InitThrows \/ Returns
  BY <1>3 DEF InitThrows, Returns, objects, HapisInv, IInv, Phases, Exits
<1>4. CASE ~(mainPc = "exiting" \/ destroyed) /\ ~(InitThrows \/ Returns)
  BY <1>4, ExitsByMain DEF Exits
<1> QED BY <1>2, <1>3, <1>4

-----------------------------------------------------------------------------
(* The invariant, and the property.                                        *)

LEMMA HapisInvInit == HapisInit => HapisInv
BY InitIInv DEF HapisInit, HapisInv, Exits, Init

LEMMA HapisInvStep == HapisInv /\ [HapisNext]_hapisVars => HapisInv'
<1>1. ASSUME HapisInv, HapisNext PROVE HapisInv'
  <2>1. [Next]_vars \/ Crashes BY <1>1, StepsAreProxys
  <2>2. IInv' BY <1>1, <2>1, StepIInv, CrashesIInv DEF HapisInv
  <2> QED BY <1>1, <2>2, ExitsStep DEF HapisInv
<1>2. ASSUME HapisInv, UNCHANGED hapisVars PROVE HapisInv'
  <2>1. IInv' BY <1>2, StepIInv DEF HapisInv, hapisVars
  <2> QED BY <1>2, <2>1 DEF HapisInv, Exits, hapisVars, vars, objects
<1> QED BY <1>1, <1>2

\* The Proxy's invariant holds of the whole process, however the overlay, the
\* hook and main's exit come between the steps of the listening thread.
THEOREM WholeProcess == HapisSpec => []HapisInv
BY HapisInvInit, HapisInvStep, PTL DEF HapisSpec

\* Only the overlay's thread and the hook touch the globals, and the hook runs
\* on the packets of a live Server only.
LEMMA HookNeedsServer ==
  ASSUME HapisInv, HapisNext, destroyed
  PROVE  UNCHANGED <<players, localPlayer>>
<1>1. ~server.is_alive BY DEF HapisInv, Exits
<1>2. ~ClientReceives("data") BY <1>1, ClientReceivesFacts DEF HapisInv
<1>3. CASE HapisMain \/ Apart(OfListen) \/ Apart(OfNet) \/ Apart(Ended)
  BY <1>3 DEF HapisMain, Apart, DestroysPlayers, ExitsProcess, worldly
<1>4. CASE Reconnects BY <1>4 DEF Reconnects, W!Reconnects, W!known
<1>5. CASE ClientTickHooks \/ ClientTickCrashes
  BY <1>2, <1>5 DEF ClientTickHooks, ClientTickData, ClientTickCrashes
<1>6. CASE Draws \/ DrawsDestroyed
  <2>1. W!Render => UNCHANGED <<players, localPlayer>>
    BY DEF W!Render, W!RenderEsp, W!RenderRadar, W!RenderGui, W!RenderPlayer,
       W!RenderWild, W!RenderLoopEnds, W!Renders, W!known
  <2> QED BY <1>6, <2>1 DEF Draws, DrawsDestroyed, worldly
<1>7. ASSUME NEW c \in Session, Tells(c) PROVE UNCHANGED <<players, localPlayer>>
  BY <1>7 DEF Tells, W!GameServerActs, W!known, worldly
<1> QED BY <1>3, <1>4, <1>5, <1>6, <1>7 DEF HapisNext, HapisListen

\* The hook never touches the globals once main's exit has destroyed them.
THEOREM HookNeverTouchesDestroyed == HapisSpec => HookNeverAfterExit
<1>1. HapisInv /\ [HapisNext]_hapisVars
        => [destroyed => UNCHANGED <<players, localPlayer>>]_hapisVars
  BY HookNeedsServer
<1> QED BY <1>1, WholeProcess, PTL DEF HapisSpec, HookNeverAfterExit


-----------------------------------------------------------------------------
(* The queue of a Client.                                                  *)

\* How many data packets a queue holds.
Load(q) == Len(q) - Before(q) - Behind(q)

\* The queue q of a Client is, in this order, the answer to its attempt, the last
\* of the k data packets that were sent to it, without a gap, and the notice of
\* the connection's end; each of the three may be missing.
Ordered(q, k) ==
  /\ \A i \in 1..Len(q) :
       /\ q[i].id \in {"accepted", "data"} \cup Ending
       /\ q[i].id = "accepted" => i = 1
       /\ q[i].id \in Ending => i = Len(q)
       /\ q[i].id = "data" => q[i].n = k + i - (Len(q) - Behind(q))
  /\ Load(q) <= k

LEMMA EndFacts ==
  ASSUME NEW q \in Seq(Packet)
  PROVE  /\ Len(q) \in Nat /\ Before(q) \in {0, 1} /\ Behind(q) \in {0, 1}
         /\ q = <<>> => Before(q) = 0 /\ Behind(q) = 0 /\ Load(q) = 0
         /\ q # <<>> => /\ 1 \in 1..Len(q) /\ Len(q) \in 1..Len(q)
                        /\ Before(q) = 1 <=> q[1].id = "accepted"
                        /\ Behind(q) = 1 <=> q[Len(q)].id \in Ending
<1>1. Len(q) \in Nat /\ (q # <<>> => 1 \in 1..Len(q) /\ Len(q) \in 1..Len(q))
  OBVIOUS
<1>2. Before(q) \in {0, 1} /\ Behind(q) \in {0, 1} BY DEF Before, Behind
<1>3. q = <<>> => Before(q) = 0 /\ Behind(q) = 0 /\ Len(q) = 0 BY DEF Before, Behind
<1>4. q = <<>> => Load(q) = 0 BY <1>3 DEF Load
<1> QED BY <1>1, <1>2, <1>3, <1>4 DEF Before, Behind, Ending

\* The data packets are where they are counted, and numbered.
LEMMA OrderedFacts ==
  ASSUME NEW q \in Seq(Packet), NEW k \in Nat, Ordered(q, k)
  PROVE  /\ Load(q) \in 0..k
         /\ \A i \in 1..Load(q) : /\ Before(q) + i \in 1..Len(q)
                                  /\ q[Before(q) + i].n = k - Load(q) + i
<1> DEFINE b == Before(q)
           e == Behind(q)
           l == Len(q)
<1>1. /\ l \in Nat /\ b \in {0, 1} /\ e \in {0, 1}
      /\ q = <<>> => b = 0 /\ e = 0 /\ l = 0
      /\ q # <<>> => /\ 1 \in 1..l /\ l \in 1..l
                     /\ b = 1 <=> q[1].id = "accepted"
                     /\ e = 1 <=> q[l].id \in Ending
  BY EndFacts
<1>2. Load(q) = l - b - e /\ Load(q) <= k BY DEF Load, Ordered
<1>3. \A i \in 1..l :
        /\ q[i].id \in {"accepted", "data"} \cup Ending
        /\ q[i].id = "accepted" => i = 1
        /\ q[i].id \in Ending => i = l
        /\ q[i].id = "data" => q[i].n = k + i - (l - e)
  BY DEF Ordered
<1> HIDE DEF b, e, l
<1>4. "accepted" \notin Ending BY DEF Ending
<1>5. Load(q) \in Nat
  <2>1. CASE q = <<>> BY <1>1, <1>2, <2>1
  <2>2. CASE q # <<>>
    <3>1. ~(l = 1 /\ b = 1 /\ e = 1) BY <1>1, <1>4, <2>2
    <3>2. l # 0 BY <1>1, <2>2
    <3> QED BY <1>1, <1>2, <3>1, <3>2
  <2> QED BY <2>1, <2>2
<1>6. ASSUME NEW i \in 1..Load(q)
      PROVE  b + i \in 1..l /\ q[b + i].n = k - Load(q) + i
  <2>1. i \in Nat /\ b + i \in 1..l /\ (b + i = 1 => b = 0) /\ (b + i = l => e = 0)
    BY <1>1, <1>2, <1>5
  <2>2. q # <<>>
    <3>1. q = <<>> => l = 0 BY <1>1
    <3> QED BY <2>1, <3>1
  <2>3. q[b + i].id = "data"
    <3>1. q[b + i].id # "accepted" BY <1>1, <1>3, <2>1, <2>2
    <3>2. ASSUME q[b + i].id \in Ending PROVE FALSE
      <4>1. b + i = l BY <1>3, <2>1, <3>2
      <4>2. q[l].id \in Ending /\ e = 0 BY <2>1, <3>2, <4>1
      <4> QED BY <1>1, <2>2, <4>2
    <3> QED BY <1>3, <2>1, <3>1, <3>2
  <2>4. q[b + i].n = k + (b + i) - (l - e) BY <1>3, <2>1, <2>3
  <2>5. k + (b + i) - (l - e) = k - (l - b - e) + i BY <1>1, <2>1
  <2> QED BY <1>2, <2>1, <2>4, <2>5
<1>7. Load(q) \in 0..k BY <1>2, <1>5
<1> QED BY <1>6, <1>7 DEF b, l

\* A Client takes the first packet of its queue.
LEMMA OrderedTaken ==
  ASSUME NEW q \in Seq(Packet), q # <<>>, NEW r \in Seq(Packet),
         Len(r) = Len(q) - 1, \A i \in 1..Len(r) : r[i] = q[i + 1],
         NEW k \in Nat, Ordered(q, k)
  PROVE  /\ Ordered(r, k) /\ (Behind(q) = 0 => Behind(r) = 0)
         /\ q[1].id = "data" => Load(r) = Load(q) - 1 /\ q[1].n = k - Load(q) + 1
         /\ q[1].id # "data" => Load(r) = Load(q)
<1>1. /\ Len(q) \in Nat /\ Before(q) \in {0, 1} /\ Behind(q) \in {0, 1}
      /\ 1 \in 1..Len(q) /\ Len(q) \in 1..Len(q)
      /\ Before(q) = 1 <=> q[1].id = "accepted"
      /\ Behind(q) = 1 <=> q[Len(q)].id \in Ending
  BY EndFacts
<1>2. /\ Len(r) \in Nat /\ Before(r) \in {0, 1} /\ Behind(r) \in {0, 1}
      /\ r = <<>> => Before(r) = 0 /\ Behind(r) = 0
      /\ r # <<>> => /\ 1 \in 1..Len(r) /\ Len(r) \in 1..Len(r)
                     /\ Before(r) = 1 <=> r[1].id = "accepted"
                     /\ Behind(r) = 1 <=> r[Len(r)].id \in Ending
  BY EndFacts
<1>3. /\ \A i \in 1..Len(q) :
           /\ q[i].id \in {"accepted", "data"} \cup Ending
           /\ q[i].id = "accepted" => i = 1
           /\ q[i].id \in Ending => i = Len(q)
           /\ q[i].id = "data" => q[i].n = k + i - (Len(q) - Behind(q))
      /\ Load(q) <= k
  BY DEF Ordered
<1>4. Load(q) = Len(q) - Before(q) - Behind(q) /\ Load(r) = Len(r) - Before(r) - Behind(r)
  BY DEF Load
<1>5. {"accepted", "data"} \cap Ending = {} BY DEF Ending
<1>6. \A i \in 1..Len(r) : i + 1 \in 1..Len(q) /\ i + 1 # 1 /\ r[i] = q[i + 1]
  BY <1>1, <1>2
<1>7. Before(r) = 0
  BY <1>2, <1>3, <1>6
<1>8. r # <<>> => Behind(r) = Behind(q)
  <2>1. r # <<>> => Len(r) + 1 = Len(q) /\ r[Len(r)] = q[Len(q)] BY <1>1, <1>2, <1>6
  <2> QED BY <1>1, <1>2, <2>1
<1>9. r = <<>> => Len(q) = 1 BY <1>1
<1>10. /\ q[1].id = "data" => Load(r) = Load(q) - 1 /\ q[1].n = k - Load(q) + 1
       /\ q[1].id # "data" => Load(r) = Load(q)
  <2>1. CASE q[1].id = "data"
    <3>1. Before(q) = 0 BY <1>1, <2>1
    <3>2. q[1].n = k + 1 - (Len(q) - Behind(q)) BY <1>1, <1>3, <2>1
    <3>3. r = <<>> => Behind(q) = 0 BY <1>1, <1>5, <1>9, <2>1
    <3>4. q[1].n = k - Load(q) + 1 BY <1>1, <1>4, <3>1, <3>2
    <3>5. Load(r) = Load(q) - 1 BY <1>1, <1>2, <1>4, <1>7, <1>8, <3>1, <3>3
    <3> QED BY <2>1, <3>4, <3>5
  <2>2. CASE q[1].id = "accepted"
    <3>1. Before(q) = 1 BY <1>1, <2>2
    <3>2. r = <<>> => Behind(q) = 0 BY <1>1, <1>5, <1>9, <2>2
    <3>3. Load(r) = Load(q) BY <1>1, <1>2, <1>4, <1>7, <1>8, <3>1, <3>2
    <3> QED BY <2>2, <3>3
  <2>3. CASE q[1].id \in Ending
    <3>1. Len(q) = 1 /\ Before(q) = 0 /\ Behind(q) = 1 BY <1>1, <1>3, <1>5, <2>3
    <3>2. r = <<>> /\ Len(r) = 0 BY <3>1
    <3>3. Load(r) = Load(q) BY <1>2, <1>4, <3>1, <3>2
    <3> QED BY <1>5, <2>3, <3>3
  <2> QED BY <1>1, <1>3, <2>1, <2>2, <2>3
<1>11. Load(r) <= k
  <2>1. Load(q) \in Int BY <1>1, <1>4
  <2> QED BY <1>3, <1>10, <2>1
<1>12. ASSUME NEW i \in 1..Len(r)
       PROVE  /\ r[i].id \in {"accepted", "data"} \cup Ending
              /\ r[i].id = "accepted" => i = 1
              /\ r[i].id \in Ending => i = Len(r)
              /\ r[i].id = "data" => r[i].n = k + i - (Len(r) - Behind(r))
  <2>1. i + 1 \in 1..Len(q) /\ i + 1 # 1 /\ r[i] = q[i + 1] /\ r # <<>> /\ i \in Nat
    BY <1>6
  <2>2. r[i].id \in Ending => i = Len(r) BY <1>1, <1>3, <2>1
  <2>3. r[i].id = "data" => r[i].n = k + i - (Len(r) - Behind(r))
    <3>1. r[i].id = "data" => r[i].n = k + (i + 1) - (Len(q) - Behind(q)) BY <1>3, <2>1
    <3>2. k + (i + 1) - (Len(q) - Behind(q)) = k + i - (Len(r) - Behind(r))
      BY <1>1, <1>2, <1>8, <2>1
    <3> QED BY <3>1, <3>2
  <2> QED BY <1>3, <2>1, <2>2, <2>3
<1>13. Behind(q) = 0 => Behind(r) = 0 BY <1>2, <1>8
<1> QED BY <1>10, <1>11, <1>12, <1>13 DEF Ordered

\* A packet arrives behind a queue that no notice has ended.
LEMMA OrderedArrives ==
  ASSUME NEW q \in Seq(Packet), NEW r \in Seq(Packet), NEW e \in Packet,
         Len(r) = Len(q) + 1, \A i \in 1..Len(q) : r[i] = q[i], r[Len(q) + 1] = e,
         NEW k \in Nat, Ordered(q, k), Behind(q) = 0, NEW l \in Nat,
         \/ e.id = "data" /\ l = k + 1 /\ e.n = l
         \/ e.id = "accepted" /\ q = <<>> /\ l = k
         \/ e.id \in Ending /\ l = k
  PROVE  /\ Ordered(r, l) /\ Load(r) = Load(q) + (l - k)
         /\ e.id \notin Ending => Behind(r) = 0
<1>1. /\ Len(q) \in Nat /\ Before(q) \in {0, 1}
      /\ q = <<>> => Before(q) = 0
      /\ q # <<>> => /\ 1 \in 1..Len(q) /\ Len(q) \in 1..Len(q)
                     /\ Before(q) = 1 <=> q[1].id = "accepted"
                     /\ q[Len(q)].id \notin Ending
  BY EndFacts
<1>2. /\ Before(r) \in {0, 1} /\ Behind(r) \in {0, 1}
      /\ r # <<>>
      /\ Before(r) = 1 <=> r[1].id = "accepted"
      /\ Behind(r) = 1 <=> r[Len(r)].id \in Ending
  <2>1. r # <<>> BY <1>1
  <2> QED BY <2>1, EndFacts
<1>3. /\ \A i \in 1..Len(q) :
           /\ q[i].id \in {"accepted", "data"} \cup Ending
           /\ q[i].id = "accepted" => i = 1
           /\ q[i].id \in Ending => i = Len(q)
           /\ q[i].id = "data" => q[i].n = k + i - (Len(q) - 0)
      /\ Load(q) <= k
  BY DEF Ordered
<1>4. Load(q) = Len(q) - Before(q) /\ Load(r) = Len(r) - Before(r) - Behind(r)
  BY <1>1 DEF Load
<1>5. "data" \notin Ending /\ "accepted" \notin Ending BY DEF Ending
<1>6. Behind(r) = 1 <=> e.id \in Ending BY <1>2
<1>7. q # <<>> => Before(r) = Before(q) BY <1>1, <1>2
<1>8. q = <<>> => Len(q) = 0 /\ (Before(r) = 1 <=> e.id = "accepted")
  BY <1>1, <1>2
<1>a. /\ e.id = "data" => l = k + 1 /\ Behind(r) = 0
      /\ e.id = "accepted" => l = k /\ Behind(r) = 0
      /\ e.id \in Ending => l = k /\ Behind(r) = 1
  BY <1>2, <1>5, <1>6
<1>b. e.id = "accepted" => q = <<>> BY <1>5
<1>9. Load(r) = Load(q) + (l - k)
  <2>1. CASE e.id = "accepted"
    <3>1. Len(q) = 0 /\ Before(q) = 0 /\ Before(r) = 1
      BY <1>1, <1>8, <1>b, <2>1
    <3> QED BY <1>4, <1>a, <2>1, <3>1
  <2>2. CASE e.id # "accepted"
    <3>1. Before(r) = Before(q)
      BY <1>1, <1>2, <1>7, <1>8, <2>2
    <3>2. l - k = 1 - Behind(r) BY <1>a, <2>2
    <3>3. Load(r) = Len(q) + 1 - Before(q) - Behind(r) BY <1>1, <1>2, <1>4, <3>1
    <3>4. \A n, d \in Int : \A b, c \in {0, 1} : d = 1 - c => n + 1 - b - c = (n - b) + d
      OBVIOUS
    <3>5. Len(q) + 1 - Before(q) - Behind(r) = (Len(q) - Before(q)) + (l - k)
      BY <1>1, <1>2, <3>2, <3>4
    <3> QED BY <1>4, <3>3, <3>5
  <2> QED BY <2>1, <2>2
<1>10. Load(r) <= l
  <2>1. Load(q) \in Int BY <1>1, <1>4
  <2> QED BY <1>3, <1>9, <2>1
<1>11. ASSUME NEW i \in 1..Len(r)
       PROVE  /\ r[i].id \in {"accepted", "data"} \cup Ending
              /\ r[i].id = "accepted" => i = 1
              /\ r[i].id \in Ending => i = Len(r)
              /\ r[i].id = "data" => r[i].n = l + i - (Len(r) - Behind(r))
  <2>1. CASE i = Len(q) + 1
    <3>1. r[i] = e /\ i = Len(r) BY <2>1
    <3>2. e.id = "accepted" => i = 1 BY <1>5, <1>8, <2>1
    <3>3. e.id = "data" => e.n = l + i - (Len(r) - Behind(r))
      <4>1. e.id = "data" => e.n = l BY <1>5
      <4>2. l + i - (Len(r) - 0) = l BY <1>1, <3>1
      <4> QED BY <1>a, <4>1, <4>2
    <3> QED BY <3>1, <3>2, <3>3
  <2>2. CASE i # Len(q) + 1
    <3>1. i \in 1..Len(q) /\ r[i] = q[i] BY <1>1, <2>2
    <3>2. r[i].id \notin Ending BY <1>1, <1>3, <3>1
    <3>3. e.id # "accepted" BY <1>1, <1>b, <3>1
    <3>4. l - k = 1 - Behind(r) BY <1>a, <3>3
    <3>5. r[i].id = "data" => r[i].n = k + i - (Len(q) - 0) BY <1>3, <3>1
    <3>6. k + i - (Len(q) - 0) = l + i - (Len(r) - Behind(r))
      <4>1. \A j, m, n, o \in Int : \A b \in {0, 1} :
              m - n = 1 - b => n + j - (o - 0) = m + j - (o + 1 - b)
        OBVIOUS
      <4>2. i \in Int /\ Len(q) \in Int /\ Len(r) = Len(q) + 1 BY <1>1
      <4> QED BY <1>2, <3>4, <4>1, <4>2
    <3>7. r[i].id = "data" => r[i].n = l + i - (Len(r) - Behind(r)) BY <3>5, <3>6
    <3> QED BY <1>3, <3>1, <3>2, <3>7
  <2> QED BY <2>1, <2>2
<1>12. e.id \notin Ending => Behind(r) = 0 BY <1>2, <1>6
<1> QED BY <1>9, <1>10, <1>11, <1>12 DEF Ordered

-----------------------------------------------------------------------------
(* What is in flight is the end of what was sent.                          *)

\* The last m of p.
Latest(p, m) == [i \in 1..m |-> p[Len(p) - m + i]]

LEMMA LatestFacts ==
  ASSUME NEW S, NEW p \in Seq(S), NEW m \in 0..Len(p)
  PROVE  /\ Latest(p, m) \in Seq(S) /\ Len(Latest(p, m)) = m
         /\ \A i \in 1..m : Latest(p, m)[i] = p[Len(p) - m + i]
         /\ m = 0 => Latest(p, m) = <<>>
<1>1. \A i \in 1..m : Len(p) - m + i \in 1..Len(p) /\ p[Len(p) - m + i] \in S
  OBVIOUS
<1>2. m \in Nat OBVIOUS
<1> QED BY <1>1, <1>2 DEF Latest

LEMMA LatestAppend ==
  ASSUME NEW S, NEW p \in Seq(S), NEW m \in 0..Len(p), NEW x \in S
  PROVE  Latest(Append(p, x), m + 1) = Append(Latest(p, m), x)
<1> DEFINE q == Append(p, x)
           s == Latest(p, m)
           t == Latest(q, m + 1)
<1>1. /\ q \in Seq(S) /\ Len(q) = Len(p) + 1 /\ q[Len(p) + 1] = x
      /\ \A i \in 1..Len(p) : q[i] = p[i]
      /\ Len(p) \in Nat
  OBVIOUS
<1>2. /\ s \in Seq(S) /\ Len(s) = m
      /\ \A i \in 1..m : s[i] = p[Len(p) - m + i]
  BY LatestFacts
<1> HIDE DEF q
<1>3. /\ t \in Seq(S) /\ Len(t) = m + 1
      /\ \A i \in 1..(m + 1) : t[i] = q[Len(q) - (m + 1) + i]
  <2>1. m + 1 \in 0..Len(q) BY <1>1
  <2> QED BY <1>1, <2>1, LatestFacts
<1> HIDE DEF s, t
<1>4. /\ Append(s, x) \in Seq(S) /\ Len(Append(s, x)) = m + 1
      /\ \A i \in 1..m : Append(s, x)[i] = s[i]
      /\ Append(s, x)[m + 1] = x
  BY <1>2
<1>5. ASSUME NEW i \in 1..Len(t) PROVE t[i] = Append(s, x)[i]
  <2>1. /\ i \in 1..(m + 1) /\ Len(q) - (m + 1) + i = Len(p) - m + i
        /\ t[i] = q[Len(p) - m + i]
    BY <1>1, <1>3
  <2>2. CASE i = m + 1 BY <1>1, <1>4, <2>1, <2>2
  <2>3. CASE i # m + 1
    <3>1. i \in 1..m /\ Len(p) - m + i \in 1..Len(p) BY <1>1, <2>1, <2>3
    <3> QED BY <1>1, <1>2, <1>4, <2>1, <3>1
  <2> QED BY <2>2, <2>3
<1>6. t = Append(s, x) BY <1>3, <1>4, <1>5, SeqEqual
<1> QED BY <1>6 DEF q, s, t

\* The first of them is taken and forgotten.
LEMMA LatestTaken ==
  ASSUME NEW S, NEW p \in Seq(S), NEW m \in 1..Len(p), NEW x \in S
  PROVE  /\ Latest(p, m) # <<>> /\ Head(Latest(p, m)) = p[Len(p) - m + 1]
         /\ Latest([p EXCEPT ![Len(p) - m + 1] = x], m - 1) = Tail(Latest(p, m))
<1> DEFINE o == Len(p) - m + 1
           q == [p EXCEPT ![o] = x]
           s == Latest(p, m)
           t == Latest(q, m - 1)
<1>0. Len(p) \in Nat /\ m \in Nat /\ o \in 1..Len(p) OBVIOUS
<1>1. q \in Seq(S) /\ Len(q) = Len(p) /\ \A i \in 1..Len(p) : i # o => q[i] = p[i]
  BY <1>0
<1>2. /\ s \in Seq(S) /\ Len(s) = m
      /\ \A i \in 1..m : s[i] = p[Len(p) - m + i]
  BY LatestFacts
<1> HIDE DEF q
<1>3. /\ t \in Seq(S) /\ Len(t) = m - 1
      /\ \A i \in 1..(m - 1) : t[i] = q[Len(p) - (m - 1) + i]
  <2>1. m - 1 \in 0..Len(q) BY <1>1
  <2> QED BY <1>1, <2>1, LatestFacts
<1> HIDE DEF s, t
<1>4. s # <<>> /\ Head(s) = s[1] /\ 1 \in 1..m BY <1>0, <1>2
<1>5. /\ Tail(s) \in Seq(S) /\ Len(Tail(s)) = m - 1
      /\ \A i \in 1..(m - 1) : Tail(s)[i] = s[i + 1]
  BY <1>0, <1>2, <1>4
<1>6. ASSUME NEW i \in 1..Len(t) PROVE t[i] = Tail(s)[i]
  <2>1. i \in 1..(m - 1) /\ i + 1 \in 1..m BY <1>0, <1>3
  <2>2. Len(p) - (m - 1) + i = Len(p) - m + (i + 1) BY <1>0, <2>1
  <2>3. Len(p) - (m - 1) + i \in 1..Len(p) /\ Len(p) - (m - 1) + i # o
    BY <1>0, <2>1
  <2> QED BY <1>1, <1>2, <1>3, <1>5, <2>1, <2>2, <2>3
<1>7. t = Tail(s) BY <1>3, <1>5, <1>6, SeqEqual
<1>8. Head(s) = p[o] BY <1>2, <1>4
<1> QED BY <1>4, <1>7, <1>8 DEF q, s, t

-----------------------------------------------------------------------------
(* The queues are in order.                                                *)

\* The queue of the session c holds the last of what was sent to it; no notice
\* is there while its connection is up, and nothing before the attempt's end.
Orderly(c) ==
  /\ Ordered(inbox[c], Len(downSent[c]))
  /\ uplink[c] = "up" => Behind(inbox[c]) = 0
  /\ uplink[c] \in Early => inbox[c] = <<>>

QInv == \A c \in GameClients : Orderly(c)

\* What a step of the listening thread may do to a Client's queue.
Receives ==
  \/ \A c \in GameClients : inbox'[c] = inbox[c]
  \/ /\ server.client \in GameClients /\ inbox[server.client] # <<>>
     /\ inbox' = AfterReceive(server.client)

\* It sends nothing to a session, and starts no attempt but the first.
Subsides ==
  /\ UNCHANGED downSent
  /\ \A c \in GameClients : /\ uplink'[c] = "up" => uplink[c] = "up"
                            /\ uplink'[c] \in Early => uplink[c] \in Early
                            /\ uplink'[c] = "none" => uplink[c] = "none"

LEMMA InitQInv == Init => QInv
<1> SUFFICES ASSUME Init, NEW c \in GameClients PROVE Orderly(c) BY DEF QInv
<1>1. inbox[c] = <<>> /\ uplink[c] = "none" /\ downSent[c] = <<>> BY DEF Init, Peers
<1>2. <<>> \in Seq(Packet) /\ Len(<<>>) = 0 OBVIOUS
<1>3. Load(<<>>) = 0 /\ 0 <= 0 BY <1>2 DEF Load, Before, Behind
<1> QED BY <1>1, <1>2, <1>3 DEF Orderly, Ordered

LEMMA ReceivesQInv ==
  ASSUME IInv, QInv, Receives, Subsides
  PROVE  QInv'
<1>1. CASE \A c \in GameClients : inbox'[c] = inbox[c]
  BY <1>1 DEF QInv, Orderly, Subsides
<1>2. CASE /\ server.client \in GameClients /\ inbox[server.client] # <<>>
           /\ inbox' = AfterReceive(server.client)
  <2>0. PICK c \in GameClients : c = server.client BY <1>2
  <2>1. /\ inbox[c] # <<>>
        /\ inbox[c] \in Seq(Packet) /\ inbox'[c] \in Seq(Packet)
        /\ Len(inbox'[c]) = Len(inbox[c]) - 1
        /\ \A i \in 1..Len(inbox'[c]) : inbox'[c][i] = inbox[c][i + 1]
        /\ \A d \in GameClients : d # c => inbox'[d] = inbox[d]
        /\ Len(downSent[c]) \in Nat
    BY <1>2, <2>0, ClientQueue
  <2>2. Ordered(inbox[c], Len(downSent[c])) BY DEF QInv, Orderly
  <2>3. /\ Ordered(inbox'[c], Len(downSent[c]))
        /\ Behind(inbox[c]) = 0 => Behind(inbox'[c]) = 0
    BY <2>1, <2>2, OrderedTaken
  <2>4. Orderly(c)' BY <2>1, <2>3 DEF QInv, Orderly, Subsides
  <2>5. ASSUME NEW d \in GameClients, d # c PROVE Orderly(d)'
    BY <2>1, <2>5 DEF QInv, Orderly, Subsides
  <2> QED BY <2>4, <2>5 DEF QInv
<1> QED BY <1>1, <1>2 DEF Receives

\* Taking a packet for the Server does not concern them.
LEMMA ServerReceipt ==
  ASSUME IInv, inbox[Listener] # <<>>, inbox' = AfterReceive(Listener)
  PROVE  \A c \in GameClients : inbox'[c] = inbox[c]
<1>1. Listener \in Peers /\ \A c \in GameClients : c \in Peers /\ c # Listener
  BY NamesDistinct DEF Peers
<1> QED BY <1>1, ReceiptFacts DEF IInv

LEMMA CloseSubsides ==
  ASSUME TypeOK, NEW ps, NET_Close(ps), UNCHANGED downSent
  PROVE  Subsides
BY DEF NET_Close, Subsides, Early, TypeOK

\* What the listening thread's other steps leave of a queue: at most its answer
\* or its notice is taken.
LEMMA ListenReceives ==
  ASSUME IInv, CInv, OfListen
  PROVE  /\ Receives /\ Subsides /\ server'.client = server.client
         /\ \/ \A c \in GameClients : inbox'[c] = inbox[c]
            \/ NET_Receive(server.client).id # "data"
<1>1. CASE \/ ServerTickDead \/ ServerTickIdle \/ HandshakeWaits \/ ClientTickNone
           \/ ClientTickWild \/ ClientTickDead \/ ClientTickIdle \/ Wakes
  BY <1>1 DEF ServerTickDead, ServerTickIdle, HandshakeWaits, ClientTickNone, vars,
     ClientTickWild, ClientTickDead, ClientTickIdle, Wakes, objects, net, traffic,
     Receives, Subsides
<1>2. CASE HandshakeDone
  <2>1. /\ server.client \in GameClients /\ inbox[server.client] # <<>>
        /\ inbox' = AfterReceive(server.client) /\ UNCHANGED downSent
        /\ listenPc = "connecting" /\ \E ps : NET_Close(ps)
    BY <1>2 DEF HandshakeDone, IInv, HandlesValid, traffic
  <2>2. server'.client = server.client
    BY <1>2 DEF HandshakeDone, ServerClosed, IInv, TypeOK
  <2>3. NET_Receive(server.client).id # "data" BY <2>1 DEF CInv, Answered
  <2> QED BY <2>1, <2>2, <2>3, CloseSubsides DEF Receives, IInv
<1>3. CASE ServerTickLeft \/ ServerTickLost
  <2>1. server.pointer = Listener /\ inbox[Listener] # <<>>
    BY <1>3, ServerReceivesFacts DEF ServerTickLeft, ServerTickLost, IInv
  <2>2. /\ inbox' = AfterReceive(Listener) /\ UNCHANGED downSent
        /\ \E ps : NET_Close(ps)
    BY <1>3, <2>1 DEF ServerTickLeft, ServerTickLost, traffic
  <2>3. server'.client = server.client
    BY <1>3 DEF ServerTickLeft, ServerTickLost, ServerClosed, IInv, TypeOK
  <2> QED BY <2>1, <2>2, <2>3, CloseSubsides, ServerReceipt DEF IInv, Receives
<1>4. CASE ServerTickData
  <2>1. server.pointer = Listener /\ inbox[Listener] # <<>>
    BY <1>4, ServerReceivesFacts DEF ServerTickData, IInv
  <2>2. inbox' = AfterReceive(Listener) /\ UNCHANGED <<server, uplink, downSent>>
    BY <1>4, <2>1 DEF ServerTickData, objects, net
  <2> QED BY <2>1, <2>2, ServerReceipt DEF Subsides, Receives
<1>5. CASE ClientTickLeft \/ ClientTickLost
  <2>1. ClientReceives("left") \/ ClientReceives("lost")
    BY <1>5 DEF ClientTickLeft, ClientTickLost
  <2>2. /\ server.client \in GameClients /\ inbox[server.client] # <<>>
        /\ client[server.client].pointer = server.client
        /\ NET_Receive(server.client).id # "data"
    BY <2>1, ClientReceivesFacts
  <2>3. /\ inbox' = AfterReceive(server.client) /\ UNCHANGED downSent
        /\ (\E ps : NET_Close(ps)) \/ UNCHANGED uplink
    BY <1>5, <2>2 DEF ClientTickLeft, ClientTickLost, traffic, net
  <2>4. server'.client = server.client
    BY <1>5 DEF ClientTickLeft, ClientTickLost, ServerClosed, IInv, TypeOK
  <2>5. Subsides BY <2>3, CloseSubsides DEF IInv, Subsides
  <2> QED BY <2>2, <2>3, <2>4, <2>5 DEF Receives
<1>6. CASE ClosesClient \/ ReportsLost
  <2>1. UNCHANGED <<server, inbox, downSent>> /\ \E ps : NET_Close(ps)
    BY <1>6 DEF ClosesClient, ReportsLost, traffic
  <2> QED BY <2>1, CloseSubsides DEF IInv, Receives
<1> QED BY <1>1, <1>2, <1>3, <1>4, <1>5, <1>6 DEF OfListen

\* A new session begins with an empty queue, the others' are left alone.
LEMMA NewReceives ==
  ASSUME IInv, ServerTickNew
  PROVE  /\ Receives /\ Subsides
         /\ \E g \in GameClients : /\ server'.client = g /\ uplink[g] = "none"
                                   /\ inbox'[g] = <<>> /\ uplink'[g] # "none"
<1>1. /\ NET_Receive(Listener).guid \in GameClients
      /\ uplink[NET_Receive(Listener).guid] = "none"
      /\ server.pointer = Listener /\ inbox[Listener] # <<>>
  BY ServerReceivesFacts DEF ServerTickNew, IInv
<1>2. inbox' = AfterReceive(Listener) /\ UNCHANGED downSent
  BY <1>1 DEF ServerTickNew, traffic
<1>3. Subsides
  BY <1>1, <1>2 DEF ServerTickNew, Subsides, Early, IInv, TypeOK
<1>4. PICK g \in GameClients : g = NET_Receive(Listener).guid BY <1>1
<1>5. server'.client = g /\ uplink'[g] # "none"
  BY <1>1, <1>4 DEF ServerTickNew, Adopts, IInv, TypeOK
<1>6. inbox'[g] = <<>>
  <2>1. inbox[g] = <<>> BY <1>1, <1>4 DEF IInv, ClientInbox
  <2>2. Listener \in Peers /\ g \in Peers /\ g # Listener BY NamesDistinct DEF Peers
  <2> QED BY <1>1, <1>2, <2>1, <2>2, ReceiptFacts DEF IInv
<1> QED BY <1>1, <1>2, <1>3, <1>4, <1>5, <1>6, ServerReceipt DEF Receives

\* The end of an attempt, data and the end of a connection go behind a queue.
LEMMA ArrivesOrderly ==
  ASSUME IInv, QInv, NEW c \in GameClients,
         AttemptEnds(c) \/ GameServerSends(c) \/ GameServerGone(c)
  PROVE  /\ QInv'
         /\ \A d \in GameClients : d # c => inbox'[d] = inbox[d]
         /\ UNCHANGED server
         /\ GameServerSends(c) =>
              /\ Len(downSent[c]) < MaxDown /\ Load(inbox'[c]) = Load(inbox[c]) + 1
              /\ Len(downSent'[c]) = Len(downSent[c]) + 1
         /\ ~GameServerSends(c) =>
              Load(inbox'[c]) = Load(inbox[c]) /\ UNCHANGED downSent
<1> DEFINE k == Len(downSent[c])
           l == Len(downSent'[c])
<1>1. /\ uplink \in [GameClients -> {"none", "unstarted", "connecting", "refused",
                                     "up", "left", "lost", "closed"}]
      /\ downSent \in [GameClients -> Seq(Kinds)] /\ inbox[c] \in Seq(Packet)
      /\ k \in Nat /\ c \in Peers
  BY DEF IInv, TypeOK, Peers
<1>2. PICK e \in Packet :
        /\ Arrives(c, e)
        /\ \/ /\ GameServerSends(c) /\ e.id = "data" /\ e.n = k + 1
              /\ uplink[c] = "up" /\ UNCHANGED uplink
              /\ \E kind \in Kinds : downSent' = [downSent EXCEPT ![c] = Append(@, kind)]
           \/ /\ ~GameServerSends(c) /\ e.id = "accepted" /\ UNCHANGED downSent
              /\ uplink[c] = "connecting" /\ uplink' = [uplink EXCEPT ![c] = "up"]
           \/ /\ ~GameServerSends(c) /\ e.id \in Ending /\ UNCHANGED downSent
              /\ uplink[c] \in {"connecting", "up"}
              /\ \E how \in Ending : uplink' = [uplink EXCEPT ![c] = how]
  <2>1. CASE GameServerSends(c)
    <3>1. PICK kind \in Kinds : /\ Arrives(c, Data(GameServer, k + 1, kind))
                                /\ downSent' = [downSent EXCEPT ![c] = Append(@, kind)]
      BY <2>1 DEF GameServerSends, Kinds
    <3>2. /\ Data(GameServer, k + 1, kind) \in Packet
          /\ Data(GameServer, k + 1, kind).id = "data"
          /\ Data(GameServer, k + 1, kind).n = k + 1
      BY <1>1 DEF Data, Packet, PacketIds
    <3>3. uplink[c] = "up" /\ UNCHANGED uplink BY <2>1 DEF GameServerSends, net
    <3> QED BY <2>1, <3>1, <3>2, <3>3
  <2>2. CASE AttemptEnds(c)
    <3>1. /\ Control("accepted", GameServer) \in Packet /\ Control("refused", Wild) \in Packet
          /\ Control("accepted", GameServer).id = "accepted"
          /\ Control("refused", Wild).id = "refused"
      BY DEF Control, Packet, PacketIds, Kinds
    <3>2. uplink[c] = "connecting" /\ UNCHANGED downSent
      BY <2>2 DEF AttemptEnds, traffic
    <3>3. ~GameServerSends(c) BY <3>2 DEF GameServerSends
    <3> QED BY <2>2, <3>1, <3>2, <3>3 DEF AttemptEnds, Ending
  <2>3. CASE GameServerGone(c)
    <3>1. PICK how \in Gone : uplink' = [uplink EXCEPT ![c] = how]
                              /\ Arrives(c, Control(how, GameServer))
      BY <2>3 DEF GameServerGone, Gone
    <3>2. Control(how, GameServer) \in Packet /\ Control(how, GameServer).id = how
      BY <3>1 DEF Control, Packet, PacketIds, Kinds, Gone
    <3>3. uplink[c] = "up" /\ UNCHANGED downSent
      BY <2>3 DEF GameServerGone, traffic
    <3>4. uplink'[c] # uplink[c] BY <1>1, <3>1, <3>3 DEF Gone
    <3>5. ~GameServerSends(c) BY <3>4 DEF GameServerSends, net
    <3> QED BY <3>1, <3>2, <3>3, <3>5 DEF Gone, Ending
  <2> QED BY <2>1, <2>2, <2>3
<1>3. /\ inbox'[c] \in Seq(Packet) /\ Len(inbox'[c]) = Len(inbox[c]) + 1
      /\ \A i \in 1..Len(inbox[c]) : inbox'[c][i] = inbox[c][i]
      /\ inbox'[c][Len(inbox[c]) + 1] = e
      /\ \A d \in GameClients : d # c => inbox'[d] = inbox[d]
  BY <1>1, <1>2, ArrivalFacts DEF IInv, Peers
<1>4. /\ Ordered(inbox[c], k) /\ Behind(inbox[c]) = 0
      /\ uplink[c] = "connecting" => inbox[c] = <<>>
  <2>1. Orderly(c) BY DEF QInv
  <2>2. Behind(<<>>) = 0 BY DEF Behind
  <2> QED BY <1>2, <2>1, <2>2 DEF Orderly, Early
<1>5. /\ l \in Nat
      /\ \/ GameServerSends(c) /\ e.id = "data" /\ l = k + 1 /\ e.n = l
         \/ ~GameServerSends(c) /\ e.id = "accepted" /\ inbox[c] = <<>> /\ l = k
         \/ ~GameServerSends(c) /\ e.id \in Ending /\ l = k
      /\ \A d \in GameClients : d # c => downSent'[d] = downSent[d]
  <2>1. CASE GameServerSends(c)
    <3>1. PICK kind \in Kinds : downSent' = [downSent EXCEPT ![c] = Append(@, kind)]
      BY <1>2, <2>1
    <3>2. downSent'[c] = Append(downSent[c], kind) /\ downSent[c] \in Seq(Kinds)
      BY <1>1, <3>1
    <3>3. l = k + 1 BY <3>2
    <3> QED BY <1>1, <1>2, <2>1, <3>1, <3>3
  <2>2. CASE ~GameServerSends(c) BY <1>1, <1>2, <1>4, <2>2
  <2> QED BY <2>1, <2>2
<1>6. /\ Ordered(inbox'[c], l) /\ Load(inbox'[c]) = Load(inbox[c]) + (l - k)
      /\ e.id \notin Ending => Behind(inbox'[c]) = 0
  <2>1. PICK q \in Seq(Packet), r \in Seq(Packet), m \in Nat, n \in Nat :
          q = inbox[c] /\ r = inbox'[c] /\ m = k /\ n = l
    BY <1>1, <1>3, <1>5
  <2> HIDE DEF k, l
  <2>2. /\ Len(r) = Len(q) + 1 /\ \A i \in 1..Len(q) : r[i] = q[i]
        /\ r[Len(q) + 1] = e /\ Ordered(q, m) /\ Behind(q) = 0
        /\ \/ e.id = "data" /\ n = m + 1 /\ e.n = n
           \/ e.id = "accepted" /\ q = <<>> /\ n = m
           \/ e.id \in Ending /\ n = m
    BY <1>3, <1>4, <1>5, <2>1
  <2>3. e \in Packet BY <1>2
  <2>4. /\ Ordered(r, n) /\ Load(r) = Load(q) + (n - m)
        /\ e.id \notin Ending => Behind(r) = 0
    BY <2>2, <2>3, OrderedArrives
  <2> QED BY <2>1, <2>4
<1>7. Orderly(c)'
  <2>1. uplink'[c] = "up" => e.id \notin Ending BY <1>1, <1>2 DEF Ending
  <2>2. uplink'[c] \notin Early BY <1>1, <1>2 DEF Ending, Early
  <2> QED BY <1>6, <2>1, <2>2 DEF Orderly
<1>8. ASSUME NEW d \in GameClients, d # c PROVE Orderly(d)'
  <2>1. uplink'[d] = uplink[d] BY <1>1, <1>2, <1>8
  <2> QED BY <1>3, <1>5, <1>8, <2>1 DEF QInv, Orderly
<1>9. /\ l = k + 1 => Load(inbox'[c]) = Load(inbox[c]) + 1
      /\ l = k => Load(inbox'[c]) = Load(inbox[c])
  <2>1. Load(inbox[c]) \in Int BY <1>1, EndFacts DEF Load
  <2> QED BY <1>1, <1>6, <2>1
<1>10. UNCHANGED server /\ (GameServerSends(c) => Len(downSent[c]) < MaxDown)
  BY DEF AttemptEnds, GameServerSends, GameServerGone, objects
<1>11. ~GameServerSends(c) => UNCHANGED downSent BY <1>2
<1>12. ~GameServerSends(c) => l = k BY <1>11
<1>13. "data" \notin Ending BY DEF Ending
<1> QED BY <1>3, <1>5, <1>7, <1>8, <1>9, <1>10, <1>11, <1>12 DEF QInv

\* What a game client does does not concern them.
LEMMA GameClientApart ==
  ASSUME IInv, NEW g \in GameClients,
         GameClientConnects(g) \/ GameClientSends(g) \/ GameClientGone(g)
  PROVE  /\ \A c \in GameClients : inbox'[c] = inbox[c]
         /\ UNCHANGED <<server, uplink, downSent>>
<1>1. /\ UNCHANGED <<server, uplink, downSent>> /\ \E e : Arrives(Listener, e)
  BY DEF GameClientConnects, GameClientSends, GameClientGone, objects, net, traffic
<1>2. \A c \in GameClients : c \in Peers /\ c # Listener BY NamesDistinct DEF Peers
<1> QED BY <1>1, <1>2 DEF Arrives, IInv, TypeOK

-----------------------------------------------------------------------------
(* What is known of what was said.                                         *)

Said == W!WorldPackets \cup {None}

\* The running session was told as many things as packets were sent to it, a
\* session that was not begun was told and sent nothing, and only the process's
\* end is a crash.
Told ==
  /\ payload \in [GameClients -> Seq(Said)]
  /\ \A c \in GameClients : uplink[c] = "none" => payload[c] = <<>> /\ downSent[c] = <<>>
  /\ server.client \in GameClients =>
       Len(payload[server.client]) = Len(downSent[server.client])
  /\ crashed => mainPc = "crashed"

SInv == HapisInv /\ CInv /\ QInv /\ Told

LEMMA CrashesCInv ==
  ASSUME IInv, CInv, Crashes
  PROVE  CInv'
<1>1. UNCHANGED <<listenPc, server, peer, link, uplink>>
  BY DEF Crashes, objects, net
<1>2. CASE UNCHANGED inbox BY <1>1, <1>2, StillCInv
<1>3. CASE ClientReceives("data") /\ inbox' = AfterReceive(client[server.client].pointer)
  <2>1. /\ server.client \in Peers /\ inbox[server.client] # <<>>
        /\ inbox' = AfterReceive(server.client) /\ listenPc = "client" /\ server.is_alive
    BY <1>3, ClientReceivesFacts
  <2>2. Lasting /\ ~Over' BY <1>1, <2>1 DEF Lasting, Over
  <2> QED BY <1>1, <2>1, <2>2, TakesCInv
<1> QED BY <1>2, <1>3 DEF Crashes

\* Once the process has crashed it stays so.
LEMMA CrashLasts ==
  ASSUME Next, mainPc = "crashed"
  PROVE  mainPc' = "crashed"
<1>1. CASE Main
  BY <1>1 DEF Main, InitThrows, StartServer, Polls, Returns, ProcessEnds, vars
<1>2. CASE ListenThread
  BY <1>2 DEF ListenThread, ServerTick, ClientTick, ServerTickDead, ServerTickIdle,
     ServerTickNew, HandshakeWaits, HandshakeDone, ServerTickLeft, ServerTickLost,
     ServerTickData, ClientTickNone, ClientTickWild, ClientTickDead, ClientTickIdle,
     ClientTickLeft, ClosesClient, ClientTickLost, ReportsLost, ClientTickData, Wakes,
     vars
<1>3. CASE Outside \/ Ended
  BY <1>3 DEF Outside, Ended, GameClientConnects, GameClientSends, GameClientGone,
     AttemptEnds, GameServerSends, GameServerGone, vars
<1> QED BY <1>1, <1>2, <1>3 DEF Next

LEMMA CrashKnown ==
  ASSUME HapisNext, crashed => mainPc = "crashed"
  PROVE  crashed' => mainPc' = "crashed"
<1>1. mainPc = "crashed" => mainPc' = "crashed"
  BY StepsAreProxys, CrashLasts DEF Crashes, vars
<1>2. CASE ClientTickCrashes \/ Draws
  BY <1>1, <1>2 DEF ClientTickCrashes, Draws
<1>3. CASE ClientTickHooks BY <1>3 DEF ClientTickHooks
<1>4. CASE HapisMain \/ Apart(OfListen) \/ Apart(OfNet) \/ Apart(Ended) \/ DrawsDestroyed
  BY <1>1, <1>4 DEF HapisMain, Apart, DestroysPlayers, ExitsProcess, DrawsDestroyed, worldly
<1>5. CASE Reconnects BY <1>1, <1>5 DEF Reconnects, W!Reconnects
<1>6. ASSUME NEW c \in Session, Tells(c) PROVE crashed' => mainPc' = "crashed"
  BY <1>1, <1>6 DEF Tells, W!GameServerActs
<1> QED BY <1>2, <1>3, <1>4, <1>5, <1>6 DEF HapisNext, HapisListen

\* What is in flight, said of the payload p and the queue q.
Flight(p, q) ==
  [i \in 1..(Len(q) - Before(q) - Behind(q)) |-> p[q[Before(q) + i].n]]

LEMMA FlightIsLatest ==
  ASSUME NEW p \in Seq(Said), NEW q \in Seq(Packet), Ordered(q, Len(p))
  PROVE  Load(q) \in 0..Len(p) /\ Flight(p, q) = Latest(p, Load(q))
<1>1. Len(p) \in Nat OBVIOUS
<1>2. /\ Load(q) \in 0..Len(p)
      /\ \A i \in 1..Load(q) : q[Before(q) + i].n = Len(p) - Load(q) + i
  BY <1>1, OrderedFacts
<1>3. Flight(p, q) = [i \in 1..Load(q) |-> p[q[Before(q) + i].n]]
  BY DEF Flight, Load
<1> QED BY <1>2, <1>3 DEF Latest

\* What is known of the running session, before and after a step.
LEMMA FlightFacts ==
  ASSUME IInv, QInv, Told, NEW c \in GameClients, c = server.client
  PROVE  /\ InFlight = Latest(payload[c], Load(inbox[c]))
         /\ payload[c] \in Seq(Said) /\ inbox[c] \in Seq(Packet)
         /\ Len(payload[c]) = Len(downSent[c]) /\ Load(inbox[c]) \in 0..Len(payload[c])
         /\ Ordered(inbox[c], Len(downSent[c]))
<1>1. /\ payload[c] \in Seq(Said) /\ inbox[c] \in Seq(Packet)
      /\ Len(payload[c]) = Len(downSent[c]) /\ Ordered(inbox[c], Len(downSent[c]))
  BY DEF IInv, TypeOK, Peers, Told, QInv, Orderly
<1>2. InFlight = Flight(payload[c], inbox[c]) BY DEF InFlight, Flight
<1> QED BY <1>1, <1>2, FlightIsLatest

LEMMA FlightAfter ==
  ASSUME IInv', QInv', Told', NEW c \in GameClients, c = server'.client
  PROVE  /\ InFlight' = Latest(payload'[c], Load(inbox'[c]))
         /\ payload'[c] \in Seq(Said) /\ inbox'[c] \in Seq(Packet)
         /\ Load(inbox'[c]) \in 0..Len(payload'[c])
<1>1. /\ payload'[c] \in Seq(Said) /\ inbox'[c] \in Seq(Packet)
      /\ Len(payload'[c]) = Len(downSent'[c]) /\ Ordered(inbox'[c], Len(downSent'[c]))
  BY DEF IInv, TypeOK, Peers, Told, QInv, Orderly
<1>2. InFlight' = Flight(payload'[c], inbox'[c]) BY DEF InFlight, Flight
<1> QED BY <1>1, <1>2, FlightIsLatest

-----------------------------------------------------------------------------
(* Each step keeps that, and is one of World's or a stutter.               *)

\* What holds after a step besides what it does to the queues.
LEMMA AfterStep ==
  ASSUME SInv, HapisNext
  PROVE  HapisInv' /\ CInv' /\ IInv' /\ (crashed' => mainPc' = "crashed")
<1>1. HapisInv' BY HapisInvStep DEF SInv
<1>2. [Next]_vars \/ Crashes BY StepsAreProxys
<1>3. CInv' BY <1>2, StepCInv, CrashesCInv DEF SInv, HapisInv
<1> QED BY <1>1, <1>3, CrashKnown DEF SInv, Told, HapisInv

\* A step of which World sees nothing: it changes neither what was said nor how
\* much of it is on its way to the running session.
LEMMA UnseenStep ==
  ASSUME SInv, HapisNext, QInv', UNCHANGED <<worldly, payload>>,
         \/ server'.client = server.client
         \/ {server.client, server'.client} \cap GameClients = {},
         \A c \in GameClients : uplink'[c] = "none" =>
                                  uplink[c] = "none" /\ downSent'[c] = downSent[c],
         \A c \in GameClients : c = server.client =>
           Load(inbox'[c]) = Load(inbox[c]) /\ downSent'[c] = downSent[c]
  PROVE  SInv' /\ UNCHANGED W!worldVars
<1>1. HapisInv' /\ CInv' /\ IInv' /\ (crashed' => mainPc' = "crashed") BY AfterStep
<1>2. Told' BY <1>1 DEF SInv, Told
<1>3. InFlight' = InFlight
  <2>1. CASE {server.client, server'.client} \cap GameClients = {}
    BY <2>1 DEF InFlight
  <2>2. ASSUME NEW c \in GameClients, c = server.client, c = server'.client
        PROVE  InFlight' = InFlight
    BY <1>1, <1>2, <2>2, FlightFacts, FlightAfter DEF SInv, HapisInv
  <2> QED BY <2>1, <2>2
<1>4. UNCHANGED W!worldVars
  BY <1>3 DEF W!worldVars, W!game, W!known, worldly
<1> QED BY <1>1, <1>2, <1>4 DEF SInv

\* Nothing reaches or leaves the queues, and main at most makes the Server.
LEMMA StillSInv ==
  ASSUME SInv, HapisNext, UNCHANGED <<worldly, payload, inbox, uplink, downSent>>,
         \/ server'.client = server.client
         \/ {server.client, server'.client} \cap GameClients = {}
  PROVE  SInv' /\ UNCHANGED W!worldVars
<1>1. QInv' BY DEF SInv, QInv, Orderly
<1> QED BY <1>1, UnseenStep

LEMMA MainSInv ==
  ASSUME SInv, HapisMain
  PROVE  SInv' /\ UNCHANGED W!worldVars
<1>1. /\ UNCHANGED <<worldly, payload, inbox, uplink, downSent>>
      /\ UNCHANGED server \/ StartServer
  BY DEF HapisMain, Apart, OfMain, DestroysPlayers, ExitsProcess, InitThrows, StartServer,
     Polls, Returns, ProcessEnds, vars, objects, net, traffic
<1>2. StartServer => {server.client, server'.client} \cap GameClients = {}
  BY NamesDistinct, JunkUndesignated DEF StartServer, SInv, HapisInv, IInv, Phases
<1> QED BY <1>1, <1>2, StillSInv DEF HapisNext

LEMMA DrawsSInv ==
  ASSUME SInv, Draws
  PROVE  SInv' /\ W!WorldNext
<1>1. /\ UNCHANGED <<payload, inbox, uplink, downSent, server>> /\ HapisNext /\ W!Render
  BY DEF Draws, HapisNext, objects, net, traffic
<1>2. HapisInv' /\ CInv' /\ IInv' /\ (crashed' => mainPc' = "crashed")
  BY <1>1, AfterStep
<1>3. Told' BY <1>1, <1>2 DEF SInv, Told
<1>4. QInv' BY <1>1 DEF SInv, QInv, Orderly
<1>5. InFlight' = InFlight BY <1>1 DEF InFlight
<1> QED BY <1>1, <1>2, <1>3, <1>4, <1>5 DEF SInv, W!WorldNext

LEMMA ListenSInv ==
  ASSUME SInv, Apart(OfListen)
  PROVE  SInv' /\ UNCHANGED W!worldVars
<1>1. /\ OfListen /\ UNCHANGED <<worldly, payload>> /\ HapisNext /\ IInv /\ CInv /\ QInv
  BY DEF Apart, HapisNext, HapisListen, SInv, HapisInv
<1>2. /\ Receives /\ Subsides /\ server'.client = server.client
      /\ \/ \A c \in GameClients : inbox'[c] = inbox[c]
         \/ NET_Receive(server.client).id # "data"
  BY <1>1, ListenReceives
<1>3. QInv' BY <1>1, <1>2, ReceivesQInv
<1>4. \A c \in GameClients : uplink'[c] = "none" => uplink[c] = "none" /\ downSent'[c] = downSent[c]
  BY <1>2 DEF Subsides
<1>5. ASSUME NEW c \in GameClients, c = server.client
      PROVE  Load(inbox'[c]) = Load(inbox[c]) /\ downSent'[c] = downSent[c]
  <2>1. CASE inbox'[c] = inbox[c] BY <1>2, <2>1 DEF Subsides
  <2>2. CASE inbox'[c] # inbox[c]
    <3>1. /\ inbox[c] # <<>> /\ inbox' = AfterReceive(c) /\ NET_Receive(c).id # "data"
      BY <1>2, <1>5, <2>2 DEF Receives
    <3>2. /\ inbox[c] \in Seq(Packet) /\ inbox'[c] \in Seq(Packet)
          /\ Len(inbox'[c]) = Len(inbox[c]) - 1
          /\ \A i \in 1..Len(inbox'[c]) : inbox'[c][i] = inbox[c][i + 1]
          /\ inbox[c][1].id # "data"
          /\ Len(downSent[c]) \in Nat /\ Ordered(inbox[c], Len(downSent[c]))
      BY <1>1, <3>1, ClientQueue DEF QInv, Orderly
    <3>3. Load(inbox'[c]) = Load(inbox[c]) BY <3>1, <3>2, OrderedTaken
    <3> QED BY <1>2, <3>3 DEF Subsides
  <2> QED BY <2>1, <2>2
<1> QED BY <1>1, <1>2, <1>3, <1>4, <1>5, UnseenStep

LEMMA DestroyedSInv ==
  ASSUME SInv, DrawsDestroyed
  PROVE  SInv' /\ UNCHANGED W!worldVars
<1>1. UNCHANGED <<worldly, payload, inbox, uplink, downSent, server>> /\ HapisNext
  BY DEF DrawsDestroyed, HapisNext, objects, net, traffic
<1> QED BY <1>1, StillSInv

\* A new session's queue is empty, and nothing was said to it.
LEMMA ReconnectsSInv ==
  ASSUME SInv, Reconnects
  PROVE  SInv' /\ W!WorldNext
<1>1. /\ ServerTickNew /\ W!Reconnects /\ UNCHANGED payload /\ HapisNext
      /\ IInv /\ CInv /\ QInv
  BY DEF Reconnects, HapisNext, HapisListen, SInv, HapisInv
<1>2. /\ Receives /\ Subsides
      /\ \E g \in GameClients : /\ server'.client = g /\ uplink[g] = "none"
                                /\ inbox'[g] = <<>> /\ uplink'[g] # "none"
  BY <1>1, NewReceives
<1>3. PICK g \in GameClients : /\ server'.client = g /\ uplink[g] = "none"
                               /\ inbox'[g] = <<>> /\ uplink'[g] # "none"
  BY <1>2
<1>4. HapisInv' /\ CInv' /\ IInv' /\ (crashed' => mainPc' = "crashed")
  BY <1>1, AfterStep
<1>5. QInv' BY <1>1, <1>2, ReceivesQInv
<1>6. payload'[g] = <<>> /\ downSent'[g] = <<>>
  BY <1>1, <1>2, <1>3 DEF SInv, Told, Subsides
<1>7. Told' BY <1>1, <1>2, <1>3, <1>4, <1>6 DEF SInv, Told, Subsides
<1>8. InFlight' = <<>>
  <2>1. /\ InFlight' = Latest(payload'[g], Load(inbox'[g]))
        /\ payload'[g] \in Seq(Said) /\ Load(inbox'[g]) \in 0..Len(payload'[g])
    BY <1>3, <1>4, <1>5, <1>7, FlightAfter
  <2>2. Load(inbox'[g]) = 0
    <3>1. <<>> \in Seq(Packet) OBVIOUS
    <3> QED BY <1>3, <3>1, EndFacts
  <2>3. PICK p \in Seq(Said) : p = payload'[g] BY <2>1
  <2>4. 0 \in 0..Len(p) OBVIOUS
  <2>5. Latest(p, 0) = <<>> BY <2>4, LatestFacts
  <2> QED BY <2>1, <2>2, <2>3, <2>5
<1>9. ~crashed
  BY <1>1 DEF ServerTickNew, ServerReceives, ServerTicks, Running, SInv, Told
<1> QED BY <1>1, <1>4, <1>5, <1>7, <1>8, <1>9 DEF SInv, W!WorldNext

\* The hook takes the first packet in flight.
LEMMA HooksSInv ==
  ASSUME SInv, ClientTickHooks \/ ClientTickCrashes
  PROVE  SInv' /\ W!WorldNext
<1>1. /\ ClientReceives("data") /\ Hooks /\ HapisNext /\ IInv /\ CInv /\ QInv /\ Told
      /\ inbox' = AfterReceive(client[server.client].pointer)
      /\ UNCHANGED <<server, uplink, downSent>>
  BY DEF ClientTickHooks, ClientTickData, ClientTickCrashes, HapisNext, HapisListen, SInv,
     HapisInv, objects, net, traffic
<1>2. /\ server.client \in GameClients /\ inbox[server.client] # <<>>
      /\ client[server.client].pointer = server.client
      /\ NET_Receive(server.client).id = "data"
  BY <1>1, ClientReceivesFacts
<1>3. PICK c \in GameClients : c = server.client BY <1>2
<1>4. /\ inbox[c] # <<>> /\ inbox' = AfterReceive(c) /\ NET_Receive(c).id = "data"
      /\ W!OnRustPacketReceived(payload[c][NET_Receive(c).n])
      /\ payload' = [payload EXCEPT ![c][NET_Receive(c).n] = None]
      /\ ~crashed
  BY <1>1, <1>2, <1>3 DEF Hooks, ClientReceives, ClientTicks, Running, Told
<1>5. HapisInv' /\ CInv' /\ IInv' /\ (crashed' => mainPc' = "crashed")
  BY <1>1, AfterStep
<1>6. QInv'
  <2>1. Receives BY <1>2, <1>3, <1>4 DEF Receives
  <2>2. Subsides BY <1>1 DEF Subsides
  <2> QED BY <1>1, <2>1, <2>2, ReceivesQInv
<1>7. /\ InFlight = Latest(payload[c], Load(inbox[c]))
      /\ payload[c] \in Seq(Said) /\ Len(payload[c]) = Len(downSent[c])
      /\ Load(inbox[c]) \in 0..Len(payload[c])
      /\ Ordered(inbox[c], Len(downSent[c]))
  BY <1>1, <1>3, FlightFacts
<1>8. PICK p \in Seq(Said), m \in Nat :
         p = payload[c] /\ m = Load(inbox[c]) /\ m \in 0..Len(p)
  BY <1>7
<1>9. /\ NET_Receive(c).n = Len(p) - m + 1 /\ Load(inbox'[c]) = m - 1
      /\ m \in 1..Len(p)
  <2>1. /\ inbox[c] \in Seq(Packet) /\ inbox'[c] \in Seq(Packet)
        /\ inbox[c][1] = NET_Receive(c)
        /\ Len(inbox'[c]) = Len(inbox[c]) - 1
        /\ \A i \in 1..Len(inbox'[c]) : inbox'[c][i] = inbox[c][i + 1]
    BY <1>1, <1>4, ClientQueue
  <2>2. PICK q \in Seq(Packet), r \in Seq(Packet) : q = inbox[c] /\ r = inbox'[c]
    BY <2>1
  <2>3. q # <<>> /\ q[1].id = "data" /\ Ordered(q, Len(p)) /\ Len(p) \in Nat
    BY <1>4, <1>7, <1>8, <2>1, <2>2
  <2>4. Ordered(r, Len(p)) /\ Load(r) = Load(q) - 1 /\ q[1].n = Len(p) - Load(q) + 1
    BY <2>1, <2>2, <2>3, OrderedTaken
  <2>5. Load(r) \in 0..Len(p) BY <2>3, <2>4, OrderedFacts
  <2> QED BY <1>8, <2>1, <2>2, <2>4, <2>5
<1>10. /\ payload' \in [GameClients -> Seq(Said)]
       /\ payload'[c] = [p EXCEPT ![Len(p) - m + 1] = None]
       /\ \A d \in GameClients : d # c => payload'[d] = payload[d]
       /\ Len(payload'[c]) = Len(p)
  <2>1. payload' = [payload EXCEPT ![c] = [p EXCEPT ![Len(p) - m + 1] = None]]
    BY <1>4, <1>8, <1>9
  <2>2. None \in Said BY DEF Said
  <2>3. /\ [p EXCEPT ![Len(p) - m + 1] = None] \in Seq(Said)
        /\ Len([p EXCEPT ![Len(p) - m + 1] = None]) = Len(p)
    <3>1. Len(p) - m + 1 \in 1..Len(p) BY <1>9
    <3> QED BY <2>2, <3>1
  <2> QED BY <1>1, <2>1, <2>3 DEF Told
<1>11. Told'
  <2>1. uplink[c] # "none" BY <1>1, <1>4 DEF QInv, Orderly, Early
  <2> QED BY <1>1, <1>3, <1>5, <1>7, <1>8, <1>10, <2>1 DEF Told
<1>12. /\ InFlight # <<>> /\ Head(InFlight) = payload[c][NET_Receive(c).n]
       /\ InFlight' = Tail(InFlight)
  <2>1. InFlight' = Latest(payload'[c], Load(inbox'[c]))
    BY <1>1, <1>3, <1>5, <1>6, <1>11, FlightAfter
  <2>2. None \in Said BY DEF Said
  <2>3. /\ Latest(p, m) # <<>> /\ Head(Latest(p, m)) = p[Len(p) - m + 1]
        /\ Latest([p EXCEPT ![Len(p) - m + 1] = None], m - 1) = Tail(Latest(p, m))
    BY <1>9, <2>2, LatestTaken
  <2> QED BY <1>7, <1>8, <1>9, <1>10, <2>1, <2>3
<1> QED BY <1>4, <1>5, <1>6, <1>11, <1>12 DEF SInv, W!WorldNext

\* What the game server tells the running session is behind all else in flight.
LEMMA TellsSInv ==
  ASSUME SInv, NEW c \in Session, Tells(c)
  PROVE  SInv' /\ W!WorldNext
<1>1. /\ c \in GameClients /\ c = server.client /\ GameServerSends(c) /\ HapisNext
      /\ IInv /\ QInv /\ Told
  BY DEF Session, Tells, HapisNext, SInv, HapisInv
<1>2. PICK x \in W!WorldPackets : /\ payload' = [payload EXCEPT ![c] = Append(@, x)]
                                  /\ W!GameServerActs(x)
  BY DEF Tells
<1>3. /\ QInv' /\ UNCHANGED server /\ Len(downSent[c]) < MaxDown
      /\ Load(inbox'[c]) = Load(inbox[c]) + 1
      /\ Len(downSent'[c]) = Len(downSent[c]) + 1
  BY <1>1, ArrivesOrderly
<1>4. HapisInv' /\ CInv' /\ IInv' /\ (crashed' => mainPc' = "crashed")
  BY <1>1, AfterStep
<1>5. /\ InFlight = Latest(payload[c], Load(inbox[c]))
      /\ payload[c] \in Seq(Said) /\ Len(payload[c]) = Len(downSent[c])
      /\ Load(inbox[c]) \in 0..Len(payload[c])
  BY <1>1, FlightFacts
<1>6. PICK p \in Seq(Said), m \in Nat :
         p = payload[c] /\ m = Load(inbox[c]) /\ m \in 0..Len(p)
  BY <1>5
<1>7. x \in Said BY DEF Said
<1>8. /\ payload' \in [GameClients -> Seq(Said)] /\ payload'[c] = Append(p, x)
      /\ \A d \in GameClients : d # c => payload'[d] = payload[d]
      /\ Len(payload'[c]) = Len(p) + 1
  BY <1>1, <1>2, <1>6, <1>7 DEF Told
<1>9. Told'
  <2>1. /\ uplink[c] = "up" /\ UNCHANGED uplink /\ downSent \in [GameClients -> Seq(Kinds)]
        /\ \E kind \in {"plain", "env"} :
             downSent' = [downSent EXCEPT ![c] = Append(@, kind)]
    BY <1>1 DEF GameServerSends, net, IInv, TypeOK
  <2>2. \A d \in GameClients : d # c => downSent'[d] = downSent[d] BY <2>1
  <2> QED BY <1>1, <1>3, <1>4, <1>5, <1>6, <1>8, <2>1, <2>2 DEF Told
<1>10. InFlight' = Append(InFlight, x) /\ Len(InFlight) < MaxDown
  <2>1. InFlight' = Latest(payload'[c], Load(inbox'[c]))
    BY <1>1, <1>3, <1>4, <1>9, FlightAfter
  <2>2. Latest(Append(p, x), m + 1) = Append(Latest(p, m), x) BY <1>6, <1>7, LatestAppend
  <2>3. Len(Latest(p, m)) = m BY <1>6, LatestFacts
  <2>4. m <= Len(p) /\ Len(p) \in Nat /\ MaxDown \in Nat BY <1>6, BoundsNatural
  <2> QED BY <1>3, <1>5, <1>6, <1>8, <2>1, <2>2, <2>3, <2>4
<1>11. ~crashed BY <1>1 DEF GameServerSends, Running, Told
<1> QED BY <1>2, <1>3, <1>4, <1>9, <1>10, <1>11 DEF SInv, W!WorldNext

\* Of the network's other steps it sees nothing.
LEMMA NetSInv ==
  ASSUME SInv, Apart(OfNet)
  PROVE  SInv' /\ UNCHANGED W!worldVars
<1>1. OfNet /\ UNCHANGED <<worldly, payload>> /\ HapisNext /\ IInv /\ QInv
  BY DEF Apart, HapisNext, SInv, HapisInv
<1>2. ASSUME NEW g \in GameClients,
             GameClientConnects(g) \/ GameClientSends(g) \/ GameClientGone(g)
      PROVE  SInv' /\ UNCHANGED W!worldVars
  <2>1. /\ \A c \in GameClients : inbox'[c] = inbox[c]
        /\ UNCHANGED <<server, uplink, downSent>>
    BY <1>1, <1>2, GameClientApart
  <2>2. QInv' BY <1>1, <2>1 DEF QInv, Orderly
  <2> QED BY <1>1, <2>1, <2>2, UnseenStep
<1>3. ASSUME NEW c \in GameClients, AttemptEnds(c) \/ GameServerGone(c)
      PROVE  SInv' /\ UNCHANGED W!worldVars
  <2>1. ~GameServerSends(c)
    <3>1. uplink'[c] # uplink[c]
      BY <1>1, <1>3 DEF AttemptEnds, GameServerGone, IInv, TypeOK
    <3> QED BY <3>1 DEF GameServerSends, net
  <2>2. /\ QInv' /\ \A d \in GameClients : d # c => inbox'[d] = inbox[d]
        /\ UNCHANGED server /\ Load(inbox'[c]) = Load(inbox[c]) /\ UNCHANGED downSent
    BY <1>1, <1>3, <2>1, ArrivesOrderly
  <2>3. \A d \in GameClients : uplink'[d] = "none" => uplink[d] = "none"
    BY <1>1, <1>3 DEF AttemptEnds, GameServerGone, IInv, TypeOK
  <2> QED BY <1>1, <2>2, <2>3, UnseenStep
<1>4. ASSUME NEW c \in GameClients \ Session, GameServerSends(c)
      PROVE  SInv' /\ UNCHANGED W!worldVars
  <2>1. c \in GameClients /\ c # server.client BY DEF Session
  <2>2. /\ QInv' /\ \A d \in GameClients : d # c => inbox'[d] = inbox[d]
        /\ UNCHANGED server
    BY <1>1, <1>4, <2>1, ArrivesOrderly
  <2>3. /\ UNCHANGED uplink /\ uplink[c] = "up"
        /\ \A d \in GameClients : d # c => downSent'[d] = downSent[d]
    BY <1>1, <1>4 DEF GameServerSends, net, IInv, TypeOK
  <2> QED BY <1>1, <2>1, <2>2, <2>3, UnseenStep
<1> QED BY <1>1, <1>2, <1>3, <1>4 DEF OfNet

LEMMA SInvStep ==
  ASSUME SInv, [HapisNext]_hapisVars
  PROVE  SInv' /\ [W!WorldNext]_(W!worldVars)
<1>1. CASE HapisMain BY <1>1, MainSInv
<1>2. CASE HapisListen
  BY <1>2, ListenSInv, ReconnectsSInv, HooksSInv DEF HapisListen
<1>3. CASE Draws BY <1>3, DrawsSInv
<1>4. CASE DrawsDestroyed BY <1>4, DestroyedSInv
<1>5. CASE \E c \in Session : Tells(c) BY <1>5, TellsSInv
<1>6. CASE Apart(OfNet) BY <1>6, NetSInv
<1>7. CASE Apart(Ended)
  <2>1. UNCHANGED <<worldly, payload, inbox, uplink, downSent, server>> /\ HapisNext
    BY <1>7 DEF Apart, Ended, vars, objects, net, traffic, HapisNext
  <2> QED BY <2>1, StillSInv
<1>8. CASE UNCHANGED hapisVars
  <2>1. UNCHANGED <<mainPc, worldly, payload, vars>>
    BY <1>8 DEF hapisVars, vars
  <2>2. UNCHANGED <<inbox, uplink, downSent, server>>
    BY <2>1 DEF vars, objects, net, traffic
  <2>3. HapisInv' /\ CInv'
    BY <1>8, <2>1, HapisInvStep, StepCInv DEF SInv, HapisInv
  <2>4. QInv' /\ Told' BY <2>1, <2>2 DEF SInv, QInv, Orderly, Told, worldly
  <2>5. UNCHANGED W!worldVars
    BY <2>1, <2>2 DEF W!worldVars, W!game, W!known, worldly, InFlight
  <2> QED BY <2>3, <2>4, <2>5 DEF SInv
<1> QED BY <1>1, <1>2, <1>3, <1>4, <1>5, <1>6, <1>7, <1>8 DEF HapisNext

LEMMA InitSInv == HapisInit => SInv /\ W!WorldInit
<1> SUFFICES ASSUME HapisInit PROVE SInv /\ W!WorldInit OBVIOUS
<1>1. Init /\ W!WorldInit /\ payload = [c \in GameClients |-> <<>>] BY DEF HapisInit
<1>2. HapisInv /\ CInv /\ QInv BY <1>1, HapisInvInit, InitCInv, InitQInv
<1>3. Told BY <1>1 DEF Told, Init, W!WorldInit
<1> QED BY <1>1, <1>2, <1>3 DEF SInv

\* The queues of the Clients are in order, for any sessions and bounds, and what
\* was said of each data packet of the running session is known.
THEOREM QueuesInOrder == HapisSpec => []SInv
<1>1. SInv /\ [HapisNext]_hapisVars => SInv' BY SInvStep
<1> QED BY <1>1, InitSInv, PTL DEF HapisSpec

\* The composition implements World: through RakNet, the handshake and the loop
\* of the listening thread, the packets of the running session, and no others,
\* reach the hook in order and once, the next session's start with nothing of it
\* in flight, and nothing but the hook and the overlay's thread is at the globals.
THEOREM HookSeesGame == HapisSpec => ImplementsWorld
<1>1. SInv /\ [HapisNext]_hapisVars => [W!WorldNext]_(W!worldVars) BY SInvStep
<1> QED BY <1>1, InitSInv, QueuesInOrder, PTL DEF HapisSpec, ImplementsWorld, W!WorldSpec

-----------------------------------------------------------------------------
(* What is proved of World, of the whole process.                          *)

WP == INSTANCE World_proofs WITH queue <- InFlight, MaxQueue <- MaxDown

\* WP has World's definitions once more.
LEMMA SameWorld ==
  /\ W!WorldInit => WP!WorldInit
  /\ W!WorldNext => WP!WorldNext
  /\ UNCHANGED W!worldVars => UNCHANGED WP!worldVars
  /\ W!Mirrors = WP!Mirrors /\ W!PositionsCurrent = WP!PositionsCurrent
  /\ W!LocalCurrent = WP!LocalCurrent /\ W!CrashExplained = WP!CrashExplained
BY DEF W!Players, WP!Players, W!Entities, WP!Entities, W!game, WP!game,
       W!known, WP!known, W!worldVars, WP!worldVars, W!Origin, WP!Origin,
       W!Places, WP!Places, W!Loops, WP!Loops, W!Environment, WP!Environment,
       W!WorldPackets, WP!WorldPackets, W!Resting, WP!Resting, W!WorldInit,
       WP!WorldInit, W!Announces, WP!Announces, W!Moves, WP!Moves, W!Destroys,
       WP!Destroys, W!Blows, WP!Blows, W!GameServerActs, WP!GameServerActs,
       W!Reconnects, WP!Reconnects, W!Store, WP!Store, W!Erase, WP!Erase,
       W!LocalPlayer, WP!LocalPlayer, W!updatePosition, WP!updatePosition,
       W!HasMetabolism, WP!HasMetabolism, W!Learns, WP!Learns,
       W!HookLocalPlayer, WP!HookLocalPlayer, W!HookPlayer, WP!HookPlayer,
       W!HookEntity, WP!HookEntity, W!HookEnvironment, WP!HookEnvironment,
       W!HookPlayerMoved, WP!HookPlayerMoved, W!HookMovedWild,
       WP!HookMovedWild, W!HookMoved, WP!HookMoved, W!HookDestroyed,
       WP!HookDestroyed, W!OnRustPacketReceived, WP!OnRustPacketReceived,
       W!Renders, WP!Renders, W!Enters, WP!Enters, W!RenderEsp, WP!RenderEsp,
       W!RenderRadar, WP!RenderRadar, W!Following, WP!Following,
       W!RenderPlayer, WP!RenderPlayer, W!RenderWild, WP!RenderWild,
       W!RenderLoopEnds, WP!RenderLoopEnds, W!RenderGui, WP!RenderGui,
       W!Render, WP!Render, W!WorldEnded, WP!WorldEnded, W!WorldNext,
       WP!WorldNext, W!Queued, WP!Queued, W!Mirrors, WP!Mirrors,
       W!PositionsCurrent, WP!PositionsCurrent, W!LocalCurrent,
       WP!LocalCurrent, W!CrashExplained, WP!CrashExplained

LEMMA WorldAssumed == WP!EntitiesDistinct /\ WP!WorldBounds
BY WorldConstants DEF W!EntitiesDistinct, W!WorldBounds, WP!EntitiesDistinct,
   WP!WorldBounds, W!Entities, WP!Entities

\* Of the whole process, with RakNet's queue in the place of World's: the map
\* mirrors the game, its positions and localPlayer are current once what is in
\* flight was handled, and with the player announced only the map changing under
\* the overlay's iterator crashes it (main.cpp:34-121, overlay.cpp:65-170).
THEOREM ProcessMirrorsGame ==
  HapisSpec => [](W!Mirrors /\ W!PositionsCurrent /\ W!LocalCurrent /\ W!CrashExplained)
<1>1. /\ W!WorldInit => WP!WorldInit
      /\ [W!WorldNext]_(W!worldVars) => [WP!WorldNext]_(WP!worldVars)
  BY SameWorld
<1>2. HapisSpec => WP!WorldSpec
  BY <1>1, HookSeesGame, PTL DEF ImplementsWorld, W!WorldSpec, WP!WorldSpec
<1>3. WP!WorldSpec => [](WP!Mirrors /\ WP!PositionsCurrent /\ WP!LocalCurrent
                         /\ WP!CrashExplained)
  BY WorldAssumed, WP!MapMirrors, WP!MapIsCurrent, WP!LocalIsCurrent,
     WP!CrashIsExplained, PTL
<1>4. WP!Mirrors /\ WP!PositionsCurrent /\ WP!LocalCurrent /\ WP!CrashExplained
        => W!Mirrors /\ W!PositionsCurrent /\ W!LocalCurrent /\ W!CrashExplained
  BY SameWorld
<1> QED BY <1>2, <1>3, <1>4, PTL
=============================================================================
