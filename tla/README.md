# hapis in TLA+

hapis is a proxy between a Rust game client and a game server. It accepts the
game client's RakNet connection on port 5678, opens one of its own to the game
server, relays packets both ways, lets a hook look at (and in one case rewrite)
what the game server sends, and draws what it has learned on an overlay window.
This directory models the program, model-checks it with TLC on small instances
and proves its safety properties with TLAPS for every value of the constants.

## 1. Inventory

### The system's parts

| Part | Code | State | Operations | Correct when |
|---|---|---|---|---|
| `Proxy::Server` | `server.cpp`, `server.h` | `pointer`, `client`, `is_alive`, `incoming_guid` | constructor, `Start`, `Tick`, `Send`, `Close` | no closed handle is used; the guid and the `client` belong to one session; `is_alive` is cleared on every way out, and only for a cause |
| `Proxy::Client` | `client.cpp`, `client.h` | `pointer`, `is_connected`, `incoming_guid`, `server` | constructor, `Tick`, `Send`, `Close` | `is_connected` only after the handshake and only while the peer is open; closing one object closes the other or leaves it to somebody |
| listening thread, `main` | `server.cpp:6-21`, `main.cpp:128-163` | the two tick results; `is_alive` read by `main` | the loop, the poll every second, process exit | each direction is ordered, complete and does not starve; the process ends when a session does |
| message hook | `main.cpp:34-121`, `LocalPlayer.cpp` | `players`, `localPlayer` | `OnRustPacketReceived` for five message types | the map and `localPlayer` are what the game shows, from one session to the next |
| environment rewriting | `main.cpp:69-89`, `settings.h` | `settings->weather`, the copy of an `Environment`, the packet's buffer | the five `if_setting`, the copy over the packet | what is sent on is what the settings say, and complete; where it does not fit the packet is known |
| messages | `message.h`, `rrapi.cpp:114-135`, `rrapi.h:136-149` | none that outlives a packet | `Serialize`, `Deserialize`, `ReadString`, `WriteString` | reading gives back what was written |
| `Overlay::render` | `overlay.cpp:65-170`, `settings.h` | `settings`, the iterator of a frame | a frame: boxes, radar, GUI | reads the shared state only when it is there |
| overlay window | `overlay.cpp:50-68`, `:173-427` | `hwnd`, `tHwnd`, `tSize`, `width`, `height`, `showGui`, window styles, device | `Init`, `WndProc`, `ToggleGui`, `setWindowToTarget`, `InitDirectX` | the window follows the game's; GUI flag and window style agree; the back buffer has the window's size |
| `util::athread` | `util.h` | `thread`, `threadId` | constructors, `reset`, `terminate`, `wait`, `running`, `get_exit_code`; no destructor | leaves no thread running that nothing can end |
| RakNet loader | `rrapi.cpp` | the resolved entry points | `Init` | a wrong DLL is refused |
| string pool, projection, drawing | `stringpool.cpp`, `math.cpp`, `drawing.cpp` | none that changes | | |
| vendored or generated | `imgui/`, `protos/`, `Libraries/`, `md5.cpp` | | | |

### How they interact

- `main` starts the overlay's thread, constructs the `Server`, starts the
  listening thread and then only polls `server->is_alive`. There is no lock
  anywhere in the program.
- The listening thread calls `Server::Tick` and `Client::Tick` in turn; each
  takes at most one packet. `Server::Tick` allocates the `Client`, waits for the
  handshake inside the tick, and calls `Client::Send` and `Client::Close`;
  `Client::Tick` calls `Server::Send` and `Server::Close` and writes
  `is_alive`.
- `Client::Tick` calls the hook, which writes `players` and `localPlayer`; the
  overlay's thread reads them in every frame. The overlay's GUI writes
  `settings`; the hook reads them when it rewrites an environment packet.
- `Overlay::Init` runs on a thread of its own, which makes the window and
  handles its messages, and starts `setWindowToTarget` on another; the two share
  `tHwnd`, `tSize`, `width` and `height`.
- `main` returning destroys the globals and ends the process, wherever the other
  threads are.

### What is hard here

Two threads and a remote end on either side of one flag (`is_alive`); a
handshake that blocks the loop; a second connection replacing the objects of
the first while its packets are in flight; failures that arrive half way
through closing a pair of objects; an unlocked map under an iterator, and
destroyed at exit; globals that outlive the session they describe; settings read
one by one while they change; two threads that measure, size and move one
window; handles read before they are assigned. `PROJECT.json` lists each of
these hazards at its line with the properties that are about it.

## 2. Modules

| Module | What it is |
|---|---|
| `Relay` | what one direction of the proxy promises: a reliable, ordered pipe per session, silent after shutdown |
| `Proxy` | `Server`, `Client`, the listening thread, `main`, RakNet and both ends; its properties; the two mappings to `Relay` |
| `ProxyInv` | the inductive invariant `IInv` |
| `World` | `players`, `localPlayer`, the hook, the settings of the frame, `Overlay::render` |
| `Hapis` | `Proxy` and `World` composed: the whole process; the mapping to `World` |
| `Packets` | the rewriting of environments under changing settings, and the messages' encodings |
| `Overlay` | the overlay window's two threads, its messages and the desktop around it |
| `AThread` | `util::athread` objects and the threads they start |
| `MCProxy`, `MCWorld`, `MCHapis`, `MCPackets`, `MCOverlay`, `MCAThread` | each module for TLC; `MCProxy` also has statements of comments and log lines that the code does not keep |
| `Proxy_proofs`, `ProxySessions_proofs`, `Relay_proofs`, `World_proofs`, `Hapis_proofs`, `Packets_proofs`, `Overlay_proofs`, `AThread_proofs` | the theorems (section 4) |

The definitions whose comment begins with "Fault:" are not part of a
specification: each is one operator as a plausible slip would have it, and is
what shows that a property can fail.

### Proxy and the code

- `server` and `client[c]` are the objects' fields; a `Client` is named by the
  game client whose connection allocated it, since `Server::Tick` makes one per
  NEW_INCOMING_CONNECTION. `server.client` starts as any value of `Junk`,
  because the constructor does not assign it: `Null`, or `Wild`, a pointer to
  no object. A `Client`'s `incoming_guid` is likewise `Wild` until the handshake.
- `listenPc` is where the listening thread is. A pass of the loop is
  `"server"` (`Server::Tick`), possibly `"connecting"` (the handshake loop),
  `"client"` (`Client::Tick`), possibly `"sleep"`; `"stopped"` is the return.
  Each case of a `Tick` is one action, with everything it calls in it, with two
  exceptions. `ClientTickLeft`/`ClosesClient` and `ClientTickLost`/`ReportsLost`
  are split where `is_alive` has been cleared and the handler still has work
  that others can observe, because `main` may see the flag in between. The two
  cases of `Server::Tick` that end the session clear `is_alive` (in
  `Server::Close`) as their last step, so nothing is split off.
- `serverIdle` is the TICK_NO_MORE_PACKETS bit of `server_result`. It is left
  as it was by a tick that leaves the loop.
- `mainPc` follows `main`. `Returns` and `ProcessEnds` are apart because the
  process does not end in the instant `main` sees the flag; the listening
  thread may run in between.
- RakNet (external) is an ordered `inbox` per peer and the state of each
  connection. A connection's packets are `new` or `accepted`/`refused`, data,
  then `left` or `lost`. What a peer received stays receivable until the
  peer is closed. A game client connects at most once; up to ten may (the code
  admits SERVER_MAX_CONNECTIONS), the model takes the set `GameClients`.
- Data packets are numbered; the only thing told apart in them is whether the
  hook may rewrite one (`env`). `upLog` and `downLog` record what came out.
- Not split: `Close` resets four fields in one step, though `main` may see the
  flag before the last of them; nothing it does depends on those.

### World and the code

- The game server (external) announces, moves and destroys entities. `queue` is
  its packets on their way, among them environments, which tell nothing of an
  entity and of which the hook keeps nothing (what it makes of them is in
  `Packets`); `Hapis` shows that the proxy gives the hook what this queue does.
  `place` is where an entity is, `told` what the last packet on
  a player says of it.
- Each case of the hook is an action on the head of `queue`. An announcement of
  a player already in the map returns its position to the origin, as
  `main.cpp:66` does. `localPlayer` is replaced by each announcement of
  the player and is never cleared.
- `Reconnects` is a new session: the game server's view and the queue are new,
  and the globals stay (`main.cpp:21-23`; nothing ever clears them). `ghosts`
  are the players the globals hold from before and that the new game server has
  not shown since.
- A frame goes through `frame.pc`; each player of a loop is a step that reads the
  map and `localPlayer` once more. The ESP and radar loops run only if their
  setting is on when the frame reaches them, and the GUI, at the end of a frame,
  may set both to any of `Choices`. Inserting or erasing while a loop runs sets
  `frame.disturbed`: from then on the iterator may be anywhere, or the access may
  end the process. Assigning to an existing key does not. When a frame is drawn
  (the foreground window) is left open here; it is in `Overlay`.
- Exactly one entity is announced with a metabolism, the player itself
  (`main.cpp:58`), which is how the code tells it from others.
- `crashed` ends everything: an access violation is not a `std::exception`, so
  nothing catches it.

### Hapis and the code

- `Hapis` extends `Proxy` and has `World`'s variables but its `queue`. `payload`
  is what the data packets of a session say, an environment where `Proxy` has one
  that the hook may rewrite. `InFlight`, the payloads of the data packets that
  the running session's `Client` has yet to receive, takes the place of `queue`:
  what its RakNet queue holds between the answer to the connection attempt, if
  that is in front, and the notice of the end, if that is behind. A payload that
  was handled is forgotten (`None`), for the sake of the number of states.
- `Tells` is the game server's `GameServerSends` with a content;
  `ClientTickHooks` is `ClientTickData` with the hook in front of `Send`
  (`client.cpp:35-36`), `ClientTickCrashes` the same when the hook meets a null
  `localPlayer`. `Reconnects` is `ServerTickNew` seen by the game.
- `main`'s return is two steps, `DestroysPlayers` (the destructors of the
  globals) and `ExitsProcess`; `DrawsDestroyed` is the overlay's loop in between.
- A session that was replaced has its traffic go on: its game server sends,
  refuses and goes away as any other. No `Tick` of its `Client` ever runs
  again, so nothing of it reaches the hook, which `ImplementsWorld` would tell;
  what its packets say is therefore not kept in `payload`.
- The module states no type invariant of its own: `ImplementsWorld` is about the
  variables of `World`, and those of `Proxy` change by `Proxy`'s own actions. The
  runs send nothing up (`MaxUp = 0`), which touches no variable of `World`; the
  theorems have no such bound.

### Packets and the code

- An `Environment` is its date and four amounts. Of a date the model keeps how
  many bits its value has, because that decides the length of its varint, and
  a name. Nothing in the code bounds a date, so any of 0 to 64 bits may come.
  `always_day` sets the one of `main.cpp:79`, which has 63 bits.
- The pass over an environment is one step per `if_setting`, in the order of
  `main.cpp:79-83`, each reading `weather` anew, while `Checkbox` (the GUI's
  thread) may change it in between; the boxes of `always_day` and `freeze_time`
  hide each other (`overlay.cpp:144-147`). `seen` is history: every value a
  setting had during the pass.
- `ByteSize` is the generated `Environment::ByteSize`; `PacketSize` adds the
  entity around it. `Copies` writes the rewritten entity over the packet, whose
  length does not change. Past the end of the packet the behaviour is undefined:
  the process goes on, or ends (`"crashed"`).
- A message is a sequence of bytes, each named by its field and its number in it;
  `Serialize` and `Deserialize` are those of the four message classes, and
  `StringLimit` the 10485761 of `rrapi.cpp:121` and `:132`. `Serialize` gives the
  set of what may be written: nothing for a string that fails the assertion of
  `WriteString`, which is compiled in (no project file defines NDEBUG). So a
  message that comes is one that could be written.

### Overlay and the code

- `initPc` follows `Init` statement by statement up to the message loop,
  `adjustPc` follows `setWindowToTarget`: both write `tHwnd`, `tSize` and
  `height`, and each read or write of those is a step. Leaving a caption out of
  the rectangle and out of `height` are two steps (`AdjustBorder`,
  `AdjustCaption`), since `Init` may copy the rectangle in between.
- WM_PAINT is one action, `Paint`: the test of the Insert key, `ToggleGui`, then
  `render`, whose GUI may be closed with its own button. It happens in the
  message loop whenever the window is shown, since the handler never validates
  the window, and once inside `UpdateWindow`. WM_SIZE is sent by `MoveWindow`,
  which waits until the loop has handled it (`"moving"`). The WM_SIZE of the first
  `ShowWindow` finds no device and changes nothing.
- `InitDirectX` may fail to make the Direct3D object, whose use then ends the
  process, or the device, which is only printed: the first frame that is drawn
  ends the process then. A WM_SIZE may fail the assertion on `Reset`.
- After `MoveWindow` the window is shown whatever is in front
  (`AdjustShowsFirst`, line 207); then come the two looks at the foreground
  (`AdjustShows`, `AdjustHides`), with the user free to act in between.
- Windows, the game's window, the user's focus and key are external (`Desktop`).
  A handle is a string, and null is `"none"`, also when no window is in front.
  The game is started once, because a second start would have another handle.
- `toggles`, `presses` and `resized` are history, read by properties only
  (`presses` also bounds).
- The program's waiting in `ShowWindow` across threads is left out, which gives
  the model more interleavings than Windows allows.

### AThread and the code

- `thread[o]` is the handle in a place of memory, whether or not an object is
  there (`built`): the constructors call `reset`, which reads the handle before
  assigning it, so a place keeps what the last object left in it, and starts as
  null or `Wild`. There is no destructor (`Destroyed` leaves the thread alone).
- `Copies` is the copy constructor and the compiler's assignment, which
  `Server::Start` uses (`server.cpp:117`). `dropped` records a thread whose last
  object was overwritten by it, or destroyed.
- Threads run and return by themselves (`Ends`). TerminateThread only asks
  (`"told"`): a thread may return by itself before it is ended. `get_exit_code` and
  the getters change nothing and are left out.

## 3. Runs

| Run | Instance | Shows |
|---|---|---|
| `solo` | one game client, two packets each way, `Junk = {Null, Wild}`, fair | `UpRelays` and `DownRelays` (refinement of `Relay`), `SessionEnds`, `EventuallyRelayed` |
| `duo` | two game clients (symmetric), up to two packets up each and one down (`OneWay`) | `TypeOK`, `HandlesValid`, `Paired`, `ClientCreated`, `StoppedMeansDead`, `DownIsolation`, `EndsForCause`, `UplinkReleased`, `UpInOrder`, `QuietAfterShutdown`, and `IInv` |
| `world` | two other players (symmetric), the player, one thing, one move each, two packets on their way, any settings, sessions anew | `WorldTypeOK`, `Mirrors`, `PositionsCurrent`, `LocalCurrent`, `CrashExplained` |
| `hapis` | one session of two packets, one other player, the player, one thing; the radar switched at will; fair | `ImplementsWorld` (refinement of `World`), `HookNeverAfterExit`, `PlayersBecomeKnown` |
| `sessions` | two game clients (symmetric), one packet a session, one other player, the player; both settings off | `ImplementsWorld` across a replaced session |
| `packets` | dates of 0, 56, 57, 60, 63 and 64 bits and the day itself, six boxes, strings of 0 to 4 characters with a limit of 3 | `PacketsTypeOK`, `WeatherHonoured`, `OverrunsExplained`, `MessagesReadBack` |
| `overlay` | a game window of one height with and without border, opened, reshaped twice, closed; two key presses; fair | `OverlayTypeOK`, `GuiSolid`, `TogglesOnce`, `BufferFits`, `WindowFollows`, `HidesOverOthers` |
| `athread` | three places, two threads (both symmetric) | `AThreadTypeOK`, `NoneLeftBehind` |
| `wild_client`, `failed_start`, `lost_server`, `second_client` | one game client; two in the last | statements of the code that it does not keep, one each (section 5) |

Why the bounds are enough. Two packets a direction are the fewest that can be
reordered, dropped between others or doubled, and both kinds of packet occur; in
`duo` two of one game client may go up while its session is replaced, which is
what `UpInOrder` is about, in the behaviours in which no packet comes down, and
one up and one down otherwise (`OneWay`; a constraint of the run, and no part of
the model or of a theorem). Two game clients are what it takes for one to
replace the other's session; a third replaces the second in the same way, and
the theorems of section 4 cover any number. In `world` two players are needed
for a packet of one to be applied to the other or for the map to change under an
iterator that is at another; one move tells an old position from a new one; and
a queue of two holds a move behind a removal or an announcement. In `hapis` two
packets let an announcement be followed by a move or a removal, or an
environment by an announcement; in `sessions` one a session is enough for the
old one's to be in flight when the new one begins. In `packets` the dates have
the shortest varint (0) and the longest (64 bits), the last that is shorter than
the day's (56 bits), the first that is as long (57) and two between that and 64
that are not the code's; the string lengths lie on both sides of the limit. In
`overlay` the two shapes differ only in the border, which is what the race on
`tSize` and `height` is about; two changes of shape return to the first; two
presses open and close the GUI. In `athread` a third place lets a copy outlive
both the original and its place being used again. The bounds are `MaxUp`,
`MaxDown`, `OneWay`, `MaxMoves`, `MaxQueue`, `Choices`, `MaxChanges`,
`MaxPresses` and the sets `Threads` and `Lengths`; all of them limit what others
do, never the code.

Symmetry is used only in runs without liveness, on sets whose elements no
definition names.

Deadlock is checked in every passing run; the end of the process is a step that
changes nothing (`Ended`, `WorldEnded`, `OverlayEnded`, `PacketsEnded`).

Some properties are as strong as the code allows and no stronger. `BufferFits`:
before the first WM_SIZE the back buffer may have a height that `InitDirectX`
read too early, and if the window has its right size by then no WM_SIZE ever
corrects it. `GuiSolid` is one direction only: after the GUI's close button the
window stays solid with the GUI hidden, until Insert has been pressed twice.
`HidesOverOthers` says again and again, not always: line 207 shows the window in
every round. `Mirrors` and `LocalCurrent` name the ghosts of an earlier session.
`OverrunsExplained` does not say that the copy stays in the packet, since it
does not: it says when it goes past the end, and how far. `WeatherHonoured` is
of each field: with several clicks during one pass the environment may be a mix
of settings that was never set as a whole. `CrashExplained` begins with the
player's announcement; before it, `localPlayer` is null and used. `EndsForCause`
counts the going of any game client, also of one whose session was replaced,
because the Server closes at any one's notice. `UplinkReleased` excepts a lost
game client (`server.cpp:79` clears `is_connected` where it should call
`Close`). `NoneLeftBehind` excepts an object overwritten or destroyed with its
thread running, which the class does nothing about.

### Fairness

`FairSpec` assumes weak fairness of `Main`, of `ListenThread` and of each
`AttemptEnds(c)`. The first two say that the operating system keeps scheduling
both threads; both always have a step (or wait in `Sleep`). The third says that a
connection attempt ends, which `NET_StartClient` is asked for with
CLIENT_MAX_RETRIES (32) and CLIENT_RETRY_DELAY (100 ms). Nothing is assumed
of the game client or the game server. `SessionEnds` and `EventuallyRelayed`
leave out the handshake whose start failed (`Hung`), in which the code waits
forever; the run `failed_start` is about that case.

`FairHapisSpec` is the same of the composition: weak fairness of `main`
(`HapisMain`), of the listening thread (`HapisListen`) and of each
`AttemptEnds(c)`. Nothing is assumed of the overlay's thread, so
`PlayersBecomeKnown` does not depend on it.

`FairOverlaySpec` assumes weak fairness of `Init`, of `setWindowToTarget` and of
`WmSize`: both threads are scheduled, and `GetMessage` dispatches a message sent
by another thread before posted ones and before WM_PAINT. Nothing is assumed of the
desktop; both liveness properties of `Overlay` are conditional on it coming to
rest.

## 4. Proofs

Each theorem is for every value of the constants, under the named assumptions of
the module it is about, which TLC evaluates in that module's runs.

| Module | Theorem | Statement |
|---|---|---|
| `Proxy_proofs` | `Invariance` | `Spec => []IInv` |
| | `TypeCorrect` | `Spec => []TypeOK` |
| | `HandlesStayValid` | `Spec => []HandlesValid` |
| | `SessionsStayPaired` | `Spec => []Paired` |
| | `ClientCreatedFirst` | `Spec => []ClientCreated` |
| | `StopIsSeen` | `Spec => []StoppedMeansDead` |
| | `SessionsStayApart` | `Spec => []DownIsolation` |
| | `QuietOnceOver` | `Spec => QuietAfterShutdown` |
| `ProxySessions_proofs` | `CausesInvariance` | `Spec => []CInv` |
| | `EndsOnlyForCause` | `Spec => []EndsForCause` |
| | `UplinkIsReleased` | `Spec => []UplinkReleased` |
| | `DownIsReliable` | `Spec => DownRelays`: `Proxy` implements `Relay` |
| | `DownComesInOrder` | `Spec => []Down!InOrder` |
| | `UpStaysInOrder` | `Spec => []UpInOrder` |
| | `UpIsReliable` | `Spec => UpRelays`, of one game client: `Proxy` implements `Relay` upwards |
| `Relay_proofs` | `OrderIsKept` | `RelaySpec => []InOrder` |
| `World_proofs` | `WorldInvariance` | `WorldSpec => []WorldInv` |
| | `TypeCorrect`, `MapMirrors`, `MapIsCurrent`, `LocalIsCurrent`, `CrashIsExplained` | `WorldSpec => []` of `WorldTypeOK`, `Mirrors`, `PositionsCurrent`, `LocalCurrent`, `CrashExplained` |
| `Hapis_proofs` | `WholeProcess` | `HapisSpec => []HapisInv` |
| | `HookNeverTouchesDestroyed` | `HapisSpec => HookNeverAfterExit` |
| | `QueuesInOrder` | `HapisSpec => []SInv` |
| | `HookSeesGame` | `HapisSpec => ImplementsWorld`: `Hapis` implements `World` |
| | `ProcessMirrorsGame` | `HapisSpec => []` of `Mirrors`, `PositionsCurrent`, `LocalCurrent` and `CrashExplained`, of the `World` it implements |
| `Packets_proofs` | `PacketsInvariance` | `PacketsSpec => []PacketsInv` |
| | `TypeCorrect`, `WeatherIsHonoured`, `OverrunsAreExplained`, `MessagesAreReadBack` | `PacketsSpec => []` of `PacketsTypeOK`, `WeatherHonoured`, `OverrunsExplained`, `MessagesReadBack` |
| `Overlay_proofs` | `OverlayInvariance` | `OverlaySpec => []OverlayInv` |
| | `TypeCorrect`, `GuiIsSolid`, `PressesToggleOnce`, `BackBufferFits` | `OverlaySpec => []` of `OverlayTypeOK`, `GuiSolid`, `TogglesOnce`, `BufferFits` |
| `AThread_proofs` | `TypeCorrect`, `NoThreadLeftBehind` | `AThreadSpec => []` of `AThreadTypeOK`, `NoneLeftBehind` |

### Proxy

Assumptions: `NamesDistinct` (the names are not one another), `JunkUndesignated`
(what the uninitialised pointer holds designates no object), `BoundsNatural`.

None of the invariants is inductive alone. `Paired` needs to know that an
`accepted` packet carries the game server's guid (`ClientInbox`); that a
handshake runs on the session just made (`Phases`); that the
NEW_INCOMING_CONNECTION which makes a session is not one whose session exists, or
else a running `Client` would be overwritten (`ListenerInbox`: one `new` packet
per game client, and `uplink` still `"none"`). `ClientCreated` needs that the
first packet of all is a `new` one (`NewFirst`), which the order of RakNet's
packets gives, and that a `new` one makes a `Client`. `HandlesValid` needs
`Phases`: a loop that has passed `"closing"` or `"reporting"` never comes back to
a `Tick`. It covers `Client::Send` by its guard, `incoming_guid`, which outlives
`is_connected` on one way out (`server.cpp:79`). `IInv` is the conjunction, and the run `duo` checks it. The proof has
one lemma per action, which shows each conjunct the action can disturb, over
lemmas on the operators that change several variables at once; `Invariance`
combines them. `QuietOnceOver` follows from `IInv`: with `is_alive` cleared no
action that receives or delivers is enabled.

`EndsForCause` and `UplinkReleased` need more than `IInv`: that each notice still
queued tells the state of the connection it is about (`Notices`), which holds
because such a state lasts (`Lasting`), and that what the handshake reads is the
answer to its own attempt (`Answered`). The game server that `EndsForCause`
names is the running session's, so a replaced session's end is no cause.
`UplinkReleased` also needs to know where
the loop can be with the Server closed (`ClosedEarly`) and that past the handshake
no attempt is under way (`Settled`): an attempt that ended after the thread
stopped would bring a connection up that nobody closes.

`DownIsReliable` maps the packets sent in a session and those its game client
received to a pipe of `Relay`. The strengthening (`RInv`) says of each session
that its queue continues what its game client received, packet by packet and
without a gap (`Pending`, with `Greeting` for the answer in front), as long as the
game client is there and the proxy alive; so the packet that `ClientTickData`
sends on is the one `Take` takes. A session that is over, or replaced, delivers
nothing. `OrderIsKept` says what implementing `Relay` is worth, and
`DownComesInOrder` draws it for `Proxy`: it is `OrderIsKept` of the `Relay` that
`DownIsReliable` implements.

Upwards there are two theorems, because what holds depends on how many game
clients there are. The Server has one queue for all of them, and what it receives
goes up the session that runs. `UpStaysInOrder`, for any number: whichever
session carries a game client's packets, they go up in order and once, and none
goes up a replaced session behind those of the next. Its strengthening
(`OrderInv`) says that the Server's queue has each sender's packets in rising
order (`Rising`), that what went up any session is ahead of what the queue still
has of the same sender (`Ahead`), and that the running session is behind all
others (`Successive`): the last needs that a session is made once, which
`ListenerInbox` gives. That nothing is missing is not claimed, and not true: what
is in the queue of the loop's last pass goes nowhere. `UpIsReliable` is
the stronger statement, that `Proxy` implements `Relay` upwards, with the same
kind of strengthening as downwards (`UInv`: the Server's queue continues what the
game server received). Its hypothesis is that there is at most one game client,
the case that `server.h:51` has in mind; it cannot be weakened, since with two the
session of the second gets the packets of the first (run `second_client`).

### World

Assumptions: `EntitiesDistinct`, `WorldBounds`. `Mirrors`, `PositionsCurrent` and
`LocalCurrent` speak of states with nothing on its way. The strengthening
(`WorldInv`) relates the map to the queue in every state by the last packet on
each player (`LastOn`): an announcement or removal that is the last of its kind
says whether the player is in view, a last announcement or move says where; if
there is none, the map says it. Lemmas on the last packet of a queue that grows
at the end (`LastOfAppend`) and shrinks at the front (`LastOfTail`) carry it
through every step. `CrashExplained` needs that with the player shown and
announced, `localPlayer` is not null.

### Hapis

Assumptions: those of `Proxy`, and those of `World` of its own constants
(`WorldConstants`). A step of the composition is a step of `Proxy`, or
leaves its variables alone, or ends the process (`StepsAreProxys`): of these only
the hook's access violation is new to `IInv`, which it keeps. `HapisInv` adds that
once `main` is at its exit `is_alive` is cleared for good (`Exits`), which needs
`Phases`: nothing sets it but `StartServer`, before `main` polls. With it cleared no
`Client` receives, so the hook is not called, and no session begins.

`HookSeesGame` is the refinement of `World`, whose `queue` is a function of the
`Client`'s RakNet queue (`InFlight`). The strengthening (`SInv`) adds that each
`Client`'s queue is an answer, data packets numbered without a gap up to the last
that was sent, and a notice (`Ordered`), that a connection that is up has
no notice and one not yet made has nothing (`Orderly`), and that each data packet
of the running session has its payload and a session not yet made has none
(`Told`). From these, packet by
packet: what `Tells` appends to the RakNet queue it appends to `InFlight`; what
the `Client` receives is the head of it, if it is data, and is not in it, if it
is an answer or a notice; `Reconnects` empties it, since the new session's queue
is empty; and no other step of any thread, and no traffic of another session,
changes it. `CInv` is needed for the handshake: what that receives is the
answer to its attempt and never data, which would be lost to the hook.

`ProcessMirrorsGame` then takes what `World_proofs` proves of `World` over to the
process. The theorems are about a `queue` that `World` declares and `Hapis`
defines; `WP` is `World_proofs` under the same substitution, `SameWorld` that it
is the same specification.

### Packets

Assumptions: `DatesSized` (a date is a 64-bit value: it takes 0 to 64 bits),
`LengthsNatural`, `NoneApart`. The strengthening
says which settings are still ahead (`Ahead`), that each field is as it came or
as one of the values its setting had since then (`Rewritten`), and what the
buffer holds (`Buffered`). `OverrunsAreExplained` rests on `DateSize`: ten bytes
for 64 bits, nine for 57 to 63, and fewer below. `MessagesAreReadBack` follows the bytes of each field through
`Serialize` and `Deserialize` with the library's facts on `SubSeq` and `\o`.

### Overlay

Assumptions: `ShapesTaller`, `OverlayBounds`. `OverlayTypeOK` holds only with
`Sizes`, which counts how many captions may have been left out at each step of the
race. `GuiSolid` needs the window's style from its creation, `TogglesOnce` the
press that no frame has seen yet, `BufferFits` that a device is reset in the
message loop only.

### AThread

Assumption: `HandlesDistinct`. The type invariant says that a place where an
object was built holds a thread or null, which is what makes `terminate` on
memory safe to reason about after the first `reset`. `NoThreadLeftBehind` shows
with it that a thread which runs has an object, or was dropped; only what held it
before can lose it.

### Only model-checked

- The liveness properties, `SessionEnds`, `EventuallyRelayed`,
  `PlayersBecomeKnown`, `WindowFollows` and `HidesOverOthers`: fairness and
  ENABLED are outside the prover.

Of the properties that the passing runs check, these are the ones without a
theorem. `UpRelays` has one under the hypothesis that the run `solo` satisfies,
one game client.

## 5. Where code and comments part

The first four have a run that ends in a counterexample and an entry in
`PROJECT.json`.

1. `wild_client`: `server.cpp:14` tests `client` for null, and the constructor
   never set it.
2. `failed_start`: `server.cpp:64-65` says the client is closed when the game
   server cannot be reached; if the attempt cannot even be started the loop waits
   forever.
3. `lost_server`: `client.cpp:27` says the game client is disconnected; `main`
   may end the process before that.
4. `second_client`: `server.h:51` calls `incoming_guid` the client's, one; a
   second connection takes it over, and the first client's packets go up the
   second's session.

The following were met while modelling, and are in the models, without a run of
their own:

- `server.cpp:18` is to sleep when there are no packets, and spins until a game
  client connects, because a `Tick` that is not made gives no flag.
- `server.cpp:77` says the game server is disconnected; line 79 clears
  `is_connected`, so that the `Client` is not closed, and cannot be any more.
  `UplinkReleased` states what remains true.
- `overlay.cpp:79-80` asks whether there is a `localPlayer`; lines 99 and 124 do
  not. `CrashExplained` states what remains true.
- `overlay.cpp:327` asks whether there is a device; WM_PAINT, sent by the line
  before the device is made (`overlay.cpp:414`), does not (line 69).
- `server.cpp:71` ends the proxy when any game client leaves, also one whose session
  was replaced: the running session of the other ends with it. `EndsForCause`
  counts it as a cause.
- `main.cpp:88` copies the rewritten environment over the packet without looking
  at the length. With `always_day` set, a date of less than 57 bits makes it go
  past the packet's end. `OverrunsExplained` states that this is the one case.
- `overlay.cpp:220` and `:233` print that the Direct3D object or the device could not
  be made, and go on with null: the process ends there, or with the first frame
  that is drawn.
- `overlay.cpp:229` reads `height` while `setWindowToTarget` may be changing it, so the
  first back buffer need not fit the window; `BufferFits` begins with the first
  WM_SIZE that finds a device.
- `overlay.cpp:402-404` looks for the game's window twice; if it goes in between there
  is no overlay for the rest of the run (`InitGivesUp`).
- `util.h:37` has the constructors of `athread` terminate whatever thread the memory
  of the new object happens to name. `server.cpp:117` makes two such objects.
- The box of `freeze_time` (`overlay.cpp:147`) is shown and excludes `always_day`,
  and nothing reads the setting (`main.cpp:79-83`).
- The type byte of a message is read inside an `assert` (`message.h:117` and the
  other three): compiled without asserts each message would be read one byte
  too early. No configuration of the project files defines NDEBUG, and the model
  reads the byte.
- `main`'s exit destroys `players` under the overlay's loop (`DrawsDestroyed`).

## 6. Not modelled

- `Rust::API::Init` and the string pool run once, before anything else, and either
  succeed or throw (`InitThrows`).
- `Approved` packets only print; so does what the hook does with a console
  command after reading it.
- The rotation of `localPlayer`, which changes together with the position, and a
  position torn between two writes: it shows for one frame and no later state
  depends on it.
- WM_DESTROY, which nothing in the program causes, and the mouse and keyboard
  messages that are kept for ImGui; the crosshair and the debug lines; the width
  and the position of the windows, which are copied without being adjusted.
- `athread::get_exit_code` and the getters change nothing, and nothing calls them.
- `MessageFromPacket` makes no message and is never called; `TypeToName` is a table.
- Drawing and projection: stateless floating-point geometry and Direct3D calls.
- ImGui, protobuf, DirectX, MD5 and the generated classes, by far most of the
  lines of the repository: third-party or generated code. Of the generated
  classes `Packets` uses the sizes and the required fields of `Environment`.
- Memory: objects are never freed, in the code or the model.

## 7. Plan

The safety properties of all runs are proved, and what remains of the code's own
logic is small.

1. Torn positions: `updatePosition` and `players[id] = ...` write field by
   field while a frame reads. `World` would need positions of two fields, and a
   statement of what a frame may show.
2. The pending answers of liveness (`SessionEnds`, `PlayersBecomeKnown`) have a
   safety part that can be stated and proved: that but for a start that failed
   (`Hung`) each wait of the listening thread is on something under way.
3. What the game server is told of a session that was replaced: its connection
   stays open until the process ends (`UplinkReleased` is about the running
   session).
