------------------------------ MODULE Overlay ------------------------------
(***************************************************************************)
(* The overlay window: the thread of Overlay::Init, which makes the window *)
(* and the Direct3D device and then handles messages (WndProc), and the    *)
(* thread of setWindowToTarget, which keeps the window over the game's.    *)
(* They share tHwnd, tSize and height without a lock.                      *)
(*                                                                         *)
(* Windows, the game's window and the user are outside src/.  Of a         *)
(* rectangle only the height is kept: width is written and read next to it *)
(* and is never adjusted.  The game is started once; its window changes    *)
(* its shape and may be closed.                                            *)
(***************************************************************************)
EXTENDS Integers

CONSTANTS Shapes,      \* shapes of the game's window: [height, border]
          Caption,     \* the 23 rows of a caption
          Screen,      \* the height of the screen
          MaxChanges,  \* bound: how often the game's window changes its shape
          MaxPresses   \* bound: how often the user presses the Insert key

ASSUME ShapesTaller == /\ Caption \in Nat \ {0} /\ Screen \in Nat
                       /\ \A s \in Shapes : /\ s.height \in Nat
                                            /\ s.height > Caption
                                            /\ s.border \in BOOLEAN
ASSUME OverlayBounds == MaxChanges \in Nat /\ MaxPresses \in Nat

NoWindow == [height |-> 0, border |-> FALSE]

VARIABLES
  target,      \* the shape of the game's window, or NoWindow
  launched,    \* the game was started
  changes,     \* how often target changed its shape
  foreground,  \* whose the foreground window is: a handle, or "other"
  keyDown,     \* the Insert key is held down
  presses,     \* how often it was pressed
  initPc,      \* where Init is
  adjustPc,    \* where setWindowToTarget is
  hwnd, tHwnd, \* the handles of those names, "none" if null
  tSize,       \* bottom - top of the rectangle of that name
  height,      \* the global of that name
  rect,        \* the height of the overlay window
  shown,       \* the overlay window is visible
  layered,     \* it has WS_EX_LAYERED
  sizePending, \* its WM_SIZE was sent by MoveWindow and is not handled yet
  device,      \* p_Device is set
  buffer,      \* p_Params.BackBufferHeight
  resized,     \* the device was reset to a WM_SIZE
  showGui,     \* the flag of that name
  bKeyPressed, \* the static of that name in WndProc
  toggles,     \* how often ToggleGui was called
  crashed      \* an access violation or an assertion has ended the process

user    == <<target, launched, changes, keyDown, presses>>
desktop == <<user, foreground>>
shared  == <<tHwnd, tSize, height>>
window  == <<hwnd, rect, shown, layered, sizePending>>
d3d     == <<device, buffer, resized>>
gui     == <<showGui, bKeyPressed, toggles>>
overlayVars == <<desktop, initPc, adjustPc, shared, window, d3d, gui, crashed>>

Heights == {0, Screen} \cup {s.height : s \in Shapes}
             \cup {s.height - k * Caption : s \in Shapes, k \in 1..2}

OverlayTypeOK ==
  /\ target \in Shapes \cup {NoWindow} /\ launched \in BOOLEAN
  /\ changes \in 0..MaxChanges /\ presses \in 0..MaxPresses
  /\ foreground \in {"none", "target", "overlay", "other"}
  /\ keyDown \in BOOLEAN
  /\ initPc \in {"wait", "find", "test", "size", "create", "show", "update",
                 "device", "loop"}
  /\ adjustPc \in {"find", "rect", "height", "border", "caption", "move",
                  "moving", "moved", "show", "self"}
  /\ hwnd \in {"none", "overlay"} /\ tHwnd \in {"none", "target"}
  /\ {tSize, height, rect, buffer} \subseteq Heights
  /\ {shown, layered, sizePending, device, resized, showGui, bKeyPressed,
      crashed} \subseteq BOOLEAN
  /\ toggles \in Nat

OverlayInit ==
  /\ target = NoWindow /\ launched = FALSE /\ changes = 0
  /\ foreground = "other" /\ keyDown = FALSE /\ presses = 0
  /\ initPc = "wait" /\ adjustPc = "find"
  /\ hwnd = "none" /\ tHwnd = "none" /\ tSize = 0 /\ height = Screen
  /\ rect = 0 /\ shown = FALSE /\ layered = FALSE /\ sizePending = FALSE
  /\ device = FALSE /\ buffer = 0 /\ resized = FALSE
  /\ showGui = FALSE /\ bKeyPressed = FALSE /\ toggles = 0
  /\ crashed = FALSE

-----------------------------------------------------------------------------
(* The game's window, the user, and Windows.                               *)

HasTarget == target # NoWindow

FindWindow == IF HasTarget THEN "target" ELSE "none"

\* GetWindowRect, which leaves the rectangle alone if the window is gone.
GetWindowRect == tSize' = IF HasTarget THEN target.height ELSE tSize

Launches == /\ ~launched /\ launched' = TRUE
            /\ target' \in Shapes
            /\ foreground' \in {foreground, "target"}
            /\ UNCHANGED <<changes, keyDown, presses>>

Reshapes == /\ HasTarget /\ changes < MaxChanges
            /\ target' \in Shapes \ {target}
            /\ changes' = changes + 1
            /\ UNCHANGED <<launched, foreground, keyDown, presses>>

TargetCloses == /\ HasTarget /\ target' = NoWindow
                /\ foreground' \in IF foreground = "target" THEN {"none", "other"}
                                   ELSE {foreground}
                /\ UNCHANGED <<launched, changes, keyDown, presses>>

Focuses == /\ \/ foreground' = "other"
              \/ HasTarget /\ foreground' = "target"
              \/ shown /\ foreground' = "overlay"
           /\ UNCHANGED user

PressesKey == /\ ~keyDown /\ presses < MaxPresses
              /\ keyDown' = TRUE /\ presses' = presses + 1
              /\ UNCHANGED <<target, launched, changes, foreground>>

ReleasesKey == /\ keyDown /\ keyDown' = FALSE
               /\ UNCHANGED <<target, launched, changes, foreground, presses>>

Desktop ==
  /\ ~crashed
  /\ \/ Launches \/ Reshapes \/ TargetCloses
     \/ Focuses \/ PressesKey \/ ReleasesKey
  /\ UNCHANGED <<initPc, adjustPc, shared, window, d3d, gui, crashed>>

-----------------------------------------------------------------------------
(* WM_PAINT: the Insert key, and render.                                   *)

\* The key went down since the last WM_PAINT, which is when ToggleGui is called
\* and showGui flips.
Pressed == keyDown /\ ~bKeyPressed
Gui     == showGui # Pressed

\* ToggleGui puts one of the windows in front, if Windows lets it.
Focused ==
  {foreground} \cup
    {w \in {hwnd, tHwnd} \ {"none"} :
       /\ Pressed /\ w = (IF Gui THEN hwnd ELSE tHwnd)
       /\ w = "target" => HasTarget}

\* Faults: ToggleGui chooses the style by the flag's old value; the key's state
\* of the last frame is kept.
Style_First    == IF Pressed THEN Gui ELSE layered
KeyState_Stale == bKeyPressed

\* ToggleGui's window style, and what the next WM_PAINT compares the key with.
Style    == IF Pressed THEN ~Gui ELSE layered
KeyState == keyDown

\* A frame is drawn over the game, or with the GUI open.  A foreground that is
\* nobody's and a target that is not found are the same handle.
Draws(w) == w = tHwnd \/ (w = hwnd /\ Gui)

\* The GUI, if it is drawn, has a close button of its own.  Drawing needs the
\* device.
Paint ==
  /\ bKeyPressed' = KeyState
  /\ toggles' = (IF Pressed THEN toggles + 1 ELSE toggles)
  /\ layered' = Style
  /\ foreground' \in Focused
  /\ crashed' = (Draws(foreground') /\ ~device)
  /\ showGui' \in IF Gui /\ Draws(foreground') THEN BOOLEAN ELSE {Gui}
  /\ UNCHANGED <<shared, hwnd, rect, shown, sizePending, d3d>>

-----------------------------------------------------------------------------
(* Init, up to its message loop.                                           *)

InitAt(pc, next) == ~crashed /\ initPc = pc /\ initPc' = next

InitWaits == /\ InitAt("wait", "find") /\ HasTarget
             /\ UNCHANGED <<foreground, shared, window, d3d, gui, crashed>>

\* FindWindow once more; what it finds is kept in the shared tHwnd.
InitFinds == /\ InitAt("find", "test")
             /\ tHwnd' = FindWindow
             /\ UNCHANGED <<foreground, tSize, height, window, d3d, gui, crashed>>

\* Without a window of the game there is none of the overlay, ever.
InitGivesUp == /\ InitAt("test", "loop") /\ tHwnd = "none"
               /\ UNCHANGED <<foreground, shared, window, d3d, gui, crashed>>

InitMeasures == /\ InitAt("test", "size") /\ tHwnd # "none"
                /\ GetWindowRect
                /\ UNCHANGED <<foreground, tHwnd, height, window, d3d, gui, crashed>>

\* Fault: a height that was set is kept.
Measured_Once == IF height = Screen THEN tSize ELSE height

\* The height that either thread takes from the rectangle.
Measured == tSize

InitSizes == /\ InitAt("size", "create")
             /\ height' = Measured
             /\ UNCHANGED <<foreground, tHwnd, tSize, window, d3d, gui, crashed>>

InitCreates == /\ InitAt("create", "show")
               /\ hwnd' = "overlay" /\ rect' = height /\ layered' = TRUE
               /\ UNCHANGED <<foreground, shared, shown, sizePending, d3d, gui, crashed>>

\* ShowWindow may put the window in front; the WM_SIZE that it sends finds no
\* device.
InitShows == /\ InitAt("show", "update")
             /\ shown' = TRUE /\ foreground' \in {foreground, "overlay"}
             /\ UNCHANGED <<shared, hwnd, rect, layered, sizePending, d3d, gui, crashed>>

\* UpdateWindow sends WM_PAINT, unless the other thread has hidden the window.
InitUpdates == /\ InitAt("update", "device")
               /\ IF shown THEN Paint
                  ELSE UNCHANGED <<foreground, shared, window, d3d, gui, crashed>>

\* Without the Direct3D object the call for a device is through a null pointer;
\* without a device it only prints, and goes on.
InitDirectX == /\ InitAt("device", "loop")
               /\ buffer' = height
               /\ \E object, made \in BOOLEAN : /\ device' = (object /\ made)
                                              /\ crashed' = ~object
               /\ UNCHANGED <<foreground, shared, window, resized, gui>>

Init == /\ \/ InitWaits \/ InitFinds \/ InitGivesUp \/ InitMeasures \/ InitSizes
           \/ InitCreates \/ InitShows \/ InitUpdates \/ InitDirectX
        /\ UNCHANGED <<user, adjustPc>>

\* The message loop; WM_PAINT is never validated, so there always is another.
WmPaint == /\ ~crashed /\ initPc = "loop" /\ hwnd # "none" /\ shown
           /\ Paint
           /\ UNCHANGED <<user, initPc, adjustPc>>

\* Fault: the device is reset to its old size.
ResetSize_Old == buffer

\* The size WM_SIZE resets the device to.
ResetSize == rect

\* WM_SIZE: nothing without a device; with one, the assertion that the reset
\* was no invalid call may fail.
WmSize == /\ ~crashed /\ initPc = "loop" /\ sizePending
          /\ sizePending' = FALSE
          /\ buffer' = IF device THEN ResetSize ELSE buffer
          /\ resized' = device
          /\ crashed' \in IF device THEN BOOLEAN ELSE {FALSE}
          /\ UNCHANGED <<desktop, initPc, adjustPc, shared, hwnd, rect, shown,
                         layered, device, gui>>

-----------------------------------------------------------------------------
(* setWindowToTarget.                                                      *)

AdjustAt(pc, next) == adjustPc = pc /\ adjustPc' = next

AdjustFinds == /\ AdjustAt("find", IF HasTarget THEN "rect" ELSE "show")
               /\ tHwnd' = FindWindow
               /\ UNCHANGED <<tSize, height, window>>

AdjustMeasures == /\ AdjustAt("rect", "height")
                  /\ GetWindowRect
                  /\ UNCHANGED <<tHwnd, height, window>>

AdjustSizes == /\ AdjustAt("height", "border")
               /\ height' = Measured
               /\ UNCHANGED <<tHwnd, tSize, window>>

\* A window with a border: leave its caption out, of the rectangle and then of
\* the height.
AdjustBorder == /\ AdjustAt("border", IF target.border THEN "caption" ELSE "move")
                /\ tSize' = IF target.border THEN tSize - Caption ELSE tSize
                /\ UNCHANGED <<tHwnd, height, window>>

AdjustCaption == /\ AdjustAt("caption", "move")
                 /\ height' = height - Caption
                 /\ UNCHANGED <<tHwnd, tSize, window>>

\* Fault: the window is moved until the device was reset, and not again.
Resizes_Once == hwnd # "none" /\ rect # height /\ ~resized

\* MoveWindow finds a window of another size.
Resizes == hwnd # "none" /\ rect # height

\* MoveWindow: if the size is another it sends WM_SIZE ...
AdjustMoves == /\ AdjustAt("move", IF Resizes THEN "moving" ELSE "moved")
               /\ IF Resizes THEN rect' = height /\ sizePending' = TRUE
                  ELSE UNCHANGED <<rect, sizePending>>
               /\ UNCHANGED <<shared, hwnd, shown, layered>>

\* ... and waits until that has been handled.
AdjustMoved == /\ AdjustAt("moving", "moved") /\ ~sizePending
               /\ UNCHANGED <<shared, window>>

\* With a window of the game the overlay is shown, whatever is in front.
AdjustShowsFirst == /\ AdjustAt("moved", "show")
                    /\ shown' = (hwnd # "none")
                    /\ UNCHANGED <<shared, hwnd, rect, layered, sizePending>>

\* Fault: the window is never hidden while the game has one.
OverTarget_Any == foreground = tHwnd \/ tHwnd # "none"

OverTarget == foreground = tHwnd

\* Show the window over the game, or else look once more: show it if it is
\* itself in front, hide it over anything else; sleep.
AdjustShows == /\ AdjustAt("show", IF OverTarget THEN "find" ELSE "self")
               /\ shown' = IF OverTarget THEN hwnd # "none" ELSE shown
               /\ UNCHANGED <<shared, hwnd, rect, layered, sizePending>>

AdjustHides == /\ AdjustAt("self", "find")
               /\ shown' = (hwnd # "none" /\ foreground = hwnd)
               /\ UNCHANGED <<shared, hwnd, rect, layered, sizePending>>

setWindowToTarget ==
  /\ ~crashed
  /\ \/ AdjustFinds \/ AdjustMeasures \/ AdjustSizes \/ AdjustBorder
     \/ AdjustCaption \/ AdjustMoves \/ AdjustMoved
     \/ AdjustShowsFirst \/ AdjustShows \/ AdjustHides
  /\ UNCHANGED <<desktop, initPc, d3d, gui, crashed>>

OverlayEnded == crashed /\ UNCHANGED overlayVars

OverlayNext == Desktop \/ Init \/ WmPaint \/ WmSize \/ setWindowToTarget
                 \/ OverlayEnded

\* Both threads keep being scheduled; the message loop takes a sent message
\* before the paint messages that never end.
OverlayFairness == /\ WF_overlayVars(Init) /\ WF_overlayVars(WmSize)
                   /\ WF_overlayVars(setWindowToTarget)

OverlaySpec     == OverlayInit /\ [][OverlayNext]_overlayVars
FairOverlaySpec == OverlaySpec /\ OverlayFairness

-----------------------------------------------------------------------------
(* Properties.                                                             *)

\* The GUI is never open under the style that makes the window invisible,
\* whatever mix of key presses and its close button opened and closed it
\* (overlay.cpp:137, :173-187).
GuiSolid == showGui => ~layered

\* Holding the Insert key down is one press, however many frames are painted
\* meanwhile (overlay.cpp:305-314).
TogglesOnce == toggles <= presses

\* Once a WM_SIZE has reset the device, the back buffer has the size of the
\* window whenever none is on its way.  Before, it has the height that
\* InitDirectX read while the other thread was at work on it, which may be
\* another (overlay.cpp:229, :327-332).
BufferFits == resized /\ ~sizePending => buffer = rect

\* The height the window is to have over a window of the game.
Wanted(s) == IF s.border THEN s.height - Caption ELSE s.height

\* The overlay follows the game's window: when that stops changing the overlay
\* comes to have its size and keeps it, though Init and WM_SIZE interfere;
\* unless there is no overlay (overlay.cpp:191-206, :406).
WindowFollows ==
  \A s \in Shapes :
    <>[](target = s) =>
      <>[](crashed \/ (initPc = "loop" /\ hwnd = "none") \/ rect = Wanted(s))

\* Over any other program the overlay is hidden again and again; line 207 shows
\* it in every round in between (overlay.cpp:207-213).
HidesOverOthers == <>[](foreground = "other") => []<>(~shown \/ crashed)
=============================================================================
