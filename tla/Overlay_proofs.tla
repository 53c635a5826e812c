--------------------------- MODULE Overlay_proofs ---------------------------
(***************************************************************************)
(* Proofs about Overlay: for any shapes of the game's window, any caption  *)
(* and screen, and any number of changes and key presses.                  *)
(***************************************************************************)
EXTENDS Overlay, TLAPS

-----------------------------------------------------------------------------
(* The strengthened invariant.                                             *)

\* Heights of the game's window, and of what is left without its caption.
Full == {s.height : s \in Shapes}
Less == {s.height - Caption : s \in Shapes}

\* A caption is left out of a height that was measured, and of height at most
\* one more time than of the rectangle: Init copies the rectangle in between.
Sizes ==
  /\ HasTarget => launched
  /\ adjustPc \in {"rect", "height", "border", "caption"} => launched
  /\ tSize \in {0} \cup Full \cup Less
  /\ adjustPc \in {"height", "border"} /\ HasTarget => tSize \in Full
  /\ adjustPc = "border" /\ HasTarget => height \in Full
  /\ adjustPc = "caption" => tSize \in Full \cup Less /\ height \in Full \cup Less

\* The GUI is opened when the window has its style.
Solid == /\ GuiSolid
         /\ initPc \in {"wait", "find", "test", "size", "create"} => ~showGui

\* A press that no frame has seen yet is not counted yet.
Toggled == TogglesOnce /\ (keyDown /\ ~bKeyPressed => toggles < presses)

\* A WM_SIZE resets the device once Init is in its loop.
Fits == BufferFits /\ (resized => initPc = "loop")

OverlayInv == OverlayTypeOK /\ Sizes /\ Solid /\ Toggled /\ Fits

-----------------------------------------------------------------------------
(* Heights.                                                                *)

LEMMA HeightsHold ==
  /\ Full \subseteq Heights /\ Less \subseteq Heights /\ {0, Screen} \subseteq Heights
  /\ \A h \in Full : h - Caption \in Less
  /\ \A h \in Less : h - Caption \in Heights
<1>1. Full \subseteq Heights /\ {0, Screen} \subseteq Heights
  BY DEF Full, Heights
<1>2. \A s \in Shapes : /\ s.height - 1 * Caption \in Heights
                        /\ s.height - 2 * Caption \in Heights
  BY DEF Heights
<1>3. ASSUME NEW s \in Shapes
      PROVE  /\ s.height - 1 * Caption = s.height - Caption
             /\ s.height - 2 * Caption = (s.height - Caption) - Caption
  <2>1. s.height \in Int /\ Caption \in Int BY ShapesTaller
  <2> QED BY <2>1
<1> QED BY <1>1, <1>2, <1>3 DEF Full, Less

LEMMA TargetShape ==
  ASSUME target \in Shapes \cup {NoWindow}, HasTarget
  PROVE  target \in Shapes /\ target.height \in Full
BY DEF HasTarget, Full

-----------------------------------------------------------------------------
(* Each action keeps the invariant.                                        *)

LEMMA InitInv == OverlayInit => OverlayInv
<1> SUFFICES ASSUME OverlayInit PROVE OverlayInv OBVIOUS
<1>1. OverlayTypeOK
  <2>1. {tSize, height, rect, buffer} \subseteq Heights
    BY HeightsHold DEF OverlayInit
  <2>2. changes \in 0..MaxChanges /\ presses \in 0..MaxPresses
    BY OverlayBounds DEF OverlayInit
  <2> QED BY <2>1, <2>2 DEF OverlayInit, OverlayTypeOK
<1>2. Sizes BY DEF OverlayInit, Sizes, HasTarget
<1>3. Solid /\ Toggled /\ Fits
  BY DEF OverlayInit, Solid, GuiSolid, Toggled, TogglesOnce, Fits, BufferFits
<1> QED BY <1>1, <1>2, <1>3 DEF OverlayInv

LEMMA DesktopInv == OverlayInv /\ Desktop => OverlayInv'
<1> SUFFICES ASSUME OverlayInv, Desktop PROVE OverlayInv' OBVIOUS
<1> USE DEF OverlayInv, Desktop, shared, window, d3d, gui
<1>1. /\ UNCHANGED <<initPc, adjustPc, tHwnd, tSize, height, hwnd, rect, shown>>
      /\ UNCHANGED <<layered, sizePending, device, buffer, resized>>
      /\ UNCHANGED <<showGui, bKeyPressed, toggles, crashed>>
  OBVIOUS
<1> DEFINE Acts == \/ Launches \/ Reshapes \/ TargetCloses
                   \/ Focuses \/ PressesKey \/ ReleasesKey
<1>2. Acts OBVIOUS
<1> USE DEF user
<1>3. /\ target' \in Shapes \cup {NoWindow} /\ launched' \in BOOLEAN
      /\ changes' \in 0..MaxChanges /\ presses' \in 0..MaxPresses
      /\ foreground' \in {"none", "target", "overlay", "other"} /\ keyDown' \in BOOLEAN
  <2>1. /\ changes \in 0..MaxChanges /\ presses \in 0..MaxPresses
        /\ MaxChanges \in Nat /\ MaxPresses \in Nat
        /\ target \in Shapes \cup {NoWindow} /\ launched \in BOOLEAN
        /\ foreground \in {"none", "target", "overlay", "other"} /\ keyDown \in BOOLEAN
    BY OverlayBounds DEF OverlayTypeOK
  <2>2. /\ changes' \in 0..MaxChanges /\ presses' \in 0..MaxPresses
        /\ launched' \in BOOLEAN /\ keyDown' \in BOOLEAN
    <3>1. CASE PressesKey BY <2>1, <3>1 DEF PressesKey
    <3>2. CASE Reshapes BY <2>1, <3>2 DEF Reshapes
    <3>3. CASE Launches \/ TargetCloses \/ Focuses \/ ReleasesKey
      BY <2>1, <3>3 DEF Launches, TargetCloses, Focuses, ReleasesKey
    <3> QED BY <1>2, <3>1, <3>2, <3>3
  <2>3. /\ target' \in Shapes \cup {NoWindow}
        /\ foreground' \in {"none", "target", "overlay", "other"}
    <3>1. CASE TargetCloses
      <4>1. target' = NoWindow /\ foreground' \in {foreground, "none", "other"}
        BY <3>1 DEF TargetCloses
      <4> QED BY <2>1, <4>1
    <3>2. CASE Launches BY <2>1, <3>2 DEF Launches
    <3>3. CASE Reshapes BY <2>1, <3>3 DEF Reshapes
    <3>4. CASE Focuses \/ PressesKey \/ ReleasesKey
      BY <2>1, <3>4 DEF Focuses, PressesKey, ReleasesKey
    <3> QED BY <1>2, <3>1, <3>2, <3>3, <3>4
  <2> QED BY <2>2, <2>3
<1>4. OverlayTypeOK' BY <1>1, <1>3 DEF OverlayTypeOK
<1>5. /\ (HasTarget' => launched') /\ (launched => launched')
      /\ (launched /\ HasTarget' => HasTarget)
  BY <1>2 DEF OverlayTypeOK, Sizes, HasTarget, Launches, Reshapes, TargetCloses,
     Focuses, PressesKey, ReleasesKey
<1>6. Sizes' BY <1>1, <1>5 DEF Sizes
<1>7. /\ presses' \in Nat /\ presses \in Nat /\ toggles \in Nat
      /\ (presses' = presses + 1 \/ presses' = presses)
      /\ (keyDown' /\ ~keyDown => presses' = presses + 1)
  BY <1>2, <1>3, OverlayBounds DEF OverlayTypeOK, Launches, Reshapes, TargetCloses,
     Focuses, PressesKey, ReleasesKey
<1>8. Toggled' BY <1>1, <1>7 DEF Toggled, TogglesOnce
<1>9. Solid' /\ Fits' BY <1>1 DEF Solid, GuiSolid, Fits, BufferFits
<1> QED BY <1>4, <1>6, <1>8, <1>9

\* WM_PAINT, whether UpdateWindow sends it or the message loop finds it.
LEMMA PaintInv ==
  ASSUME OverlayInv, Paint, UNCHANGED <<user, adjustPc>>, hwnd # "none" \/ initPc = "update",
         \/ initPc = "update" /\ initPc' = "device"
         \/ initPc = "loop" /\ initPc' = "loop"
  PROVE  OverlayInv'
<1> USE DEF OverlayInv, shared, d3d, user
<1>1. /\ UNCHANGED <<adjustPc, tHwnd, tSize, height, hwnd, rect, shown, target>>
      /\ UNCHANGED <<launched, changes, keyDown, presses>>
      /\ UNCHANGED <<sizePending, device, buffer, resized>>
  BY DEF Paint
<1>2. foreground' \in {"none", "target", "overlay", "other"}
  BY DEF OverlayTypeOK, Paint, Focused
<1>3. /\ Pressed \in BOOLEAN /\ Gui \in BOOLEAN /\ layered' \in BOOLEAN
      /\ bKeyPressed' = keyDown /\ showGui' \in BOOLEAN /\ (showGui' => Gui)
  BY DEF OverlayTypeOK, Paint, Pressed, Gui, Style, KeyState
<1>4. toggles' \in Nat /\ toggles' = (IF Pressed THEN toggles + 1 ELSE toggles)
  BY DEF OverlayTypeOK, Paint
<1>5. crashed' \in BOOLEAN BY DEF Paint
<1>6. OverlayTypeOK' BY <1>1, <1>2, <1>3, <1>4, <1>5 DEF OverlayTypeOK
<1>7. Sizes' BY <1>1 DEF Sizes, HasTarget
<1>8. showGui' => ~layered'
  <2>1. layered' = (IF Pressed THEN ~Gui ELSE layered) BY DEF Paint, Style
  <2>2. ~Pressed /\ Gui => showGui BY DEF OverlayTypeOK, Pressed, Gui
  <2>3. showGui => ~layered BY DEF Solid, GuiSolid
  <2> QED BY <1>3, <2>1, <2>2, <2>3
<1>9. Solid' BY <1>8 DEF Solid, GuiSolid
<1>10. Toggled'
  BY <1>1, <1>3, <1>4, OverlayBounds DEF Toggled, TogglesOnce, OverlayTypeOK, Pressed
<1>11. Fits' BY <1>1 DEF Fits, BufferFits
<1> QED BY <1>6, <1>7, <1>9, <1>10, <1>11

LEMMA InitStepInv == OverlayInv /\ Init => OverlayInv'
<1> SUFFICES ASSUME OverlayInv, Init PROVE OverlayInv' OBVIOUS
<1> USE DEF OverlayInv, InitAt, shared, window, d3d, gui, user
<1>1. CASE InitWaits
  BY <1>1 DEF Init, InitWaits, OverlayTypeOK, Sizes, HasTarget, Solid, GuiSolid,
     Toggled, TogglesOnce, Fits, BufferFits
<1>2. CASE InitFinds
  BY <1>2 DEF Init, InitFinds, FindWindow, OverlayTypeOK, Sizes, HasTarget, Solid,
     GuiSolid, Toggled, TogglesOnce, Fits, BufferFits
<1>3. CASE InitGivesUp
  BY <1>3 DEF Init, InitGivesUp, OverlayTypeOK, Sizes, HasTarget, Solid, GuiSolid,
     Toggled, TogglesOnce, Fits, BufferFits
<1>4. CASE InitMeasures
  <2>1. /\ UNCHANGED <<adjustPc, height, target, launched>>
        /\ HasTarget => tSize' \in Full
        /\ ~HasTarget => tSize' = tSize
    BY <1>4, TargetShape DEF Init, InitMeasures, GetWindowRect, OverlayTypeOK
  <2>2. Sizes' BY <2>1 DEF Sizes, HasTarget
  <2>3. tSize' \in Heights BY <2>2, HeightsHold DEF Sizes
  <2>4. OverlayTypeOK' BY <1>4, <2>3 DEF Init, InitMeasures, OverlayTypeOK
  <2>5. Solid' /\ Toggled' /\ Fits'
    BY <1>4 DEF Init, InitMeasures, Solid, GuiSolid, Toggled, TogglesOnce, Fits,
       BufferFits
  <2> QED BY <2>2, <2>4, <2>5
<1>5. CASE InitSizes
  <2>1. UNCHANGED <<adjustPc, tSize, target, launched>> /\ height' = tSize
    BY <1>5 DEF Init, InitSizes, Measured
  <2>2. Sizes' BY <2>1 DEF Sizes, HasTarget
  <2>3. OverlayTypeOK' BY <1>5, <2>1 DEF Init, InitSizes, OverlayTypeOK
  <2>4. Solid' /\ Toggled' /\ Fits'
    BY <1>5 DEF Init, InitSizes, Solid, GuiSolid, Toggled, TogglesOnce, Fits,
       BufferFits
  <2> QED BY <2>2, <2>3, <2>4
<1>6. CASE InitCreates
  BY <1>6 DEF Init, InitCreates, OverlayTypeOK, Sizes, HasTarget, Solid, GuiSolid,
     Toggled, TogglesOnce, Fits, BufferFits
<1>7. CASE InitShows
  BY <1>7 DEF Init, InitShows, OverlayTypeOK, Sizes, HasTarget, Solid, GuiSolid,
     Toggled, TogglesOnce, Fits, BufferFits
<1>8. CASE InitUpdates /\ shown
  BY <1>8, PaintInv DEF Init, InitUpdates
<1>9. CASE InitUpdates /\ ~shown
  BY <1>9 DEF Init, InitUpdates, OverlayTypeOK, Sizes, HasTarget, Solid, GuiSolid,
     Toggled, TogglesOnce, Fits, BufferFits
<1>10. CASE InitDirectX
  BY <1>10 DEF Init, InitDirectX, OverlayTypeOK, Sizes, HasTarget, Solid, GuiSolid,
     Toggled, TogglesOnce, Fits, BufferFits
<1> QED BY <1>1, <1>2, <1>3, <1>4, <1>5, <1>6, <1>7, <1>8, <1>9, <1>10 DEF Init

LEMMA WmPaintInv == OverlayInv /\ WmPaint => OverlayInv'
BY PaintInv DEF WmPaint, user

LEMMA WmSizeInv == OverlayInv /\ WmSize => OverlayInv'
<1> SUFFICES ASSUME OverlayInv, WmSize PROVE OverlayInv' OBVIOUS
<1> USE DEF OverlayInv, WmSize, ResetSize, desktop, user, shared, gui
<1>1. OverlayTypeOK' BY DEF OverlayTypeOK
<1>2. Sizes' BY DEF Sizes, HasTarget
<1>3. Solid' /\ Toggled' BY DEF Solid, GuiSolid, Toggled, TogglesOnce
<1>4. Fits' BY DEF Fits, BufferFits, OverlayTypeOK
<1> QED BY <1>1, <1>2, <1>3, <1>4

LEMMA AdjustInv == OverlayInv /\ setWindowToTarget => OverlayInv'
<1> SUFFICES ASSUME OverlayInv, setWindowToTarget PROVE OverlayInv' OBVIOUS
<1> USE DEF OverlayInv, AdjustAt, shared, window
<1>1. /\ UNCHANGED <<target, launched, changes, foreground, keyDown, presses>>
      /\ UNCHANGED <<initPc, device, buffer, resized>>
      /\ UNCHANGED <<showGui, bKeyPressed, toggles, crashed>>
  BY DEF setWindowToTarget, desktop, user, d3d, gui
<1>2. Toggled' BY <1>1 DEF Toggled, TogglesOnce
<1>3. ASSUME UNCHANGED layered PROVE Solid' BY <1>1, <1>3 DEF Solid, GuiSolid
<1>4. ASSUME UNCHANGED <<rect, sizePending>> PROVE Fits'
  BY <1>1, <1>4 DEF Fits, BufferFits
<1>5. CASE AdjustFinds
  <2>1. OverlayTypeOK' /\ Sizes'
    BY <1>1, <1>5 DEF AdjustFinds, FindWindow, OverlayTypeOK, Sizes, HasTarget
  <2> QED BY <1>2, <1>3, <1>4, <1>5, <2>1 DEF AdjustFinds
<1>6. CASE AdjustMeasures
  <2>1. /\ adjustPc = "rect" /\ adjustPc' = "height" /\ UNCHANGED height
        /\ HasTarget => tSize' \in Full
        /\ ~HasTarget => tSize' = tSize
    BY <1>6, TargetShape DEF AdjustMeasures, GetWindowRect, OverlayTypeOK
  <2>2. Sizes' BY <1>1, <2>1 DEF Sizes, HasTarget
  <2>3. tSize' \in Heights BY <2>2, HeightsHold DEF Sizes
  <2>4. OverlayTypeOK' BY <1>1, <1>6, <2>3 DEF AdjustMeasures, OverlayTypeOK
  <2> QED BY <1>2, <1>3, <1>4, <1>6, <2>2, <2>4 DEF AdjustMeasures
<1>7. CASE AdjustSizes
  <2>1. OverlayTypeOK' /\ Sizes'
    BY <1>1, <1>7 DEF AdjustSizes, Measured, OverlayTypeOK, Sizes, HasTarget
  <2> QED BY <1>2, <1>3, <1>4, <1>7, <2>1 DEF AdjustSizes
<1>8. CASE AdjustBorder
  <2>1. target.border => HasTarget BY DEF HasTarget, NoWindow
  <2>2. Sizes'
    <3>1. CASE target.border
      <4>1. /\ adjustPc = "border" /\ adjustPc' = "caption" /\ UNCHANGED height
            /\ tSize' = tSize - Caption
        BY <1>8, <3>1 DEF AdjustBorder
      <4>2. tSize \in Full /\ height \in Full BY <2>1, <3>1, <4>1 DEF Sizes
      <4>3. tSize' \in Less BY <4>1, <4>2, HeightsHold
      <4> QED BY <1>1, <4>1, <4>2, <4>3 DEF Sizes, HasTarget
    <3>2. CASE ~target.border
      BY <1>1, <1>8, <3>2 DEF AdjustBorder, Sizes, HasTarget
    <3> QED BY <3>1, <3>2
  <2>3. tSize' \in Heights BY <2>2, HeightsHold DEF Sizes
  <2>4. OverlayTypeOK' BY <1>1, <1>8, <2>3 DEF AdjustBorder, OverlayTypeOK
  <2> QED BY <1>2, <1>3, <1>4, <1>8, <2>2, <2>4 DEF AdjustBorder
<1>9. CASE AdjustCaption
  <2>1. /\ adjustPc = "caption" /\ adjustPc' = "move" /\ UNCHANGED tSize
        /\ height' = height - Caption
    BY <1>9 DEF AdjustCaption
  <2>2. height' \in Heights BY <2>1, HeightsHold DEF Sizes
  <2>3. OverlayTypeOK' BY <1>1, <1>9, <2>2 DEF AdjustCaption, OverlayTypeOK
  <2>4. Sizes' BY <1>1, <2>1 DEF Sizes, HasTarget
  <2> QED BY <1>2, <1>3, <1>4, <1>9, <2>3, <2>4 DEF AdjustCaption
<1>10. CASE AdjustMoves
  <2>1. /\ adjustPc' \in {"moving", "moved"}
        /\ UNCHANGED <<tHwnd, tSize, height, hwnd, shown, layered>>
        /\ (rect' = height /\ sizePending') \/ UNCHANGED <<rect, sizePending>>
        /\ sizePending' \in BOOLEAN
    BY <1>10 DEF AdjustMoves, OverlayTypeOK
  <2>2. OverlayTypeOK' BY <1>1, <2>1 DEF OverlayTypeOK
  <2>3. Sizes' BY <1>1, <2>1 DEF Sizes, HasTarget
  <2>4. Fits' BY <1>1, <2>1 DEF Fits, BufferFits
  <2> QED BY <1>2, <1>3, <2>1, <2>2, <2>3, <2>4
<1>11. CASE AdjustMoved
  <2>1. OverlayTypeOK' /\ Sizes'
    BY <1>1, <1>11 DEF AdjustMoved, OverlayTypeOK, Sizes, HasTarget
  <2> QED BY <1>2, <1>3, <1>4, <1>11, <2>1 DEF AdjustMoved
<1>12. CASE AdjustShowsFirst \/ AdjustShows \/ AdjustHides
  <2>1. /\ adjustPc' \in {"show", "find", "self"} /\ shown' \in BOOLEAN
        /\ UNCHANGED <<tHwnd, tSize, height, hwnd, rect, layered, sizePending>>
    BY <1>12 DEF AdjustShowsFirst, AdjustShows, AdjustHides, OverlayTypeOK
  <2>2. OverlayTypeOK' /\ Sizes' BY <1>1, <2>1 DEF OverlayTypeOK, Sizes, HasTarget
  <2> QED BY <1>2, <1>3, <1>4, <2>1, <2>2
<1> QED
  BY <1>5, <1>6, <1>7, <1>8, <1>9, <1>10, <1>11, <1>12 DEF setWindowToTarget

LEMMA StutterInv == OverlayInv /\ UNCHANGED overlayVars => OverlayInv'
BY DEF OverlayInv, overlayVars, desktop, user, shared, window, d3d, gui,
   OverlayTypeOK, Sizes, HasTarget, Solid, GuiSolid, Toggled, TogglesOnce, Fits,
   BufferFits

-----------------------------------------------------------------------------
(* The theorems.                                                           *)

\* The strengthened invariant holds in every behaviour of both threads
\* (overlay.cpp:173-217, :303-427).
THEOREM OverlayInvariance == OverlaySpec => []OverlayInv
<1>1. OverlayInv /\ [OverlayNext]_overlayVars => OverlayInv'
  BY DesktopInv, InitStepInv, WmPaintInv, WmSizeInv, AdjustInv, StutterInv
     DEF OverlayNext, OverlayEnded
<1> QED BY InitInv, <1>1, PTL DEF OverlaySpec

\* Every variable has its type: at most two captions are ever left out of a
\* height of the game's window (overlay.cpp:197-205).
THEOREM TypeCorrect == OverlaySpec => []OverlayTypeOK
<1>1. OverlayInv => OverlayTypeOK BY DEF OverlayInv
<1> QED BY <1>1, OverlayInvariance, PTL

\* The GUI is never open under the style that makes the window invisible, for
\* any number of key presses (overlay.cpp:137, :173-187).
THEOREM GuiIsSolid == OverlaySpec => []GuiSolid
<1>1. OverlayInv => GuiSolid BY DEF OverlayInv, Solid
<1> QED BY <1>1, OverlayInvariance, PTL

\* However many frames are painted meanwhile, a press of the Insert key is
\* counted once at most (overlay.cpp:305-314).
THEOREM PressesToggleOnce == OverlaySpec => []TogglesOnce
<1>1. OverlayInv => TogglesOnce BY DEF OverlayInv, Toggled
<1> QED BY <1>1, OverlayInvariance, PTL

\* Once the device was reset to a WM_SIZE the back buffer has the window's size
\* whenever no WM_SIZE is on its way (overlay.cpp:229, :327-332).
THEOREM BackBufferFits == OverlaySpec => []BufferFits
<1>1. OverlayInv => BufferFits BY DEF OverlayInv, Fits
<1> QED BY <1>1, OverlayInvariance, PTL
=============================================================================
