------------------------------ MODULE VideoItem ------------------------------
(***************************************************************************)
(* The picture on the screen.  OpenCVCameraPreview::updateFrame, called by *)
(* a timer, emits newVideoFrame with a picture of the camera, or with a    *)
(* null image when there is none; VideoItem::updateFrame copies it under   *)
(* the mutex and asks Qt for a repaint; Qt answers with updatePaintNode,   *)
(* which counts the paints of the last second and makes a texture of the   *)
(* picture.                                                                *)
(*                                                                         *)
(* Qt's documentation has the GUI thread wait while the render thread is   *)
(* in updatePaintNode.  The code has a mutex and does not rely on that, so *)
(* neither does the model: here the two are threads, and every behaviour   *)
(* in which one waits for the other is among theirs.                       *)
(*                                                                         *)
(* Pictures are numbered in the order they are emitted.                    *)
(***************************************************************************)
EXTENDS Integers, Sequences, FiniteSets

CONSTANTS Window,      \* the second that is counted, in ticks of the clock
          MaxClock,    \* bound: the clock's readings
          MaxSetBacks, \* bound: how often somebody sets the clock back
          MaxFrames    \* bound: how often newVideoFrame is emitted

ASSUME VideoAssumption ==
    /\ Window \in Nat
    /\ MaxClock \in Nat
    /\ MaxSetBacks \in Nat
    /\ MaxFrames \in Nat

VARIABLES
    emitted,  \* how often newVideoFrame was emitted
    frame,    \* the argument of the slot updateFrame
    gui,      \* where the GUI thread is in it
    sized,    \* the layout has given the item a size
    dirty,    \* a repaint is asked for
    render,   \* where the thread that paints is in updatePaintNode
    m_Img,
    texture,  \* the picture the node shows
    times,    \* _times
    fps,      \* what fpsChanged reported last
    painted,  \* history: what the clock read at every paint
    clock,
    rewound,  \* history: the latest reading the clock was ever set back from
    setBacks

guiVars == <<emitted, frame, gui, sized>>
paintVars == <<render, texture, times, fps, painted>>
clockVars == <<clock, rewound, setBacks>>
vars == <<emitted, frame, gui, sized, dirty, m_Img, render, texture, times, fps, painted,
          clock, rewound, setBacks>>

-----------------------------------------------------------------------------
Null == 0    \* QImage::isNull()
Torn == -1   \* a picture of which a part has been copied

TypeOK ==
    /\ emitted \in 0..MaxFrames
    /\ frame \in 0..emitted
    /\ gui \in {"idle", "locking", "copying", "updating"}
    /\ sized \in BOOLEAN
    /\ dirty \in BOOLEAN
    /\ render \in {"idle", "locking", "drawing"}
    /\ m_Img \in Torn..emitted
    /\ texture \in Torn..emitted
    /\ times \in Seq(0..MaxClock)
    /\ fps \in 0..Len(painted)
    /\ painted \in Seq(0..MaxClock)
    /\ clock \in 0..MaxClock
    /\ rewound \in -1..MaxClock
    /\ setBacks \in 0..MaxSetBacks

(* m_imgMutex is held.                                                     *)
Locked == gui = "copying" \/ render = "drawing"

Init ==
    /\ emitted = 0 /\ frame = Null /\ gui = "idle"
    /\ sized = FALSE /\ dirty = FALSE
    /\ m_Img = Null /\ texture = Null
    /\ render = "idle"
    /\ times = <<>> /\ painted = <<>> /\ fps = 0
    /\ clock = 0 /\ rewound = -1 /\ setBacks = 0

-----------------------------------------------------------------------------
(* OpenCVCameraPreview::updateFrame: a null image when the preview is off  *)
(* or the camera gives no picture.                                         *)
NewVideoFrame ==
    /\ gui = "idle"
    /\ emitted < MaxFrames
    /\ emitted' = emitted + 1
    /\ frame' \in {Null, emitted'}
    /\ gui' = "locking"
    /\ UNCHANGED <<sized, dirty, m_Img, paintVars, clockVars>>

CopyBegins ==
    /\ gui = "locking"
    /\ ~Locked
    /\ gui' = "copying"
    /\ m_Img' = Torn
    /\ UNCHANGED <<emitted, frame, sized, dirty, paintVars, clockVars>>

CopyEnds ==
    /\ gui = "copying"
    /\ gui' = "updating"
    /\ m_Img' = frame
    /\ UNCHANGED <<emitted, frame, sized, dirty, paintVars, clockVars>>

Update ==
    /\ gui = "updating"
    /\ gui' = "idle"
    /\ dirty' = TRUE
    /\ UNCHANGED <<emitted, frame, sized, m_Img, paintVars, clockVars>>

(* The layout of the window is done.                                       *)
Resized ==
    /\ gui = "idle"
    /\ ~sized
    /\ sized' = TRUE
    /\ dirty' = TRUE
    /\ UNCHANGED <<emitted, frame, gui, m_Img, paintVars, clockVars>>

-----------------------------------------------------------------------------
Recent_If(s, limit) == IF Head(s) < limit THEN Tail(s) ELSE s
Recent_OneLess(s, limit) ==
    LET first == CHOOSE i \in DOMAIN s : s[i] > limit /\ \A j \in 1..i - 1 : s[j] <= limit
    IN SubSeq(s, first, Len(s))
(* The list of times without those from before limit at its front.         *)
Recent(s, limit) ==
    LET first == CHOOSE i \in DOMAIN s : s[i] >= limit /\ \A j \in 1..i - 1 : s[j] < limit
    IN SubSeq(s, first, Len(s))

(* The first part of updatePaintNode.                                      *)
CountPaint ==
    /\ render = "idle"
    /\ dirty
    /\ dirty' = FALSE
    /\ times' = Recent(Append(times, clock), clock - Window)
    /\ fps' = Len(times')
    /\ painted' = Append(painted, clock)
    /\ render' = "locking"
    /\ UNCHANGED <<guiVars, m_Img, texture, clockVars>>

LockImage ==
    /\ render = "locking"
    /\ ~Locked
    /\ render' = "drawing"
    /\ UNCHANGED <<guiVars, dirty, m_Img, texture, times, fps, painted, clockVars>>

MakeTexture_Once ==
    /\ render = "drawing"
    /\ texture' = IF m_Img = Null \/ ~sized \/ texture # Null THEN texture ELSE m_Img
    /\ render' = "idle"
    /\ UNCHANGED <<guiVars, dirty, m_Img, times, fps, painted, clockVars>>
(* Without a picture, or without a size to scale it to, the node stays     *)
(* what it was.                                                            *)
MakeTexture ==
    /\ render = "drawing"
    /\ texture' = IF m_Img = Null \/ ~sized THEN texture ELSE m_Img
    /\ render' = "idle"
    /\ UNCHANGED <<guiVars, dirty, m_Img, times, fps, painted, clockVars>>

-----------------------------------------------------------------------------
ClockRuns ==
    /\ clock' \in clock + 1..MaxClock
    /\ UNCHANGED <<guiVars, dirty, m_Img, paintVars, rewound, setBacks>>

ClockSetBack ==
    /\ setBacks < MaxSetBacks
    /\ setBacks' = setBacks + 1
    /\ clock' \in 0..clock - 1
    /\ rewound' = IF clock > rewound THEN clock ELSE rewound
    /\ UNCHANGED <<guiVars, dirty, m_Img, paintVars>>

Quiet == gui = "idle" /\ render = "idle" /\ ~dirty /\ UNCHANGED vars

Next ==
    \/ NewVideoFrame \/ CopyBegins \/ CopyEnds \/ Update \/ Resized
    \/ CountPaint \/ LockImage \/ MakeTexture
    \/ ClockRuns \/ ClockSetBack
    \/ Quiet

(* The GUI thread finishes its slot and lays the window out; Qt answers a  *)
(* request for a repaint.  Who waits for the mutex gets it, for neither    *)
(* thread holds it for longer than a copy or a texture takes.              *)
Fairness ==
    /\ WF_vars(CopyEnds \/ Update \/ Resized)
    /\ SF_vars(CopyBegins)
    /\ WF_vars(CountPaint)
    /\ SF_vars(LockImage)
    /\ WF_vars(MakeTexture)

Spec == Init /\ [][Next]_vars
FairSpec == Spec /\ Fairness

-----------------------------------------------------------------------------
(* No texture is made of a picture while it is being copied.               *)
TextureWhole == texture # Torn

(* How many of the paints were within Window of the last one.              *)
PaintsOfLastWindow ==
    Cardinality({i \in DOMAIN painted : painted[i] >= painted[Len(painted)] - Window})

(* The frame rate on the screen is the number of paints of the last        *)
(* second, whenever the clock has run for a second beyond any reading it   *)
(* was set back from; until then times of before may keep it too high.     *)
FpsOfLastSecond ==
    painted # <<>> /\ painted[Len(painted)] - Window > rewound => fps = PaintsOfLastWindow

(* A clock that was set back makes the rate too high, never too low: once  *)
(* it has caught up, no paint of the last second is missing.               *)
FpsNotTooLow ==
    painted # <<>> /\ painted[Len(painted)] >= rewound => fps >= PaintsOfLastWindow

(* A picture that was copied is shown once the item has a size, unless     *)
(* another takes its place first.                                          *)
LatestShown ==
    \A n \in 1..MaxFrames : m_Img = n /\ sized ~> texture = n \/ m_Img # n
=============================================================================
