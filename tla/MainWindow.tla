------------------------------ MODULE MainWindow ------------------------------
(***************************************************************************)
(* The window (main_high.qml): a verification session, the video input and *)
(* what the window lays over the picture.  Every function that shows       *)
(* something first hides all the rest, so one overlay is visible at most;  *)
(* verdicts and messages hide themselves after five seconds, each with a   *)
(* timer of its own whose handler hides everything, whatever it is by      *)
(* then.                                                                   *)
(*                                                                         *)
(* All of it runs on the GUI thread: a handler is one step, with every     *)
(* signal it emits.                                                        *)
(***************************************************************************)
EXTENDS OpenCVCamera, VideoInput

VARIABLES overlay,      \* what lies over the picture, see Overlay
          timerHide,    \* the timer that hides a verdict runs
          timerHideMsg, \* the timer that hides a message runs
          messages,     \* showMsg calls queued by the worker thread
          displaced     \* history: the offer to retry may have been hidden

overlayVars == <<overlay, timerHide, timerHideMsg, messages, displaced>>
windowVars == <<vars, videoVars, overlayVars>>

(* "tips" offers to retry when there is no video input, "grabbing" and     *)
(* "comparing" are the two texts of the progress line.                     *)
Overlay == {"none", "tips", "result", "msg", "grabbing", "comparing"}

WindowTypeOK ==
    /\ TypeOK
    /\ VideoTypeOK
    /\ overlay \in Overlay
    /\ timerHide \in BOOLEAN
    /\ timerHideMsg \in BOOLEAN
    /\ messages \in Nat
    /\ displaced \in BOOLEAN

(* Verdicts and messages cover the window with a MouseArea of their own;   *)
(* under the other overlays the buttons can be clicked.                    *)
Clickable == Up /\ overlay \notin {"result", "msg"}

HidesLater == timerHide \/ timerHideMsg

-----------------------------------------------------------------------------
WindowInit ==
    /\ Init
    /\ VideoInit
    /\ overlay = Started.shown
    /\ timerHide = FALSE
    /\ timerHideMsg = FALSE
    /\ messages = 0
    /\ displaced = FALSE

(* allHide() takes a verdict away as well.                                 *)
AllHide(next) == overlay' = next /\ hfResult' = NoResult

ShowMsg_NoTimer ==
    /\ AllHide("msg")
    /\ displaced' = (displaced \/ ~opened)
    /\ UNCHANGED <<timerHide, timerHideMsg>>
ShowMsg ==
    /\ AllHide("msg")
    /\ timerHideMsg' = TRUE
    /\ displaced' = (displaced \/ ~opened)
    /\ UNCHANGED timerHide

sessionVars == <<dlibVars, m_bInRecongnizing, m_IDCardInfo, timer, m_iGrapTimes,
                 m_iGrapTotalTimes, m_vGrapPerson, m_iPersonIndex, btnGrapFaceImage>>

(* What the handlers of the camera's signals did to the screen: nothing,   *)
(* showCamaraNotConnTips(false), or the same with true, by which the offer *)
(* may come under a timer that still runs.                                 *)
Shows_NotOverProgress(shown) ==
    \/ shown = "same" /\ UNCHANGED <<overlay, displaced, hfResult>>
    \/ shown = "none" /\ AllHide("none") /\ displaced' = FALSE
    \/ /\ shown = "tips"
       /\ IF overlay \in {"grabbing", "comparing"} THEN UNCHANGED <<overlay, hfResult>> ELSE AllHide("tips")
       /\ displaced' = HidesLater
Shows(shown) ==
    \/ shown = "same" /\ UNCHANGED <<overlay, displaced, hfResult>>
    \/ shown = "none" /\ AllHide("none") /\ displaced' = FALSE
    \/ shown = "tips" /\ AllHide("tips") /\ displaced' = HidesLater

ReadInVain_StopsGrab ==
    /\ Up /\ (previewEnabled \/ timer)
    /\ ReadFails
    /\ Shows(AfterFailure.shown)
    /\ timer' = (timer /\ ~TooManyErrors)
    /\ UNCHANGED <<dlibVars, m_bInRecongnizing, m_IDCardInfo, m_iGrapTimes, m_iGrapTotalTimes,
                   m_vGrapPerson, m_iPersonIndex, btnGrapFaceImage, timerHide, timerHideMsg,
                   messages>>
(* A read in vain by the preview's timer, the grab timer or the button     *)
(* that grabs one picture.                                                 *)
ReadInVain ==
    /\ \/ Up /\ (previewEnabled \/ timer)
       \/ Clickable
    /\ ReadFails
    /\ Shows(AfterFailure.shown)
    /\ UNCHANGED <<sessionVars, timerHide, timerHideMsg, messages>>

(* The retry button.                                                       *)
Retry ==
    /\ Up /\ overlay = "tips"
    /\ Reopen
    /\ Shows(EnableBoth(Members).shown)
    /\ UNCHANGED <<sessionVars, timerHide, timerHideMsg, messages>>

CheckPreview ==
    /\ Clickable
    /\ SwitchPreview
    /\ UNCHANGED <<vars, overlayVars>>

PlugOrUnplug ==
    /\ Up
    /\ Replug
    /\ UNCHANGED <<vars, overlayVars>>

-----------------------------------------------------------------------------
(* A session accepted, or grabbing by hand: the progress line says that    *)
(* faces are being grabbed.                                                *)
CardAccepted(card) ==
    /\ Recognize(card)
    /\ overlay' = "grabbing"
    /\ UNCHANGED <<videoVars, timerHide, timerHideMsg, messages, displaced>>

GrabByHand ==
    /\ Clickable
    /\ messages < MaxResults
    /\ ManualGrab
    /\ overlay' = "grabbing"
    /\ UNCHANGED <<videoVars, timerHide, timerHideMsg, messages, displaced>>

(* recognize() of a card whose photo does not show one face.               *)
CardRefused ==
    /\ Up /\ ~m_bInRecongnizing
    /\ ShowMsg
    /\ UNCHANGED <<sessionVars, videoVars, messages>>

Grab_KeepsProgress(frame) ==
    /\ Readable
    /\ GrapFaceFrameTimeProc(frame)
    /\ UNCHANGED <<videoVars, overlayVars>>
(* A tick of the grab timer that reads a frame with faces.                 *)
Grab(frame) ==
    /\ Readable
    /\ GrapFaceFrameTimeProc(frame)
    /\ overlay' = IF timer' THEN overlay ELSE "comparing"
    /\ UNCHANGED <<videoVars, timerHide, timerHideMsg, messages, displaced>>

(* recognizeResultNotify(): a verdict is shown with its timer; a timer     *)
(* that still runs is not started anew.                                    *)
Result ==
    /\ RecognizeResultNotify
    /\ IF ~Head(results).pass /\ MoreFaces
       THEN UNCHANGED <<overlay, timerHide, displaced>>
       ELSE /\ overlay' = "result"
            /\ timerHide' = TRUE
            /\ displaced' = (displaced \/ ~opened)
    /\ UNCHANGED <<videoVars, timerHideMsg, messages>>

(* The worker: without a network it queues a message for the window.       *)
Worker ==
    /\ Run
    /\ messages' = IF m_bInit THEN messages ELSE messages + 1
    /\ UNCHANGED <<cameraVars, videoVars, overlay, timerHide, timerHideMsg, displaced>>

Message ==
    /\ Up /\ messages > 0
    /\ messages' = messages - 1
    /\ ShowMsg
    /\ UNCHANGED <<sessionVars, videoVars>>

(* A click on a verdict or a message stops the timer of that overlay.      *)
ClickAway ==
    /\ Up /\ overlay \in {"result", "msg"}
    /\ timerHide' = (timerHide /\ overlay # "result")
    /\ timerHideMsg' = (timerHideMsg /\ overlay # "msg")
    /\ AllHide("none")
    /\ UNCHANGED <<sessionVars, videoVars, messages, displaced>>

(* Five seconds are over.                                                  *)
TimerHide ==
    /\ Up /\ timerHide
    /\ timerHide' = FALSE
    /\ AllHide("none")
    /\ UNCHANGED <<sessionVars, videoVars, timerHideMsg, messages, displaced>>

TimerHideMsg ==
    /\ Up /\ timerHideMsg
    /\ timerHideMsg' = FALSE
    /\ AllHide("none")
    /\ UNCHANGED <<sessionVars, videoVars, timerHide, messages, displaced>>

Dead == ~Up /\ UNCHANGED windowVars

WindowNext ==
    \/ ReadInVain \/ Retry \/ CheckPreview \/ PlugOrUnplug
    \/ \E card \in Cards : CardAccepted(card)
    \/ GrabByHand \/ CardRefused
    \/ \E frame \in Frames : Grab(frame)
    \/ Result \/ Worker \/ Message
    \/ ClickAway \/ TimerHide \/ TimerHideMsg
    \/ Dead

(* Timers fire, queued calls are delivered, the worker is scheduled; the   *)
(* preview and the grab timer read as long as they run.  Nobody has to     *)
(* click, to present a card or to plug anything in.                        *)
WindowFairness ==
    /\ WF_windowVars(ReadInVain /\ (previewEnabled \/ timer))
    /\ WF_windowVars(\E frame \in Frames : Grab(frame))
    /\ WF_windowVars(Result)
    /\ WF_windowVars(Worker)
    /\ WF_windowVars(Message)
    /\ WF_windowVars(TimerHide)
    /\ WF_windowVars(TimerHideMsg)

WindowSpec == WindowInit /\ [][WindowNext]_windowVars
WindowFairSpec == WindowSpec /\ WindowFairness

-----------------------------------------------------------------------------
(* What the window says is so: the verdict is visible as long as it is on  *)
(* display, faces are grabbed while it says so, and it offers to retry     *)
(* only without video input.  It says that faces are compared outside a    *)
(* session only because of a grab by hand, and then as long as nothing     *)
(* else is shown.                                                          *)
OverlayTruthful ==
    Up => /\ overlay = "result" <=> hfResult # NoResult
          /\ overlay = "grabbing" => timer
          /\ overlay = "comparing" /\ ~m_bInRecongnizing =>
                m_iGrapTotalTimes = ManualTimes \/ ~Undisturbed
          /\ overlay = "tips" => ~opened

(* Without video input the window offers to retry, or faces are grabbed,   *)
(* which fails and makes it offer that, unless a verdict or a message took *)
(* the offer's place or the timer of an earlier one hid it.                *)
RetryOffered == ~opened /\ ~displaced => overlay = "tips" \/ timer

(* A loss of the video input is noticed on the screen as long as somebody  *)
(* reads, however often it was lost before.                                *)
LossNoticed ==
    Up /\ (previewEnabled \/ timer) /\ ~Readable
        ~> Readable \/ overlay = "tips" \/ ~(previewEnabled \/ timer) \/ ~Up

(* A preview without a camera stops, and with it the failed reads that     *)
(* would call the handler ten times a second and take away whatever is on  *)
(* the screen: also when the camera could not be opened and the preview    *)
(* was started after the handler had stopped it.                           *)
PreviewStops == Up /\ previewEnabled /\ ~opened ~> ~previewEnabled \/ opened \/ ~Up

(* Verdicts and messages, which lie over the buttons, go away by           *)
(* themselves, even when one is shown while the timer of another runs.     *)
OverlayLeaves == overlay \in {"result", "msg"} ~> overlay \notin {"result", "msg"} \/ ~Up

(* Whatever happens to the video input and on the screen, the session is   *)
(* the one OpenCVCamera describes: its theorems hold in the window.        *)
ImplementsSession == Spec
=============================================================================
