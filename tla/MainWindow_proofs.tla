--------------------------- MODULE MainWindow_proofs ---------------------------
(***************************************************************************)
(* Proofs about the window, for any cards, faces and matching relation and *)
(* any value of the bounds.  The window implements the session, so what is *)
(* proved of the session holds in the window; two facts about a grab by    *)
(* hand are added for what the window says while faces are grabbed.        *)
(***************************************************************************)
EXTENDS MainWindow, OpenCVCamera_proofs

(* Nothing is compared before the first card.                              *)
CardFirst == m_IDCardInfo = NoCard => thread = "idle" /\ results = <<>>

(* Outside a session only the button grabs.                                *)
GrabsByHand ==
    timer /\ ~m_bInRecongnizing => m_iGrapTotalTimes = ManualTimes \/ ~Undisturbed

(* No timer is going to hide an offer that is not displaced.               *)
OfferStays == ~opened /\ ~displaced => ~HidesLater /\ (overlay = "tips" \/ timer)

WindowIInv ==
    /\ OverlayTruthful
    /\ CardFirst
    /\ GrabsByHand
    /\ OfferStays

-----------------------------------------------------------------------------
(* What the nested calls come to.                                          *)
Found(o, c, p) == [opened |-> o, cameraEnabled |-> c, previewEnabled |-> p, shown |-> "same"]

LEMMA MembersFound == Members = Found(opened, cameraEnabled, previewEnabled)
BY DEF Members, Found

LEMMA HandlerDoes ==
    ASSUME NEW o, NEW c, NEW p
    PROVE  LET v == NoVideoInput(Found(o, c, p)) IN
           v.opened = FALSE /\ v.cameraEnabled = FALSE /\ v.previewEnabled = FALSE /\ v.shown = "tips"
BY DEF NoVideoInput, SetPreview, Disable, Found

(* A failed read: nothing more than the count, or the handler's doing.     *)
LEMMA FailureDoes ==
    ASSUME ReadFails
    PROVE  \/ /\ AfterFailure.shown = "same"
              /\ UNCHANGED <<opened, cameraEnabled, previewEnabled>>
           \/ /\ AfterFailure.shown = "tips"
              /\ opened' = FALSE /\ cameraEnabled' = FALSE /\ previewEnabled' = FALSE
<1>1. Becomes(AfterFailure)
  BY DEF ReadFails
<1>2. CASE TooManyErrors
  <2> DEFINE v == NoVideoInput(Found(opened, cameraEnabled, previewEnabled))
  <2>1. AfterFailure = v
    BY <1>2, MembersFound DEF AfterFailure
  <2>2. v.opened = FALSE /\ v.cameraEnabled = FALSE /\ v.previewEnabled = FALSE /\ v.shown = "tips"
    BY HandlerDoes
  <2> HIDE DEF v
  <2> QED
    BY <1>1, <2>1, <2>2 DEF Becomes
<1>3. CASE ~TooManyErrors
  <2>1. AfterFailure = Members
    BY <1>3 DEF AfterFailure
  <2> QED
    BY <1>1, <2>1 DEF Becomes, Members
<1> QED
  BY <1>2, <1>3

(* The camera and the preview enabled, from wherever they were: nothing    *)
(* new, a device opened, or the offer to retry.                            *)
IsEnabled(o, v) ==
    /\ v.opened \in BOOLEAN /\ v.cameraEnabled \in BOOLEAN /\ v.previewEnabled = TRUE
    /\ \/ v.shown = "same" /\ v.opened /\ o
       \/ v.shown = "none" /\ v.opened
       \/ v.shown = "tips" /\ ~v.opened

LEMMA EnablingDoes ==
    ASSUME NEW o \in BOOLEAN, NEW c, NEW p, device \in BOOLEAN
    PROVE  IsEnabled(o, EnableBoth(Found(o, c, p)))
<1>1. CASE o
  BY <1>1 DEF IsEnabled, EnableBoth, Enable, SetPreview, Found
<1>2. CASE ~o /\ device
  BY <1>2 DEF IsEnabled, EnableBoth, Enable, SetPreview, Found
<1>3. CASE ~o /\ ~device
  BY <1>3 DEF IsEnabled, EnableBoth, Enable, NoVideoInput, SetPreview, Disable, Found
<1> QED
  BY <1>1, <1>2, <1>3

LEMMA ReopenDoes ==
    ASSUME opened \in BOOLEAN, device \in BOOLEAN, Reopen
    PROVE  /\ opened' \in BOOLEAN /\ cameraEnabled' \in BOOLEAN /\ previewEnabled' = TRUE
           /\ \/ EnableBoth(Members).shown = "same" /\ opened /\ opened'
              \/ EnableBoth(Members).shown = "none" /\ opened'
              \/ EnableBoth(Members).shown = "tips" /\ ~opened'
<1>1. IsEnabled(opened, EnableBoth(Found(opened, cameraEnabled, previewEnabled)))
  BY EnablingDoes
<1>2. IsEnabled(opened, EnableBoth(Members))
  BY <1>1, MembersFound
<1>3. Becomes(EnableBoth(Members))
  BY DEF Reopen
<1> QED
  BY <1>2, <1>3 DEF IsEnabled, Becomes

LEMMA StartedIs ==
    ASSUME device \in BOOLEAN
    PROVE  /\ Started.opened \in BOOLEAN /\ Started.cameraEnabled \in BOOLEAN
           /\ Started.previewEnabled = TRUE
           /\ \/ Started.shown = "none" /\ Started.opened
              \/ Started.shown = "tips" /\ ~Started.opened
<1>1. Started = EnableBoth(Found(FALSE, FALSE, FALSE))
  BY DEF Started, Found
<1>2. IsEnabled(FALSE, Started)
  BY <1>1, EnablingDoes
<1> QED
  BY <1>2 DEF IsEnabled

-----------------------------------------------------------------------------
(* Hiding what is on the screen is a step of the session, or none.         *)
LEMMA HidingStep ==
    ASSUME Up, UNCHANGED sessionVars, hfResult' \in {hfResult, NoResult}
    PROVE  [Next]_vars
<1>1. CASE hfResult' = hfResult
  BY <1>1 DEF sessionVars, vars, cameraVars
<1>2. CASE hfResult' = NoResult /\ hfResult # NoResult
  <2>1. HideResult
    BY <1>2 DEF HideResult, sessionVars
  <2> QED
    BY <2>1 DEF Next
<1> QED
  BY <1>1, <1>2

(* Every step of the window is one of the session, or none of its.         *)
LEMMA SessionStep == [WindowNext]_windowVars => [Next]_vars
<1> SUFFICES ASSUME [WindowNext]_windowVars PROVE [Next]_vars
  OBVIOUS
<1>1. CASE ReadInVain
  <2>1. Up /\ UNCHANGED sessionVars /\ hfResult' \in {hfResult, NoResult}
    BY <1>1 DEF ReadInVain, Clickable, Shows, AllHide
  <2> QED
    BY <2>1, HidingStep
<1>2. CASE Retry
  <2>1. Up /\ UNCHANGED sessionVars /\ hfResult' \in {hfResult, NoResult}
    BY <1>2 DEF Retry, Shows, AllHide
  <2> QED
    BY <2>1, HidingStep
<1>3. CASE CheckPreview \/ PlugOrUnplug
  BY <1>3 DEF CheckPreview, PlugOrUnplug
<1>4. ASSUME NEW card \in Cards, CardAccepted(card) PROVE [Next]_vars
  BY <1>4 DEF CardAccepted, Next
<1>5. CASE GrabByHand
  BY <1>5 DEF GrabByHand, Next
<1>6. ASSUME NEW frame \in Frames, Grab(frame) PROVE [Next]_vars
  BY <1>6 DEF Grab, Next, Work
<1>7. CASE Result
  BY <1>7 DEF Result, Next, Work
<1>8. CASE Worker
  BY <1>8 DEF Worker, Next, Work
<1>9. CASE CardRefused \/ Message
  <2>1. Up /\ UNCHANGED sessionVars /\ hfResult' \in {hfResult, NoResult}
    BY <1>9 DEF CardRefused, Message, ShowMsg, AllHide
  <2> QED
    BY <2>1, HidingStep
<1>10. CASE ClickAway \/ TimerHide \/ TimerHideMsg
  <2>1. Up /\ UNCHANGED sessionVars /\ hfResult' \in {hfResult, NoResult}
    BY <1>10 DEF ClickAway, TimerHide, TimerHideMsg, AllHide
  <2> QED
    BY <2>1, HidingStep
<1>11. CASE Dead \/ UNCHANGED windowVars
  BY <1>11 DEF Dead, windowVars
<1> QED
  BY <1>1, <1>2, <1>3, <1>4, <1>5, <1>6, <1>7, <1>8, <1>9, <1>10, <1>11 DEF WindowNext

(* The window runs sessions as OpenCVCamera describes them.                *)
THEOREM WindowRefinement == WindowSpec => ImplementsSession
<1>1. WindowInit => Init
  BY DEF WindowInit
<1> QED
  BY <1>1, SessionStep, PTL DEF WindowSpec, Spec, ImplementsSession

-----------------------------------------------------------------------------
(* The members of the window and the video input.                          *)
OwnTypeOK ==
    /\ VideoTypeOK
    /\ overlay \in Overlay
    /\ timerHide \in BOOLEAN
    /\ timerHideMsg \in BOOLEAN
    /\ messages \in Nat
    /\ displaced \in BOOLEAN

LEMMA OwnTypeStep == OwnTypeOK /\ [WindowNext]_windowVars => OwnTypeOK'
<1> SUFFICES ASSUME OwnTypeOK, [WindowNext]_windowVars PROVE OwnTypeOK'
  OBVIOUS
<1>1. VideoTypeOK'
  <2>1. CASE UNCHANGED videoVars
    BY <2>1 DEF OwnTypeOK, VideoTypeOK, videoVars
  <2>2. CASE ReadFails
    <3>1. iErrorTimes' \in 0..ErrorLimit
      BY <2>2, VideoAssumption DEF OwnTypeOK, VideoTypeOK, ReadFails
    <3>2. device' = device
      BY <2>2 DEF ReadFails
    <3> QED
      BY <2>2, <3>1, <3>2, FailureDoes DEF OwnTypeOK, VideoTypeOK
  <2>3. CASE Reopen
    <3>1. device' = device /\ iErrorTimes' = iErrorTimes
      BY <2>3 DEF Reopen
    <3> QED
      BY <2>3, <3>1, ReopenDoes DEF OwnTypeOK, VideoTypeOK
  <2>4. CASE SwitchPreview \/ Replug
    BY <2>4 DEF OwnTypeOK, VideoTypeOK, SwitchPreview, Replug
  <2> QED
    BY <2>1, <2>2, <2>3, <2>4 DEF WindowNext, windowVars, ReadInVain, Retry, CheckPreview, PlugOrUnplug,
       CardAccepted, GrabByHand, CardRefused, Grab, Result, Worker, Message, ClickAway, TimerHide,
       TimerHideMsg, Dead, videoVars
<1>2. overlay' \in Overlay
  BY DEF OwnTypeOK, Overlay, WindowNext, windowVars, overlayVars, AllHide, ShowMsg, Shows,
     ReadInVain, Retry, CheckPreview, PlugOrUnplug, CardAccepted, GrabByHand, CardRefused, Grab,
     Result, Worker, Message, ClickAway, TimerHide, TimerHideMsg, Dead
<1>3. timerHide' \in BOOLEAN /\ timerHideMsg' \in BOOLEAN
  BY DEF OwnTypeOK, WindowNext, windowVars, overlayVars, ShowMsg, ReadInVain, Retry, CheckPreview,
     PlugOrUnplug, CardAccepted, GrabByHand, CardRefused, Grab, Result, Worker, Message,
     ClickAway, TimerHide, TimerHideMsg, Dead
<1>4. messages' \in Nat
  BY DEF OwnTypeOK, WindowNext, windowVars, overlayVars, ReadInVain, Retry, CheckPreview,
     PlugOrUnplug, CardAccepted, GrabByHand, CardRefused, Grab, Result, Worker, Message,
     ClickAway, TimerHide, TimerHideMsg, Dead
<1>5. displaced' \in BOOLEAN
  <2>1. CASE UNCHANGED displaced
    BY <2>1 DEF OwnTypeOK
  <2>2. CASE displaced' = HidesLater
    BY <2>2 DEF OwnTypeOK, HidesLater
  <2>3. CASE ShowMsg \/ displaced' = (displaced \/ ~opened)
    BY <2>3 DEF ShowMsg
  <2>4. CASE displaced' = FALSE
    BY <2>4
  <2>5. \/ UNCHANGED displaced \/ displaced' = HidesLater \/ ShowMsg
        \/ displaced' = (displaced \/ ~opened) \/ displaced' = FALSE
    BY DEF WindowNext, windowVars, overlayVars, Shows, ReadInVain, Retry, CheckPreview,
       PlugOrUnplug, CardAccepted, GrabByHand, CardRefused, Grab, Result, Worker, Message,
       ClickAway, TimerHide, TimerHideMsg, Dead
  <2> QED
    BY <2>1, <2>2, <2>3, <2>4, <2>5
<1> QED
  BY <1>1, <1>2, <1>3, <1>4, <1>5 DEF OwnTypeOK

LEMMA OwnTypeInit == WindowInit => OwnTypeOK
<1> SUFFICES ASSUME WindowInit PROVE OwnTypeOK
  OBVIOUS
<1>1. /\ device \in BOOLEAN /\ opened = Started.opened /\ cameraEnabled = Started.cameraEnabled
      /\ previewEnabled = Started.previewEnabled /\ overlay = Started.shown
  BY DEF WindowInit, VideoInit
<1>2. /\ opened \in BOOLEAN /\ cameraEnabled \in BOOLEAN /\ previewEnabled \in BOOLEAN
      /\ overlay \in Overlay
  BY <1>1, StartedIs DEF Overlay
<1>3. iErrorTimes \in 0..ErrorLimit
  BY VideoAssumption DEF WindowInit, VideoInit
<1> QED
  BY <1>1, <1>2, <1>3 DEF WindowInit, OwnTypeOK, VideoTypeOK

(* The members keep their types, whatever the window does.                 *)
THEOREM WindowTypeCorrect == WindowSpec => []WindowTypeOK
<1>2. TypeOK /\ OwnTypeOK => WindowTypeOK
  BY DEF OwnTypeOK, WindowTypeOK
<1>3. WindowSpec => []TypeOK
  BY WindowRefinement, TypeCorrect, PTL DEF ImplementsSession
<1> QED
  BY <1>2, <1>3, OwnTypeInit, OwnTypeStep, PTL DEF WindowSpec

-----------------------------------------------------------------------------
LEMMA WindowInitInv == WindowInit => WindowIInv
<1> SUFFICES ASSUME WindowInit PROVE WindowIInv
  OBVIOUS
<1>1. (overlay = "none" /\ opened) \/ (overlay = "tips" /\ ~opened)
  <2>1. device \in BOOLEAN /\ opened = Started.opened /\ overlay = Started.shown
    BY DEF WindowInit, VideoInit
  <2> QED
    BY <2>1, StartedIs
<1> QED
  BY <1>1 DEF WindowInit, Init, DlibInit, WindowIInv, OverlayTruthful, CardFirst, GrabsByHand,
     OfferStays, HidesLater

(* Steps that leave the session alone but for a verdict they may hide.     *)
LEMMA HidingInv ==
    ASSUME WindowIInv, UNCHANGED sessionVars
    PROVE  CardFirst' /\ GrabsByHand' /\ Up' = Up
BY DEF WindowIInv, sessionVars, dlibVars, CardFirst, GrabsByHand, Undisturbed, Up

(* A comparison that is started while there is a card.                     *)
LEMMA CompareMishaps ==
    ASSUME NEW c, NEW f, Compare(c, f)
    PROVE  mishaps \subseteq mishaps' /\ (Undisturbed' <=> Undisturbed)
BY DEF Compare, Undisturbed

(* A verdict is never mistaken for none.                                   *)
LEMMA VerdictShows ==
    ASSUME TypeOK, m_IDCardInfo # NoCard, NEW pass, NEW mat
    PROVE  [card |-> m_IDCardInfo, pass |-> pass, imgCapture |-> mat] # NoResult
BY DEF NoResult

(* What the handlers of the camera's signals show is so.                   *)
LEMMA ShowsInv ==
    ASSUME WindowIInv, UNCHANGED sessionVars, UNCHANGED <<timerHide, timerHideMsg>>,
           NEW shown, Shows(shown),
           \/ shown = "same" /\ opened' = opened
           \/ shown = "same" /\ opened /\ opened'
           \/ shown = "none" /\ opened'
           \/ shown = "tips" /\ ~opened'
    PROVE  WindowIInv'
<1>1. CardFirst' /\ GrabsByHand' /\ Up' = Up
  BY HidingInv
<1>2. /\ UNCHANGED <<m_bInRecongnizing, m_iGrapTotalTimes, timer>>
      /\ Undisturbed' <=> Undisturbed
  BY DEF sessionVars, dlibVars, Undisturbed
<1>3. HidesLater' <=> HidesLater
  BY DEF HidesLater
<1>4. CASE shown = "same"
  BY <1>1, <1>2, <1>3, <1>4 DEF Shows, WindowIInv, OverlayTruthful, OfferStays
<1>5. CASE shown = "none"
  BY <1>1, <1>2, <1>5 DEF Shows, AllHide, WindowIInv, OverlayTruthful, OfferStays
<1>6. CASE shown = "tips"
  <2>1. overlay' = "tips" /\ hfResult' = NoResult /\ displaced' = HidesLater /\ ~opened'
    BY <1>6 DEF Shows, AllHide
  <2> QED
    BY <1>1, <1>3, <2>1 DEF WindowIInv, OverlayTruthful, OfferStays
<1> QED
  BY <1>4, <1>5, <1>6

LEMMA ReadInVainInv == WindowIInv /\ ReadInVain => WindowIInv'
<1> SUFFICES ASSUME WindowIInv, ReadInVain PROVE WindowIInv'
  OBVIOUS
<1>1. /\ UNCHANGED sessionVars /\ UNCHANGED <<timerHide, timerHideMsg>>
      /\ Shows(AfterFailure.shown) /\ ReadFails
  BY DEF ReadInVain
<1> QED
  BY <1>1, FailureDoes, ShowsInv

LEMMA RetryInv == WindowIInv /\ OwnTypeOK /\ Retry => WindowIInv'
<1> SUFFICES ASSUME WindowIInv, OwnTypeOK, Retry PROVE WindowIInv'
  OBVIOUS
<1>1. /\ UNCHANGED sessionVars /\ UNCHANGED <<timerHide, timerHideMsg>>
      /\ Shows(EnableBoth(Members).shown) /\ Reopen
  BY DEF Retry
<1>2. opened \in BOOLEAN /\ device \in BOOLEAN
  BY DEF OwnTypeOK, VideoTypeOK
<1> QED
  BY <1>1, <1>2, ReopenDoes, ShowsInv

(* Messages, clicks and the two timers.                                    *)
LEMMA ScreenInv ==
    WindowIInv /\ (CardRefused \/ Message \/ ClickAway \/ TimerHide \/ TimerHideMsg)
        => WindowIInv'
<1> SUFFICES ASSUME WindowIInv,
                    CardRefused \/ Message \/ ClickAway \/ TimerHide \/ TimerHideMsg
             PROVE  WindowIInv'
  OBVIOUS
<1>1. UNCHANGED sessionVars /\ UNCHANGED videoVars /\ hfResult' = NoResult
  BY DEF CardRefused, Message, ShowMsg, ClickAway, TimerHide, TimerHideMsg, AllHide
<1>2. CardFirst' /\ GrabsByHand' /\ Up' = Up
  BY <1>1, HidingInv
<1>3. overlay' \in {"msg", "none"}
  BY DEF CardRefused, Message, ShowMsg, ClickAway, TimerHide, TimerHideMsg, AllHide
<1>4. OverlayTruthful'
  BY <1>1, <1>3 DEF WindowIInv, videoVars, OverlayTruthful
<1>5. CASE CardRefused \/ Message
  <2>1. ~displaced' => opened
    BY <1>5 DEF CardRefused, Message, ShowMsg
  <2> QED
    BY <1>1, <1>2, <1>4, <2>1 DEF WindowIInv, OfferStays, videoVars
<1>6. CASE ClickAway \/ TimerHide \/ TimerHideMsg
  <2>1. UNCHANGED <<displaced, opened, timer>>
    BY <1>1, <1>6 DEF ClickAway, TimerHide, TimerHideMsg, videoVars, sessionVars
  <2>2. HidesLater' => HidesLater
    <3>1. CASE ClickAway
      <4>1. (timerHide' => timerHide) /\ (timerHideMsg' => timerHideMsg)
        BY <3>1 DEF ClickAway
      <4> QED
        BY <4>1 DEF HidesLater
    <3>2. CASE TimerHide \/ TimerHideMsg
      BY <3>2 DEF TimerHide, TimerHideMsg, HidesLater
    <3> QED
      BY <1>6, <3>1, <3>2
  <2>3. overlay = "tips" => HidesLater
    BY <1>6 DEF ClickAway, TimerHide, TimerHideMsg, HidesLater
  <2> QED
    BY <1>2, <1>4, <2>1, <2>2, <2>3 DEF WindowIInv, OfferStays
<1> QED
  BY <1>5, <1>6

(* Faces are grabbed for a card or by hand.                                *)
LEMMA BeginInv ==
    ASSUME WindowIInv, TypeOK,
           (\E card \in Cards : CardAccepted(card)) \/ GrabByHand
    PROVE  WindowIInv'
<1>1. /\ overlay' = "grabbing" /\ timer' = TRUE /\ hfResult' = NoResult
      /\ UNCHANGED <<process, thread, results>>
      /\ UNCHANGED <<videoVars, timerHide, timerHideMsg, messages, displaced>>
  BY DEF CardAccepted, Recognize, GrabByHand, ManualGrab, GrapImage
<1>2. CardFirst'
  <2>1. CASE GrabByHand
    BY <1>1, <2>1 DEF WindowIInv, CardFirst, GrabByHand, ManualGrab
  <2>2. CASE \E card \in Cards : CardAccepted(card)
    BY <2>2, CardsAssumption, DlibAssumption DEF CardFirst, CardAccepted, Recognize
  <2> QED
    BY <2>1, <2>2
<1>3. GrabsByHand'
  BY DEF GrabsByHand, CardAccepted, Recognize, GrabByHand, ManualGrab, GrapImage
<1>4. OverlayTruthful' /\ OfferStays'
  BY <1>1 DEF WindowIInv, OverlayTruthful, OfferStays, HidesLater, videoVars
<1> QED
  BY <1>2, <1>3, <1>4 DEF WindowIInv

LEMMA GrabInv ==
    ASSUME WindowIInv, TypeOK, NEW frame \in Frames, Grab(frame)
    PROVE  WindowIInv'
<1>1. /\ Up /\ timer /\ opened
      /\ UNCHANGED <<m_bInRecongnizing, m_IDCardInfo, m_iGrapTotalTimes>>
      /\ UNCHANGED <<videoVars, timerHide, timerHideMsg, messages, displaced>>
  BY DEF Grab, Readable, GrapFaceFrameTimeProc
<1>2. CASE m_iGrapTimes' >= m_iGrapTotalTimes
  <2>1. timer' = FALSE /\ hfResult' = NoResult /\ overlay' = "comparing" /\ EndGrap
    BY <1>2 DEF Grab, GrapFaceFrameTimeProc, EndGrap
  <2>2. CardFirst' /\ (Undisturbed' <=> Undisturbed)
    <3>1. CASE m_bInRecongnizing
      <4>1. m_IDCardInfo # NoCard
        BY <3>1, CardsAssumption, DlibAssumption DEF TypeOK
      <4> QED
        BY <1>1, <2>1, <3>1, <4>1, CompareMishaps DEF EndGrap, DoRecognize, CardFirst
    <3>2. CASE ~m_bInRecongnizing
      BY <1>1, <2>1, <3>2 DEF WindowIInv, EndGrap, CardFirst, Undisturbed, dlibVars
    <3> QED
      BY <3>1, <3>2
  <2> QED
    BY <1>1, <2>1, <2>2 DEF WindowIInv, OverlayTruthful, GrabsByHand,
       OfferStays, videoVars
<1>3. CASE ~(m_iGrapTimes' >= m_iGrapTotalTimes)
  <2>1. UNCHANGED <<dlibVars, timer, hfResult, overlay>>
    BY <1>1, <1>3 DEF Grab, GrapFaceFrameTimeProc
  <2> QED
    BY <1>1, <2>1 DEF WindowIInv, OverlayTruthful, GrabsByHand, CardFirst,
       OfferStays, HidesLater, Undisturbed, Up, videoVars, dlibVars
<1> QED
  BY <1>2, <1>3

LEMMA ResultInv ==
    ASSUME WindowIInv, IInv, Result
    PROVE  WindowIInv'
<1>1. /\ Up /\ results # <<>> /\ m_IDCardInfo # NoCard
      /\ UNCHANGED <<m_IDCardInfo, timer, m_iGrapTotalTimes>>
      /\ UNCHANGED <<videoVars, timerHideMsg, messages>>
  BY DEF Result, RecognizeResultNotify, WindowIInv, CardFirst
<1>2. CardFirst'
  BY <1>1 DEF CardFirst
<1>4. CASE ~Head(results).pass /\ MoreFaces
  <2>1. /\ UNCHANGED <<m_bInRecongnizing, hfResult, overlay, timerHide, displaced>>
        /\ Undisturbed' <=> Undisturbed
    BY <1>4, CompareMishaps DEF Result, RecognizeResultNotify
  <2>2. Up' => OverlayTruthful'
    BY <1>1, <2>1 DEF WindowIInv, OverlayTruthful, videoVars
  <2>3. GrabsByHand' /\ OfferStays'
    BY <1>1, <2>1 DEF WindowIInv, GrabsByHand, OfferStays, HidesLater, videoVars
  <2> QED
    BY <1>2, <2>2, <2>3 DEF WindowIInv, OverlayTruthful
<1>5. CASE ~(~Head(results).pass /\ MoreFaces)
  <2>1. /\ Conclude(Head(results).pass)
        /\ overlay' = "result" /\ displaced' = (displaced \/ ~opened)
    BY <1>5 DEF Result, RecognizeResultNotify
  <2>2. m_bInRecongnizing' = FALSE /\ mishaps' = mishaps
    BY <2>1 DEF Conclude
  <2>3. Up' => hfResult' # NoResult
    BY <1>1, <2>1, VerdictShows DEF Conclude, IInv, Up
  <2>4. timer => ~Undisturbed
    BY <1>1 DEF IInv, Exclusive, Quiet
  <2> QED
    BY <1>1, <1>2, <2>1, <2>2, <2>3, <2>4
       DEF WindowIInv, OverlayTruthful, GrabsByHand, OfferStays, Undisturbed, videoVars
<1> QED
  BY <1>4, <1>5

LEMMA WorkerInv ==
    ASSUME WindowIInv, Worker
    PROVE  WindowIInv'
<1>1. UNCHANGED <<cameraVars, videoVars, overlay, timerHide, timerHideMsg, displaced>>
  BY DEF Worker
<1>2. Up /\ thread # "idle"
  BY DEF Worker, Run, RunNoNetwork, RunSave, RunCompare, RunLoadFails, RunReturn
<1>3. Undisturbed' <=> Undisturbed
  BY DEF Worker, Run, RunNoNetwork, RunSave, RunCompare, RunLoadFails, RunReturn, Undisturbed
<1> QED
  BY <1>1, <1>2, <1>3 DEF WindowIInv, OverlayTruthful, GrabsByHand, CardFirst,
     OfferStays, HidesLater, cameraVars, videoVars

(* Every step of the window keeps what the window says true.               *)
LEMMA WindowInvStep == WindowIInv /\ OwnTypeOK /\ IInv /\ [WindowNext]_windowVars => WindowIInv'
<1> SUFFICES ASSUME WindowIInv, OwnTypeOK, IInv, [WindowNext]_windowVars PROVE WindowIInv'
  OBVIOUS
<1>1. TypeOK
  BY DEF IInv
<1>2. CASE CheckPreview \/ PlugOrUnplug
  BY <1>2 DEF CheckPreview, PlugOrUnplug, SwitchPreview, Replug, WindowIInv,
     OverlayTruthful, GrabsByHand, CardFirst, OfferStays, HidesLater, Undisturbed, Up, vars,
     dlibVars, cameraVars, overlayVars
<1>3. CASE Dead \/ UNCHANGED windowVars
  BY <1>3 DEF Dead, WindowIInv, OverlayTruthful, GrabsByHand, CardFirst,
     OfferStays, HidesLater, Undisturbed, Up, windowVars, videoVars, vars, dlibVars, cameraVars,
     overlayVars
<1> QED
  BY <1>1, <1>2, <1>3, ReadInVainInv, RetryInv, ScreenInv, BeginInv, GrabInv, ResultInv,
     WorkerInv DEF WindowNext

LEMMA WindowInductive == WindowSpec => []WindowIInv
<1>1. WindowSpec => []IInv
  BY WindowRefinement, Inductive, PTL DEF ImplementsSession
<1> QED
  BY <1>1, WindowInitInv, OwnTypeInit, OwnTypeStep, WindowInvStep, PTL DEF WindowSpec

-----------------------------------------------------------------------------
(* What the window says is so.                                             *)
THEOREM OverlayTruthfulAlways == WindowSpec => []OverlayTruthful
<1>1. WindowIInv => OverlayTruthful
  BY DEF WindowIInv
<1> QED
  BY <1>1, WindowInductive, PTL

(* A camera that is lost is offered to be opened again, until something    *)
(* else is shown.                                                          *)
THEOREM RetryOfferedAlways == WindowSpec => []RetryOffered
<1>1. WindowIInv => RetryOffered
  BY DEF WindowIInv, OfferStays, RetryOffered
<1> QED
  BY <1>1, WindowInductive, PTL

(* A verdict or a message on the screen has its timer running, whatever    *)
(* was shown, clicked away or hidden before: it is going to leave.         *)
OverlayTimed ==
    /\ overlay = "result" => timerHide
    /\ overlay = "msg" => timerHideMsg

LEMMA OverlayTimedStep == OverlayTimed /\ [WindowNext]_windowVars => OverlayTimed'
<1> SUFFICES ASSUME OverlayTimed, [WindowNext]_windowVars PROVE OverlayTimed'
  OBVIOUS
<1>1. CASE ReadInVain \/ Retry
  BY <1>1 DEF ReadInVain, Retry, Shows, AllHide, OverlayTimed
<1>2. CASE CheckPreview \/ PlugOrUnplug \/ Worker \/ Dead \/ UNCHANGED windowVars
  BY <1>2 DEF CheckPreview, PlugOrUnplug, Worker, Dead, windowVars, overlayVars, OverlayTimed
<1>3. CASE (\E card \in Cards : CardAccepted(card)) \/ GrabByHand
  BY <1>3 DEF CardAccepted, GrabByHand, OverlayTimed
<1>4. CASE CardRefused \/ Message
  BY <1>4 DEF CardRefused, Message, ShowMsg, AllHide, OverlayTimed
<1>5. CASE \E frame \in Frames : Grab(frame)
  BY <1>5 DEF Grab, OverlayTimed
<1>6. CASE Result
  BY <1>6 DEF Result, OverlayTimed
<1>7. CASE ClickAway \/ TimerHide \/ TimerHideMsg
  BY <1>7 DEF ClickAway, TimerHide, TimerHideMsg, AllHide, OverlayTimed
<1> QED
  BY <1>1, <1>2, <1>3, <1>4, <1>5, <1>6, <1>7 DEF WindowNext

(* The hide timers of main_high.qml are never stopped under their overlay. *)
THEOREM OverlayTimedAlways == WindowSpec => []OverlayTimed
<1>1. WindowInit => OverlayTimed
  <2>1. WindowInit => device \in BOOLEAN /\ overlay = Started.shown
    BY DEF WindowInit, VideoInit
  <2> QED
    BY <2>1, StartedIs DEF OverlayTimed
<1> QED
  BY <1>1, OverlayTimedStep, PTL DEF WindowSpec

(* To whoever stands in front of it the window keeps the promise that      *)
(* FaceVerification states, whatever becomes of the video input and        *)
(* whatever lies over the picture.                                         *)
THEOREM WindowVerifies == WindowSpec => Implements
  BY WindowRefinement, Refinement, PTL DEF ImplementsSession
=============================================================================
