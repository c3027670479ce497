--------------------------------- MODULE HFR ---------------------------------
(***************************************************************************)
(* The program as main() puts it together: the card reader's thread, the   *)
(* handler of newIdCard, which shows a card and asks the camera to         *)
(* recognize it, the verification session with its worker, and the end of  *)
(* the program when the window is closed.                                  *)
(*                                                                         *)
(* OpenCVCamera and IDCardReader describe the parts.  Here they share the  *)
(* GUI thread: no slot of the camera runs in the middle of the handler,    *)
(* and the card a session is opened for is the one the handler passes.     *)
(***************************************************************************)
EXTENDS OpenCVCamera, IDCardReader

CONSTANT Photo \* the value that names the picture recognize() reads

ASSUME ProgramAssumption == Photo \in Fields

VARIABLES misled,  \* history: cards shown since the last accepted one, see Misled
          aborted  \* the program was aborted when the window was closed

programVars == <<vars, cardVars, misled, aborted>>

-----------------------------------------------------------------------------
(* ignored     a card was shown while a session was open                   *)
(* unreadable  the picture of a card shown could not be read               *)
(* refused     the picture of a card shown does not show one face          *)
Misled == {"ignored", "unreadable", "refused"}

ProgramTypeOK ==
    /\ TypeOK
    /\ ReaderTypeOK
    /\ misled \subseteq Misled
    /\ aborted \in BOOLEAN

Running == Up /\ alive /\ ~aborted

(* The event loop is free to run another slot.                             *)
GuiFree == Running /\ gui = "idle"

ProgramInit ==
    /\ Init
    /\ ReaderInit
    /\ misled = {}
    /\ aborted = FALSE

-----------------------------------------------------------------------------
ServiceStep ==
    /\ Running
    /\ Service
    /\ UNCHANGED <<vars, misled, aborted>>

ReaderStep ==
    /\ Running
    /\ ReaderThread
    /\ UNCHANGED <<vars, misled, aborted>>

LastArgument == gui = "pass" /\ step = Len(PassOrder)

(* The handler before its call of camera.recognize.                        *)
HandlerStep ==
    /\ Running
    /\ \/ HandlerStarts
       \/ HandlerShows
       \/ ~LastArgument /\ HandlerPasses
    /\ UNCHANGED <<vars, misled, aborted>>

Ignored_TakesCard ==
    /\ ~AcceptsCard
    /\ misled' = misled \cup {"ignored"}
    /\ m_IDCardInfo' = accepted'[Photo]
    /\ UNCHANGED <<dlibVars, m_bInRecongnizing, timer, m_iGrapTimes, m_iGrapTotalTimes,
                   m_vGrapPerson, m_iPersonIndex, btnGrapFaceImage, hfResult>>
(* recognize() returns at once while a session is open; without a word     *)
(* when it cannot read the picture, and with a message, which takes a      *)
(* verdict away, when the picture does not show one face.                  *)
Ignored ==
    /\ ~AcceptsCard
    /\ misled' = misled \cup {"ignored"}
    /\ UNCHANGED vars

Unreadable ==
    /\ AcceptsCard
    /\ misled' = misled \cup {"unreadable"}
    /\ UNCHANGED vars

Refused ==
    /\ AcceptsCard
    /\ misled' = misled \cup {"refused"}
    /\ hfResult' = NoResult
    /\ UNCHANGED <<dlibVars, m_bInRecongnizing, m_IDCardInfo, timer, m_iGrapTimes,
                   m_iGrapTotalTimes, m_vGrapPerson, m_iPersonIndex, btnGrapFaceImage>>

Accepted(card) ==
    /\ Recognize(card)
    /\ misled' = {}

HandlerCalls_LastCardsPhoto ==
    /\ Running /\ LastArgument
    /\ HandlerPasses
    /\ \/ Ignored
       \/ Unreadable
       \/ /\ accepted[Photo] \in Cards
          /\ Refused \/ Accepted(accepted[Photo])
    /\ UNCHANGED aborted
(* The handler's last read and its call.                                   *)
HandlerCalls ==
    /\ Running /\ LastArgument
    /\ HandlerPasses
    /\ \/ Ignored
       \/ Unreadable
       \/ /\ accepted'[Photo] \in Cards
          /\ Refused \/ Accepted(accepted'[Photo])
    /\ UNCHANGED aborted

-----------------------------------------------------------------------------
WorkerStep ==
    /\ Running
    /\ Run
    /\ UNCHANGED <<cameraVars, cardVars, misled, aborted>>

(* The other slots of the GUI thread.                                      *)
ResultStep == GuiFree /\ RecognizeResultNotify /\ UNCHANGED <<cardVars, misled, aborted>>

GrabStep ==
    /\ GuiFree
    /\ \E frame \in Frames : GrapFaceFrameTimeProc(frame)
    /\ UNCHANGED <<cardVars, misled, aborted>>

ClickStep ==
    /\ GuiFree
    /\ ManualGrab \/ HideResult
    /\ UNCHANGED <<cardVars, misled, aborted>>

CloseWindow_NoWait ==
    /\ GuiFree
    /\ IF thread = "idle"
       THEN /\ gui' = "closed"
            /\ UNCHANGED <<registry, service, unwritten, latest, event, signals, reader, index,
                           sized, members, posted, step, shown, passed, accepted, overlap,
                           openFailed, alive, aborted>>
       ELSE aborted' = TRUE /\ UNCHANGED cardVars
    /\ UNCHANGED <<vars, misled>>
(* exec() returns.  main() deletes the camera and with it the worker; Qt   *)
(* aborts the program when the worker's thread has not finished.  Then the *)
(* QML engine goes, and the card reader's destructor asks its thread to    *)
(* end ...                                                                 *)
CloseWindow ==
    /\ GuiFree
    /\ IF thread = "idle"
       THEN Interrupt /\ UNCHANGED aborted
       ELSE aborted' = TRUE /\ UNCHANGED cardVars
    /\ UNCHANGED <<vars, misled>>

(* ... and waits for that.                                                 *)
JoinReader ==
    /\ Running
    /\ Join
    /\ UNCHANGED <<vars, misled, aborted>>

Stopped == (~Running \/ gui = "closed") /\ UNCHANGED programVars

ProgramNext ==
    \/ ServiceStep \/ ReaderStep
    \/ HandlerStep \/ HandlerCalls
    \/ WorkerStep \/ ResultStep \/ GrabStep \/ ClickStep
    \/ CloseWindow \/ JoinReader
    \/ Stopped

(* As in the parts: threads are scheduled, queued events and running       *)
(* timers are served, somebody stands in front of the camera, and a card   *)
(* the service began to write is finished.                                 *)
ProgramFairness ==
    /\ WF_programVars(ReaderStep)
    /\ WF_programVars(HandlerStep \/ HandlerCalls)
    /\ WF_programVars(WorkerStep)
    /\ WF_programVars(ResultStep)
    /\ WF_programVars(GrabStep)
    /\ WF_programVars(JoinReader)
    /\ WF_programVars(ServiceStep /\ service # NoCard)

ProgramSpec == ProgramInit /\ [][ProgramNext]_programVars
ProgramFairSpec == ProgramSpec /\ ProgramFairness

-----------------------------------------------------------------------------
(* Together the parts still behave as OpenCVCamera and IDCardReader say,   *)
(* so what is proved of each of them holds in the program.                 *)
ImplementsSession == Spec
ImplementsReader == ReaderSpec

(* The card on the screen is the card that is being verified and the card  *)
(* of the verdict, as long as the service waits for one card to be read    *)
(* before it presents the next, unless a card was shown that recognize()   *)
(* did not take: then the screen goes on showing that one.                 *)
ScreenAgrees ==
    gui = "idle" /\ ~overlap /\ misled = {}
        => \A f \in ShownFields :
              /\ m_bInRecongnizing => shown[f] = m_IDCardInfo
              /\ hfResult # NoResult => shown[f] = hfResult.card

(* A session has the name, the number and the picture of one card.         *)
SessionOfOneCard ==
    gui = "idle" /\ ~overlap /\ misled = {} => accepted = Whole(m_IDCardInfo)

(* Closing the window aborts the program only during a session, or at the  *)
(* moment of its verdict, when run() has not returned yet, or after a grab *)
(* by hand in a session: a program at rest closes properly.                *)
AbortsOnlyInSession ==
    aborted => m_bInRecongnizing \/ thread = "emitted" \/ ~Undisturbed

(* A card laid on the reader is verified: its session is opened and comes  *)
(* to an end, unless another card comes, recognize() does not take it, the *)
(* registry cannot be opened, or the session is one of those that do not   *)
(* end.                                                                    *)
CardVerified ==
    \A card \in Cards :
        service = NoCard /\ latest = card
            ~> \/ m_IDCardInfo = card /\ ~m_bInRecongnizing
               \/ service # NoCard \/ latest # card
               \/ openFailed \/ misled # {} \/ ~m_bInit
               \/ mishaps \cap {"regrab", "lostStart"} # {}
               \/ ~Running \/ gui \in {"joining", "closed"}
=============================================================================
