------------------------------ MODULE VideoInput ------------------------------
(***************************************************************************)
(* The video capture device as OpenCVCamera's setEnabled and readMat use   *)
(* it, and OpenCVCameraPreview, whose timer reads a frame for the screen   *)
(* ten times a second.  Whoever reads in vain too often makes the camera   *)
(* emit noVideoInputSignal, whose handler in main_high.qml closes the      *)
(* camera and stops the preview; grabbing goes on.                         *)
(*                                                                         *)
(* MainWindow says what is on the screen meanwhile.                        *)
(***************************************************************************)
EXTENDS Naturals

CONSTANT ErrorLimit \* failed reads until the signal (3 in readMat)

ASSUME VideoAssumption == ErrorLimit \in Nat \ {0}

VARIABLES device,         \* a video capture device is plugged in
          opened,         \* m_cvCap.isOpened()
          cameraEnabled,  \* OpenCVCamera::m_bEnabled
          previewEnabled, \* OpenCVCameraPreview::m_bEnabled; its timer runs
          iErrorTimes     \* failed reads so far, counted up to ErrorLimit

videoVars == <<device, opened, cameraEnabled, previewEnabled, iErrorTimes>>

VideoTypeOK ==
    /\ device \in BOOLEAN
    /\ opened \in BOOLEAN
    /\ cameraEnabled \in BOOLEAN
    /\ previewEnabled \in BOOLEAN
    /\ iErrorTimes \in 0..ErrorLimit

(* readMat() has a frame to return.                                        *)
Readable == opened /\ device

-----------------------------------------------------------------------------
(* What a call finds and leaves behind: the members, and in shown what the *)
(* handlers did to the screen on the way.  Signals are emitted to the same *)
(* thread, so a handler runs, and may call setters itself, before emit     *)
(* returns: calls nest as these operators do.                              *)
Members == [opened |-> opened, cameraEnabled |-> cameraEnabled,
            previewEnabled |-> previewEnabled, shown |-> "same"]

Becomes(v) ==
    /\ opened' = v.opened
    /\ cameraEnabled' = v.cameraEnabled
    /\ previewEnabled' = v.previewEnabled

(* OpenCVCameraPreview::setEnabled.                                        *)
SetPreview(v, b) == [v EXCEPT !.previewEnabled = b]

(* OpenCVCamera::setEnabled(false); onEnabledChanged looks for true only.  *)
Disable(v) == [v EXCEPT !.cameraEnabled = FALSE, !.opened = FALSE]

(* The handler of noVideoInputSignal, whoever emits it.                    *)
NoVideoInput_CameraOnly(v) == [Disable(v) EXCEPT !.shown = "tips"]
NoVideoInput(v) == [SetPreview(Disable(v), FALSE) EXCEPT !.shown = "tips"]

(* OpenCVCamera::setEnabled(true).  When it opens the device, the handler  *)
(* of enabledChanged hides everything; when it cannot, the handler of      *)
(* noVideoInputSignal calls setEnabled(false) before this call returns.    *)
Enable(v) ==
    CASE v.opened             -> [v EXCEPT !.cameraEnabled = TRUE]
      [] ~v.opened /\ device  -> [v EXCEPT !.cameraEnabled = TRUE, !.opened = TRUE, !.shown = "none"]
      [] ~v.opened /\ ~device -> NoVideoInput([v EXCEPT !.cameraEnabled = FALSE])

(* Both main() and the retry button enable the camera and then, whatever a *)
(* handler did meanwhile, the preview.                                     *)
EnableBoth(v) == SetPreview(Enable(v), TRUE)

-----------------------------------------------------------------------------
Started == EnableBoth([opened |-> FALSE, cameraEnabled |-> FALSE, previewEnabled |-> FALSE,
                       shown |-> "same"])

VideoInit ==
    /\ device \in BOOLEAN
    /\ opened = Started.opened
    /\ cameraEnabled = Started.cameraEnabled
    /\ previewEnabled = Started.previewEnabled
    /\ iErrorTimes = 0

(* The failed read that readMat() is about to report is one too many.      *)
TooManyErrors_Exactly == iErrorTimes + 1 = ErrorLimit
TooManyErrors == iErrorTimes + 1 >= ErrorLimit

AfterFailure == IF TooManyErrors THEN NoVideoInput(Members) ELSE Members

(* A failed read.  The counter is static and is never reset: after the     *)
(* first signal every single failure gives the next one.                   *)
ReadFails ==
    /\ ~Readable
    /\ iErrorTimes' = IF iErrorTimes < ErrorLimit THEN iErrorTimes + 1 ELSE iErrorTimes
    /\ Becomes(AfterFailure)
    /\ UNCHANGED device

(* camera.enabled = true; cameraPreview.enabled = true, by the button that *)
(* offers to retry.  Without a device the preview reads in vain until a    *)
(* failed read calls the handler again.                                    *)
Reopen ==
    /\ Becomes(EnableBoth(Members))
    /\ UNCHANGED <<device, iErrorTimes>>

(* The check box, which may have lost its binding to the preview.          *)
SwitchPreview ==
    /\ previewEnabled' \in BOOLEAN
    /\ UNCHANGED <<device, opened, cameraEnabled, iErrorTimes>>

(* Somebody pulls the plug or puts it in.                                  *)
Replug ==
    /\ device' = ~device
    /\ UNCHANGED <<opened, cameraEnabled, previewEnabled, iErrorTimes>>
=============================================================================
