# A model of HFR

HFR compares the face of a person in front of a camera with the photo on the
ID card that person has laid on a reader (Qt 5, OpenCV and dlib, Windows).
This directory models its behaviour in TLA+: what the threads, queued signals,
timers and buttons do to a verification, to the card on its way into the
program, and to the window.

## Inventory

Three threads share the process. The **GUI thread** runs the event loop, every
slot and the QML handlers; the **worker** (`DlibRecognize`) compares two faces;
the **reader thread** (`IDCardReader`) waits for cards. Signals emitted on
another thread are queued for the GUI thread. Nothing but the picture in
`VideoItem` is protected by a lock.

| Component | State | Operations | What makes it correct |
|---|---|---|---|
| Verification session, `OpenCVCamera.cpp` | the session's card, the captured faces and the index of the one being compared, the grab timer and its counts | `recognize`, `grapImage`, `grapFaceFrameTimeProc`, `doRecognize`, `recognizeResultNotify` | one comparison at a time, belonging to the open session; the verdict names the session's card and is positive exactly if a captured face matches; the session ends |
| Comparison worker, `DlibRecognize.cpp` | the pair of faces, two pictures on disk, the thread | `recognize`, `run` | every request gets a result; requests do not race with `run` |
| ID card reader, `IDCardReader.cpp` | the named event, the members read from the registry | `run`, the getters, destructor | whole cards, none lost, thread ends |
| Video input, `OpenCVCamera.cpp` and `OpenCVCameraPreview.cpp` | device, `m_bEnabled` twice, a static error counter, preview timer | `setEnabled` twice, `readMat`, `updateFrame` | a loss is noticed; a preview without a camera stops; the user can retry |
| Main window, `main_high.qml` | one of six overlays, two hide timers, the grab button | the `show...` functions, handlers of signals, clicks and timers | the window says what is so; overlays that cover the buttons go away |
| List of grabbed pictures, `GrapImageListModel.cpp`, `GrapImageProvider.cpp` | pictures, an id counter, a map from ids to pictures | `addGrapImage`, `clearGrapImage`, `data`, `requestImage` | a row's id shows the row's picture |
| Video item, `VideoItem.cpp` | a picture under a mutex, the times of the last paints | `updateFrame`, `updatePaintNode` | no torn picture; the last picture is shown; the frame rate counts the paints of the last second |
| Registry access, `RegKey.cpp` | a key handle | open, read, write, delete a value, delete a tree of keys | what was written is read; a tree is deleted in the view that was meant; handles are closed |
| Watched key and versions, `CmnUtil.cpp` | a key, an event, a thread; none | open, attach, watch, close; `GetOsVersion` | the thread uses no closed key, the watch can be closed; version names as in the table |
| Other utilities, `CmnUtil.cpp` | thread timer, process list, files | many; the program uses only the text conversions | |
| Start and shutdown, `main.cpp` | | construction, `exec()`, deletion of the parts | the program ends, and does not abort, when the window is closed |

`OpenCVRecognize` is not called by anything; `OpenCVDetect` and `OpenCVCommon`
wrap OpenCV. dlib, OpenCV and the binaries under `Win32` are third-party.

How they interact: the service behind the card reader writes the card into the
registry and sets an event; the reader thread copies it into its members and
queues `newIdCard`; its QML handler calls `camera.recognize`; that starts the
grab timer, whose tick reads frames until one shows faces and hands the first
face to the worker; the worker queues a result, whose slot hands over the next
face or gives the verdict and shows it. The camera, read by the preview's
timer, the grab timer and a button, reports a lost device to a QML handler
that disables the camera and the preview and offers to retry.

The hard behaviours are listed one by one as hazards in `PROJECT.json`.

## Modules

| Module | Models | Extends |
|---|---|---|
| `IDCards` | the cards | |
| `DlibRecognize` | the worker: `Compare` is `recognize`, `Run...` the steps of `run` | `IDCards` |
| `OpenCVCamera` | the session: one action per slot, with the grab button and the verdict of the window | `DlibRecognize` |
| `FaceVerification` | abstract: what a verification promises | |
| `IDCardReader` | the card service (external), the reader thread and the handler of `newIdCard` | `IDCards` |
| `HFR` | the program as `main()` builds it: session, worker, card reader and handler on their threads, and the shutdown | `OpenCVCamera`, `IDCardReader` |
| `VideoInput` | camera device and preview: the setters and the handler they call, as operators on the members, and the steps made of them | |
| `MainWindow` | session, video input, overlays and hide timers together | `OpenCVCamera`, `VideoInput` |
| `VideoItem` | the picture on the screen and the frame rate: GUI thread, render thread and clock; the two threads share nothing but the mutex, although Qt lets one wait for the other | |
| `GrapImages` | the list of grabbed pictures: `GrapImageListModel`, `GrapImageProvider` and the delegates of the list | |
| `RegKey` | class `RegKey`: deletion of keys and values, reading and writing, between the acts of other programs | |
| `RegKeyWatch` | `cpp4j::RegKey`: an owner's calls and the watching thread | |
| `OsVersion` | `cpp4j::OSVersion` and the table in the comment above it | |
| `MC...` | constants for TLC | |
| `..._proofs` | theorems and their proofs | |

`HFR` and `MainWindow` both compose with the session, each along one side:
`HFR` adds where the cards come from and the end of the program, `MainWindow`
what the camera and the overlays do to it. Each is shown to implement the
session's own specification, so neither needs the other. In `HFR` the arguments
of `recognize` come from the handler; in `OpenCVCamera` alone they are any card.

**Names.** Variables carry the members' names (`m_iPersonIndex`, `m_vGrapPerson`,
`iErrorTimes`); actions carry the slots' names where there is one.

**Grain.** A slot or handler on the GUI thread is one step, with every signal it
emits to the same thread. Where such a signal calls back into the object that
emits it, the calls nest in the model as they do in the code: `Enable`, which
is `setEnabled(true)`, contains `NoVideoInput`, the handler, which contains
`Disable`, which is `setEnabled(false)`; each takes a record of the members and
returns what it leaves of them, so a caller goes on with what the inner calls
left, and `EnableBoth` starts a preview the handler has just stopped. Threads
are cut where another thread can see the
difference: `run` of the worker before and after it has written the two
pictures, after the result was queued, and after it returned, because
`start()` does nothing until then; `run` of the reader before every query of
the registry, and the handler before every member it reads; `updateFrame` and
`updatePaintNode` where they take and release the mutex and where they ask for
and answer a repaint. `DeleteKey` is cut at every call of Win32, for other
programs share the registry; its recursion is a stack of frames.

**Data.** A card stands for the face in its photo, a face for an image region,
`Match` for the network and its threshold. A value of the registry or a member
of `IDCardReader` is represented by the card it belongs to. Pictures of the
preview are numbered; the clock counts ticks, and `Window` is a second. A
registry key is its path below the key that is deleted, and the value read and
written is a list of strings of characters, of which one is the terminator,
because the size of a buffer, and so what is read, depends on the terminators.

**Undefined behaviour.** Members assigned while another thread uses them end up
with the old or the new value, or the process ends (`AssignFaces`,
`Racing`/`Readable`/`Survives`); a read past the end of `m_vGrapPerson` yields
garbage or ends the process (`Conclude`); a walk through a buffer nobody filled,
or past one without a terminator, yields `Garbage`, which equals no value.

**History variables.** `mishaps` (a grab by hand in an open session, a lost
start, a race, an unwritten picture), `overlap` and `openFailed` (in the card
reader), `misled` (in the program: a card was shown that `recognize` did not
take), `displaced` (in the window), `fit` (in the registry: nothing was in the
way of a deletion), `painted` and `rewound` (in the video item) say under which
circumstances a promise is not kept. They never occur in a guard of an
operation.

**What the session leaves out** is in `MainWindow`: a grab timer's tick that
reads no frame. A tick whose frame shows no face changes nothing anywhere.

## What is checked

| Run | Instance | Shows |
|---|---|---|
| `session` | 2 cards, 2 faces matching crosswise, frames of up to 2 faces, 2 frames per manual grab, no manual grab with 2 results pending | `OneComparison`; `RaceNeedsRegrab`; `NoSilentStall`; `DiesOnlyOf`; `VerdictCorrect`; `CaptureArchived`; `Implements` (refinement of `FaceVerification`) |
| `session_liveness` | the same with 1 result pending | `SessionConcludes`, `ButtonComesBack` |
| `card_reader` | 2 cards of 2 values, 3 signals | `CardWhole`, `DiesOnlyOfOverlap`, `NothingLost`, `LatestCardArrives`, `ShutdownCompletes` |
| `program` | 2 cards of 2 values, one of which matches the only face, 2 signals, 1 result pending | `ScreenAgrees`, `AbortsOnlyInSession`, `ImplementsSession`, `ImplementsReader` |
| `program_liveness` | the same with no result pending | `CardVerified` |
| `window` | 1 card that does not match, 1 face per frame, 2 frames per manual grab, 1 result or message pending, 3 errors until the signal as in the code | `OverlayTruthful`, `RetryOffered`, `ImplementsSession`, `LossNoticed`, `PreviewStops`, `OverlayLeaves` |
| `video_item` | 3 pictures, 5 readings of the clock, a second of 2 ticks, 1 setting back of the clock | `FpsOfLastSecond`, `FpsNotTooLow`, `LatestShown` |
| `grab_list` | 2 pictures, 2 rows, 5 addresses | `RowsShown`, `EnlargedShown` |
| `registry` | every tree of up to 5 keys in each of two views, one key locked, lists of up to 2 strings, 2 acts of other programs | `DeletesAll`, `HandlesClosed`, `OtherViewKept`, `ReadsBack` |
| `key_watch` | 3 handles | `WatcherOwned`, `StaleOnlyInClose`, `EndsOnlyUnfit`, `KeysReleased`, `CloseReturns` |
| `os_version` | every combination of the inputs | `NamedUpTo8_1` |
| `os_version_10` | the same | `NamedWindows10` is violated |

Type invariants and the properties marked * under "What is proved" take no
place in a run: they are proved.

**Are the instances large enough?** Two faces in a frame reach "a further face"
and "no further face", two cards tell a verdict about the right card from one
about another, two pending results (one queued, one about to be) are what a
leftover result needs. Two frames per manual grab tell "more to come" from
"last one"; five would add only repetitions. Manual grabs are bounded by the
results they leave behind (`MaxResults`), not in number. In the card reader
two values are read in one order and shown in the other, so both may be
replaced between a reading and a showing; three signals let one reading be
overtaken twice. The window asks nothing that depends on the number of faces,
on which card it is or on whether the verdict is positive, so one face and one
card are enough there; its manual grab takes two frames and a session's one,
or the line that says "comparing" could not be told to be a manual grab's.
Manual grabs stop there as long as a result or a message is pending. Three
pictures
make four paints with that of the layout, one more than fit a second of two
ticks, and leave one for after the clock was set back. The keys of `registry`
have two subkeys at the top and two further down, so the enumeration counts
down and the recursion returns to a level it has not finished; the locked key
fails it in the middle, and two acts of others reach a key that is deleted and
created again under an open handle. Three handles are one the object has, one
it may be attached to and one of the rest of the program. Five addresses are
enough for a list that is filled, scrolled, cleared and filled again while the
enlarged picture still has an address of the first list. What the bounds on the
pictures, the keys, the faces and the signals leave out, the proofs cover.

**What the runs tell about the code.**

* A verification is right as long as nobody presses the grab button during one
  and the pictures can be written. With the button, everything fails that can:
  results are lost or counted for the next session, the list of captured faces
  is indexed out of range, members are raced for. Without the button, one
  thing remains: the result slot may run before the worker's `run` has
  returned, `start()` then does nothing, and the session stays open for good,
  ignoring every later card.
* The card reader is right if the service waits for one card to be handled; if
  it does not, cards can be mixed or the process can die, but the last card
  presented still arrives whole once everything rests.
* The card on the screen and the card of the verdict may differ: the handler
  shows every card before it calls `recognize`, which returns without a word
  when a session is open or the picture cannot be read. Only when `recognize`
  took every card shown since the last session began do they agree
  (`ScreenAgrees`).
* Closing the window while the worker compares aborts the program: `main`
  deletes the camera and with it the thread object of a running thread. It does
  not happen between sessions (`AbortsOnlyInSession`).
* When the camera cannot be opened, the handler stops the preview, and then
  the caller starts it: it reads in vain until a failed read calls the handler
  again, the third or, once the count has been reached, the first
  (`PreviewStops`).
* The retry button can be hidden by the timer of an earlier verdict or message,
  and a grab by hand leaves "comparing" on the screen.
* After the clock was set back the frame rate is too high until the clock has
  caught up, because the list of times is emptied only from the front; it is
  never too low then.
* `RegKey::DeleteKey` with NULL for the subkey empties the key, but returns
  FALSE and leaves it. `GetMultiSZValue` tests Win32's error codes with
  `SUCCEEDED`, which takes them all for success: when the value grows between
  the question for its size and the reading, it walks a buffer that was not
  filled. A value that others change in any other way meanwhile is read as it
  is then (`ReadsBack`). `SetSZValue` writes a string without its terminator, and what
  `GetSZValue` makes of that depends on what lies behind its buffer.
* `cpp4j::RegKey::Close`, which waits for its thread, returns, with two
  exceptions: after `Detach` nothing ends the thread until the registry
  changes, and when the key is closed between the thread's test and its call,
  and its handle is opened for another key in that moment, the thread waits for
  that other key.

**The finding.** `GetOsVersion` tests for version 10.3 where the table above it
says 10.0.

## Fairness

Weak fairness of the worker, of the delivery of queued events, of timers that
run, of the reader thread and of the handler: the operating system schedules
the threads and the GUI thread returns to its event loop, since every handler
terminates. `session_liveness` and `program_liveness` also assume that a
running grab timer sees a face sooner or later, because the code waits for one
without a limit; `window` assumes only that timers read. A card service
that began to write a card finishes. The owner of a watched registry key and
its watching thread are scheduled. In `VideoItem` Qt answers a request for a
repaint, and a thread that waits for the mutex gets it in the end (strong
fairness, since the other thread may hold it again and again, each time for no
longer than a copy or a texture takes). Nobody has to present a card, click,
plug in a camera, close the window, emit a picture or change the registry.

The safety properties of `card_reader`, `window`, `key_watch` and `video_item`
are checked in the same run as the liveness properties; fairness excludes no
reachable state.

## What is proved

TLAPS checks, for all values of the constants allowed by the `ASSUME`s, every
property of the runs that is not a liveness property, and some properties that
take no place in a run (marked *; TLC checked them before they were proved):

* `OpenCVCamera_proofs`: `TypeCorrect`, `OneComparisonAlways`,
  `RaceNeedsRegrabAlways`, `NoSilentStallAlways`, `DiesOnlyOfAlways`,
  `VerdictCorrectAlways`, `CaptureArchivedAlways`, `ResultIsCurrentAlways`*,
  `ButtonFollowsTimerAlways`*, and `Refinement`: the session implements
  `FaceVerification`.
  The invariant `IInv` adds to the properties what an undisturbed session looks
  like in each of its phases: `Grabbing` (the timer runs, nothing is captured
  for it but this session's faces, and the worker is quiet) and
  `ComparingCurrent` (the pair the worker or the queue has is the session's
  card with the face at `m_iPersonIndex`, and all faces before it failed).
  Without the latter `VerdictCorrect` is not inductive: it speaks of faces
  compared in earlier steps.
* `IDCardReader_proofs`: `ReaderTypeCorrect`, `CardWholeAlways`,
  `DiesOnlyOfOverlapAlways`, `NothingLostAlways`, `PassesLatestAlways`*. The
  invariant has two parts. `Sequential`, for a service that waits: service,
  reader and handler are never at work at the same time, and each finds what
  the one before it left. `Fresh`, for any service: once no signal is
  outstanding, what was read, what is in the members, what was shown and what
  was passed on is the last card.
* `HFR_proofs`: `SessionInProgram` and `ReaderInProgram` (every step of the
  program is a step or a stutter of each part, so all of the above holds in the
  program), `ProgramTypeCorrect`, `ScreenAgreesAlways`,
  `SessionOfOneCardAlways`*, `AbortsOnlyInSessionAlways`; from these follow
  `ProgramVerifies` (the whole program implements `FaceVerification`),
  `VerdictOnShownAlways`* (the verdict is about the card on the screen),
  `VerifiedAtRestAlways`* (at rest the card presented last has been dealt with)
  and `EndsOnlyOfAlways`* (what can end the program). What is new in
  `ProgramIInv` is where the two parts meet: `SameCard` (between two handlers,
  what was passed on and shown is the session's card) and `VerdictOfSession`
  (a verdict on display names it). Their steps use `CardWhole`'s invariant for
  the handler's last call and the session's `IInv` for the verdict.
  `VerifiedAtRest` needs `PhotoTaken` besides: the session has the photo that
  `recognize` took last.
* `MainWindow_proofs`: `WindowRefinement` (the window implements
  `OpenCVCamera`'s `Spec`, so all of the above about sessions holds in the
  window too, with `WindowVerifies` for `FaceVerification`),
  `WindowTypeCorrect`, `OverlayTruthfulAlways`, `RetryOfferedAlways`,
  `OverlayTimedAlways`*. `HandlerDoes`, `EnablingDoes` and `FailureDoes` say
  what the nested calls come to; `WindowIInv` adds that nothing
  is compared before the first card, that only the button grabs outside a
  session, and that no timer is about to hide an offer that is not displaced;
  the step of a verdict also uses the session's `IInv`.
* `VideoItem_proofs`: `VideoTypeCorrect` (with `TextureWhole`*),
  `FpsOfLastSecondAlways`, `FpsNotTooLowAlways`, `RepaintPendingAlways`*,
  `LastShownAtRestAlways`*, `ShownInOrderAlways`*. The list of times is always
  a suffix of the history of paints; what was cut off in front was too old,
  and, where the clock has not gone back, the suffix is sorted, so nothing
  behind its first element is too old. For the pictures, `Emitted` orders them
  along their way (texture, then copy, then what was emitted), and
  `RepaintPending` says who is going to ask for the repaint of a copy that was
  not taken yet.
* `RegKey_proofs`: `RegTypeCorrect`, `HandlesClosedAlways`,
  `OtherViewKeptAlways`, `DeletesAllAlways`, `TrueMeansGoneAlways`*,
  `LockedKeptAlways`*, for any tree of keys, and `ReadsBackAlways`, for any
  value, whoever writes while it is read. `HandlesInv` counts the open handles by the frames on the stack.
  `Free` describes a deletion nobody disturbs: the frames are a path
  (`OnPath`), every call under way has as many keys to go as are left below its
  key, less the one it has gone on to (`ToGo`), and a call that returns has
  emptied its key (`Emptied`). The count is what makes the enumeration from the
  last key down to the first miss none. `OpenedInv` is what keeps a locked key:
  a key on the stack was opened, unless it is the caller's own or
  `RegDeleteSubKeys` is about to try.
  `ReadsBack` is about two functions that recur over the characters of a value,
  `Terminated`, which writes them, and `Walk`, which reads them. That they
  exist and compute what they should is not shown by induction but from the
  least place where they would not (`SmallestPlace`), over finite
  approximations of each. `ReadInv` carries the size from the question to the
  reading.
* `CmnUtil_proofs`, of `RegKeyWatch`: `TypeCorrect`, `WatcherOwnedAlways`,
  `StaleOnlyInCloseAlways`, `EndsOnlyUnfitAlways`, `KeysReleasedAlways`,
  `ClosingWakesAlways`*, `CloseNotBlockedAlways`*. Its `IInv` says what Close
  still has to close and to take over (`Closing`), that the event tells whether
  there has been a watch (`EventTells`), and that a detached key is not
  replaced while it is watched (`DetachedLast`). `KeyWatched` and `WaitArmed`
  add which key the thread waits for. Of `OsVersion`: `NamedUpTo8_1Always`
  for any version numbers, and `Windows10UnknownAlways`*, the finding for
  every machine that reports version 10.0.
* `GrapImages_proofs`: `TypeCorrect`, `RowsShownAlways`, `EnlargedShownAlways`,
  `AddressesLastAlways`*, from the picture every delegate was made for.

The assumptions are those of the modules: `CardsAssumption` and
`DlibAssumption` (matches relate cards and faces, the null values are not cards
or faces), `CameraAssumption`, `GrapAssumption` and the two `VideoAssumption`s
(bounds are natural numbers, and positive where the code needs that),
`ReaderAssumption` (every value of a card is read and passed on),
`ProgramAssumption` (the photo is one of the values), `KeysAssumption` (the
null handle is not a key) and `RegAssumption` (the possible keys form a tree,
with distinct names; a string has no terminator inside, being copied as a C
string). TLC evaluates all of them.

**Only model-checked:** the liveness properties, which are out of the prover's
reach: `SessionConcludes`, `ButtonComesBack`, `LatestCardArrives`,
`ShutdownCompletes`, `CardVerified`, `LossNoticed`, `PreviewStops`,
`OverlayLeaves`, `LatestShown` and `CloseReturns`. What makes most of them true is proved as a
safety property:

| Liveness | Its safety core |
|---|---|
| `SessionConcludes` | `NoSilentStall`: a session that stands still has a named reason |
| `ButtonComesBack` | `ButtonFollowsTimer`: no order of clicks and results leaves the button disabled without a timer |
| `LatestCardArrives` | `NothingLost`: at rest the last card was handled |
| `CardVerified` | `VerifiedAtRest`: at rest the last card was verified |
| `OverlayLeaves` | `OverlayTimed`: what covers the buttons has a timer |
| `LatestShown` | `RepaintPending`, `LastShownAtRest`, `ShownInOrder` |
| `CloseReturns` | `ClosingWakes`, `CloseNotBlocked`: Close waits for nobody who was not woken |

That the timers, threads and queues get there is fairness, and TLC's part.
`LossNoticed`, `PreviewStops` and `ShutdownCompletes` have no such core beyond
the type invariants and `AbortsOnlyInSession`.

## Not modelled

* What dlib and OpenCV compute (`Match`, the faces of a frame), and the face
  detector's classifier: third-party numerics. The libraries under `dlib-19.7`,
  `opencv` and `Win32` are source and binaries of others and are the greater
  part of the repository by far; the map covers HFR's own code.
* Live face detection in the preview, a switch and rectangles drawn into the
  picture before it is emitted; nothing else reads them.
* The conversions between `QImage` and `cv::Mat` and of text encodings, layout,
  styles, fonts, the log.
* `OpenCVRecognize`, an earlier comparison that nothing calls.
* `cpp4j`'s thread timer, process finder, file operations, creation of
  processes, and the escaping of URLs and SQL: the program uses none of them,
  and they pass their arguments to Windows or map characters one by one. The
  code of `cpp4j::RegKey` for values and trees of keys is, line for line, that
  of `RegKey.cpp`, which `RegKey` models.
* Numbers and binary values of the registry, which are read in one call.
* Reading a value's characters as UTF-16: a character is a number, and a size
  counts characters. Strings with a terminator inside, which
  `CreateDoubleNulTermList` would copy only up to it.
