---------------------------- MODULE CmnUtil_proofs ----------------------------
(***************************************************************************)
(* Proofs about the watched registry key, for any number of handles, and   *)
(* about the version of Windows, for any version numbers: the two parts of *)
(* CmnUtil.cpp that keep a state of their own.                             *)
(***************************************************************************)
EXTENDS RegKeyWatch, OsVersion, TLAPS

(* What Close has to close and what it will take over.                     *)
Closing ==
    /\ mine \subseteq {m_hkey, closing}
    /\ closing \in mine \cup {NULL}
    /\ owner = "closes" <=> closing # NULL
    /\ owner \in {"closes", "joins", "gone"} => m_hkey = NULL
    /\ owner \in {"closes", "joins"} /\ op = "Attach" => arg \in open \ mine

(* The event tells whether there has been a watch.                         *)
EventTells ==
    /\ event = "none" => watcher = "none" /\ ~m_hNotifyThr /\ ~detached
    /\ event = "closed" => owner = "gone"

(* A detached key is not replaced before its watcher has ended.            *)
DetachedLast == m_hNotifyThr /\ detached => m_hkey = NULL

IInv ==
    /\ TypeOK
    /\ Closing
    /\ EventTells
    /\ DetachedLast
    /\ WatcherOwned
    /\ StaleOnlyInClose
    /\ EndsOnlyUnfit

-----------------------------------------------------------------------------
LEMMA InitInv == Init => IInv
BY DEF Init, IInv, TypeOK, Closing, EventTells, DetachedLast, WatcherOwned, Running,
       StaleOnlyInClose, EndsOnlyUnfit, Event, Op, Owner, Watcher

(* What the rest of the program and the registry do.                       *)
LEMMA ElsewhereStep == IInv /\ (OpenElsewhere \/ CloseElsewhere \/ Change) => IInv'
<1> SUFFICES ASSUME IInv, OpenElsewhere \/ CloseElsewhere \/ Change PROVE IInv'
  OBVIOUS
<1> USE KeysAssumption
<1>1. CASE OpenElsewhere
  <2>1. TypeOK' /\ Closing'
    BY <1>1 DEF OpenElsewhere, Opened, ownerVars, watcherVars, IInv, TypeOK, Closing
  <2>2. EventTells' /\ DetachedLast' /\ WatcherOwned' /\ StaleOnlyInClose'
    BY <1>1 DEF OpenElsewhere, ownerVars, watcherVars, IInv, EventTells, DetachedLast,
       WatcherOwned, Running, StaleOnlyInClose
  <2>3. EndsOnlyUnfit'
    BY <1>1 DEF OpenElsewhere, Opened, ownerVars, watcherVars, IInv, TypeOK, EndsOnlyUnfit
  <2> QED
    BY <2>1, <2>2, <2>3 DEF IInv
<1>2. CASE CloseElsewhere
  <2>1. TypeOK' /\ Closing'
    BY <1>2 DEF CloseElsewhere, RegCloseKey, ownerVars, watcherVars, IInv, TypeOK, Closing, Event
  <2>2. EventTells' /\ WatcherOwned'
    BY <1>2 DEF CloseElsewhere, RegCloseKey, ownerVars, watcherVars, IInv, EventTells,
       WatcherOwned, Running
  <2>3. DetachedLast' /\ StaleOnlyInClose' /\ EndsOnlyUnfit'
    BY <1>2 DEF CloseElsewhere, RegCloseKey, ownerVars, watcherVars, IInv, DetachedLast,
       StaleOnlyInClose, EndsOnlyUnfit
  <2> QED
    BY <2>1, <2>2, <2>3 DEF IInv
<1>3. CASE Change
  BY <1>3 DEF Change, watcherVars, IInv, TypeOK, Closing, EventTells, DetachedLast,
     WatcherOwned, Running, StaleOnlyInClose, EndsOnlyUnfit, Event, Owner
<1> QED
  BY <1>1, <1>2, <1>3

(* Close, up to the end of the thread.                                     *)
LEMMA CloseStep == IInv /\ (Begin \/ CloseKey) => IInv'
<1> SUFFICES ASSUME IInv, Begin \/ CloseKey PROVE IInv'
  OBVIOUS
<1> USE KeysAssumption
<1>1. CASE Begin
  <2>1. TypeOK'
    BY <1>1 DEF Begin, StartClose, keyVars, watcherVars, IInv, TypeOK, Owner
  <2>2. Closing'
    BY <1>1 DEF Begin, StartClose, keyVars, watcherVars, IInv, TypeOK, Closing
  <2> QED
    BY <1>1, <2>1, <2>2 DEF Begin, StartClose, keyVars, watcherVars, IInv, EventTells,
       DetachedLast, WatcherOwned, Running, StaleOnlyInClose, EndsOnlyUnfit
<1>2. CASE CloseKey
  BY <1>2 DEF CloseKey, RegCloseKey, watcherVars, IInv, TypeOK, Closing, EventTells, DetachedLast,
     WatcherOwned, Running, StaleOnlyInClose, EndsOnlyUnfit, Event, Owner
<1> QED
  BY <1>1, <1>2

(* Once the thread has ended a new key may take the place of the old one.  *)
LEMMA FinishStep == IInv /\ Finish => IInv'
<1> SUFFICES ASSUME IInv, Finish PROVE IInv'
  OBVIOUS
<1> USE KeysAssumption
<1>1. /\ ~Running /\ m_hkey = NULL /\ closing = NULL /\ mine = {} /\ m_hNotifyThr' = FALSE
      /\ UNCHANGED <<op, closing, watcherVars, detached>>
  BY DEF Finish, Joined, IInv, TypeOK, Closing, WatcherOwned, Running
<1>2. EventTells'
  <2>1. CASE FinishDestructor
    BY <1>1, <2>1 DEF FinishDestructor, watcherVars, IInv, EventTells
  <2>2. CASE UNCHANGED event
    BY <1>1, <2>2 DEF Finish, watcherVars, IInv, EventTells
  <2> QED
    BY <2>1, <2>2 DEF Finish, FinishClose, FinishOpen, FinishAttach
<1>3. DetachedLast' /\ WatcherOwned' /\ StaleOnlyInClose' /\ EndsOnlyUnfit'
  BY <1>1 DEF watcherVars, DetachedLast, WatcherOwned, Running, StaleOnlyInClose, EndsOnlyUnfit
<1>4. TypeOK' /\ Closing'
  <2>1. CASE FinishClose
    BY <1>1, <2>1 DEF FinishClose, keyVars, watcherVars, IInv, TypeOK, Closing, Owner
  <2>2. CASE FinishOpen
    BY <1>1, <2>2 DEF FinishOpen, Opened, watcherVars, IInv, TypeOK, Closing, Owner
  <2>3. CASE FinishAttach
    BY <1>1, <2>3 DEF Finish, FinishAttach, keyVars, watcherVars, IInv, TypeOK, Closing, Owner
  <2>4. CASE FinishDestructor
    BY <1>1, <2>4 DEF FinishDestructor, keyVars, watcherVars, IInv, TypeOK, Closing, Owner, Event
  <2> QED
    BY <2>1, <2>2, <2>3, <2>4 DEF Finish
<1> QED
  BY <1>2, <1>3, <1>4 DEF IInv

LEMMA DetachStep == IInv /\ Detach => IInv'
<1> SUFFICES ASSUME IInv, Detach PROVE IInv'
  OBVIOUS
<1> USE KeysAssumption
<1>1. detached' \in BOOLEAN /\ (detached' <=> detached \/ Running)
  BY DEF Detach, IInv, TypeOK, Running
<1> QED
  BY <1>1 DEF Detach, keyVars, ownerVars, watcherVars, IInv, TypeOK, Closing, EventTells,
     DetachedLast, WatcherOwned, Running, StaleOnlyInClose, EndsOnlyUnfit

LEMMA WatchStep == IInv /\ (WatchForChange \/ WaitForChange) => IInv'
<1> SUFFICES ASSUME IInv, WatchForChange \/ WaitForChange PROVE IInv'
  OBVIOUS
<1> USE KeysAssumption
<1>1. CASE WatchForChange
  BY <1>1 DEF WatchForChange, keyVars, IInv, TypeOK, Closing, EventTells, DetachedLast,
     WatcherOwned, Running, StaleOnlyInClose, EndsOnlyUnfit, Event, Watcher
<1>2. CASE WaitForChange
  BY <1>2 DEF WaitForChange, keyVars, watcherVars, IInv, TypeOK, Closing, EventTells,
     DetachedLast, WatcherOwned, Running, StaleOnlyInClose, EndsOnlyUnfit, Owner
<1> QED
  BY <1>1, <1>2

LEMMA WatchingStep == IInv /\ Watching => IInv'
<1> SUFFICES ASSUME IInv, Watching PROVE IInv'
  OBVIOUS
<1> USE KeysAssumption
<1>1. CASE Test \/ Wake \/ Call
  BY <1>1 DEF Test, Wake, Call, keyVars, ownerVars, IInv, TypeOK, Closing, EventTells,
     DetachedLast, WatcherOwned, Running, StaleOnlyInClose, EndsOnlyUnfit, Event, Watcher
<1>2. CASE Arm
  <2>1. /\ UNCHANGED <<open, notifies, m_hkey, ownerVars, seen, mine, detached>>
        /\ watcher' \in {"wait", "done"} /\ armed' \in notifies \cup {NULL}
        /\ event' \in {event, "set"}
    BY <1>2 DEF Arm, IInv, TypeOK
  <2>2. TypeOK' /\ Closing'
    BY <2>1 DEF ownerVars, IInv, TypeOK, Closing, Event, Watcher
  <2>3. EventTells' /\ WatcherOwned' /\ StaleOnlyInClose' /\ DetachedLast'
    BY <1>2, <2>1 DEF Arm, ownerVars, IInv, EventTells, DetachedLast, WatcherOwned, Running,
       StaleOnlyInClose
  <2>4. EndsOnlyUnfit'
    BY <1>2, <2>1 DEF Arm, ownerVars, IInv, DetachedLast, WatcherOwned, Running,
       StaleOnlyInClose, EndsOnlyUnfit
  <2> QED
    BY <2>2, <2>3, <2>4 DEF IInv
<1> QED
  BY <1>1, <1>2 DEF Watching

LEMMA Inductive == Spec => []IInv
<1>1. IInv /\ UNCHANGED vars => IInv'
  BY DEF vars, keyVars, ownerVars, watcherVars, IInv, TypeOK, Closing, EventTells, DetachedLast,
     WatcherOwned, Running, StaleOnlyInClose, EndsOnlyUnfit
<1>2. IInv /\ [Next]_vars => IInv'
  BY <1>1, ElsewhereStep, CloseStep, FinishStep, DetachStep, WatchStep, WatchingStep
     DEF Next, Gone
<1> QED
  BY <1>2, InitInv, PTL DEF Spec

-----------------------------------------------------------------------------
(* The members keep their types; a key the object has is open.             *)
THEOREM TypeCorrect == Spec => []TypeOK
<1>1. IInv => TypeOK
  BY DEF IInv
<1> QED
  BY <1>1, Inductive, PTL

(* The thread never outlives the object or the event it waits for.         *)
THEOREM WatcherOwnedAlways == Spec => []WatcherOwned
<1>1. IInv => WatcherOwned
  BY DEF IInv
<1> QED
  BY <1>1, Inductive, PTL

(* The thread uses a key that is not the object's only while Close waits   *)
(* for it, or after Detach.                                                *)
THEOREM StaleOnlyInCloseAlways == Spec => []StaleOnlyInClose
<1>1. IInv => StaleOnlyInClose
  BY DEF IInv
<1> QED
  BY <1>1, Inductive, PTL

(* The thread ends by itself only for a key that it cannot wait for.       *)
THEOREM EndsOnlyUnfitAlways == Spec => []EndsOnlyUnfit
<1>1. IInv => EndsOnlyUnfit
  BY DEF IInv
<1> QED
  BY <1>1, Inductive, PTL

(* No key is left open by the destructor.                                  *)
THEOREM KeysReleasedAlways == Spec => []KeysReleased
<1>1. IInv => KeysReleased
  BY KeysAssumption DEF IInv, TypeOK, Closing, KeysReleased
<1> QED
  BY <1>1, Inductive, PTL

-----------------------------------------------------------------------------
(* The owner is at a key, and the thread watches that one: what Close      *)
(* relies on when it closes the key and then waits for the thread.         *)
AtKey == owner \in {"idle", "waits", "closes"} /\ ~detached
OwnKey == IF owner = "closes" THEN closing ELSE m_hkey

KeyWatched ==
    /\ AtKey /\ Running => OwnKey # NULL
    /\ AtKey /\ watcher = "arm" => seen = OwnKey
    /\ AtKey /\ watcher = "wait" /\ event = "clear" => armed = OwnKey

(* A thread that waits can be woken: some change signals its event.  The   *)
(* object has the handle of a thread only when there has been one.         *)
WaitArmed ==
    /\ watcher = "wait" /\ event = "clear" => armed # NULL
    /\ m_hNotifyThr => watcher # "none"

LEMMA KeyWatchedInit == Init => KeyWatched /\ WaitArmed
BY DEF Init, KeyWatched, WaitArmed, Running

(* What is done with keys and events elsewhere.                            *)
LEMMA KeyWatchedElsewhere ==
    IInv /\ KeyWatched /\ WaitArmed /\ (OpenElsewhere \/ CloseElsewhere \/ Change)
        => KeyWatched' /\ WaitArmed'
<1> SUFFICES ASSUME IInv, KeyWatched, WaitArmed, OpenElsewhere \/ CloseElsewhere \/ Change
             PROVE  KeyWatched' /\ WaitArmed'
  OBVIOUS
<1>1. CASE OpenElsewhere
  BY <1>1 DEF OpenElsewhere, Opened, ownerVars, watcherVars, KeyWatched, WaitArmed, AtKey,
     OwnKey, Running
<1>2. CASE CloseElsewhere
  BY <1>2 DEF CloseElsewhere, RegCloseKey, ownerVars, watcherVars, KeyWatched, WaitArmed, AtKey,
     OwnKey, Running
<1>3. CASE Change
  BY <1>3 DEF Change, watcherVars, KeyWatched, WaitArmed, AtKey, OwnKey, Running
<1> QED
  BY <1>1, <1>2, <1>3

(* Close forgets the key before it closes it, and closing it signals the   *)
(* event.                                                                  *)
LEMMA KeyWatchedClose ==
    IInv /\ KeyWatched /\ WaitArmed /\ (Begin \/ CloseKey \/ Finish)
        => KeyWatched' /\ WaitArmed'
<1> SUFFICES ASSUME IInv, KeyWatched, WaitArmed, Begin \/ CloseKey \/ Finish
             PROVE  KeyWatched' /\ WaitArmed'
  OBVIOUS
<1>1. CASE Begin
  BY <1>1 DEF Begin, StartClose, keyVars, watcherVars, IInv, Closing, KeyWatched, WaitArmed,
     AtKey, OwnKey, Running
<1>2. CASE CloseKey
  BY <1>2 DEF CloseKey, RegCloseKey, watcherVars, KeyWatched, WaitArmed, AtKey, OwnKey, Running
<1>3. CASE Finish
  <2>1. ~Running /\ ~m_hNotifyThr' /\ UNCHANGED watcherVars
    BY <1>3 DEF Finish, Joined, IInv, WatcherOwned, Running
  <2> QED
    BY <2>1 DEF watcherVars, KeyWatched, WaitArmed, Running
<1> QED
  BY <1>1, <1>2, <1>3

LEMMA KeyWatchedOwner ==
    IInv /\ KeyWatched /\ WaitArmed /\ (Detach \/ WatchForChange \/ WaitForChange)
        => KeyWatched' /\ WaitArmed'
<1> SUFFICES ASSUME IInv, KeyWatched, WaitArmed, Detach \/ WatchForChange \/ WaitForChange
             PROVE  KeyWatched' /\ WaitArmed'
  OBVIOUS
<1>1. CASE Detach
  BY <1>1 DEF Detach, keyVars, ownerVars, watcherVars, KeyWatched, WaitArmed, AtKey, OwnKey,
     Running
<1>2. CASE WatchForChange
  BY <1>2 DEF WatchForChange, keyVars, IInv, EventTells, KeyWatched, WaitArmed, AtKey, OwnKey,
     Running
<1>3. CASE WaitForChange
  BY <1>3 DEF WaitForChange, keyVars, watcherVars, KeyWatched, WaitArmed, AtKey, OwnKey, Running
<1> QED
  BY <1>1, <1>2, <1>3

(* The thread asks about the key it has read last.                         *)
LEMMA KeyWatchedThread ==
    IInv /\ KeyWatched /\ WaitArmed /\ Watching => KeyWatched' /\ WaitArmed'
<1> SUFFICES ASSUME IInv, KeyWatched, WaitArmed, Watching PROVE KeyWatched' /\ WaitArmed'
  OBVIOUS
<1> USE KeysAssumption
<1>1. CASE Test
  BY <1>1 DEF Test, keyVars, ownerVars, IInv, Closing, KeyWatched, WaitArmed, AtKey, OwnKey,
     Running
<1>2. CASE Arm
  <2>1. /\ UNCHANGED <<m_hkey, ownerVars, seen, detached>> /\ watcher = "arm"
        /\ watcher' \in {"wait", "done"}
        /\ watcher' = "wait" => \/ armed' \in {seen, m_hkey} /\ armed' \in notifies
                                \/ event' = "set"
    BY <1>2 DEF Arm
  <2>2. AtKey => seen = OwnKey /\ m_hkey \in {OwnKey, NULL}
    BY <2>1 DEF IInv, Closing, KeyWatched, AtKey, OwnKey
  <2>3. NULL \notin notifies
    BY DEF IInv, TypeOK
  <2> QED
    BY <2>1, <2>2, <2>3 DEF ownerVars, KeyWatched, WaitArmed, AtKey, OwnKey, Running
<1>3. CASE Wake \/ Call
  BY <1>3 DEF Wake, Call, keyVars, ownerVars, KeyWatched, WaitArmed, AtKey, OwnKey, Running
<1> QED
  BY <1>1, <1>2, <1>3 DEF Watching

LEMMA KeyWatchedAlways == Spec => [](KeyWatched /\ WaitArmed)
<1>1. KeyWatched /\ WaitArmed /\ UNCHANGED vars => KeyWatched' /\ WaitArmed'
  BY DEF vars, keyVars, ownerVars, watcherVars, KeyWatched, WaitArmed, AtKey, OwnKey, Running
<1>2. IInv /\ KeyWatched /\ WaitArmed /\ [Next]_vars => (KeyWatched /\ WaitArmed)'
  BY <1>1, KeyWatchedElsewhere, KeyWatchedClose, KeyWatchedOwner, KeyWatchedThread
     DEF Next, Gone
<1> QED
  BY <1>2, KeyWatchedInit, Inductive, PTL DEF Spec

(* RegCloseKey in Close wakes a thread that waits, unless the key was      *)
(* detached while it was watched: the handle it waits for is never another.*)
ClosingWakes ==
    [][owner = "closes" /\ owner' = "joins" /\ watcher = "wait" /\ ~detached
        => event' = "set"]_vars

(* The wake-up of cpp4j::RegKey::Close is never missed.                    *)
THEOREM ClosingWakesAlways == Spec => ClosingWakes
<1>1. ASSUME IInv, KeyWatched, [Next]_vars, owner = "closes", owner' = "joins",
             watcher = "wait", ~detached
      PROVE  event' = "set"
  <2>1. CloseKey
    BY <1>1 DEF Next, vars, ownerVars, OpenElsewhere, CloseElsewhere, Change, Begin, Finish,
       Detach, WatchForChange, WaitForChange, Watching, Test, Arm, Wake, Call, Gone
  <2>2. event \in {"clear", "set"}
    BY <1>1 DEF IInv, WatcherOwned, Running
  <2>3. event = "clear" => armed = closing
    BY <1>1 DEF KeyWatched, AtKey, OwnKey
  <2> QED
    BY <2>1, <2>2, <2>3 DEF CloseKey, RegCloseKey
<1> QED
  BY <1>1, Inductive, KeyWatchedAlways, PTL DEF Spec, ClosingWakes

(* Close waits for a thread that nobody has woken only in the case that    *)
(* CloseReturns excepts: what it waits for is a key opened elsewhere.      *)
CloseNotBlocked ==
    owner = "joins" /\ ~Joined =>
        watcher \in {"test", "arm", "call"} \/ event = "set" \/ WaitsForOther

(* Close of cpp4j::RegKey waits for nobody but in the excepted case.       *)
THEOREM CloseNotBlockedAlways == Spec => []CloseNotBlocked
<1>1. IInv /\ WaitArmed => CloseNotBlocked
  <2> SUFFICES ASSUME IInv, WaitArmed, owner = "joins", ~Joined,
                      watcher \notin {"test", "arm", "call"}, event # "set"
               PROVE  WaitsForOther
    BY DEF CloseNotBlocked
  <2>1. watcher = "wait"
    BY DEF IInv, TypeOK, Watcher, WaitArmed, Joined
  <2>2. event = "clear"
    BY <2>1 DEF IInv, WatcherOwned, Running
  <2>3. mine = {}
    BY KeysAssumption DEF IInv, TypeOK, Closing
  <2> QED
    BY <2>1, <2>2, <2>3 DEF WaitArmed, WaitsForOther
<1> QED
  BY <1>1, Inductive, KeyWatchedAlways, PTL

-----------------------------------------------------------------------------
(* Windows is asked once, and what it said is what every answer is about.  *)
VersionInv ==
    /\ machine \in Machines
    /\ osvi \in {NotAsked, machine}
    /\ Asked => answer = [name |-> GetOsVersion(machine), old |-> AtMostWin2003R2(machine),
                         new |-> AtLeastWinVista(machine)]

LEMMA VersionInductive == VersionSpec => []VersionInv
<1>1. VersionInit => VersionInv
  BY DEF VersionInit, VersionInv, Asked
<1>2. ASSUME VersionInv, Ask PROVE VersionInv'
  <2>1. osvi' = machine
    <3>1. NotAsked.dwMajorVersion = 0
      BY DEF NotAsked
    <3> QED
      BY <1>2, <3>1 DEF VersionInv, Ask
  <2> QED
    BY <1>2, <2>1 DEF VersionInv, Ask
<1>3. VersionInv /\ UNCHANGED versionVars => VersionInv'
  BY DEF versionVars, VersionInv, Asked
<1> QED
  BY <1>1, <1>2, <1>3, PTL DEF VersionSpec, VersionNext

(* Every row of the table has one of these numbers.                        *)
LEMMA RowNumbers ==
    ASSUME NEW m \in Machines, Table(m) # {}
    PROVE  \/ Is(m, 5, 0) \/ Is(m, 5, 1) \/ Is(m, 5, 2)
           \/ Is(m, 6, 0) \/ Is(m, 6, 1) \/ Is(m, 6, 2) \/ Is(m, 6, 3)
           \/ Is(m, 10, 0)
BY DEF Table

(* The decisions of the code give the name of a row, up to Windows 8.1.    *)
LEMMA NamesARow ==
    ASSUME NEW m \in Machines, Table(m) # {}, m.dwMajorVersion < 10
    PROVE  /\ GetOsVersion(m) \in Table(m)
           /\ AtMostWin2003R2(m) <=> ~AtLeastWinVista(m)
           /\ AtLeastWinVista(m) <=> m.dwMajorVersion = 6
<1>1. \/ Is(m, 5, 0) \/ Is(m, 5, 1) \/ Is(m, 5, 2)
      \/ Is(m, 6, 0) \/ Is(m, 6, 1) \/ Is(m, 6, 2) \/ Is(m, 6, 3)
  BY RowNumbers DEF Is
<1>2. AtMostWin2003R2(m) <=> ~AtLeastWinVista(m)
  BY <1>1 DEF Is, AtMostWin2003R2, AtLeastWinVista
<1>3. AtLeastWinVista(m) <=> m.dwMajorVersion = 6
  BY <1>1 DEF Is, AtLeastWinVista
<1>4. GetOsVersion(m) \in Table(m)
  <2>1. CASE Is(m, 5, 0) \/ Is(m, 5, 1)
    BY <2>1 DEF Is, GetOsVersion, Table
  <2>2. CASE Is(m, 5, 2)
    BY <2>2 DEF Is, GetOsVersion, IsWinXPProX64, Table, Machines
  <2>3. CASE Is(m, 6, 0) \/ Is(m, 6, 1)
    BY <2>3 DEF Is, GetOsVersion, Table
  <2>4. CASE Is(m, 6, 2) \/ Is(m, 6, 3)
    BY <2>4 DEF Is, GetOsVersion, Table
  <2> QED
    BY <1>1, <2>1, <2>2, <2>3, <2>4
<1> QED
  BY <1>2, <1>3, <1>4

(* Up to Windows 8.1 every system of the table gets the name of its row,   *)
(* whatever version numbers there are.                                     *)
THEOREM NamedUpTo8_1Always == VersionSpec => []NamedUpTo8_1
<1>1. VersionInv => NamedUpTo8_1
  <2> SUFFICES ASSUME VersionInv, Asked, machine.dwMajorVersion < 10, Table(machine) # {}
               PROVE  /\ answer.name \in Table(machine)
                      /\ answer.old # answer.new
                      /\ answer.new <=> machine.dwMajorVersion = 6
    BY DEF NamedUpTo8_1
  <2>1. /\ machine \in Machines /\ answer.name = GetOsVersion(machine)
        /\ answer.old = AtMostWin2003R2(machine) /\ answer.new = AtLeastWinVista(machine)
    BY DEF VersionInv
  <2> QED
    BY <2>1, NamesARow DEF AtMostWin2003R2, AtLeastWinVista
<1> QED
  BY <1>1, VersionInductive, PTL

(* Windows 10 and the server of its year are always unknown to the code,   *)
(* which looks for a version 10.3; the table gives them a name.            *)
Windows10Unknown == Asked /\ Is(machine, 10, 0) => answer.name = "WIN_UNKNOWN"

(* GetOsVersion names no machine that reports version 10.0.                *)
THEOREM Windows10UnknownAlways == VersionSpec => []Windows10Unknown
<1>1. VersionInv => Windows10Unknown
  BY DEF VersionInv, Windows10Unknown, Is, GetOsVersion
<1> QED
  BY <1>1, VersionInductive, PTL
=============================================================================
