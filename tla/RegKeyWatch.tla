------------------------------ MODULE RegKeyWatch ------------------------------
(***************************************************************************)
(* cpp4j::RegKey (CmnUtil.cpp): an object that opens, attaches, detaches   *)
(* and closes a registry key, and a thread of its own that waits for       *)
(* changes of that key.  The object is used by one thread, its owner; it   *)
(* shares m_hkey with the watcher without a lock.  Closing a key makes     *)
(* Windows signal the event that waits for its changes: this is what ends  *)
(* the watcher, for which Close waits.                                     *)
(***************************************************************************)
EXTENDS Naturals

CONSTANTS Keys, \* handles of open keys; Windows reuses the values
          NULL

ASSUME KeysAssumption == NULL \notin Keys

VARIABLES open,         \* the open handles of the process
          notifies,     \* those opened with the right to wait for changes
          armed,        \* the handle whose next change signals the event
          m_hkey,       \* the object's key
          m_hNotifyThr, \* it holds a thread
          event,        \* m_hChangeEvent, see Event
          owner, op,    \* where the owner is in Close, and for what
          closing, arg, \* the key that is being closed, and the one to attach
          watcher, seen,\* where the thread is, and the key it read last
          mine,         \* history: the keys the object has to close
          detached      \* history: a key was detached while it was watched

keyVars == <<open, notifies, armed>>
ownerVars == <<m_hNotifyThr, owner, op, closing, arg>>
watcherVars == <<watcher, seen>>
vars == <<keyVars, m_hkey, event, ownerVars, watcherVars, mine, detached>>

Event == {"none", "clear", "set", "closed"}
Op == {"Close", "Open", "Attach", "~RegKey"}

(* "waits" is inside WaitForChange, "closes" before RegCloseKey and        *)
(* "joins" before WaitForSingleObject returns.                             *)
Owner == {"idle", "waits", "closes", "joins", "gone"}
Watcher == {"none", "test", "arm", "wait", "call", "done"}

TypeOK ==
    /\ open \subseteq Keys
    /\ notifies \subseteq open
    /\ armed \in notifies \cup {NULL}
    /\ m_hkey \in mine \cup {NULL}
    /\ m_hNotifyThr \in BOOLEAN
    /\ event \in Event
    /\ owner \in Owner
    /\ op \in Op
    /\ closing \in Keys \cup {NULL}
    /\ arg \in Keys \cup {NULL}
    /\ watcher \in Watcher
    /\ seen \in Keys \cup {NULL}
    /\ mine \subseteq open
    /\ detached \in BOOLEAN

Running == watcher \notin {"none", "done"}

-----------------------------------------------------------------------------
Init ==
    /\ open = {}
    /\ notifies = {}
    /\ armed = NULL
    /\ m_hkey = NULL
    /\ m_hNotifyThr = FALSE
    /\ event = "none"
    /\ owner = "idle"
    /\ op = "Close"
    /\ closing = NULL
    /\ arg = NULL
    /\ watcher = "none"
    /\ seen = NULL
    /\ mine = {}
    /\ detached = FALSE

(* A key is opened, with or without the right to wait for changes.         *)
Opened(hkey, rights) ==
    /\ hkey \notin open
    /\ open' = open \cup {hkey}
    /\ notifies' = IF rights THEN notifies \cup {hkey} ELSE notifies
    /\ UNCHANGED armed

(* RegCloseKey, which signals the event that waits for the key.            *)
RegCloseKey(hkey) ==
    /\ open' = open \ {hkey}
    /\ notifies' = notifies \ {hkey}
    /\ IF armed = hkey
       THEN armed' = NULL /\ event' = "set"
       ELSE UNCHANGED <<armed, event>>

(* The rest of the program opens keys and closes those that are not the    *)
(* object's, nor about to be.                                              *)
OpenElsewhere ==
    /\ \E hkey \in Keys, rights \in BOOLEAN : Opened(hkey, rights)
    /\ UNCHANGED <<m_hkey, event, ownerVars, watcherVars, mine, detached>>

CloseElsewhere ==
    /\ \E hkey \in open \ (mine \cup {arg}) : RegCloseKey(hkey)
    /\ UNCHANGED <<m_hkey, ownerVars, watcherVars, mine, detached>>

(* Somebody changes the registry.                                          *)
Change ==
    /\ armed # NULL \/ owner = "waits"
    /\ IF armed # NULL
       THEN armed' = NULL /\ event' = "set"
       ELSE UNCHANGED <<armed, event>>
    /\ owner' = IF owner = "waits" THEN "idle" ELSE owner
    /\ UNCHANGED <<open, notifies, m_hkey, m_hNotifyThr, op, closing, arg, watcherVars, mine,
                   detached>>

-----------------------------------------------------------------------------
(* Close(): m_hkey is cleared first, the key is closed after that.  It is  *)
(* also how Open, Attach and the destructor begin.                         *)
StartClose_Forgets ==
    /\ m_hkey' = NULL
    /\ closing' = NULL
    /\ owner' = "joins"
StartClose ==
    /\ m_hkey' = NULL
    /\ closing' = m_hkey
    /\ owner' = IF m_hkey # NULL THEN "closes" ELSE "joins"

Begin ==
    /\ owner = "idle"
    /\ op' \in Op
    /\ IF op' = "Attach" THEN arg' \in open \ mine ELSE arg' = NULL
    /\ StartClose
    /\ UNCHANGED <<keyVars, m_hNotifyThr, event, watcherVars, mine, detached>>

CloseKey ==
    /\ owner = "closes"
    /\ RegCloseKey(closing)
    /\ mine' = mine \ {closing}
    /\ closing' = NULL
    /\ owner' = "joins"
    /\ UNCHANGED <<m_hkey, m_hNotifyThr, op, arg, watcherVars, detached>>

(* The thread has ended, if there ever was one.                            *)
Joined_AtOnce == TRUE
Joined == m_hNotifyThr => watcher = "done"

(* Close is over, and a key that could not be opened leaves nothing else.  *)
FinishClose ==
    /\ op \in {"Close", "Open"}
    /\ owner' = "idle"
    /\ UNCHANGED <<keyVars, m_hkey, event, mine, arg>>

FinishOpen ==
    /\ op = "Open"
    /\ owner' = "idle"
    /\ \E hkey \in Keys, rights \in BOOLEAN :
          /\ Opened(hkey, rights)
          /\ m_hkey' = hkey
          /\ mine' = mine \cup {hkey}
    /\ UNCHANGED <<event, arg>>

FinishAttach ==
    /\ op = "Attach"
    /\ owner' = "idle"
    /\ m_hkey' = arg
    /\ mine' = mine \cup {arg}
    /\ arg' = NULL
    /\ UNCHANGED <<keyVars, event>>

FinishDestructor ==
    /\ op = "~RegKey"
    /\ owner' = "gone"
    /\ event' = IF event = "none" THEN "none" ELSE "closed"
    /\ UNCHANGED <<keyVars, m_hkey, mine, arg>>

(* What follows WaitForSingleObject(m_hNotifyThr): nobody else sees that   *)
(* the handle of the thread is closed first.                               *)
Finish ==
    /\ owner = "joins" /\ Joined
    /\ m_hNotifyThr' = FALSE
    /\ FinishClose \/ FinishOpen \/ FinishAttach \/ FinishDestructor
    /\ UNCHANGED <<op, closing, watcherVars, detached>>

(* Detach(): the key is somebody else's now; the watcher is not told.      *)
Detach ==
    /\ owner = "idle"
    /\ m_hkey' = NULL
    /\ mine' = mine \ {m_hkey}
    /\ detached' = (detached \/ Running)
    /\ UNCHANGED <<keyVars, event, ownerVars, watcherVars>>

(* WatchForChange(), unless it returns E_FAIL at once.  The event is kept  *)
(* when the thread cannot be created, and after the thread has ended.      *)
WatchForChange ==
    /\ owner = "idle"
    /\ event = "none" /\ m_hkey # NULL
    /\ event' = "clear"
    /\ \/ m_hNotifyThr' = TRUE /\ watcher' = "test"
       \/ UNCHANGED <<m_hNotifyThr, watcher>>
    /\ UNCHANGED <<keyVars, m_hkey, owner, op, closing, arg, seen, mine, detached>>

(* WaitForChange() of a key that can be waited for; else it fails at once. *)
WaitForChange ==
    /\ owner = "idle"
    /\ m_hkey \in notifies
    /\ owner' = "waits"
    /\ UNCHANGED <<keyVars, m_hkey, m_hNotifyThr, event, op, closing, arg, watcherVars, mine,
                   detached>>

-----------------------------------------------------------------------------
(* NotifyWaitThreadProc(): the condition of the loop.                      *)
Test ==
    /\ watcher = "test"
    /\ seen' = m_hkey
    /\ watcher' = IF m_hkey = NULL THEN "done" ELSE "arm"
    /\ UNCHANGED <<keyVars, m_hkey, event, ownerVars, mine, detached>>

(* RegNotifyChangeKeyValue: the key is read once more, or the compiler     *)
(* uses the value it has.  It fails for a key that is closed or was opened *)
(* without the right.  For a change since the last call it may signal the  *)
(* event at once.                                                          *)
Arm ==
    /\ watcher = "arm"
    /\ \E hkey \in {seen, m_hkey} :
          IF hkey \in notifies
          THEN /\ watcher' = "wait"
               /\ \/ armed' = hkey /\ UNCHANGED event
                  \/ armed' = NULL /\ event' = "set"
          ELSE /\ watcher' = "done"
               /\ UNCHANGED <<armed, event>>
    /\ UNCHANGED <<open, notifies, m_hkey, ownerVars, seen, mine, detached>>

Wake_Once ==
    /\ watcher = "wait" /\ event = "set"
    /\ event' = "clear"
    /\ seen' = m_hkey
    /\ watcher' = "done"
    /\ UNCHANGED <<keyVars, m_hkey, ownerVars, mine, detached>>
(* The event, which resets itself, ends the wait.                          *)
Wake ==
    /\ watcher = "wait" /\ event = "set"
    /\ event' = "clear"
    /\ seen' = m_hkey
    /\ watcher' = IF m_hkey = NULL THEN "test" ELSE "call"
    /\ UNCHANGED <<keyVars, m_hkey, ownerVars, mine, detached>>

(* OnChange(m_hkey), which does nothing.                                   *)
Call ==
    /\ watcher = "call"
    /\ watcher' = "test"
    /\ UNCHANGED <<keyVars, m_hkey, event, ownerVars, seen, mine, detached>>

Watching == Test \/ Arm \/ Wake \/ Call

(* Nothing is left of the object.                                          *)
Gone == owner = "gone" /\ UNCHANGED vars

Next ==
    \/ OpenElsewhere \/ CloseElsewhere \/ Change
    \/ Begin \/ CloseKey \/ Finish
    \/ Detach \/ WatchForChange \/ WaitForChange
    \/ Watching
    \/ Gone

(* Both threads are scheduled.  Nobody has to change the registry.         *)
Fairness ==
    /\ WF_vars(Watching)
    /\ WF_vars(CloseKey)
    /\ WF_vars(Finish)

Spec == Init /\ [][Next]_vars
FairSpec == Spec /\ Fairness

-----------------------------------------------------------------------------
(* While the thread runs the object it was given exists, holds it and has  *)
(* not closed the event the thread waits for.                              *)
WatcherOwned == Running => m_hNotifyThr /\ owner # "gone" /\ event \in {"clear", "set"}

(* What the thread tested before it asks for a notification, or calls      *)
(* OnChange, is still the object's key, except while Close waits for the   *)
(* thread or after Detach: the owner never goes on to another key while    *)
(* the thread uses the old one.                                            *)
StaleOnlyInClose ==
    watcher \in {"arm", "call"} /\ seen # m_hkey
        => owner \in {"closes", "joins"} \/ detached

(* A thread that has ended by itself does so because the key could not be  *)
(* waited for, although WatchForChange reported success.                   *)
EndsOnlyUnfit ==
    m_hNotifyThr /\ watcher = "done" /\ owner \in {"idle", "waits"} /\ m_hkey # NULL
        => m_hkey \notin notifies

(* The destructor leaves no key open that the object opened or was given.  *)
KeysReleased == owner = "gone" => mine = {}

(* The handle the thread read was closed and is that of another key, opened*)
(* elsewhere, by the time it asks for a notification: it waits for that.   *)
WaitsForOther == watcher = "wait" /\ armed # NULL /\ armed \notin mine

(* Close returns, although it waits for a thread that waits for a change   *)
(* that need not come, unless the thread does not wait for the object's    *)
(* key any more: the key was detached, or its handle was reused.           *)
CloseReturns ==
    owner \in {"closes", "joins"} ~>
        owner \in {"idle", "gone"} \/ detached \/ WaitsForOther
=============================================================================
