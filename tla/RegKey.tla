-------------------------------- MODULE RegKey --------------------------------
(***************************************************************************)
(* The registry as class RegKey uses it: DeleteKey, which deletes a key    *)
(* with everything below it, and the values it reads and writes.           *)
(*                                                                         *)
(* A program that uses the class shares the registry with others, which    *)
(* may act between any two of its calls of Win32.  A program for 32 bits   *)
(* finds two views of the registry on a Windows for 64 bits: a key of the  *)
(* 64-bit view is meant only if a call says so.                            *)
(*                                                                         *)
(* Below, the key that is deleted is the empty path, and the keys below it *)
(* are sequences of names.                                                 *)
(***************************************************************************)
EXTENDS Integers, Sequences, FiniteSets

CONSTANTS Paths,      \* keys there may be
          Names,      \* the names in them, in the order RegEnumKey tells them
          Locked,     \* keys that may not be opened to read and write
          Wow64,      \* Windows is for 64 bits, and the program for 32
          Lists,      \* lists of strings a value may hold
          MaxChanges  \* bound: what others do to the registry during one operation

(* With every key the keys above it.                                       *)
Closed(K) == \A p \in K : \A n \in 0..Len(p) : SubSeq(p, 1, n) \in K

NameSet == {Names[i] : i \in DOMAIN Names}

(* A string is terminated by NUL and has none in it.                       *)
NUL == 0
Strings == Seq(Nat \ {NUL})

ASSUME RegAssumption ==
    /\ Names \in Seq(NameSet)
    /\ \A i, j \in DOMAIN Names : Names[i] = Names[j] => i = j
    /\ Paths \subseteq Seq(NameSet)
    /\ <<>> \in Paths
    /\ Closed(Paths)
    /\ Locked \subseteq Paths
    /\ Wow64 \in BOOLEAN
    /\ Lists \subseteq Seq(Strings)
    /\ MaxChanges \in Nat

VARIABLES
    keys,       \* the keys of each view
    written,    \* what was written last to the value of the empty path, in view 32
    pc,         \* the next call of Win32
    sub,        \* the argument pszSubKey is not NULL
    prefer,     \* the argument bPrefer64View
    stack,      \* the calls of RegDeleteSubKeys under way
    ok,         \* what the call that ended last returned
    handles,    \* keys that were opened and not closed
    size,       \* what GetValueBufferSize returned
    got,        \* what was read
    changes,    \* how often somebody else acted during the operation
    fit         \* history: nothing was in the way of DeleteKey when it began

deleteVars == <<sub, prefer, stack, ok, handles, fit>>
readVars == <<size, got>>
vars == <<keys, written, pc, sub, prefer, stack, ok, handles, size, got, changes, fit>>

-----------------------------------------------------------------------------
Views == IF Wow64 THEN {"32", "64"} ELSE {"32"}
Nothing == [type |-> "none", list |-> <<>>]
(* What no buffer holds: a string with a terminator in it.                 *)
Garbage == <<<<NUL>>>>

(* multi         SetMultiSZValue                                           *)
(* terminated    a string as Windows' own tools write it                   *)
(* unterminated  SetSZValue, which does not count the terminator           *)
Written == {Nothing} \cup [type : {"multi"}, list : Lists]
              \cup {w \in [type : {"terminated", "unterminated"}, list : Lists] : Len(w.list) = 1}

Frames == [path : Paths, cnt : Nat, gone : BOOLEAN]

KeysOK ==
    /\ keys \in [Views -> SUBSET Paths]
    /\ \A v \in Views : Closed(keys[v])

CallOK ==
    /\ pc \in {"idle", "open", "count", "next", "enter", "return", "remove", "finish",
               "multi", "string"}
    /\ sub \in BOOLEAN /\ prefer \in BOOLEAN
    /\ stack \in Seq(Frames)
    /\ ok \in BOOLEAN /\ fit \in BOOLEAN
    /\ handles \in Nat /\ changes \in Nat

TypeOK == KeysOK /\ CallOK /\ written \in Written /\ size \in Nat

(* The keys right below one, as places of their names, and the n-th key of *)
(* those.                                                                  *)
SubKeys(v, path) == {i \in DOMAIN Names : Append(path, Names[i]) \in keys[v]}
Nth(places, n) == CHOOSE i \in places : Cardinality({j \in places : j <= i}) = n
HasKey(v, path) == path \in keys[v]
Openable(v, path) == HasKey(v, path) /\ path \notin Locked

(* The view RegOpenKeyEx and RegDeleteKeyEx mean: the flag for 64 bits     *)
(* says nothing on a Windows for 32.                                       *)
View(flag64) == IF flag64 /\ Wow64 THEN "64" ELSE "32"
IsWin64 == Wow64

top == stack[Len(stack)]
WithTop(frame) == [stack EXCEPT ![Len(stack)] = frame]

Init ==
    /\ keys \in [Views -> {K \in SUBSET Paths : Closed(K)}]
    /\ written = Nothing
    /\ pc = "idle"
    /\ sub = FALSE /\ prefer = FALSE /\ stack = <<>> /\ ok = FALSE /\ handles = 0
    /\ size = 0 /\ got = <<>>
    /\ changes = 0 /\ fit = FALSE

-----------------------------------------------------------------------------
(* Open with bCreate, for a key that is not there.                         *)
Open ==
    /\ pc = "idle"
    /\ ~HasKey("32", <<>>)
    /\ keys' = [keys EXCEPT !["32"] = @ \cup {<<>>}]
    /\ changes' = 0
    /\ UNCHANGED <<written, pc, deleteVars, readVars>>

(* DeleteKey with the name of the value.                                   *)
DeleteValue ==
    /\ pc = "idle"
    /\ written # Nothing
    /\ <<>> \notin Locked
    /\ written' = Nothing
    /\ UNCHANGED <<keys, pc, deleteVars, readVars, changes>>

(* DeleteKey without the name of a value.                                  *)
DeleteKey(s, p) ==
    /\ pc = "idle"
    /\ s \/ HasKey(View(p), <<>>)
    /\ sub' = s /\ prefer' = p
    /\ pc' = "open"
    /\ fit' = (HasKey(View(p), <<>>) /\ keys[View(p)] \cap Locked = {})
    /\ ok' = FALSE /\ size' = 0 /\ got' = <<>> /\ changes' = 0
    /\ UNCHANGED <<keys, written, stack, handles>>

view == View(prefer)
Frame(path) == [path |-> path, cnt |-> 0, gone |-> FALSE]

(* A NULL subkey stands for hKey itself, which the caller has opened.      *)
OpenKey ==
    /\ pc = "open"
    /\ IF ~sub \/ Openable(view, <<>>)
       THEN /\ stack' = <<Frame(<<>>)>>
            /\ handles' = IF sub THEN handles + 1 ELSE handles
            /\ pc' = "count"
            /\ UNCHANGED ok
       ELSE /\ ok' = FALSE
            /\ pc' = "idle"
            /\ UNCHANGED <<stack, handles>>
    /\ UNCHANGED <<keys, written, sub, prefer, fit, readVars, changes>>

Fails == ok' = FALSE /\ pc' = "return" /\ UNCHANGED <<stack, handles>>

(* RegDeleteSubKeys asks once how many keys there are ...                  *)
QueryInfoKey ==
    /\ pc = "count"
    /\ IF top.gone
       THEN Fails
       ELSE /\ stack' = WithTop([top EXCEPT !.cnt = Cardinality(SubKeys(view, top.path))])
            /\ pc' = "next"
            /\ UNCHANGED <<ok, handles>>
    /\ UNCHANGED <<keys, written, sub, prefer, fit, readVars, changes>>

EnumKey_PostDecrement ==
    /\ pc = "next"
    /\ IF top.cnt = 0
       THEN ok' = TRUE /\ pc' = "return" /\ UNCHANGED <<stack, handles>>
       ELSE IF top.gone \/ top.cnt + 1 > Cardinality(SubKeys(view, top.path))
       THEN Fails
       ELSE /\ stack' = WithTop([top EXCEPT !.cnt = @ - 1])
                           \o <<Frame(Append(top.path, Names[Nth(SubKeys(view, top.path), top.cnt + 1)]))>>
            /\ pc' = "enter"
            /\ UNCHANGED <<ok, handles>>
    /\ UNCHANGED <<keys, written, sub, prefer, fit, readVars, changes>>
(* ... and takes the last of them that are left, until none is.  The key   *)
(* it goes on to is the next frame of the stack, before it is opened.      *)
EnumKey ==
    /\ pc = "next"
    /\ IF top.cnt = 0
       THEN ok' = TRUE /\ pc' = "return" /\ UNCHANGED <<stack, handles>>
       ELSE IF top.gone \/ top.cnt > Cardinality(SubKeys(view, top.path))
       THEN Fails
       ELSE /\ stack' = WithTop([top EXCEPT !.cnt = @ - 1])
                           \o <<Frame(Append(top.path, Names[Nth(SubKeys(view, top.path), top.cnt)]))>>
            /\ pc' = "enter"
            /\ UNCHANGED <<ok, handles>>
    /\ UNCHANGED <<keys, written, sub, prefer, fit, readVars, changes>>

parent == SubSeq(stack, 1, Len(stack) - 1)

OpenSubKey ==
    /\ pc = "enter"
    /\ IF Openable(view, top.path) /\ ~parent[Len(parent)].gone
       THEN pc' = "count" /\ handles' = handles + 1 /\ stack' = WithTop(Frame(top.path)) /\ UNCHANGED ok
       ELSE ok' = FALSE /\ pc' = "return" /\ stack' = parent /\ UNCHANGED handles
    /\ UNCHANGED <<keys, written, sub, prefer, fit, readVars, changes>>

Return_KeepsFailed ==
    /\ pc = "return"
    /\ IF Len(stack) > 1
       THEN /\ handles' = IF ok THEN handles - 1 ELSE handles
            /\ pc' = IF ok THEN "remove" ELSE "return"
            /\ stack' = IF ok THEN stack ELSE parent
       ELSE /\ handles' = IF sub THEN handles - 1 ELSE handles
            /\ pc' = IF ok THEN "finish" ELSE "idle"
            /\ stack' = <<>>
    /\ UNCHANGED <<keys, written, sub, prefer, ok, fit, readVars, changes>>
(* RegDeleteSubKeys returns, and its caller closes the key.                *)
Return ==
    /\ pc = "return"
    /\ IF Len(stack) > 1
       THEN /\ handles' = handles - 1
            /\ pc' = IF ok THEN "remove" ELSE "return"
            /\ stack' = IF ok THEN stack ELSE parent
       ELSE /\ handles' = IF sub THEN handles - 1 ELSE handles
            /\ pc' = IF ok THEN "finish" ELSE "idle"
            /\ stack' = <<>>
    /\ UNCHANGED <<keys, written, sub, prefer, ok, fit, readVars, changes>>

(* RegDeleteKeyEx: a key with keys below it is not deleted.                *)
Deletable(v, path) == HasKey(v, path) /\ SubKeys(v, path) = {}
Delete(v, path) ==
    /\ keys' = [keys EXCEPT ![v] = @ \ {path}]
    /\ written' = IF v = "32" /\ path = <<>> THEN Nothing ELSE written

(* RegDeleteKey32_64 for a key that was emptied.  It is named relative to  *)
(* the key above, whose view it shares; the frame on top is only its name. *)
Remove ==
    /\ pc = "remove"
    /\ IF Deletable(view, top.path) /\ ~parent[Len(parent)].gone
       THEN Delete(view, top.path) /\ pc' = "next" /\ UNCHANGED ok
       ELSE ok' = FALSE /\ pc' = "return" /\ UNCHANGED <<keys, written>>
    /\ stack' = parent
    /\ UNCHANGED <<sub, prefer, handles, fit, readVars, changes>>

DeleteView_Default == "32"
(* The view RegDeleteKey32_64 asks for.                                    *)
DeleteView == IF prefer /\ IsWin64 THEN View(TRUE) ELSE View(FALSE)

(* RegDeleteKey32_64 for the key itself; it does not take NULL.            *)
Finish ==
    /\ pc = "finish"
    /\ pc' = "idle"
    /\ ok' = (sub /\ Deletable(DeleteView, <<>>))
    /\ IF ok' THEN Delete(DeleteView, <<>>) ELSE UNCHANGED <<keys, written>>
    /\ UNCHANGED <<sub, prefer, stack, handles, fit, readVars, changes>>

-----------------------------------------------------------------------------
(* What RegSetValueEx is given: every string with a terminator and one     *)
(* more, by CreateDoubleNulTermList, or the characters of the string.      *)
Terminated(list) ==
    LET chars[i \in 0..Len(list)] == IF i = 0 THEN <<>> ELSE chars[i - 1] \o list[i] \o <<NUL>>
    IN chars[Len(list)]
Chars(w) ==
    CASE w.type = "multi" -> Terminated(w.list) \o <<NUL>>
      [] w.type = "terminated" -> Terminated(w.list)
      [] w.type = "unterminated" -> w.list[1]
      [] w.type = "none" -> <<>>

(* SetMultiSZValue and SetSZValue, and other programs' writing.            *)
SetValue(w) ==
    /\ pc = "idle"
    /\ HasKey("32", <<>>)
    /\ written' = w
    /\ UNCHANGED <<keys, pc, deleteVars, readVars, changes>>

(* GetMultiSZValue and GetSZValue ask for the size ...                     *)
GetValueBufferSize(reader) ==
    /\ pc = "idle"
    /\ size' = Len(Chars(written))
    /\ changes' = 0
    /\ IF size' = 0
       THEN UNCHANGED <<pc, got>>
       ELSE pc' = reader /\ got' = <<>>
    /\ UNCHANGED <<keys, written, deleteVars>>

Succeeds == written # Nothing /\ Len(Chars(written)) <= size

(* The terminator that ends the string from position i on, if there is one *)
(* in the buffer.                                                          *)
Ends(chars, i) == {j \in i..Len(chars) : chars[j] = NUL}
End(chars, i) == CHOOSE j \in Ends(chars, i) : \A k \in Ends(chars, i) : j <= k

Walk_OneMore(chars) ==
    LET from[i \in 1..Len(chars) + 2] ==
            IF i > Len(chars) THEN Garbage
            ELSE IF Ends(chars, i) = {} THEN Garbage
            ELSE <<SubSeq(chars, i, End(chars, i) - 1)>>
                    \o IF chars[i] = NUL THEN <<>> ELSE from[End(chars, i) + 1]
    IN from[1]
(* Strings up to an empty one.                                             *)
Walk(chars) ==
    LET from[i \in 1..Len(chars) + 2] ==
            IF i > Len(chars) THEN Garbage
            ELSE IF chars[i] = NUL THEN <<>>
            ELSE IF Ends(chars, i) = {} THEN Garbage
            ELSE <<SubSeq(chars, i, End(chars, i) - 1)>> \o from[End(chars, i) + 1]
    IN from[1]

(* ... and read into a buffer of that size.  GetValue returns Win32's      *)
(* error codes, all of which SUCCEEDED takes for success, so a list is     *)
(* walked through a buffer that nobody filled.                             *)
GetMultiSZValue ==
    /\ pc = "multi"
    /\ pc' = "idle"
    /\ got' = IF Succeeds THEN Walk(Chars(written)) ELSE Garbage
    /\ UNCHANGED <<keys, written, deleteVars, size, changes>>

GetSZValue_NotCleared ==
    /\ pc = "string"
    /\ pc' = "idle"
    /\ got' = LET chars == Chars(written) IN
              IF Succeeds /\ Ends(chars, 1) # {} THEN <<SubSeq(chars, 1, End(chars, 1) - 1)>>
              ELSE Garbage
    /\ UNCHANGED <<keys, written, deleteVars, size, changes>>
(* The buffer of a string is cleared first.                                *)
GetSZValue ==
    /\ pc = "string"
    /\ pc' = "idle"
    /\ got' = LET chars == Chars(written) IN
              IF ~Succeeds THEN <<<<>>>>
              ELSE IF Ends(chars, 1) # {} THEN <<SubSeq(chars, 1, End(chars, 1) - 1)>>
              ELSE IF Len(chars) < size THEN <<chars>> ELSE Garbage
    /\ UNCHANGED <<keys, written, deleteVars, size, changes>>

-----------------------------------------------------------------------------
(* Another program creates or deletes a key, or writes the value.  Whoever *)
(* has a deleted key open can do nothing more with it.                     *)
Another ==
    /\ pc # "idle"
    /\ changes < MaxChanges
    /\ changes' = changes + 1
    /\ UNCHANGED <<pc, sub, prefer, ok, handles, fit, readVars>>

OtherCreates(v, p) ==
    /\ Another
    /\ ~HasKey(v, p)
    /\ p # <<>> => HasKey(v, SubSeq(p, 1, Len(p) - 1))
    /\ keys' = [keys EXCEPT ![v] = @ \cup {p}]
    /\ UNCHANGED <<written, stack>>

OtherDeletes(v, p) ==
    /\ Another
    /\ Deletable(v, p)
    /\ Delete(v, p)
    /\ stack' = [i \in 1..Len(stack) |->
                    IF v = view /\ stack[i].path = p THEN [stack[i] EXCEPT !.gone = TRUE] ELSE stack[i]]

OtherWrites(w) ==
    /\ Another
    /\ HasKey("32", <<>>)
    /\ w # written
    /\ written' = w
    /\ UNCHANGED <<keys, stack>>

Next ==
    \/ Open \/ DeleteValue
    \/ \E s \in BOOLEAN, p \in BOOLEAN : DeleteKey(s, p)
    \/ OpenKey \/ QueryInfoKey \/ EnumKey \/ OpenSubKey \/ Return \/ Remove \/ Finish
    \/ \E w \in Written : SetValue(w)
    \/ \E reader \in {"multi", "string"} : GetValueBufferSize(reader)
    \/ GetMultiSZValue \/ GetSZValue
    \/ \E v \in Views, p \in Paths : OtherCreates(v, p) \/ OtherDeletes(v, p)
    \/ \E w \in Written : OtherWrites(w)

Spec == Init /\ [][Next]_vars

-----------------------------------------------------------------------------
DeleteEnds == pc \in {"open", "return", "finish"} /\ pc' = "idle"
ReadEnds == pc \in {"multi", "string"} /\ pc' = "idle"

(* DeleteKey deletes the key with all keys below it, and says so, if none  *)
(* of them is locked and nobody acts meanwhile.  With NULL for the name    *)
(* the key is emptied, stays, and FALSE is returned.                       *)
DeletesAll ==
    [][DeleteEnds /\ fit /\ changes = 0
         => ok' = sub /\ keys'[view] = IF sub THEN {} ELSE {<<>>}]_vars

(* Whatever fails in the middle, and whatever others do to the keys that   *)
(* are open, every key that was opened is closed.                          *)
HandlesClosed == pc = "idle" => handles = 0

(* The key of the same name in the other view keeps what it has.           *)
OtherViewKept == [][pc # "idle" /\ changes' = changes => \A v \in Views \ {view} : keys'[v] = keys[v]]_vars

(* The strings a list is read as: those up to the first empty one, which   *)
(* looks like the end.                                                     *)
UpToEmpty(list) ==
    LET n == CHOOSE n \in 0..Len(list) : /\ \A i \in 1..n : list[i] # <<>>
                                         /\ n < Len(list) => list[n + 1] = <<>>
    IN SubSeq(list, 1, n)

(* What is read is what the value is at that moment, whatever it was when  *)
(* its size was asked for: a list up to its first empty string, a string   *)
(* as it is, but one without a terminator only if the buffer has room left *)
(* behind it.  Nothing is read only when the value vanished or outgrew the *)
(* buffer, which somebody else must have done; a string is then empty.     *)
ReadsBack ==
    [][ReadEnds
         => \/ ~Succeeds /\ changes # 0 /\ (pc = "string" => got' = <<<<>>>>)
            \/ pc = "multi" /\ (written.type = "multi" => got' = UpToEmpty(written.list))
            \/ pc = "string" /\ (written.type = "terminated" => got' = written.list)
                             /\ (written.type = "unterminated" /\ size # Len(Chars(written))
                                   => got' = written.list)]_vars
=============================================================================
