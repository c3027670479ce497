------------------------------ MODULE OsVersion ------------------------------
(***************************************************************************)
(* cpp4j::OSVersion (CmnUtil.cpp): which Windows the program runs on.  The *)
(* comment above it copies Microsoft's table of version numbers; Table     *)
(* states its rows, and GetOsVersion the decisions of the code.            *)
(***************************************************************************)
EXTENDS Naturals

CONSTANTS Majors, Minors \* the version numbers a machine can report

VARIABLES machine, \* what Windows would answer
          osvi,    \* the cached answer, or NotAsked
          answer   \* what the last call returned

versionVars == <<machine, osvi, answer>>

Machines == [dwMajorVersion : Majors, dwMinorVersion : Minors, workstation : BOOLEAN,
             amd64 : BOOLEAN, serverR2 : BOOLEAN, homeServer : BOOLEAN]

NotAsked == [dwMajorVersion |-> 0, dwMinorVersion |-> 0, workstation |-> FALSE,
             amd64 |-> FALSE, serverR2 |-> FALSE, homeServer |-> FALSE]

Is(m, major, minor) == m.dwMajorVersion = major /\ m.dwMinorVersion = minor

-----------------------------------------------------------------------------
(* The rows of the table, with the constant of enum OSVer for each name.   *)
Table(m) ==
    {name \in {"WIN_10_PRE", "WIN_8_1", "WIN_8", "WIN_7", "WIN_VISTA"} :
        /\ m.workstation
        /\ CASE name = "WIN_10_PRE" -> Is(m, 10, 0)
             [] name = "WIN_8_1"    -> Is(m, 6, 3)
             [] name = "WIN_8"      -> Is(m, 6, 2)
             [] name = "WIN_7"      -> Is(m, 6, 1)
             [] name = "WIN_VISTA"  -> Is(m, 6, 0)}
    \cup
    {name \in {"WIN_SERVER_PRE", "WIN_2012_R2", "WIN_2012", "WIN_2008_R2", "WIN_2008"} :
        /\ ~m.workstation
        /\ CASE name = "WIN_SERVER_PRE" -> Is(m, 10, 0)
             [] name = "WIN_2012_R2"    -> Is(m, 6, 3)
             [] name = "WIN_2012"       -> Is(m, 6, 2)
             [] name = "WIN_2008_R2"    -> Is(m, 6, 1)
             [] name = "WIN_2008"       -> Is(m, 6, 0)}
    \cup
    {name \in {"WIN_2003_R2", "WIN_HOME", "WIN_2003", "WIN_XP_PRO", "WIN_XP", "WIN_2000"} :
        CASE name = "WIN_2003_R2" -> Is(m, 5, 2) /\ m.serverR2
          [] name = "WIN_HOME"    -> Is(m, 5, 2) /\ m.homeServer
          [] name = "WIN_2003"    -> Is(m, 5, 2) /\ ~m.serverR2
          [] name = "WIN_XP_PRO"  -> Is(m, 5, 2) /\ m.workstation /\ m.amd64
          [] name = "WIN_XP"      -> Is(m, 5, 1)
          [] name = "WIN_2000"    -> Is(m, 5, 0)}

-----------------------------------------------------------------------------
IsWinXPProX64_AnyProduct(m) == Is(m, 5, 2) /\ m.amd64
IsWinXPProX64(m) == Is(m, 5, 2) /\ m.workstation /\ m.amd64

(* The tests in the code's order.                                          *)
GetOsVersion(m) ==
    CASE Is(m, 5, 0) -> "WIN_2000"
      [] Is(m, 5, 1) -> "WIN_XP"
      [] Is(m, 5, 2) -> IF IsWinXPProX64(m) THEN "WIN_XP_PRO"
                        ELSE IF ~m.serverR2 THEN "WIN_2003"
                        ELSE IF m.homeServer THEN "WIN_HOME"
                        ELSE "WIN_2003_R2"
      [] Is(m, 6, 0) -> IF m.workstation THEN "WIN_VISTA" ELSE "WIN_2008"
      [] Is(m, 6, 1) -> IF m.workstation THEN "WIN_7" ELSE "WIN_2008_R2"
      [] Is(m, 6, 2) -> IF m.workstation THEN "WIN_8" ELSE "WIN_2012"
      [] Is(m, 6, 3) -> IF m.workstation THEN "WIN_8_1" ELSE "WIN_2012_R2"
      [] Is(m, 10, 3) -> IF m.workstation THEN "WIN_10_PRE" ELSE "WIN_SERVER_PRE"
      [] OTHER -> "WIN_UNKNOWN"

AtMostWin2003R2(m) == m.dwMajorVersion <= 5 /\ m.dwMinorVersion <= 2
AtLeastWinVista(m) == m.dwMajorVersion >= 6

VersionInit ==
    /\ machine \in Machines
    /\ osvi = NotAsked
    /\ answer = [name |-> "none", old |-> FALSE, new |-> FALSE]

(* The three questions, asked of the cached answer; ____Init asks Windows  *)
(* as long as the cached major version is zero.                            *)
Ask ==
    /\ osvi' = IF osvi.dwMajorVersion = 0 THEN machine ELSE osvi
    /\ answer' = [name |-> GetOsVersion(osvi'), old |-> AtMostWin2003R2(osvi'),
                  new |-> AtLeastWinVista(osvi')]
    /\ UNCHANGED machine

VersionNext == Ask

VersionSpec == VersionInit /\ [][VersionNext]_versionVars

-----------------------------------------------------------------------------
Asked == answer.name # "none"

(* Up to Windows 8.1 every system of the table gets the name of a row it   *)
(* satisfies, and is either at most 2003 R2 or at least Vista, as the      *)
(* comments above the two functions enumerate.                             *)
NamedUpTo8_1 ==
    Asked /\ machine.dwMajorVersion < 10 /\ Table(machine) # {} =>
        /\ answer.name \in Table(machine)
        /\ answer.old # answer.new
        /\ answer.new <=> machine.dwMajorVersion = 6

(* Windows 10 and its server get the name of their row.                    *)
NamedWindows10 ==
    Asked /\ machine.dwMajorVersion = 10 /\ Table(machine) # {} =>
        answer.name \in Table(machine)
=============================================================================
