------------------------------ MODULE LogFiles ------------------------------
(***************************************************************************)
(* The log folder: internal/logging/logging.go's writeFile, which rotates  *)
(* and cleans up, and internal/gui/observe.go's tailLogs, with which a GUI *)
(* that does not host the core follows the newest file.                    *)
(*                                                                         *)
(* A file name is its date and its rotation number: 0 is                   *)
(* middleware-DATE.jsonl, n is middleware-DATE.n.jsonl.  Sizes are in      *)
(* units of the shortest line.                                             *)
(***************************************************************************)
EXTENDS Naturals, FiniteSets, FiniteSetsExt

CONSTANTS RotateSize,   \* rotateSize
          KeepFiles,    \* keepFiles
          KeepDays,     \* keepDays
          MaxLine,      \* bound: longest line
          MaxDay,       \* bound: days
          MaxTurns,     \* bound: times the clock is set back over midnight
          MaxWrites,    \* bound: lines written
          MaxRestarts   \* bound: restarts of the logger's process

\* Rotation numbers have one digit, so that their names sort as numbers do.
MaxNum == 8

ASSUME LogConstants ==
    /\ {RotateSize, KeepFiles, KeepDays, MaxLine} \subseteq Nat \ {0}
    /\ {MaxDay, MaxTurns, MaxWrites, MaxRestarts} \subseteq Nat

VARIABLES removeOpen, \* the platform: an open file can be removed (Unix) or not (Windows)
          files,     \* name -> size
          open,      \* the logger's file: its name and fSize
          linked,    \* the logger's file still has its name
          day,       \* today
          turns,     \* times the clock was set back over midnight
          writes,    \* bound: lines written
          restarts,  \* bound: restarts so far
          tail       \* the file tailLogs follows

logVars == <<removeOpen, files, open, linked, day, turns, writes, restarts, tail>>

Names == (0..MaxDay) \X (0..MaxNum)
NoName == <<MaxDay + 1, 0>>
Closed == [name |-> NoName, size |-> 0]

LogTypeOK ==
    /\ DOMAIN files \subseteq Names
    /\ files \in [DOMAIN files -> Nat] /\ removeOpen \in BOOLEAN
    /\ open \in [name : Names \cup {NoName}, size : Nat] /\ linked \in BOOLEAN
    /\ day \in 0..MaxDay /\ turns \in 0..MaxTurns /\ writes \in 0..MaxWrites /\ restarts \in 0..MaxRestarts
    /\ tail \in Names \cup {NoName}

LogInit ==
    /\ removeOpen \in BOOLEAN
    /\ files = <<>> /\ open = Closed /\ linked = TRUE
    /\ day = 0 /\ turns = 0 /\ writes = 0 /\ restarts = 0 /\ tail = NoName

(***************************************************************************)
(* sort.Strings on the names: by date, and within a date ".1.jsonl" comes  *)
(* before ".jsonl", so the day's first file sorts after all its            *)
(* successors.                                                             *)
(***************************************************************************)
Rank(f) == (MaxNum + 1) * f[1] + (IF f[2] = 0 THEN MaxNum ELSE f[2] - 1)

\* openFile that reopens a full file.
MutUsable(f) == f \notin DOMAIN files \/ files[f] <= RotateSize

\* openFile takes the first name that is free or below the limit.
Usable(f) == f \notin DOMAIN files \/ files[f] < RotateSize

OpenFile == LET free == {n \in 0..MaxNum : Usable(<<day, n>>)} IN
            IF free = {} THEN NoName ELSE <<day, Min(free)>>

\* The names cleanup removes because there are too many: the first ones in order.
Surplus(names) ==
    {f \in names : Cardinality({g \in names : Rank(g) < Rank(f)}) + KeepFiles < Cardinality(names)}

\* cleanup with the file just opened; a file that cannot be removed stays.
Cleanup(names, opened) ==
    LET outdated == {f \in names : f[1] + KeepDays < day}
        doomed == outdated \cup Surplus(names \ outdated)
    IN  names \ (IF removeOpen THEN doomed ELSE doomed \ {opened, tail})

\* writeFile: a line of length len, after a rotation if it is due.
WriteLine(len) ==
    LET rotate == open = Closed \/ open.name[1] # day \/ open.size + len > RotateSize
        target == IF rotate THEN OpenFile ELSE open.name
        present == IF rotate THEN DOMAIN files \cup {target} ELSE DOMAIN files
        kept == IF rotate THEN Cleanup(present, target) ELSE present
        oldSize == IF ~rotate THEN open.size
                   ELSE IF target \in DOMAIN files THEN files[target] ELSE 0
        alive == IF rotate THEN target \in kept ELSE linked
    IN  /\ writes < MaxWrites /\ target # NoName
        /\ files' = [f \in kept |-> IF f = target /\ alive THEN oldSize + len ELSE files[f]]
        /\ open' = [name |-> target, size |-> oldSize + len]
        /\ linked' = alive
        /\ writes' = writes + 1
        /\ UNCHANGED <<removeOpen, day, turns, restarts, tail>>

\* The process ends and starts again: the next line opens a file.
Restart ==
    /\ open # Closed /\ restarts < MaxRestarts
    /\ restarts' = restarts + 1 /\ open' = Closed /\ linked' = TRUE
    /\ UNCHANGED <<removeOpen, files, day, turns, writes, tail>>

NewDay ==
    /\ day < MaxDay /\ day' = day + 1
    /\ UNCHANGED <<removeOpen, files, open, linked, turns, writes, restarts, tail>>

\* The clock is set back over midnight: the folder may hold files of later dates.
DayBack ==
    /\ day > 0 /\ turns < MaxTurns
    /\ day' = day - 1 /\ turns' = turns + 1
    /\ UNCHANGED <<removeOpen, files, open, linked, writes, restarts, tail>>

\* latestLogFile: the last name in order.
Latest == CHOOSE f \in DOMAIN files : \A g \in DOMAIN files : Rank(g) <= Rank(f)

\* A tail that stays with the file it opened first.
MutTailSwitch ==
    /\ files # <<>> /\ tail = NoName
    /\ tail' = Latest
    /\ UNCHANGED <<removeOpen, files, open, linked, day, turns, writes, restarts>>

\* openLatest, at the start and whenever checkNewer ticks.
TailSwitch ==
    /\ files # <<>> /\ tail # Latest
    /\ tail' = Latest
    /\ UNCHANGED <<removeOpen, files, open, linked, day, turns, writes, restarts>>

LogNext == (\E len \in 1..MaxLine : WriteLine(len)) \/ Restart \/ NewDay \/ DayBack \/ TailSwitch

LogSpec == LogInit /\ [][LogNext]_logVars

\* The ticker of tailLogs fires.
LogLiveSpec == LogSpec /\ WF_logVars(TailSwitch)

-----------------------------------------------------------------------------
(* Properties *)

(***************************************************************************)
(* The folder is bounded (docs/log-management.ko.md section 4): at most    *)
(* KeepFiles files, and on Windows the two that are open, none longer than *)
(* RotateSize and a line, although the limit is checked twice, in          *)
(* writeFile with the line and in openFile without it.                     *)
(***************************************************************************)
FolderBounded ==
    /\ Cardinality(DOMAIN files) <= KeepFiles + (IF removeOpen THEN 0 ELSE 2)
    /\ \A f \in DOMAIN files : files[f] < RotateSize + MaxLine

(***************************************************************************)
(* The tail gets to the day being logged (GUI design 2.4: a new file is    *)
(* followed when the log rotates), whatever cleanup removed on the way,    *)
(* and is beyond it only if the clock was set back: a file of a later date *)
(* then keeps the tail.  Within a day it need not get to the file being    *)
(* written: the day's first file sorts last and keeps the tail.            *)
(***************************************************************************)
TailReachesDay ==
    []<>(open # Closed => /\ tail # NoName /\ tail[1] >= open.name[1]
                          /\ tail[1] > open.name[1] => turns > 0)
=============================================================================
