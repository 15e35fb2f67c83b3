------------------------------- MODULE Launch -------------------------------
(***************************************************************************)
(* The processes that may run on one data directory: GUIs                  *)
(* (internal/gui/run.go) and processes of the Windows service              *)
(* (internal/winsvc).  Each takes app.lock through the steps of AppLock;   *)
(* gui.lock, taken by the same code, is one step here.  A command-line run *)
(* is, for the lock, a service process nobody is told about.  Any process  *)
(* may end at any point: the operator quits, a grace period runs out, it   *)
(* is killed, the machine goes down.                                       *)
(***************************************************************************)
EXTENDS AppLock

CONSTANTS Guis, Services,
          NoProc     \* no process, no address

ASSUME LaunchConstants ==
    /\ Procs = Guis \cup Services /\ Guis \cap Services = {}
    /\ {NoProc, "dead"} \cap Procs = {}

VARIABLES at,       \* where each process is
          db,       \* processes that have queue.db open
          cancelled,\* processes whose app.Run has been told to end
          mode,     \* GUI -> guiApp.mode
          guiLock,  \* the GUI that holds gui.lock
          url,      \* the GUI whose address gui.url holds; "dead" once that one has ended
          scm,      \* what the service control manager has been told
          cur,      \* the process it has been told of
          bare      \* ghost: a GUI has started without gui.lock

guiVars == <<mode, guiLock, url, bare>>
scmVars == <<scm, cur>>
vars == <<lockVars, at, db, cancelled, guiVars, scmVars>>

Places == {"off", "lock", "url", "probe", "drop", "address", "up", "want", "run", "unlock", "done", "exit"}

LaunchInit ==
    /\ LockInit
    /\ at = [p \in Procs |-> "off"] /\ db = {} /\ cancelled = {}
    /\ mode = [p \in Guis |-> "none"] /\ guiLock = NoProc /\ url = NoProc
    /\ scm = "stopped" /\ cur = NoProc /\ bare = FALSE

Goto(p, place) == at' = [at EXCEPT ![p] = place]

\* Where a process goes when it has no app.Run any more.
Back(p) == IF p \in Guis THEN "up" ELSE "done"

-----------------------------------------------------------------------------
(* app.lock and app.Run *)

Keeps == UNCHANGED <<guiVars, scmVars>>

TakeLock(p) ==
    /\ at[p] \in {"probe", "want"} /\ (OpenLock(p) \/ TryLock(p))
    /\ \/ lpc'[p] = "opened" /\ UNCHANGED <<at, mode>>
       \/ lpc'[p] = "in" /\ Goto(p, IF at[p] = "probe" THEN "drop" ELSE "run") /\ UNCHANGED mode
       \/ lpc'[p] = "out" /\ at[p] = "probe" /\ Goto(p, "address") /\ mode' = [mode EXCEPT ![p] = "observer"]
       \/ lpc'[p] = "out" /\ at[p] = "want" /\ Goto(p, Back(p)) /\ UNCHANGED mode
    /\ UNCHANGED <<db, cancelled, guiLock, url, bare, scmVars>>

\* app.Run opens the queue, unless the log or the disk is not to be used.  It returns
\* as if it were told to when the gates cannot be restored from it.
OpenDb(p) ==
    /\ at[p] = "run" /\ p \notin db
    /\ \/ db' = db \cup {p} /\ cancelled' \in {cancelled, cancelled \cup {p}} /\ UNCHANGED at
       \/ Goto(p, "unlock") /\ UNCHANGED <<db, cancelled>>
    /\ Keeps /\ UNCHANGED lockVars

\* Deferred functions in the other order: the lock goes first.
MutCloseDb(p) ==
    \/ /\ at[p] = "run" /\ p \in db /\ p \in cancelled /\ Goto(p, "unlock")
       /\ Keeps /\ UNCHANGED <<lockVars, cancelled, db>>
    \/ /\ p \in db /\ lpc[p] = "out" /\ db' = db \ {p}
       /\ Keeps /\ UNCHANGED <<lockVars, cancelled, at>>

\* app.Run returns: the queue is closed, then the lock given back.
CloseDb(p) ==
    /\ at[p] = "run" /\ p \in db /\ p \in cancelled
    /\ db' = db \ {p} /\ Goto(p, "unlock")
    /\ Keeps /\ UNCHANGED <<lockVars, cancelled>>

\* release; the GUI's arbitration gives app.lock back at once and then hosts.
Release(p) ==
    /\ at[p] \in {"drop", "unlock"} /\ (Unlock(p) \/ CloseLock(p) \/ RemoveLock(p))
    /\ IF lpc'[p] = "out"
       THEN /\ Goto(p, IF at[p] = "drop" THEN "address" ELSE Back(p))
            /\ mode' = IF at[p] = "drop" THEN [mode EXCEPT ![p] = "hosting"] ELSE mode
            /\ cancelled' = cancelled \ {p}
       ELSE UNCHANGED <<at, mode, cancelled>>
    /\ UNCHANGED <<db, guiLock, url, bare, scmVars>>

-----------------------------------------------------------------------------
(* The GUI *)

GuiKeeps == UNCHANGED <<lockVars, db, cancelled, scmVars>>

StartGui(p) == at[p] = "off" /\ Goto(p, "lock") /\ GuiKeeps /\ UNCHANGED guiVars

\* AcquireNamedLock fails if another GUI has the lock, or if the file cannot be made.
TakeGuiLock(p) ==
    /\ at[p] = "lock"
    /\ \/ guiLock = NoProc /\ guiLock' = p /\ Goto(p, "probe")
       \/ Goto(p, "url") /\ UNCHANGED guiLock
    /\ GuiKeeps /\ UNCHANGED <<mode, url, bare>>

\* Without the lock: the address in gui.url is opened and the process ends, but
\* without an address it starts all the same.
ReadUrl(p) ==
    /\ at[p] = "url"
    /\ IF url = NoProc THEN Goto(p, "probe") /\ bare' = TRUE
                       ELSE Goto(p, "off") /\ UNCHANGED bare
    /\ GuiKeeps /\ UNCHANGED <<mode, guiLock, url>>

\* Only a GUI that hosts writes its address.
MutWriteUrl(p) ==
    /\ at[p] = "address" /\ Goto(p, "up")
    /\ url' = IF mode[p] = "hosting" THEN p ELSE url
    /\ GuiKeeps /\ UNCHANGED <<mode, guiLock, bare>>

\* The server is up and its address written.
WriteUrl(p) ==
    /\ at[p] = "address" /\ Goto(p, "up") /\ url' = p
    /\ GuiKeeps /\ UNCHANGED <<mode, guiLock, bare>>

\* The operator starts and stops the hosted core.
StartCore(p) ==
    /\ at[p] = "up" /\ mode[p] = "hosting" /\ Goto(p, "want")
    /\ GuiKeeps /\ UNCHANGED guiVars

StopCore(p) ==
    /\ at[p] = "run" /\ cancelled' = cancelled \cup {p}
    /\ Keeps /\ UNCHANGED <<lockVars, at, db>>

-----------------------------------------------------------------------------
(* The service *)

ScmKeeps == UNCHANGED <<lockVars, db, guiVars>>

\* The manager starts a process for a service that is stopped, although the
\* process before may not have gone yet.
ScmStart(p) ==
    /\ scm = "stopped" /\ at[p] = "off"
    /\ scm' = "running" /\ cur' = p /\ Goto(p, "want")
    /\ ScmKeeps /\ UNCHANGED cancelled

\* Execute takes a stop.
ScmStop ==
    /\ scm = "running" /\ scm' = "pending" /\ cancelled' = cancelled \cup {cur}
    /\ ScmKeeps /\ UNCHANGED <<at, cur>>

\* Execute reports that app.Run has returned.
Report(p) ==
    /\ at[p] = "done" /\ Goto(p, "exit")
    /\ IF cur = p THEN scm' = "stopped" /\ cur' = NoProc ELSE UNCHANGED scmVars
    /\ ScmKeeps /\ UNCHANGED cancelled

\* Ten seconds after the stop Execute reports all the same.
Grace(p) ==
    /\ cur = p /\ scm = "pending"
    /\ scm' = "stopped" /\ cur' = NoProc
    /\ ScmKeeps /\ UNCHANGED <<at, cancelled>>

-----------------------------------------------------------------------------

\* The process ends; the OS closes its files and drops its locks.
End(p) ==
    /\ at[p] # "off" /\ Goto(p, "off")
    /\ IF lpc[p] = "out" THEN UNCHANGED lockVars ELSE KillLock(p)
    /\ db' = db \ {p} /\ cancelled' = cancelled \ {p}
    /\ mode' = IF p \in Guis THEN [mode EXCEPT ![p] = "none"] ELSE mode
    /\ guiLock' = IF guiLock = p THEN NoProc ELSE guiLock
    /\ url' = IF url = p THEN "dead" ELSE url
    /\ IF cur = p THEN scm' = "stopped" /\ cur' = NoProc ELSE UNCHANGED scmVars
    /\ UNCHANGED bare

LaunchNext ==
    \/ \E p \in Procs : TakeLock(p) \/ OpenDb(p) \/ CloseDb(p) \/ Release(p) \/ End(p)
    \/ \E p \in Guis : \/ StartGui(p) \/ TakeGuiLock(p) \/ ReadUrl(p) \/ WriteUrl(p)
                       \/ StartCore(p) \/ StopCore(p)
    \/ \E p \in Services : ScmStart(p) \/ Report(p) \/ Grace(p)
    \/ ScmStop

LaunchSpec == LaunchInit /\ [][LaunchNext]_vars

-----------------------------------------------------------------------------
(* Properties *)

(***************************************************************************)
(* At most one process has queue.db open, whatever ends, hangs or is       *)
(* started anew: app.Run opens it inside app.lock and closes it before the *)
(* lock is given back, and a GUI's arbitration never keeps the lock        *)
(* (app.Run, CoreController.Start, QueueResume).                           *)
(***************************************************************************)
OneDatabase == \A p, q \in db : p = q

Windows == {p \in Guis : at[p] \in {"up", "want", "run", "unlock"}}

(***************************************************************************)
(* While a GUI is open another start finds its address and not that of an  *)
(* earlier one, in hosting as in observer mode (run.go 78-81, 164), and so *)
(* no second window opens - unless one was started before the first had    *)
(* written its address.                                                    *)
(***************************************************************************)
UrlIsLive == ~bare => \A p \in Windows : guiLock = p /\ url = p
=============================================================================
