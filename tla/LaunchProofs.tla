---------------------------- MODULE LaunchProofs ----------------------------
(***************************************************************************)
(* Proofs about AppLock and Launch for any number of GUIs and service      *)
(* processes and any number of files: where an open file cannot be         *)
(* removed, as on Windows, the lock file excludes; what the programs do to *)
(* it is what AppLock allows, so one process at a time has the queue open; *)
(* and the GUI window and its address.                                     *)
(***************************************************************************)
EXTENDS Launch, TLAPS

----------------------------------------------------------------------------
(* The lock file *)

\* The file a process holds open is the one the path names: nobody can have
\* replaced it, because it could not be removed while it was open.
OpenIsNamed ==
    \A p \in Procs : lpc[p] \in {"opened", "in", "unlocked"} => ino[p] = path /\ path # NoFile

\* A process that has no file open has no inode.
ClosedHasNone == \A p \in Procs : lpc[p] \in {"out", "closed"} => ino[p] = NoFile

LockInv == LockTypeOK /\ OpenIsNamed /\ ClosedHasNone /\ OneInstance

\* Nobody holds the lock at the start.
LEMMA LockInitInv == LockInit => LockInv
BY DEF LockInit, LockInv, LockTypeOK, OpenIsNamed, ClosedHasNone, OneInstance

\* Every step of a process preserves the invariant where RemoveOpen is false.
LEMMA LockStepInv == ASSUME ~RemoveOpen, LockInv, [LockNext]_lockVars PROVE LockInv'
<1> USE LockAssumption DEF LockInv, LockTypeOK
<1>1. ASSUME NEW p \in Procs, OpenLock(p) PROVE LockInv'
  <2>1. path' \in Files /\ path' # NoFile
        BY <1>1 DEF OpenLock, Unused
  <2>2. path = NoFile => \A q \in Procs : lpc[q] \in {"out", "closed"}
        BY DEF OpenIsNamed
  <2>3. LockTypeOK'
        BY <1>1, <2>1 DEF OpenLock
  <2>4. OpenIsNamed'
        BY <1>1, <2>1, <2>2 DEF OpenLock, OpenIsNamed
  <2>5. ClosedHasNone' /\ OneInstance'
        BY <1>1 DEF OpenLock, ClosedHasNone, OneInstance
  <2> QED BY <2>3, <2>4, <2>5
<1>2. ASSUME NEW p \in Procs, TryLock(p) PROVE LockInv'
  <2>1. CASE Locked(ino[p])
        BY <1>2, <2>1 DEF TryLock, OpenIsNamed, ClosedHasNone, OneInstance
  <2>2. CASE ~Locked(ino[p])
    <3>1. lpc' = [lpc EXCEPT ![p] = "in"] /\ UNCHANGED <<ino, path>> /\ lpc[p] = "opened"
          BY <1>2, <2>2 DEF TryLock
    <3>2. \A q \in Procs : lpc[q] # "in"
          BY <2>2, <3>1 DEF Locked, OpenIsNamed
    <3> QED BY <3>1, <3>2 DEF OpenIsNamed, ClosedHasNone, OneInstance
  <2> QED BY <2>1, <2>2
<1>3. ASSUME NEW p \in Procs, Unlock(p) PROVE LockInv'
      BY <1>3 DEF Unlock, OpenIsNamed, ClosedHasNone, OneInstance
<1>4. ASSUME NEW p \in Procs, CloseLock(p) PROVE LockInv'
      BY <1>4 DEF CloseLock, OpenIsNamed, ClosedHasNone, OneInstance
<1>5. ASSUME NEW p \in Procs, RemoveLock(p) PROVE LockInv'
  <2>1. path' # path => \A q \in Procs : ino[q] # path
        BY <1>5 DEF RemoveLock
  <2> QED BY <1>5, <2>1 DEF RemoveLock, OpenIsNamed, ClosedHasNone, OneInstance
<1>6. ASSUME NEW p \in Procs, KillLock(p) PROVE LockInv'
      BY <1>6 DEF KillLock, OpenIsNamed, ClosedHasNone, OneInstance
<1>7. CASE UNCHANGED lockVars
      BY <1>7 DEF lockVars, OpenIsNamed, ClosedHasNone, OneInstance
<1> QED BY <1>1, <1>2, <1>3, <1>4, <1>5, <1>6, <1>7 DEF LockNext

\* Where an open file cannot be removed, at most one process runs on a data
\* directory, whatever acquisitions, releases and kills interleave.
THEOREM LockExcludes == ~RemoveOpen => (LockSpec => []OneInstance)
<1> SUFFICES ASSUME ~RemoveOpen PROVE LockSpec => []OneInstance
    OBVIOUS
<1>1. LockInv /\ [LockNext]_lockVars => LockInv'
      BY LockStepInv
<1>2. LockInv => OneInstance
      BY DEF LockInv
<1> QED BY LockInitInv, <1>1, <1>2, PTL DEF LockSpec

----------------------------------------------------------------------------
(* The programs *)

LaunchTypeOK ==
    /\ at \in [Procs -> Places] /\ db \subseteq Procs

\* The queue is open only inside app.Run, which runs only inside the lock.
RunHoldsLock == \A p \in Procs : at[p] = "run" => lpc[p] = "in"
OpenInRun == \A p \in db : at[p] = "run"

\* From the lock to the window a GUI holds gui.lock, if every one so far has.
Owned == {"probe", "drop", "address", "up", "want", "run", "unlock"}
OwnsGuiLock == ~bare => \A p \in Guis : at[p] \in Owned => guiLock = p
OwnsUrl == ~bare => \A p \in Windows : url = p

LaunchInv == LaunchTypeOK /\ RunHoldsLock /\ OpenInRun /\ OwnsGuiLock /\ OwnsUrl

\* Processes are GUIs or services and not both.
LEMMA KindsOfProcess ==
    /\ Guis \subseteq Procs /\ Services \subseteq Procs /\ NoProc \notin Procs
    /\ \A p \in Services : p \notin Guis
BY LaunchConstants

\* What any step does to the lock file is a step of AppLock.
LEMMA LaunchIsLockStep == [LaunchNext]_vars => [LockNext]_lockVars
<1> USE KindsOfProcess
<1> SUFFICES ASSUME LaunchNext PROVE [LockNext]_lockVars
    BY DEF vars, lockVars
<1>1. ASSUME NEW p \in Procs, TakeLock(p) \/ Release(p) PROVE LockNext
      BY <1>1 DEF TakeLock, Release, LockNext
<1>2. ASSUME NEW p \in Procs, End(p) PROVE [LockNext]_lockVars
      BY <1>2 DEF End, LockNext
<1>3. ASSUME NEW p \in Procs, OpenDb(p) \/ CloseDb(p) PROVE UNCHANGED lockVars
      BY <1>3 DEF OpenDb, CloseDb
<1>4. ASSUME NEW p \in Guis,
             StartGui(p) \/ TakeGuiLock(p) \/ ReadUrl(p) \/ WriteUrl(p) \/ StartCore(p) \/ StopCore(p)
      PROVE  UNCHANGED lockVars
      BY <1>4 DEF StartGui, TakeGuiLock, ReadUrl, WriteUrl, StartCore, StopCore, GuiKeeps
<1>5. ASSUME NEW p \in Services, ScmStart(p) \/ Report(p) \/ Grace(p) PROVE UNCHANGED lockVars
      BY <1>5 DEF ScmStart, Report, Grace, ScmKeeps
<1>6. ScmStop => UNCHANGED lockVars
      BY DEF ScmStop, ScmKeeps
<1> QED BY <1>1, <1>2, <1>3, <1>4, <1>5, <1>6 DEF LaunchNext

\* Nobody runs at the start.
LEMMA LaunchInitInv == LaunchInit => LaunchInv
BY KindsOfProcess DEF LaunchInit, LaunchInv, LaunchTypeOK, Places, RunHoldsLock, OpenInRun,
       OwnsGuiLock, OwnsUrl, Windows, Owned

\* Every step preserves the invariant, given that the lock's variables are in their domains.
LEMMA LaunchStepInv == ASSUME LockTypeOK, LaunchInv, [LaunchNext]_vars PROVE LaunchInv'
<1> USE KindsOfProcess DEF LaunchInv, LaunchTypeOK, LockTypeOK
<1> DEFINE Inv == LaunchInv'
<1>1. ASSUME NEW p \in Procs, TakeLock(p) PROVE Inv
  <2>1. at[p] \in {"probe", "want"} /\ UNCHANGED <<db, guiLock, url, bare>>
        BY <1>1 DEF TakeLock
  <2>2. \A q \in Procs \ {p} : lpc'[q] = lpc[q]
        BY <1>1 DEF TakeLock, OpenLock, TryLock
  <2>3. \/ at' = at
        \/ /\ \E x \in Places : at' = [at EXCEPT ![p] = x]
           /\ at'[p] = "run" => lpc'[p] = "in"
           /\ p \in Guis => at'[p] \in Owned
           /\ p \in Guis /\ at[p] = "probe" => at'[p] \in {"drop", "address"}
        BY <1>1, <2>1 DEF TakeLock, Goto, Back, Places, Owned
  <2>4. at[p] \in Owned
        BY <2>1 DEF Owned
  <2>5. LaunchTypeOK'
        BY <2>1, <2>3
  <2>6. RunHoldsLock'
        BY <2>1, <2>2, <2>3 DEF RunHoldsLock
  <2>7. OpenInRun'
        BY <2>1, <2>3 DEF OpenInRun
  <2>8. OwnsGuiLock'
        BY <2>1, <2>3, <2>4 DEF OwnsGuiLock
  <2>9. OwnsUrl'
        BY <2>1, <2>3 DEF OwnsUrl, Windows
  <2> QED BY <2>5, <2>6, <2>7, <2>8, <2>9
<1>2. ASSUME NEW p \in Procs, OpenDb(p) \/ CloseDb(p) PROVE Inv
  <2>1. at[p] = "run" /\ UNCHANGED <<lpc, guiLock, url, bare>>
        BY <1>2 DEF OpenDb, CloseDb, Keeps, guiVars, lockVars
  <2>2. \/ at' = at /\ db' = db \cup {p}
        \/ at' = [at EXCEPT ![p] = "unlock"] /\ db' = db \ {p}
        BY <1>2 DEF OpenDb, CloseDb, Goto
  <2>3. LaunchTypeOK' /\ RunHoldsLock' /\ OpenInRun'
        BY <2>1, <2>2 DEF Places, RunHoldsLock, OpenInRun
  <2>4. OwnsGuiLock' /\ OwnsUrl'
        BY <2>1, <2>2 DEF OwnsGuiLock, OwnsUrl, Windows, Owned
  <2> QED BY <2>3, <2>4
<1>3. ASSUME NEW p \in Procs, Release(p) PROVE Inv
  <2>1. at[p] \in {"drop", "unlock"} /\ UNCHANGED <<db, guiLock, url, bare>>
        BY <1>3 DEF Release
  <2>2. \A q \in Procs \ {p} : lpc'[q] = lpc[q]
        BY <1>3 DEF Release, Unlock, CloseLock, RemoveLock
  <2>3. \/ at' = at
        \/ at[p] = "drop" /\ at' = [at EXCEPT ![p] = "address"]
        \/ at[p] = "unlock" /\ at' = [at EXCEPT ![p] = Back(p)]
        BY <1>3 DEF Release, Goto
  <2>4. LaunchTypeOK' /\ RunHoldsLock' /\ OpenInRun'
        BY <2>1, <2>2, <2>3 DEF Places, Back, RunHoldsLock, OpenInRun
  <2>5. OwnsGuiLock' /\ OwnsUrl'
        BY <2>1, <2>3 DEF OwnsGuiLock, OwnsUrl, Windows, Owned, Back
  <2> QED BY <2>4, <2>5
<1>4. ASSUME NEW p \in Procs, End(p) PROVE Inv
  <2>1. /\ at' = [at EXCEPT ![p] = "off"] /\ db' = db \ {p} /\ bare' = bare
        /\ guiLock' = (IF guiLock = p THEN NoProc ELSE guiLock)
        /\ url' = (IF url = p THEN "dead" ELSE url)
        BY <1>4 DEF End, Goto
  <2>2. \A q \in Procs \ {p} : lpc'[q] = lpc[q]
        BY <1>4 DEF End, KillLock, lockVars
  <2>3. LaunchTypeOK' /\ RunHoldsLock' /\ OpenInRun'
        BY <2>1, <2>2 DEF Places, RunHoldsLock, OpenInRun
  <2>4. OwnsGuiLock' /\ OwnsUrl'
        BY <2>1 DEF OwnsGuiLock, OwnsUrl, Windows, Owned
  <2> QED BY <2>3, <2>4
<1>5. ASSUME NEW p \in Guis, StartGui(p) \/ StartCore(p) \/ StopCore(p) PROVE Inv
  <2>1. UNCHANGED <<lpc, db, guiLock, url, bare>>
        BY <1>5 DEF StartGui, StartCore, StopCore, GuiKeeps, Keeps, guiVars, lockVars
  <2>2. \/ at' = at
        \/ at[p] = "off" /\ at' = [at EXCEPT ![p] = "lock"]
        \/ at[p] = "up" /\ at' = [at EXCEPT ![p] = "want"]
        BY <1>5 DEF StartGui, StartCore, StopCore, Goto
  <2>3. LaunchTypeOK' /\ RunHoldsLock' /\ OpenInRun'
        BY <2>1, <2>2 DEF Places, RunHoldsLock, OpenInRun
  <2>4. OwnsGuiLock' /\ OwnsUrl'
        BY <2>1, <2>2 DEF OwnsGuiLock, OwnsUrl, Windows, Owned
  <2> QED BY <2>3, <2>4
<1>6. ASSUME NEW p \in Guis, TakeGuiLock(p) PROVE Inv
  <2>1. at[p] = "lock" /\ UNCHANGED <<lpc, db, url, bare>>
        BY <1>6 DEF TakeGuiLock, GuiKeeps, lockVars
  <2>2. \/ guiLock = NoProc /\ guiLock' = p /\ at' = [at EXCEPT ![p] = "probe"]
        \/ guiLock' = guiLock /\ at' = [at EXCEPT ![p] = "url"]
        BY <1>6 DEF TakeGuiLock, Goto
  <2>3. LaunchTypeOK' /\ RunHoldsLock' /\ OpenInRun'
        BY <2>1, <2>2 DEF Places, RunHoldsLock, OpenInRun
  <2>4. OwnsGuiLock' /\ OwnsUrl'
        BY <2>1, <2>2 DEF OwnsGuiLock, OwnsUrl, Windows, Owned
  <2> QED BY <2>3, <2>4
<1>7. ASSUME NEW p \in Guis, ReadUrl(p) PROVE Inv
  <2>1. at[p] = "url" /\ UNCHANGED <<lpc, db, guiLock, url>>
        BY <1>7 DEF ReadUrl, GuiKeeps, lockVars
  <2>2. \/ bare' /\ at' = [at EXCEPT ![p] = "probe"]
        \/ bare' = bare /\ at' = [at EXCEPT ![p] = "off"]
        BY <1>7 DEF ReadUrl, Goto
  <2>3. LaunchTypeOK' /\ RunHoldsLock' /\ OpenInRun'
        BY <2>1, <2>2 DEF Places, RunHoldsLock, OpenInRun
  <2>4. OwnsGuiLock' /\ OwnsUrl'
        BY <2>1, <2>2 DEF OwnsGuiLock, OwnsUrl, Windows, Owned
  <2> QED BY <2>3, <2>4
<1>8. ASSUME NEW p \in Guis, WriteUrl(p) PROVE Inv
  <2>1. /\ at[p] = "address" /\ at' = [at EXCEPT ![p] = "up"] /\ url' = p
        /\ UNCHANGED <<lpc, db, guiLock, bare>>
        BY <1>8 DEF WriteUrl, GuiKeeps, Goto, lockVars
  <2>2. LaunchTypeOK' /\ RunHoldsLock' /\ OpenInRun'
        BY <2>1 DEF Places, RunHoldsLock, OpenInRun
  <2>3. OwnsGuiLock'
        BY <2>1 DEF OwnsGuiLock, Owned
  <2>4. OwnsUrl'
        BY <2>1, <2>3 DEF OwnsGuiLock, OwnsUrl, Windows, Owned
  <2> QED BY <2>2, <2>3, <2>4
<1>9. ASSUME NEW p \in Services, ScmStart(p) \/ Report(p) \/ Grace(p) PROVE Inv
  <2>1. UNCHANGED <<lpc, db, guiLock, url, bare>>
        BY <1>9 DEF ScmStart, Report, Grace, ScmKeeps, guiVars, lockVars
  <2>2. \/ at' = at
        \/ at[p] = "off" /\ at' = [at EXCEPT ![p] = "want"]
        \/ at[p] = "done" /\ at' = [at EXCEPT ![p] = "exit"]
        BY <1>9 DEF ScmStart, Report, Grace, Goto
  <2>3. LaunchTypeOK' /\ RunHoldsLock' /\ OpenInRun'
        BY <2>1, <2>2 DEF Places, RunHoldsLock, OpenInRun
  <2>4. OwnsGuiLock' /\ OwnsUrl'
        BY <2>1, <2>2 DEF OwnsGuiLock, OwnsUrl, Windows, Owned
  <2> QED BY <2>3, <2>4
<1>10. ASSUME ScmStop \/ UNCHANGED vars PROVE Inv
  <2>1. UNCHANGED <<lpc, at, db, guiLock, url, bare>>
        BY <1>10 DEF ScmStop, ScmKeeps, vars, guiVars, lockVars
  <2> QED BY <2>1 DEF RunHoldsLock, OpenInRun, OwnsGuiLock, OwnsUrl, Windows
<1> QED BY <1>1, <1>2, <1>3, <1>4, <1>5, <1>6, <1>7, <1>8, <1>9, <1>10 DEF LaunchNext

\* What the processes do to app.lock is a behaviour of AppLock, which is the
\* specification the lock was verified against (acquireLock, release).
THEOREM LaunchImplementsLock == LaunchSpec => LockSpec
<1>1. LaunchInit => LockInit
      BY DEF LaunchInit
<1> QED BY <1>1, LaunchIsLockStep, PTL DEF LaunchSpec, LockSpec

\* The lock's and the processes' invariants hold together.
THEOREM LaunchInvariance == ~RemoveOpen => (LaunchSpec => [](LockInv /\ LaunchInv))
<1> SUFFICES ASSUME ~RemoveOpen PROVE LaunchSpec => [](LockInv /\ LaunchInv)
    OBVIOUS
<1>1. LaunchInit => LockInv /\ LaunchInv
      BY LockInitInv, LaunchInitInv DEF LaunchInit
<1>2. LockInv /\ LaunchInv /\ [LaunchNext]_vars => LockInv' /\ LaunchInv'
  <2> SUFFICES ASSUME LockInv, LaunchInv, [LaunchNext]_vars PROVE LockInv' /\ LaunchInv'
      OBVIOUS
  <2>1. LockInv'
        BY LaunchIsLockStep, LockStepInv
  <2>2. LaunchInv'
        BY LaunchStepInv DEF LockInv
  <2> QED BY <2>1, <2>2
<1> QED BY <1>1, <1>2, PTL DEF LaunchSpec

\* Whatever number of GUIs and service processes there is, one at a time has
\* queue.db open (app.Run), where an open file cannot be removed.
THEOREM QueueHasOneOwner == ~RemoveOpen => (LaunchSpec => []OneDatabase)
<1> SUFFICES ASSUME ~RemoveOpen PROVE LaunchSpec => []OneDatabase
    OBVIOUS
<1>1. LockInv /\ LaunchInv => OneDatabase
      BY DEF LockInv, OneInstance, LaunchInv, LaunchTypeOK, RunHoldsLock, OpenInRun, OneDatabase
<1> QED BY <1>1, LaunchInvariance, PTL

\* One window at a time, and its address in gui.url, once a GUI has started in
\* peace (run.go 69-83, 164).
THEOREM WindowIsFound == ~RemoveOpen => (LaunchSpec => []UrlIsLive)
<1> SUFFICES ASSUME ~RemoveOpen PROVE LaunchSpec => []UrlIsLive
    OBVIOUS
<1>1. LaunchInv => UrlIsLive
      BY DEF LaunchInv, OwnsGuiLock, OwnsUrl, UrlIsLive, Windows, Owned
<1> QED BY <1>1, LaunchInvariance, PTL
=============================================================================
