------------------------------ MODULE AppLock ------------------------------
(***************************************************************************)
(* internal/app/lock_unix.go and lock_windows.go: the exclusive lock that  *)
(* keeps two instances (service, CLI, GUI host, queue resume) off one data *)
(* directory.  Each system call is a step.  The two builds differ in       *)
(* os.Remove: Unix unlinks a file that others have open, Windows refuses   *)
(* (Go opens files without FILE_SHARE_DELETE).                             *)
(***************************************************************************)
EXTENDS Naturals, FiniteSets

CONSTANTS Procs,       \* processes that want the data directory
          Files,       \* file objects (inodes) the path may name in turn
          NoFile,      \* the path names nothing; a process has nothing open
          RemoveOpen   \* TRUE in the Unix build, FALSE in the Windows build

ASSUME LockAssumption == NoFile \notin Files /\ RemoveOpen \in BOOLEAN

VARIABLES path,   \* the file app.lock names
          ino,    \* the file each process has open
          lpc     \* where each process is in acquireLock and release

lockVars == <<path, ino, lpc>>

LockTypeOK ==
  /\ path \in Files \cup {NoFile}
  /\ ino \in [Procs -> Files \cup {NoFile}]
  /\ lpc \in [Procs -> {"out", "opened", "in", "unlocked", "closed"}]

LockInit ==
  /\ path = NoFile
  /\ ino = [p \in Procs |-> NoFile]
  /\ lpc = [p \in Procs |-> "out"]

Unused == {f \in Files : f # path /\ \A p \in Procs : ino[p] # f}

\* O_CREATE: open what the path names, or create it.
OpenLock(p) ==
  /\ lpc[p] = "out"
  /\ IF path = NoFile THEN path' \in Unused ELSE path' = path
  /\ ino' = [ino EXCEPT ![p] = path']
  /\ lpc' = [lpc EXCEPT ![p] = "opened"]

Locked(f) == \E q \in Procs : lpc[q] = "in" /\ ino[q] = f

\* The non-blocking exclusive lock; on failure the file is closed again.
TryLock(p) ==
  /\ lpc[p] = "opened"
  /\ \/ ~Locked(ino[p]) /\ lpc' = [lpc EXCEPT ![p] = "in"] /\ UNCHANGED ino
     \/ /\ Locked(ino[p])
        /\ lpc' = [lpc EXCEPT ![p] = "out"]
        /\ ino' = [ino EXCEPT ![p] = NoFile]
  /\ UNCHANGED path

Unlock(p) ==
  /\ lpc[p] = "in"
  /\ lpc' = [lpc EXCEPT ![p] = "unlocked"]
  /\ UNCHANGED <<path, ino>>

CloseLock(p) ==
  /\ lpc[p] = "unlocked"
  /\ lpc' = [lpc EXCEPT ![p] = "closed"]
  /\ ino' = [ino EXCEPT ![p] = NoFile]
  /\ UNCHANGED path

\* os.Remove by name: whatever the path names now.
RemoveLock(p) ==
  /\ lpc[p] = "closed"
  /\ path' = IF RemoveOpen \/ \A q \in Procs : ino[q] # path THEN NoFile ELSE path
  /\ lpc' = [lpc EXCEPT ![p] = "out"]
  /\ UNCHANGED ino

\* The process ends anywhere: the OS closes its file and drops its lock.
KillLock(p) ==
  /\ lpc[p] # "out"
  /\ lpc' = [lpc EXCEPT ![p] = "out"]
  /\ ino' = [ino EXCEPT ![p] = NoFile]
  /\ UNCHANGED path

LockNext == \E p \in Procs : \/ OpenLock(p) \/ TryLock(p) \/ Unlock(p) \/ CloseLock(p)
                             \/ RemoveLock(p) \/ KillLock(p)

LockSpec == LockInit /\ [][LockNext]_lockVars

----------------------------------------------------------------------------

\* At most one process runs on the data directory: no interleaving of one
\* release with two acquisitions lets a second one in (acquireLock).
OneInstance == \A p, q \in Procs : lpc[p] = "in" /\ lpc[q] = "in" => p = q
=============================================================================
