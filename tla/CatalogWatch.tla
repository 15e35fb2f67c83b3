---------------------------- MODULE CatalogWatch ----------------------------
(***************************************************************************)
(* internal/gui/manager.go: CatalogManager keeps the session catalog of    *)
(* pulse-sessions.json in memory.  Its Run goroutine polls the file's      *)
(* mtime and scans the Downloads folder; the operator's requests import a  *)
(* found download, upload a file or reload by hand.  reload reads the file *)
(* outside the mutex and assigns under it, so two reloads interleave.      *)
(*                                                                         *)
(* A file is its catalog's version, 0 for one that ParseCatalog refuses (a *)
(* half-written file included), and its mtime, 0 for a missing file.       *)
(* Versions grow in the order the console exported them.                   *)
(***************************************************************************)
EXTENDS Naturals

CONSTANTS MaxVersion,   \* bound: exported catalogs
          MaxWrites,    \* bound: writes to files, each with a new mtime
          MaxOps        \* bound: requests of the operator

\* One catalog and one write stand for a file that was there before.
ASSUME CatalogConstants == {MaxVersion, MaxWrites} \subseteq Nat \ {0} /\ MaxOps \in Nat

VARIABLES file,      \* pulse-sessions.json
          download,  \* the pulse-sessions file in Downloads
          cat,       \* CatalogManager.cat, 0 for nil
          loadErr,   \* CatalogManager.loadErr is set
          pending,   \* CatalogManager.pendingImport is set
          task,      \* the Run goroutine and the operator's request
          lastMod,   \* Run's lastMod
          now,       \* the clock of the mtimes
          ops,       \* bound: requests so far
          raced      \* ghost: Run was starting and a reload had read the file when it changed

catalogVars == <<file, download, cat, loadErr, pending, task, lastMod, now, ops, raced>>

File == [v : 0..MaxVersion, at : 0..MaxWrites]
Absent == [v |-> 0, at |-> 0]
Tasks == {"run", "op"}

CatalogTypeOK ==
    /\ file \in File /\ download \in File
    /\ cat \in 0..MaxVersion /\ loadErr \in BOOLEAN /\ pending \in BOOLEAN
    /\ task \in [Tasks -> [pc : {"idle", "load", "again", "assign", "stat", "poll", "settle",
                                 "write", "remove", "clear"},
                           retry : BOOLEAN, got : File]]
    /\ lastMod \in 0..MaxWrites /\ now \in 0..MaxWrites /\ ops \in 0..MaxOps
    /\ raced \in BOOLEAN

CatalogInit ==
    /\ now = 1 /\ file \in {Absent, [v |-> 1, at |-> 1]} /\ download = Absent
    /\ cat = 0 /\ loadErr = FALSE /\ pending = FALSE /\ lastMod = 0 /\ ops = 0 /\ raced = FALSE
    /\ task = [t \in Tasks |-> [pc |-> IF t = "run" THEN "load" ELSE "idle",
                                retry |-> FALSE, got |-> Absent]]

At(t, pc) == task[t].pc = pc
Go(t, pc) == task' = [task EXCEPT ![t].pc = pc]

-----------------------------------------------------------------------------
(* reload *)

Load(t) ==
    /\ At(t, "load")
    /\ task' = [task EXCEPT ![t].got = file,
                            ![t].pc = IF file.v = 0 /\ task[t].retry THEN "again" ELSE "assign"]
    /\ UNCHANGED <<file, download, cat, loadErr, pending, lastMod, now, ops, raced>>

LoadAgain(t) ==
    /\ At(t, "again")
    /\ task' = [task EXCEPT ![t].got = file, ![t].pc = "assign"]
    /\ UNCHANGED <<file, download, cat, loadErr, pending, lastMod, now, ops, raced>>

\* An assignment that leaves an old parse error in place.
MutAssign(t) ==
    /\ At(t, "assign")
    /\ cat' = IF task[t].got.v = 0 THEN cat ELSE task[t].got.v
    /\ loadErr' = (loadErr \/ (task[t].got.v = 0 /\ task[t].got # Absent))
    /\ Go(t, IF t = "op" THEN "idle" ELSE IF task[t].retry THEN "poll" ELSE "stat")
    /\ UNCHANGED <<file, download, pending, lastMod, now, ops, raced>>

\* The last good catalog stays when the file is missing or cannot be parsed.
Assign(t) ==
    /\ At(t, "assign")
    /\ cat' = IF task[t].got.v = 0 THEN cat ELSE task[t].got.v
    /\ loadErr' = (task[t].got.v = 0 /\ task[t].got # Absent)
    /\ Go(t, IF t = "op" THEN "idle" ELSE IF task[t].retry THEN "poll" ELSE "stat")
    /\ UNCHANGED <<file, download, pending, lastMod, now, ops, raced>>

-----------------------------------------------------------------------------
(* Run: the first reload, then lastMod, then the tickers *)

StatFirst ==
    /\ At("run", "stat")
    /\ lastMod' = IF file = Absent THEN 0 ELSE file.at
    /\ Go("run", "poll")
    /\ UNCHANGED <<file, download, cat, loadErr, pending, now, ops, raced>>

Poll ==
    /\ At("run", "poll") /\ file # Absent /\ file.at # lastMod
    /\ lastMod' = file.at
    /\ Go("run", "settle")
    /\ UNCHANGED <<file, download, cat, loadErr, pending, now, ops, raced>>

\* The pause of 200 ms ends and reload(true) begins.
Settled ==
    /\ At("run", "settle")
    /\ task' = [task EXCEPT !["run"].pc = "load", !["run"].retry = TRUE]
    /\ UNCHANGED <<file, download, cat, loadErr, pending, lastMod, now, ops, raced>>

\* scanDownloads: only a find sets pendingImport, and nothing here clears it.
ScanDownloads ==
    /\ At("run", "poll") /\ download # Absent /\ download.at > file.at /\ ~pending
    /\ pending' = TRUE
    /\ UNCHANGED <<file, download, cat, loadErr, task, lastMod, now, ops, raced>>

-----------------------------------------------------------------------------
(* The operator's requests *)

\* Run has its first lastMod.
Booted == task["run"].retry \/ task["run"].pc \in {"poll", "settle"}

\* A new content of the file, with the next mtime.
Put(v) ==
    /\ now < MaxWrites /\ now' = now + 1 /\ file' = [v |-> v, at |-> now']
    /\ raced' = (raced \/ (~Booted /\ (~At("run", "load") \/ At("op", "assign"))))

Request == At("op", "idle") /\ ops < MaxOps /\ ops' = ops + 1

Refresh ==
    /\ Request
    /\ task' = [task EXCEPT !["op"].pc = "load", !["op"].retry = TRUE]
    /\ UNCHANGED <<file, download, cat, loadErr, pending, lastMod, now, raced>>

\* Import reads the candidate, if it is still there, without parsing it.
Import ==
    /\ Request /\ pending /\ download # Absent
    /\ task' = [task EXCEPT !["op"] = [pc |-> "write", retry |-> TRUE, got |-> download]]
    /\ UNCHANGED <<file, download, cat, loadErr, pending, lastMod, now, raced>>

ImportWrite ==
    /\ At("op", "write") /\ Put(task["op"].got.v)
    /\ Go("op", "remove")
    /\ UNCHANGED <<download, cat, loadErr, pending, lastMod, ops>>

ImportRemove ==
    /\ At("op", "remove")
    /\ download' = Absent /\ Go("op", "clear")
    /\ UNCHANGED <<file, cat, loadErr, pending, lastMod, now, ops, raced>>

ImportClear ==
    /\ At("op", "clear")
    /\ pending' = FALSE /\ Go("op", "load")
    /\ UNCHANGED <<file, download, cat, loadErr, lastMod, now, ops, raced>>

\* ImportContent: only content that parses is written.
ImportContent(v) ==
    /\ Request /\ v > 0 /\ Put(v)
    /\ task' = [task EXCEPT !["op"].pc = "load", !["op"].retry = TRUE]
    /\ UNCHANGED <<download, cat, loadErr, pending, lastMod>>

-----------------------------------------------------------------------------
(* The file system outside the GUI *)

\* Between reading the file and assigning the result a task is not held up for
\* the 200 ms that Run waits after a change, so no other reload overtakes it.
Prompt == Booted => \A t \in Tasks : ~At(t, "assign")

\* Someone overwrites the catalog, in several writes if it is slow.
Overwrite(v) ==
    /\ Prompt
    /\ Put(v)
    /\ UNCHANGED <<download, cat, loadErr, pending, task, lastMod, ops>>

Download(v) ==
    /\ now < MaxWrites /\ now' = now + 1 /\ download' = [v |-> v, at |-> now']
    /\ UNCHANGED <<file, cat, loadErr, pending, task, lastMod, ops, raced>>

CatalogTask == \/ \E t \in Tasks : Load(t) \/ LoadAgain(t) \/ Assign(t)
               \/ StatFirst \/ Poll \/ Settled \/ ScanDownloads
               \/ ImportWrite \/ ImportRemove \/ ImportClear

CatalogNext == \/ CatalogTask \/ Refresh \/ Import
               \/ \E v \in 0..MaxVersion : ImportContent(v) \/ Overwrite(v) \/ Download(v)

CatalogSpec == CatalogInit /\ [][CatalogNext]_catalogVars

\* The goroutines run on and the tickers fire.
CatalogLiveSpec ==
    /\ CatalogSpec
    /\ \A t \in Tasks : WF_catalogVars(Load(t) \/ LoadAgain(t) \/ Assign(t))
    /\ WF_catalogVars(StatFirst \/ Poll \/ Settled)
    /\ WF_catalogVars(ImportWrite \/ ImportRemove \/ ImportClear)

-----------------------------------------------------------------------------
(* Properties *)

(***************************************************************************)
(* Once nobody writes the catalog file any more, the catalog in memory     *)
(* becomes the file's, or its parse error is shown (Run, reload; the GUI   *)
(* design's section 3.3: an overwritten file is reloaded at once), through *)
(* half-written files and imports in the middle of a reload.  The          *)
(* exception is a file that changed while Run started: its mtime is taken  *)
(* for lastMod after the reload that missed it.                            *)
(***************************************************************************)
CatalogConverges ==
    <>[](\/ raced \/ file = Absent
         \/ file.v = 0 /\ loadErr
         \/ file.v > 0 /\ cat = file.v /\ ~loadErr)
=============================================================================
