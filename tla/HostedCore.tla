----------------------------- MODULE HostedCore -----------------------------
(***************************************************************************)
(* The GUI in hosting mode: internal/gui/core.go's CoreController, which   *)
(* owns the life of app.Run, and the operator's requests of                *)
(* internal/gui/run.go that rewrite config.json through                    *)
(* internal/gui/cfgwrite.go and restart the core.  The HTTP server runs    *)
(* each request in a goroutine of its own and nothing serialises them, so  *)
(* a step here is one access to a file, to the controller or to the view;  *)
(* to write a file is to open and truncate it, then to write.  Files are   *)
(* those of Windows, where the GUI runs: one that a request has open can   *)
(* be neither renamed, replaced nor removed.                               *)
(*                                                                         *)
(* A configuration is what the requests change of it: the readers and      *)
(* their tokens.  A catalog session stands for its token.  intent, crashed *)
(* and lastErr, which only choose the status the GUI shows, are left out.  *)
(***************************************************************************)
EXTENDS Naturals, Functions

CONSTANTS Handlers,    \* request goroutines, numbered
          Readers,     \* reader ids
          Tokens,      \* tokens of the session catalog
          Zero,        \* the placeholder token of a reader without a session
          NoFile,      \* config.json.bak or .tmp does not exist
          Blank,       \* a file opened for writing, nothing written yet
          Torn,        \* what two requests wrote over each other
          InitTokens,  \* the tokens of config.json when the GUI starts
          MaxReqs,     \* bound: requests
          MaxFaults,   \* bound: crashes of the core and foreign instances
          MaxEnds      \* bound: ends of the GUI process

Config == UNION {[S -> Tokens \cup {Zero}] : S \in (SUBSET Readers) \ {{}}}

\* validate: no two readers share a token, the placeholder included.
Valid(c) == \A r, s \in DOMAIN c : c[r] = c[s] => r = s

\* config.Load succeeds.
Loadable(c) == c \notin {NoFile, Blank, Torn} /\ Valid(c)

ASSUME HostConstants ==
    /\ InitTokens \in Config /\ Valid(InitTokens)
    /\ {NoFile, Blank, Torn} \cap Config = {} /\ Zero \notin Tokens
    /\ Handlers \subseteq Nat /\ {MaxReqs, MaxFaults, MaxEnds} \subseteq Nat

VARIABLES disk,     \* config.json
          bak,      \* config.json.bak
          tmp,      \* config.json.tmp
          view,     \* guiApp.cfg, NoFile without one
          mode,     \* guiApp.mode; "blank" started without a configuration, "off" not running
          core,     \* CoreController: running, its configuration, ctx cancelled
          foreign,  \* another instance holds app.lock
          req,      \* handler -> the request it serves
          overlapped, \* ghost: two requests have been under way at once
          unreloaded, \* ghost: a resume saved a token and failed to start the core
          reqs,     \* bound: requests made
          faults,   \* bound: faults so far
          ends      \* bound: ends of the GUI so far

ghosts == <<overlapped, unreloaded>>
hostVars == <<disk, bak, tmp, view, core, foreign, mode, req, ghosts, reqs, faults, ends>>

Kinds == {"apply", "resume", "resumeOnly", "save", "start", "stop", "restart"}
Pcs == {"idle", "read", "openBak", "writeBak", "openTmp", "writeTmp", "rename", "rmtmp", "running", "stop",
        "stopping", "queue", "load", "start", "rollback", "giveup", "openCfg", "writeCfg", "rmrestored",
        "recover", "rmbak", "reload", "replyOk", "replyErr", "replyBack"}

\* raw, out: config.json as the request read it, and as it wants it; back,
\* next: what RollbackConfig restores, and where it returns to.
NoReq == [pc |-> "idle", kind |-> "stop", reader |-> CHOOSE r \in Readers : TRUE, token |-> Zero,
          readers |-> {}, raw |-> InitTokens, out |-> InitTokens, saved |-> FALSE,
          back |-> NoFile, next |-> "idle"]

Content == Config \cup {Blank, Torn}

HostTypeOK ==
    /\ disk \in Content /\ bak \in Content \cup {NoFile} /\ tmp \in Content \cup {NoFile}
    /\ view \in Config \cup {NoFile} /\ mode \in {"hosting", "observer", "blank", "off"}
    /\ core \in [up : BOOLEAN, cfg : Config, ending : BOOLEAN]
    /\ foreign \in BOOLEAN
    /\ req \in [Handlers -> [pc : Pcs, kind : Kinds, reader : Readers, token : Tokens \cup {Zero},
                             readers : SUBSET Readers, raw : Content, out : Config,
                             saved : BOOLEAN, back : Content \cup {NoFile}, next : Pcs]]
    /\ ghosts \in BOOLEAN \X BOOLEAN
    /\ reqs \in 0..MaxReqs /\ faults \in 0..MaxFaults /\ ends \in 0..MaxEnds

\* No core: its configuration is of no account.
Standby == [up |-> FALSE, cfg |-> InitTokens, ending |-> FALSE]

\* The operator has started the core; a stop or a crash puts it on standby.
HostInit ==
    /\ disk = InitTokens /\ view = InitTokens /\ bak = NoFile /\ tmp = NoFile
    /\ core = [up |-> TRUE, cfg |-> InitTokens, ending |-> FALSE]
    /\ foreign = FALSE /\ mode = "hosting" /\ req = [h \in Handlers |-> NoReq]
    /\ overlapped = FALSE /\ unreloaded = FALSE /\ reqs = 0 /\ faults = 0 /\ ends = 0

Goto(h, pc) == req' = [req EXCEPT ![h].pc = pc]
Fault == faults < MaxFaults /\ faults' = faults + 1

-----------------------------------------------------------------------------
(* A request arrives, for the first free goroutine; its checks read the view *)

FirstPc(kind) == IF kind \in {"apply", "resume", "save"} THEN "read"
                 ELSE IF kind = "start" THEN "start" ELSE "stop"

Arrive(h, kind, reader, token, readers) ==
    /\ mode # "off" /\ reqs < MaxReqs /\ reqs' = reqs + 1
    /\ req[h].pc = "idle" /\ \A g \in Handlers : g < h => req[g].pc # "idle"
    /\ req' = [req EXCEPT ![h] = [NoReq EXCEPT !.pc = FirstPc(kind), !.kind = kind,
                 !.reader = reader, !.token = token, !.readers = readers]]
    /\ overlapped' = (overlapped \/ \E g \in Handlers \ {h} : req[g].pc # "idle")
    /\ UNCHANGED <<disk, bak, tmp, view, core, foreign, mode, unreloaded, faults, ends>>

\* applySession: a known reader, no other reader has the session.  A GUI that started
\* without a configuration has no catalog manager, and the handler panics.
ApplySession(h, r, t) ==
    /\ mode \in {"hosting", "observer"} /\ r \in DOMAIN view /\ \A s \in DOMAIN view \ {r} : view[s] # t
    /\ Arrive(h, "apply", r, t, {})

\* resume with a session checks nothing but the catalog.
Resume(h, r, t) ==
    mode = "hosting" /\ Arrive(h, IF t = Zero THEN "resumeOnly" ELSE "resume", r, t, {})

ConfigSave(h, S) == S # {} /\ Arrive(h, "save", CHOOSE r \in Readers : TRUE, Zero, S)

\* coreControl: start and restart need a reader with a session.
CoreControl(h, action) ==
    /\ mode = "hosting"
    /\ action = "stop" \/ \E r \in DOMAIN view : view[r] # Zero
    /\ Arrive(h, action, CHOOSE r \in Readers : TRUE, Zero, {})

-----------------------------------------------------------------------------
(* WriteReaderSession and WriteConfig *)

\* The readers and tokens json.Unmarshal finds.
ReadersIn(c) == IF c \in {Blank, Torn} THEN <<>> ELSE c

\* WriteConfig: a reader keeps its token, a lone renamed reader takes the lone old one's.
EditReaders(c, S) ==
    [r \in S |-> IF r \in DOMAIN c THEN c[r]
                 ELSE IF \E o \in Readers : DOMAIN c = {o} /\ S = {r} THEN c[CHOOSE o \in DOMAIN c : TRUE]
                 ELSE Zero]

Edited(q, c) == IF q.kind = "save" THEN EditReaders(c, q.readers) ELSE [c EXCEPT ![q.reader] = q.token]

\* The reader exists and the result passes config.Parse.
Accepts(q, c) == (q.kind = "save" \/ q.reader \in DOMAIN c) /\ Valid(Edited(q, c))

\* An empty config.json is not backed up.  What the request asked for is in
\* out from here on.
ReadConfig(h) ==
    LET q == req[h]  c == ReadersIn(disk) IN
    /\ q.pc = "read"
    /\ IF Accepts(q, c)
       THEN req' = [req EXCEPT ![h] = [NoReq EXCEPT !.kind = q.kind, !.raw = disk, !.out = Edited(q, c),
                                         !.pc = IF disk = Blank THEN "openTmp" ELSE "openBak"]]
       ELSE Goto(h, "replyErr")
    /\ UNCHANGED <<disk, bak, tmp, view, core, foreign, mode, ghosts, reqs, faults, ends>>

IsOpen(pc) == \E g \in Handlers : req[g].pc = pc

\* A write into a file that another request has written since it was
\* truncated leaves the rest of the longer content.
Written(old, new) == IF new = Blank THEN {old} ELSE IF old \in {Blank, new} THEN {new} ELSE {new, Torn}

WriteBackup(h) ==
    /\ \/ req[h].pc = "openBak" /\ bak' = Blank /\ Goto(h, "writeBak")
       \/ req[h].pc = "writeBak" /\ bak' \in Written(bak, req[h].raw) /\ Goto(h, "openTmp")
    /\ UNCHANGED <<disk, tmp, view, core, foreign, mode, ghosts, reqs, faults, ends>>

WriteTemp(h) ==
    /\ \/ req[h].pc = "openTmp" /\ tmp' = Blank /\ Goto(h, "writeTmp")
       \/ req[h].pc = "writeTmp" /\ tmp' \in Written(tmp, req[h].out) /\ Goto(h, "rename")
    /\ UNCHANGED <<disk, bak, view, core, foreign, mode, ghosts, reqs, faults, ends>>

\* Rename moves whatever .tmp holds; it fails if another request has moved it
\* or has one of the two files open.
Rename(h) ==
    /\ req[h].pc = "rename"
    /\ IF tmp = NoFile \/ IsOpen("writeTmp") \/ IsOpen("writeCfg")
       THEN Goto(h, "rmtmp") /\ UNCHANGED <<disk, tmp>>
       ELSE /\ disk' = tmp /\ tmp' = NoFile
            /\ req' = [req EXCEPT ![h].saved = TRUE, ![h].out = NoReq.out,
                         ![h].pc = CASE req[h].kind = "apply" -> "running"
                                     [] req[h].kind = "save" -> "load"
                                     [] OTHER -> "stop"]
    /\ UNCHANGED <<bak, view, core, foreign, mode, ghosts, reqs, faults, ends>>

RemoveTemp(h) ==
    /\ req[h].pc = "rmtmp"
    /\ tmp' = IF IsOpen("writeTmp") THEN tmp ELSE NoFile
    /\ Goto(h, "replyErr")
    /\ UNCHANGED <<disk, bak, view, core, foreign, mode, ghosts, reqs, faults, ends>>

\* configSave reads back what it wrote before it restarts the core, if it hosts one.
LoadBack(h) ==
    /\ req[h].pc = "load"
    /\ Goto(h, IF ~Loadable(disk) THEN "giveup" ELSE IF mode = "hosting" THEN "stop" ELSE "rmbak")
    /\ UNCHANGED <<disk, bak, tmp, view, core, foreign, mode, ghosts, reqs, faults, ends>>

\* A rollback that moves .bak out of the way before it writes.
MutReadBackup(h) ==
    LET next == IF req[h].pc = "rollback" THEN "recover" ELSE "replyErr" IN
    /\ req[h].pc \in {"rollback", "giveup"}
    /\ IF bak = NoFile \/ req[h].raw = Blank
       THEN Goto(h, next) /\ UNCHANGED bak
       ELSE /\ req' = [req EXCEPT ![h].pc = "openCfg", ![h].back = bak, ![h].next = next]
            /\ bak' = NoFile
    /\ UNCHANGED <<disk, tmp, view, core, foreign, mode, ghosts, reqs, faults, ends>>

\* RollbackConfig: read .bak, write config.json, remove .bak.  Without a .bak
\* nothing is restored, and the callers do not look.
ReadBackup(h) ==
    LET next == IF req[h].pc = "rollback" THEN "recover" ELSE "replyErr" IN
    /\ req[h].pc \in {"rollback", "giveup"}
    /\ IF bak = NoFile \/ req[h].raw = Blank
       THEN Goto(h, next)
       ELSE req' = [req EXCEPT ![h].pc = "openCfg", ![h].back = bak, ![h].next = next]
    /\ UNCHANGED <<disk, bak, tmp, view, core, foreign, mode, ghosts, reqs, faults, ends>>

\* A rollback that restores nothing.
MutRestore(h) ==
    /\ req[h].pc = "openCfg" /\ Goto(h, "rmrestored")
    /\ UNCHANGED <<disk, bak, tmp, view, core, foreign, mode, ghosts, reqs, faults, ends>>

Restore(h) ==
    /\ \/ req[h].pc = "openCfg" /\ disk' = Blank /\ Goto(h, "writeCfg")
       \/ req[h].pc = "writeCfg" /\ disk' \in Written(disk, req[h].back) /\ Goto(h, "rmrestored")
    /\ UNCHANGED <<bak, tmp, view, core, foreign, mode, ghosts, reqs, faults, ends>>

RemoveRestored(h) ==
    /\ req[h].pc = "rmrestored"
    /\ bak' = IF IsOpen("writeBak") THEN bak ELSE NoFile
    /\ Goto(h, req[h].next)
    /\ UNCHANGED <<disk, tmp, view, core, foreign, mode, ghosts, reqs, faults, ends>>

-----------------------------------------------------------------------------
(* CoreController *)

\* An applySession that leaves a running core alone.
MutCheckRunning(h) ==
    /\ req[h].pc = "running" /\ Goto(h, "rmbak")
    /\ UNCHANGED <<disk, bak, tmp, view, core, foreign, mode, ghosts, reqs, faults, ends>>

\* applySession restarts only a running core.
CheckRunning(h) ==
    /\ req[h].pc = "running"
    /\ Goto(h, IF core.up THEN "stop" ELSE "rmbak")
    /\ UNCHANGED <<disk, bak, tmp, view, core, foreign, mode, ghosts, reqs, faults, ends>>

AfterStop(kind) == IF kind \in {"resume", "resumeOnly"} THEN "queue"
                   ELSE IF kind = "stop" THEN "replyOk" ELSE "start"

\* resume goes back to the old configuration and leaves the core as it is.
StopFailed(q) == IF ~q.saved THEN "replyErr" ELSE IF q.kind = "resume" THEN "giveup" ELSE "rollback"

StopCore(h) ==
    /\ req[h].pc = "stop"
    /\ core' = [core EXCEPT !.ending = core.up]
    /\ Goto(h, IF core.up THEN "stopping" ELSE AfterStop(req[h].kind))
    /\ UNCHANGED <<disk, bak, tmp, view, foreign, mode, ghosts, reqs, faults, ends>>

\* A Stop that polls without a deadline.
MutStopPoll(h) ==
    /\ req[h].pc = "stopping" /\ ~core.up
    /\ Goto(h, AfterStop(req[h].kind))
    /\ UNCHANGED <<disk, bak, tmp, view, core, foreign, mode, ghosts, reqs, faults, ends>>

\* Stop's poll: the core is seen stopped, or coreStopGrace passes first.
StopPoll(h) ==
    /\ req[h].pc = "stopping"
    /\ Goto(h, IF core.up THEN StopFailed(req[h]) ELSE AfterStop(req[h].kind))
    /\ UNCHANGED <<disk, bak, tmp, view, core, foreign, mode, ghosts, reqs, faults, ends>>

CanStart == ~core.up /\ ~foreign /\ Loadable(disk)

Started == IF CanStart THEN [up |-> TRUE, cfg |-> disk, ending |-> FALSE] ELSE core

AfterStart(q) == IF q.kind \in {"apply", "save"} THEN "rmbak"
                 ELSE IF q.kind \in {"resume", "resumeOnly"} THEN "reload" ELSE "replyOk"

StartFailed(q) == IF q.kind \in {"apply", "save"} THEN "rollback" ELSE "replyErr"

StartCore(h) ==
    /\ req[h].pc = "start"
    /\ core' = Started
    /\ Goto(h, IF CanStart THEN AfterStart(req[h]) ELSE StartFailed(req[h]))
    /\ unreloaded' = (unreloaded \/ (req[h].kind = "resume" /\ ~CanStart))
    /\ UNCHANGED <<disk, bak, tmp, view, foreign, mode, overlapped, reqs, faults, ends>>

\* QueueResume, which may refuse; it needs app.lock.
QueueResume(h) ==
    /\ req[h].pc = "queue"
    /\ LET done == IF req[h].saved THEN "rmbak" ELSE "start"
           failed == IF req[h].saved THEN "rollback" ELSE "recover" IN
       \/ ~core.up /\ ~foreign /\ Loadable(disk) /\ Goto(h, done)
       \/ Goto(h, failed)
    /\ UNCHANGED <<disk, bak, tmp, view, core, foreign, mode, ghosts, reqs, faults, ends>>

\* Start with the restored configuration; its error is ignored.
Recover(h) ==
    /\ req[h].pc = "recover"
    /\ core' = Started
    /\ Goto(h, IF req[h].kind \in {"apply", "save"} THEN "replyBack" ELSE "replyErr")
    /\ UNCHANGED <<disk, bak, tmp, view, foreign, mode, ghosts, reqs, faults, ends>>

RemoveBackup(h) ==
    /\ req[h].pc = "rmbak"
    /\ bak' = IF req[h].raw = Blank \/ IsOpen("writeBak") THEN bak ELSE NoFile
    /\ Goto(h, IF req[h].kind = "resume" THEN "start" ELSE "reload")
    /\ UNCHANGED <<disk, tmp, view, core, foreign, mode, ghosts, reqs, faults, ends>>

\* A reload that only follows the requests that restarted the core.
MutReloadCfg(h) ==
    /\ req[h].pc = "reload" /\ Goto(h, "replyOk")
    /\ view' = IF Loadable(disk) /\ core.up THEN disk ELSE view
    /\ unreloaded' = FALSE
    /\ UNCHANGED <<disk, bak, tmp, core, foreign, mode, overlapped, reqs, faults, ends>>

ReloadCfg(h) ==
    /\ req[h].pc = "reload" /\ Goto(h, "replyOk")
    /\ view' = IF Loadable(disk) THEN disk ELSE view
    /\ unreloaded' = (unreloaded /\ ~Loadable(disk))
    /\ UNCHANGED <<disk, bak, tmp, core, foreign, mode, overlapped, reqs, faults, ends>>

Replied(h) ==
    /\ req[h].pc \in {"replyOk", "replyErr", "replyBack"}
    /\ req' = [req EXCEPT ![h] = NoReq]
    /\ UNCHANGED <<disk, bak, tmp, view, core, foreign, mode, ghosts, reqs, faults, ends>>

HandlerStep(h) ==
    \/ ReadConfig(h) \/ WriteBackup(h) \/ WriteTemp(h) \/ Rename(h) \/ RemoveTemp(h) \/ LoadBack(h)
    \/ ReadBackup(h) \/ Restore(h) \/ RemoveRestored(h)
    \/ CheckRunning(h) \/ StopCore(h) \/ StopPoll(h) \/ StartCore(h) \/ QueueResume(h)
    \/ Recover(h) \/ RemoveBackup(h) \/ ReloadCfg(h) \/ Replied(h)

-----------------------------------------------------------------------------
(* The core and the other instance *)

\* app.Run returns after cancel; the watcher clears running.
CoreEnds ==
    /\ core.up /\ core.ending
    /\ core' = Standby
    /\ UNCHANGED <<disk, bak, tmp, view, foreign, mode, req, ghosts, reqs, faults, ends>>

\* app.Run fails by itself.
CoreCrashes ==
    /\ core.up /\ ~core.ending /\ Fault
    /\ core' = Standby
    /\ UNCHANGED <<disk, bak, tmp, view, foreign, mode, req, ghosts, reqs, ends>>

\* The Windows service is started or stopped outside the GUI.
ForeignToggles ==
    /\ IF foreign THEN UNCHANGED faults ELSE ~core.up /\ Fault
    /\ foreign' = ~foreign
    /\ UNCHANGED <<disk, bak, tmp, view, core, mode, req, ghosts, reqs, ends>>

\* The GUI process ends, its core and its requests with it; the files stay as they are.
\* Bound: not before the first request, since the GUI could as well have started later,
\* and not after requests have overlapped.
GuiEnds ==
    /\ mode # "off" /\ mode' = "off" /\ reqs > 0 /\ ~overlapped /\ ends < MaxEnds /\ ends' = ends + 1
    /\ req' = [h \in Handlers |-> NoReq] /\ core' = Standby
    /\ unreloaded' = FALSE
    /\ UNCHANGED <<disk, bak, tmp, view, foreign, overlapped, reqs, faults>>

\* Run: config.json is loaded, and app.lock tried and let go.
GuiStarts ==
    /\ mode = "off"
    /\ view' = IF Loadable(disk) THEN disk ELSE NoFile
    /\ mode' = IF ~Loadable(disk) THEN "blank" ELSE IF foreign THEN "observer" ELSE "hosting"
    /\ UNCHANGED <<disk, bak, tmp, core, foreign, req, ghosts, reqs, faults, ends>>

NewRequest(h) ==
    \/ \E r \in Readers : \/ \E t \in Tokens : ApplySession(h, r, t)
                          \/ \E t \in Tokens \cup {Zero} : Resume(h, r, t)
    \/ \E S \in SUBSET Readers : ConfigSave(h, S)
    \/ \E a \in {"start", "stop", "restart"} : CoreControl(h, a)

HostNext == \/ \E h \in Handlers : NewRequest(h) \/ HandlerStep(h)
            \/ CoreEnds \/ CoreCrashes \/ ForeignToggles \/ GuiEnds \/ GuiStarts

HostSpec == HostInit /\ [][HostNext]_hostVars

\* Each request goroutine runs on; nothing makes a cancelled core end.
HostLiveSpec == HostSpec /\ \A h \in Handlers : WF_hostVars(HandlerStep(h))

-----------------------------------------------------------------------------
(* Properties *)

(***************************************************************************)
(* As long as no two requests have overlapped, config.json can be loaded   *)
(* at every moment, since what is renamed to it was validated ("backup,    *)
(* validate, atomic write", cfgwrite.go 104) - but for the instant in      *)
(* which a rollback rewrites it, or if the GUI process has ended in that   *)
(* instant: then its backup is there and can be loaded, and an operator    *)
(* never has to type it in anew (WriteReaderSession, WriteConfig,          *)
(* RollbackConfig).                                                        *)
(***************************************************************************)
DiskValid ==
    ~overlapped => \/ Loadable(disk)
                   \/ (IsOpen("writeCfg") \/ ends > 0) /\ Loadable(bak)

(***************************************************************************)
(* Between requests that have not overlapped, the configuration the GUI    *)
(* checks requests against is the one on disk, whatever failed or was      *)
(* rolled back, unless a resume could not start the core (reloadCfg).      *)
(***************************************************************************)
ViewIsDisk ==
    ~overlapped /\ ~unreloaded /\ mode # "off" /\ (\A h \in Handlers : req[h].pc = "idle")
    => view = IF Loadable(disk) THEN disk ELSE NoFile

(***************************************************************************)
(* Between requests that have not overlapped, a core that runs and is not  *)
(* being stopped runs the configuration on disk: every path of             *)
(* applySession, resume and configSave, rollbacks included, leaves the two *)
(* equal.                                                                  *)
(***************************************************************************)
RunningMatchesDisk ==
    ~overlapped /\ (\A h \in Handlers : req[h].pc = "idle") /\ core.up /\ ~core.ending
    => core.cfg = disk

(***************************************************************************)
(* A request that answers that it went back to the previous configuration  *)
(* has done so: config.json is what the request found (run.go 430, 710).   *)
(***************************************************************************)
RolledBackMeansOld ==
    ~overlapped => \A h \in Handlers : req[h].pc = "replyBack" => disk = req[h].raw

(***************************************************************************)
(* Every request is answered, even if it overlaps others and if the core   *)
(* never stops: Stop gives up after its grace period, although another     *)
(* request may start the core again while it polls (core.go 87).           *)
(***************************************************************************)
RequestsEnd == \A h \in Handlers : req[h].pc # "idle" ~> req[h].pc = "idle"
=============================================================================
