------------------------------ MODULE GuiProofs ------------------------------
(***************************************************************************)
(* Proofs about what the GUI process keeps on disk and shows of it: the    *)
(* configuration and the core that runs it (HostedCore), for any readers,  *)
(* tokens, requests, faults and ends of the process, and the session       *)
(* catalog (CatalogWatch), for any number of writes and requests.  What    *)
(* the properties of HostedCore say of requests that have not overlapped   *)
(* rests on a description of the one request under way.                    *)
(***************************************************************************)
EXTENDS HostedCore, CatalogWatch, TLAPS

Reqs == [pc : Pcs, kind : Kinds, reader : Readers, token : Tokens \cup {Zero},
         readers : SUBSET Readers, raw : Content, out : Config,
         saved : BOOLEAN, back : Content \cup {NoFile}, next : Pcs]

\* What the GUI shows of a configuration file.
Seen(c) == IF Loadable(c) THEN c ELSE NoFile

InStep == core.up /\ ~core.ending => core.cfg = disk
Halted == core.up => core.ending

Writers == {"apply", "resume", "save"}
Before == {"read", "openBak", "writeBak", "openTmp", "writeTmp", "rename"}
Undoable == {"running", "load", "stop", "stopping", "queue", "start", "rollback", "giveup", "openCfg", "writeCfg", "rmbak"}
HostPcs == {"stop", "stopping", "queue", "start", "rollback", "recover"}

\* Where the request may be, for its kind and for the mode of the GUI.
PathInv(q) ==
    /\ q.pc \notin {"idle", "rmtmp"} /\ mode # "off"
    /\ q.kind \notin {"apply", "save"} => mode = "hosting"
    /\ q.kind = "apply" => mode # "blank"
    /\ q.pc \in HostPcs => mode = "hosting"
    /\ q.pc \in {"openCfg", "writeCfg", "rmrestored"} => q.next \in {"recover", "replyErr"} /\ mode = "hosting"
    /\ q.pc \in {"openCfg", "writeCfg", "rmrestored"} /\ q.kind \in {"apply", "save"} => q.next = "recover"
    /\ q.pc \in Before => q.kind \in Writers /\ ~q.saved
    /\ q.pc = "read" /\ q.kind = "save" => q.readers # {}
    /\ q.pc \in Undoable /\ q.kind \in Writers => q.saved
    /\ q.pc \in {"running", "load", "rollback", "giveup", "openCfg", "writeCfg", "rmrestored", "rmbak"} => q.kind \in Writers
    /\ q.pc = "giveup" => mode = "hosting" /\ q.kind = "resume"
    /\ q.pc \in {"rmrestored", "recover", "reload"} /\ q.kind \in Writers => q.saved
    /\ q.saved => q.kind \in Writers
    /\ q.raw = Blank => /\ mode = "blank" /\ q.kind = "save"
                        /\ q.pc \in {"openTmp", "writeTmp", "rename", "load", "rmbak", "reload", "replyOk"}

\* The three files while the request is under way.
FileInv(q) ==
    /\ \/ q.pc = "writeCfg" /\ disk = Blank
       \/ disk \in Config /\ Loadable(disk)
       \/ /\ disk = Blank /\ mode = "blank" /\ Loadable(bak) /\ ends > 0
          /\ q.pc \in {"read", "openTmp", "writeTmp", "rename", "replyErr"}
    /\ q.pc = "writeCfg" => disk = Blank
    /\ q.pc \in Before \ {"read"} => q.raw = disk /\ Valid(q.out)
    /\ q.pc \in {"openBak", "writeBak"} => q.raw # Blank
    /\ q.pc = "writeBak" => bak = Blank
    /\ q.pc \in {"openTmp", "writeTmp", "rename"} /\ q.raw # Blank => bak = q.raw
    /\ q.pc = "writeTmp" => tmp = Blank
    /\ q.pc = "rename" => tmp = q.out
    /\ q.pc \in Undoable /\ q.saved /\ q.raw # Blank => q.raw \in Config /\ Loadable(q.raw)
    /\ q.pc \in Undoable /\ q.saved /\ q.raw # Blank /\ ~(q.pc = "start" /\ q.kind = "resume") => bak = q.raw
    /\ q.pc \in {"openCfg", "writeCfg"} => q.back = q.raw
    /\ q.pc \in {"rmrestored", "replyBack"} \/ (q.pc = "recover" /\ q.saved) => disk = q.raw

\* config.json is not the one the view was read from.
Dirty(q) == q.saved /\ q.pc \in Undoable \cup {"reload"}

ViewInv(q) ==
    ~unreloaded => /\ Dirty(q) => view = Seen(q.raw)
                   /\ ~Dirty(q) => view = Seen(disk)

CoreInv(q) ==
    /\ q.pc \in {"stopping", "queue", "rollback", "giveup", "openCfg", "writeCfg", "rmrestored", "recover"}
         \/ (q.pc = "start" /\ q.kind \in {"apply", "save"}) => Halted
    /\ q.pc \in Before \cup {"rmbak", "reload", "replyOk", "replyErr", "replyBack"}
         \/ (q.pc = "start" /\ q.kind \notin {"apply", "save"}) => InStep

Serving(q) == PathInv(q) /\ FileInv(q) /\ ViewInv(q) /\ CoreInv(q)

AllIdle == \A h \in Handlers : req[h].pc = "idle"

\* Between requests.
Resting ==
    /\ \/ disk \in Config /\ Loadable(disk)
       \/ disk = Blank /\ Loadable(bak) /\ ends > 0 /\ mode \in {"off", "blank"}
    /\ ~unreloaded /\ mode # "off" => view = Seen(disk)
    /\ InStep

Cores == [up : BOOLEAN, cfg : Config, ending : BOOLEAN]

Typed ==
    /\ req \in [Handlers -> Reqs] /\ core \in Cores
    /\ mode \in {"hosting", "observer", "blank", "off"}
    /\ core.up => mode = "hosting"
    /\ ends \in Nat

HostInv ==
    ~overlapped =>
       /\ Typed
       /\ \A g, h \in Handlers : req[g].pc # "idle" /\ req[h].pc # "idle" => g = h
       /\ \A h \in Handlers : req[h].pc # "idle" => Serving(req[h])
       /\ \A h \in Handlers : req[h].pc = "idle" => req[h] = NoReq
       /\ AllIdle => Resting

\* The request of h is the only one under way.
Alone(h) ==
    /\ ~overlapped /\ Typed /\ req[h] \in Reqs
    /\ req[h].pc # "idle" /\ Serving(req[h])
    /\ \A g \in Handlers : g # h => req[g].pc = "idle" /\ req[g] = NoReq

\* What a step of that request leaves.
Going(h) ==
    /\ req' \in [Handlers -> Reqs] /\ core' \in Cores
    /\ \A g \in Handlers : g # h => req'[g] = req[g]
    /\ core'.up => mode = "hosting"
    /\ PathInv(req[h])' /\ FileInv(req[h])' /\ ViewInv(req[h])' /\ CoreInv(req[h])'

LEMMA LoadFacts ==
  /\ InitTokens \in Config /\ ~Loadable(Blank) /\ ~Loadable(NoFile)
  /\ Blank \notin Config /\ NoFile \notin Config
  /\ \A c \in Config : Valid(c) <=> Loadable(c)
BY HostConstants DEF Loadable

LEMMA NoReqFacts ==
  /\ NoReq \in Reqs /\ NoReq.pc = "idle" /\ NoReq.kind = "stop" /\ NoReq.raw = InitTokens /\ NoReq.out = InitTokens
  /\ NoReq.saved = FALSE /\ NoReq.raw # Blank
  /\ (CHOOSE r \in Readers : TRUE) \in Readers
<1>1. PICK S \in (SUBSET Readers) \ {{}} : InitTokens \in [S -> Tokens \cup {Zero}]
      BY HostConstants DEF Config
<1>2. (CHOOSE r \in Readers : TRUE) \in Readers
  <2>1. \E r \in Readers : TRUE
        BY <1>1
  <2> QED BY <2>1
<1> DEFINE d == CHOOSE r \in Readers : TRUE
<1>3. /\ "idle" \in Pcs /\ "stop" \in Kinds /\ d \in Readers /\ Zero \in Tokens \cup {Zero} /\ {} \in SUBSET Readers
      /\ InitTokens \in Config /\ InitTokens \in Content /\ NoFile \in Content \cup {NoFile}
      BY <1>2, LoadFacts DEF Pcs, Kinds, Content
<1>4. NoReq = [pc |-> "idle", kind |-> "stop", reader |-> d, token |-> Zero,
               readers |-> {}, raw |-> InitTokens, out |-> InitTokens, saved |-> FALSE,
               back |-> NoFile, next |-> "idle"]
      BY DEF NoReq
<1> HIDE DEF d
<1>5. NoReq \in Reqs
      BY <1>3, <1>4 DEF Reqs
<1>6. /\ NoReq.pc = "idle" /\ NoReq.kind = "stop" /\ NoReq.raw = InitTokens /\ NoReq.out = InitTokens
      /\ NoReq.saved = FALSE
      BY <1>4
<1>7. NoReq.raw # Blank
      BY <1>6, LoadFacts
<1> QED BY <1>2, <1>5, <1>6, <1>7

\* Before and after a step that only moves the request on.
Moves(h, pc) ==
    LET q == req[h]  r == req'[h] IN
    /\ req' \in [Handlers -> Reqs] /\ \A g \in Handlers : g # h => req'[g] = req[g]
    /\ r.pc = pc /\ r.kind = q.kind /\ r.raw = q.raw /\ r.out = q.out /\ r.saved = q.saved
    /\ r.back = q.back /\ r.next = q.next /\ r.readers = q.readers

LEMMA GotoFacts ==
  ASSUME NEW h \in Handlers, Typed, NEW pc \in Pcs, Goto(h, pc)
  PROVE  Moves(h, pc)
<1>1. req[h] \in Reqs /\ req \in [Handlers -> Reqs]
      BY DEF Typed
<1>2. req' = [req EXCEPT ![h] = [req[h] EXCEPT !.pc = pc]]
      BY DEF Goto
<1>3. [req[h] EXCEPT !.pc = pc] \in Reqs
      BY <1>1 DEF Reqs
<1>4. /\ req' \in [Handlers -> Reqs] /\ req'[h] = [req[h] EXCEPT !.pc = pc]
      /\ \A g \in Handlers : g # h => req'[g] = req[g]
      BY <1>1, <1>2, <1>3
<1> QED BY <1>1, <1>4 DEF Reqs, Moves

-----------------------------------------------------------------------------
(* The steps of a request *)

LEMMA LoadBackGoing ==
  ASSUME NEW h \in Handlers, Alone(h), LoadBack(h)
  PROVE  Going(h)
<1> DEFINE q == req[h]
           pc == IF mode = "hosting" THEN "stop" ELSE "rmbak"
<1>1. q.pc = "load" /\ UNCHANGED <<disk, bak, tmp, view, core, mode, unreloaded, ends>>
      BY DEF LoadBack, ghosts
<1>2. /\ PathInv(q) /\ FileInv(q) /\ ViewInv(q) /\ CoreInv(q) /\ Typed
      BY DEF Alone, Serving
<1>3. disk \in Config /\ Loadable(disk)
      BY <1>1, <1>2 DEF FileInv
<1>4. Goto(h, pc) /\ pc \in Pcs /\ pc \in {"stop", "rmbak"} /\ (pc = "stop" <=> mode = "hosting")
      BY <1>3 DEF LoadBack, Pcs
<1> HIDE DEF pc
<1>5. Moves(h, pc)
      BY <1>2, <1>4, GotoFacts
<1>6. PathInv(req[h])'
      BY <1>1, <1>2, <1>4, <1>5 DEF Moves, PathInv, Undoable, Before, HostPcs, Writers
<1>7. FileInv(req[h])'
      BY <1>1, <1>2, <1>3, <1>4, <1>5 DEF Moves, PathInv, FileInv, Undoable, Before, Writers
<1>8. ViewInv(req[h])'
      BY <1>1, <1>2, <1>4, <1>5 DEF Moves, ViewInv, Dirty, Undoable, Seen
<1>9. CoreInv(req[h])'
      BY <1>1, <1>2, <1>4, <1>5 DEF Moves, CoreInv, InStep, Before, Typed
<1> QED BY <1>1, <1>2, <1>5, <1>6, <1>7, <1>8, <1>9 DEF Going, Moves, Typed

LEMMA CheckRunningGoing ==
  ASSUME NEW h \in Handlers, Alone(h), CheckRunning(h)
  PROVE  Going(h)
<1> DEFINE q == req[h]
<1>0. PathInv(q) /\ FileInv(q) /\ ViewInv(q) /\ CoreInv(q) /\ Typed /\ q \in Reqs
      BY DEF Alone, Serving
<1>1. q.pc = "running" /\ UNCHANGED <<disk, bak, tmp, view, core, mode, unreloaded, ends>>
      BY DEF CheckRunning, ghosts
<1>3. disk \in Config /\ Loadable(disk) /\ (core.up => mode = "hosting")
      BY <1>0, <1>1 DEF FileInv, Typed
<1> DEFINE pc == IF core.up THEN "stop" ELSE "rmbak"
<1>4. Goto(h, pc) /\ pc \in Pcs /\ pc \in {"stop", "rmbak"} /\ (pc = "stop" <=> core.up)
      BY DEF CheckRunning, Pcs
<1> HIDE DEF pc
<1>5. Moves(h, pc)
      BY <1>0, <1>4, GotoFacts
<1>6. PathInv(req[h])'
      BY <1>0, <1>1, <1>3, <1>4, <1>5 DEF Moves, PathInv, Undoable, Before, HostPcs, Writers
<1>7. FileInv(req[h])'
      BY <1>0, <1>1, <1>3, <1>4, <1>5 DEF Moves, PathInv, FileInv, Undoable, Before, Writers
<1>8. ViewInv(req[h])'
      BY <1>0, <1>1, <1>3, <1>4, <1>5 DEF Moves, PathInv, ViewInv, Dirty, Undoable, Before, Writers, Seen
<1>9. CoreInv(req[h])'
      BY <1>0, <1>1, <1>3, <1>4, <1>5 DEF Moves, PathInv, CoreInv, InStep, Halted, Before, Typed
<1> QED BY <1>0, <1>1, <1>5, <1>6, <1>7, <1>8, <1>9 DEF Going, Moves, Typed

LEMMA StopCoreGoing ==
  ASSUME NEW h \in Handlers, Alone(h), StopCore(h)
  PROVE  Going(h)
<1> DEFINE q == req[h]
<1>0. PathInv(q) /\ FileInv(q) /\ ViewInv(q) /\ CoreInv(q) /\ Typed /\ q \in Reqs
      BY DEF Alone, Serving
<1>1. q.pc = "stop" /\ UNCHANGED <<disk, bak, tmp, view, mode, unreloaded, ends>>
      BY DEF StopCore, ghosts
<1>2. core' \in Cores /\ core'.up = core.up /\ (core'.up => core'.ending)
  <2>1. core \in Cores /\ core' = [core EXCEPT !.ending = core.up]
        BY <1>0 DEF StopCore, Typed
  <2> QED BY <2>1 DEF Cores
<1>3. disk \in Config /\ Loadable(disk) /\ mode = "hosting"
      BY <1>0, <1>1 DEF FileInv, PathInv, HostPcs
<1> DEFINE pc == IF core.up THEN "stopping" ELSE AfterStop(q.kind)
<1>4. /\ Goto(h, pc) /\ pc \in Pcs /\ pc \in {"stopping", "queue", "replyOk", "start"}
      /\ pc = "queue" => q.kind \in {"resume", "resumeOnly"}
      /\ pc = "replyOk" => q.kind = "stop"
      /\ pc # "stopping" => ~core.up
      BY DEF StopCore, Pcs, AfterStop
<1> HIDE DEF pc
<1>5. Moves(h, pc)
      BY <1>0, <1>4, GotoFacts
<1>6. PathInv(req[h])'
      BY <1>0, <1>1, <1>3, <1>4, <1>5, <1>2 DEF Moves, PathInv, Undoable, Before, HostPcs, Writers
<1>7. FileInv(req[h])'
      BY <1>0, <1>1, <1>3, <1>4, <1>5, <1>2 DEF Moves, PathInv, FileInv, Undoable, Before, Writers
<1>8. ViewInv(req[h])'
      BY <1>0, <1>1, <1>3, <1>4, <1>5, <1>2 DEF Moves, PathInv, ViewInv, Dirty, Undoable, Before, Writers, Seen
<1>9. CoreInv(req[h])'
      BY <1>0, <1>1, <1>3, <1>4, <1>5, <1>2 DEF Moves, PathInv, CoreInv, InStep, Halted, Before, Typed
<1> QED BY <1>0, <1>2, <1>3, <1>1, <1>5, <1>6, <1>7, <1>8, <1>9 DEF Going, Moves, Typed

LEMMA StopPollGoing ==
  ASSUME NEW h \in Handlers, Alone(h), StopPoll(h)
  PROVE  Going(h)
<1> DEFINE q == req[h]
<1>0. PathInv(q) /\ FileInv(q) /\ ViewInv(q) /\ CoreInv(q) /\ Typed /\ q \in Reqs
      BY DEF Alone, Serving
<1>1. q.pc = "stopping" /\ UNCHANGED <<disk, bak, tmp, view, core, mode, unreloaded, ends>>
      BY DEF StopPoll, ghosts
<1>3. disk \in Config /\ Loadable(disk) /\ mode = "hosting" /\ (core.up => core.ending)
      BY <1>0, <1>1 DEF FileInv, PathInv, HostPcs, CoreInv, Halted
<1> DEFINE pc == IF core.up THEN StopFailed(q) ELSE AfterStop(q.kind)
<1>4. /\ Goto(h, pc) /\ pc \in Pcs /\ pc \in {"replyErr", "giveup", "rollback", "queue", "replyOk", "start"}
      /\ pc = "replyErr" => ~q.saved
      /\ pc = "giveup" => q.saved /\ q.kind = "resume"
      /\ pc = "rollback" => q.saved
      /\ pc = "queue" => q.kind \in {"resume", "resumeOnly"}
      /\ pc = "replyOk" => q.kind = "stop"
      BY DEF StopPoll, Pcs, AfterStop, StopFailed
<1> HIDE DEF pc
<1>5. Moves(h, pc)
      BY <1>0, <1>4, GotoFacts
<1>6. PathInv(req[h])'
      BY <1>0, <1>1, <1>3, <1>4, <1>5 DEF Moves, PathInv, Undoable, Before, HostPcs, Writers
<1>7. FileInv(req[h])'
      BY <1>0, <1>1, <1>3, <1>4, <1>5 DEF Moves, PathInv, FileInv, Undoable, Before, Writers
<1>8. ViewInv(req[h])'
      BY <1>0, <1>1, <1>3, <1>4, <1>5 DEF Moves, PathInv, ViewInv, Dirty, Undoable, Before, Writers, Seen
<1>9. CoreInv(req[h])'
      BY <1>0, <1>1, <1>3, <1>4, <1>5 DEF Moves, PathInv, CoreInv, InStep, Halted, Before, Typed
<1> QED BY <1>0, <1>1, <1>5, <1>6, <1>7, <1>8, <1>9 DEF Going, Moves, Typed

LEMMA StartCoreGoing ==
  ASSUME NEW h \in Handlers, Alone(h), StartCore(h)
  PROVE  Going(h)
<1> DEFINE q == req[h]
<1>0. PathInv(q) /\ FileInv(q) /\ ViewInv(q) /\ CoreInv(q) /\ Typed /\ q \in Reqs
      BY DEF Alone, Serving
<1>1. q.pc = "start" /\ UNCHANGED <<disk, bak, tmp, view, mode, ends>>
      BY DEF StartCore
<1>3. disk \in Config /\ Loadable(disk) /\ mode = "hosting"
      BY <1>0, <1>1 DEF FileInv, PathInv, HostPcs
<1>2. /\ core' \in Cores /\ (CanStart => core'.cfg = disk) /\ (~CanStart => core' = core)
      BY <1>0, <1>3 DEF StartCore, Typed, Started, Cores
<1> DEFINE pc == IF CanStart THEN AfterStart(q) ELSE StartFailed(q)
<1>4. /\ Goto(h, pc) /\ pc \in Pcs /\ pc \in {"rmbak", "reload", "replyOk", "rollback", "replyErr"}
      /\ pc = "rmbak" => CanStart /\ q.kind \in {"apply", "save"}
      /\ pc = "reload" => CanStart /\ q.kind \in {"resume", "resumeOnly"}
      /\ pc = "replyOk" => CanStart /\ q.kind \notin {"apply", "save", "resume"}
      /\ pc = "rollback" => ~CanStart /\ q.kind \in {"apply", "save"}
      /\ pc = "replyErr" => ~CanStart /\ q.kind \notin {"apply", "save"}
      BY DEF StartCore, Pcs, AfterStart, StartFailed
<1>u. ~unreloaded' => ~unreloaded /\ ~(q.kind = "resume" /\ ~CanStart)
      BY DEF StartCore
<1> HIDE DEF pc
<1>5. Moves(h, pc)
      BY <1>0, <1>4, GotoFacts
<1>6. PathInv(req[h])'
      BY <1>0, <1>1, <1>3, <1>4, <1>5, <1>2, <1>u DEF Moves, PathInv, Undoable, Before, HostPcs, Writers
<1>7. FileInv(req[h])'
      BY <1>0, <1>1, <1>3, <1>4, <1>5, <1>2, <1>u DEF Moves, PathInv, FileInv, Undoable, Before, Writers
<1>8. ViewInv(req[h])'
      BY <1>0, <1>1, <1>3, <1>4, <1>5, <1>2, <1>u DEF Moves, PathInv, ViewInv, Dirty, Undoable, Before, Writers, Seen
<1>9. CoreInv(req[h])'
      BY <1>0, <1>1, <1>3, <1>4, <1>5, <1>2, <1>u DEF Moves, PathInv, CoreInv, InStep, Halted, Before, Typed
<1> QED BY <1>0, <1>2, <1>3, <1>1, <1>5, <1>6, <1>7, <1>8, <1>9 DEF Going, Moves, Typed

LEMMA QueueResumeGoing ==
  ASSUME NEW h \in Handlers, Alone(h), QueueResume(h)
  PROVE  Going(h)
<1> DEFINE q == req[h]
<1>0. PathInv(q) /\ FileInv(q) /\ ViewInv(q) /\ CoreInv(q) /\ Typed /\ q \in Reqs
      BY DEF Alone, Serving
<1>1. q.pc = "queue" /\ UNCHANGED <<disk, bak, tmp, view, core, mode, unreloaded, ends>>
      BY DEF QueueResume, ghosts
<1>3. disk \in Config /\ Loadable(disk) /\ mode = "hosting" /\ (core.up => core.ending)
      BY <1>0, <1>1 DEF FileInv, PathInv, HostPcs, CoreInv, Halted
<1>4. PICK pc \in {"rmbak", "start", "rollback", "recover"} :
        /\ Goto(h, pc)
        /\ pc \in {"rmbak", "rollback"} <=> q.saved
        /\ pc \in {"rmbak", "start"} => ~core.up
      BY DEF QueueResume
<1>5. Moves(h, pc)
      BY <1>0, <1>4, GotoFacts DEF Pcs
<1>6. PathInv(req[h])'
      BY <1>0, <1>1, <1>3, <1>4, <1>5 DEF Moves, PathInv, Undoable, Before, HostPcs, Writers
<1>7. FileInv(req[h])'
      BY <1>0, <1>1, <1>3, <1>4, <1>5 DEF Moves, PathInv, FileInv, Undoable, Before, Writers
<1>8. ViewInv(req[h])'
      BY <1>0, <1>1, <1>3, <1>4, <1>5 DEF Moves, PathInv, ViewInv, Dirty, Undoable, Before, Writers, Seen
<1>9. CoreInv(req[h])'
      BY <1>0, <1>1, <1>3, <1>4, <1>5 DEF Moves, PathInv, CoreInv, InStep, Halted, Before, Typed
<1> QED BY <1>0, <1>1, <1>5, <1>6, <1>7, <1>8, <1>9 DEF Going, Moves, Typed

LEMMA RecoverGoing ==
  ASSUME NEW h \in Handlers, Alone(h), Recover(h)
  PROVE  Going(h)
<1> DEFINE q == req[h]
<1>0. PathInv(q) /\ FileInv(q) /\ ViewInv(q) /\ CoreInv(q) /\ Typed /\ q \in Reqs
      BY DEF Alone, Serving
<1>1. q.pc = "recover" /\ UNCHANGED <<disk, bak, tmp, view, mode, unreloaded, ends>>
      BY DEF Recover, ghosts
<1>3. disk \in Config /\ Loadable(disk) /\ mode = "hosting" /\ (core.up => core.ending)
      BY <1>0, <1>1 DEF FileInv, PathInv, HostPcs, CoreInv, Halted
<1>2. /\ core' \in Cores /\ (CanStart => core'.cfg = disk) /\ (~CanStart => core' = core)
      BY <1>0, <1>3 DEF Recover, Typed, Started, Cores
<1> DEFINE pc == IF q.kind \in {"apply", "save"} THEN "replyBack" ELSE "replyErr"
<1>4. /\ Goto(h, pc) /\ pc \in Pcs /\ pc \in {"replyBack", "replyErr"}
      /\ pc = "replyBack" => q.kind \in {"apply", "save"}
      BY DEF Recover, Pcs
<1> HIDE DEF pc
<1>5. Moves(h, pc)
      BY <1>0, <1>4, GotoFacts
<1>6. PathInv(req[h])'
      BY <1>0, <1>1, <1>3, <1>4, <1>5, <1>2 DEF Moves, PathInv, Undoable, Before, HostPcs, Writers
<1>7. FileInv(req[h])'
      BY <1>0, <1>1, <1>3, <1>4, <1>5, <1>2 DEF Moves, PathInv, FileInv, Undoable, Before, Writers
<1>8. ViewInv(req[h])'
      BY <1>0, <1>1, <1>3, <1>4, <1>5, <1>2 DEF Moves, PathInv, ViewInv, Dirty, Undoable, Before, Writers, Seen
<1>9. CoreInv(req[h])'
      BY <1>0, <1>1, <1>3, <1>4, <1>5, <1>2 DEF Moves, PathInv, CoreInv, InStep, Halted, Before, Typed
<1> QED BY <1>0, <1>2, <1>3, <1>1, <1>5, <1>6, <1>7, <1>8, <1>9 DEF Going, Moves, Typed

LEMMA RemoveBackupGoing ==
  ASSUME NEW h \in Handlers, Alone(h), RemoveBackup(h)
  PROVE  Going(h)
<1> DEFINE q == req[h]
<1>0. PathInv(q) /\ FileInv(q) /\ ViewInv(q) /\ CoreInv(q) /\ Typed /\ q \in Reqs
      BY DEF Alone, Serving
<1>1. q.pc = "rmbak" /\ UNCHANGED <<disk, tmp, view, core, mode, unreloaded, ends>>
      BY DEF RemoveBackup, ghosts
<1>3. disk \in Config /\ Loadable(disk)
      BY <1>0, <1>1 DEF FileInv
<1> DEFINE pc == IF q.kind = "resume" THEN "start" ELSE "reload"
<1>4. /\ Goto(h, pc) /\ pc \in Pcs /\ pc \in {"start", "reload"} /\ (pc = "start" <=> q.kind = "resume")
      BY DEF RemoveBackup, Pcs
<1> HIDE DEF pc
<1>5. Moves(h, pc)
      BY <1>0, <1>4, GotoFacts
<1>6. PathInv(req[h])'
      BY <1>0, <1>1, <1>3, <1>4, <1>5 DEF Moves, PathInv, Undoable, Before, HostPcs, Writers
<1>7. FileInv(req[h])'
      BY <1>0, <1>1, <1>3, <1>4, <1>5 DEF Moves, PathInv, FileInv, Undoable, Before, Writers
<1>8. ViewInv(req[h])'
      BY <1>0, <1>1, <1>3, <1>4, <1>5 DEF Moves, PathInv, ViewInv, Dirty, Undoable, Before, Writers, Seen
<1>9. CoreInv(req[h])'
      BY <1>0, <1>1, <1>3, <1>4, <1>5 DEF Moves, PathInv, CoreInv, InStep, Halted, Before, Typed
<1> QED BY <1>0, <1>1, <1>5, <1>6, <1>7, <1>8, <1>9 DEF Going, Moves, Typed

LEMMA ReloadCfgGoing ==
  ASSUME NEW h \in Handlers, Alone(h), ReloadCfg(h)
  PROVE  Going(h)
<1> DEFINE q == req[h]
<1>0. PathInv(q) /\ FileInv(q) /\ ViewInv(q) /\ CoreInv(q) /\ Typed /\ q \in Reqs
      BY DEF Alone, Serving
<1>1. q.pc = "reload" /\ UNCHANGED <<disk, bak, tmp, core, mode, ends>>
      BY DEF ReloadCfg
<1>3. disk \in Config /\ Loadable(disk)
      BY <1>0, <1>1 DEF FileInv
<1>4. view' = disk /\ Goto(h, "replyOk")
      BY <1>3 DEF ReloadCfg
<1>5. Moves(h, "replyOk")
      BY <1>0, <1>4, GotoFacts DEF Pcs
<1>6. PathInv(req[h])'
      BY <1>0, <1>1, <1>3, <1>4, <1>5 DEF Moves, PathInv, Undoable, Before, HostPcs, Writers
<1>7. FileInv(req[h])'
      BY <1>0, <1>1, <1>3, <1>4, <1>5 DEF Moves, PathInv, FileInv, Undoable, Before, Writers
<1>8. ViewInv(req[h])'
      BY <1>0, <1>1, <1>3, <1>4, <1>5 DEF Moves, PathInv, ViewInv, Dirty, Undoable, Before, Writers, Seen
<1>9. CoreInv(req[h])'
      BY <1>0, <1>1, <1>3, <1>4, <1>5 DEF Moves, PathInv, CoreInv, InStep, Halted, Before, Typed
<1> QED BY <1>0, <1>1, <1>5, <1>6, <1>7, <1>8, <1>9 DEF Going, Moves, Typed


LEMMA WriteBackupGoing ==
  ASSUME NEW h \in Handlers, Alone(h), WriteBackup(h)
  PROVE  Going(h)
<1> DEFINE q == req[h]
<1>0. PathInv(q) /\ FileInv(q) /\ ViewInv(q) /\ CoreInv(q) /\ Typed /\ q \in Reqs
      BY DEF Alone, Serving
<1>1. q.pc \in {"openBak", "writeBak"} /\ UNCHANGED <<disk, tmp, view, core, mode, unreloaded, ends>>
      BY DEF WriteBackup, ghosts
<1>3. disk \in Config /\ Loadable(disk) /\ q.raw = disk /\ q.raw # Blank
      BY <1>0, <1>1 DEF FileInv, Before
<1> DEFINE pc == IF q.pc = "openBak" THEN "writeBak" ELSE "openTmp"
<1>4. /\ Goto(h, pc) /\ pc \in Pcs /\ pc \in {"writeBak", "openTmp"}
      /\ pc = "writeBak" => bak' = Blank
      /\ pc = "openTmp" => bak' = q.raw
  <2>1. CASE q.pc = "openBak"
        BY <2>1 DEF WriteBackup, Pcs
  <2>2. CASE q.pc = "writeBak"
        BY <1>0, <1>3, <2>2 DEF WriteBackup, FileInv, Written, Pcs
  <2> QED BY <1>1, <2>1, <2>2
<1> HIDE DEF pc
<1>5. Moves(h, pc)
      BY <1>0, <1>4, GotoFacts
<1>6. PathInv(req[h])'
      BY <1>0, <1>1, <1>3, <1>4, <1>5 DEF Moves, PathInv, Undoable, Before, HostPcs, Writers
<1>7. FileInv(req[h])'
      BY <1>0, <1>1, <1>3, <1>4, <1>5 DEF Moves, PathInv, FileInv, Undoable, Before, Writers
<1>8. ViewInv(req[h])'
      BY <1>0, <1>1, <1>3, <1>4, <1>5 DEF Moves, PathInv, ViewInv, Dirty, Undoable, Before, Writers, Seen
<1>9. CoreInv(req[h])'
      BY <1>0, <1>1, <1>3, <1>4, <1>5 DEF Moves, PathInv, CoreInv, InStep, Halted, Before, Typed
<1> QED BY <1>0, <1>1, <1>5, <1>6, <1>7, <1>8, <1>9 DEF Going, Moves, Typed

LEMMA WriteTempGoing ==
  ASSUME NEW h \in Handlers, Alone(h), WriteTemp(h)
  PROVE  Going(h)
<1> DEFINE q == req[h]
<1>0. PathInv(q) /\ FileInv(q) /\ ViewInv(q) /\ CoreInv(q) /\ Typed /\ q \in Reqs
      BY DEF Alone, Serving
<1>1. q.pc \in {"openTmp", "writeTmp"} /\ UNCHANGED <<disk, bak, view, core, mode, unreloaded, ends>>
      BY DEF WriteTemp, ghosts
<1>3. q.out \in Config /\ q.out # Blank
      BY <1>0, LoadFacts DEF Reqs
<1> DEFINE pc == IF q.pc = "openTmp" THEN "writeTmp" ELSE "rename"
<1>4. /\ Goto(h, pc) /\ pc \in Pcs /\ pc \in {"writeTmp", "rename"}
      /\ pc = "writeTmp" => tmp' = Blank
      /\ pc = "rename" => tmp' = q.out
  <2>1. CASE q.pc = "openTmp"
        BY <2>1 DEF WriteTemp, Pcs
  <2>2. CASE q.pc = "writeTmp"
        BY <1>0, <1>3, <2>2 DEF WriteTemp, FileInv, Written, Pcs
  <2> QED BY <1>1, <2>1, <2>2
<1> HIDE DEF pc
<1>5. Moves(h, pc)
      BY <1>0, <1>4, GotoFacts
<1>6. PathInv(req[h])'
      BY <1>0, <1>1, <1>3, <1>4, <1>5 DEF Moves, PathInv, Undoable, Before, HostPcs, Writers
<1>7. FileInv(req[h])'
      BY <1>0, <1>1, <1>3, <1>4, <1>5 DEF Moves, PathInv, FileInv, Undoable, Before, Writers
<1>8. ViewInv(req[h])'
      BY <1>0, <1>1, <1>3, <1>4, <1>5 DEF Moves, PathInv, ViewInv, Dirty, Undoable, Before, Writers, Seen
<1>9. CoreInv(req[h])'
      BY <1>0, <1>1, <1>3, <1>4, <1>5 DEF Moves, PathInv, CoreInv, InStep, Halted, Before, Typed
<1> QED BY <1>0, <1>1, <1>5, <1>6, <1>7, <1>8, <1>9 DEF Going, Moves, Typed

LEMMA RestoreGoing ==
  ASSUME NEW h \in Handlers, Alone(h), Restore(h)
  PROVE  Going(h)
<1> DEFINE q == req[h]
<1>0. PathInv(q) /\ FileInv(q) /\ ViewInv(q) /\ CoreInv(q) /\ Typed /\ q \in Reqs
      BY DEF Alone, Serving
<1>1. q.pc \in {"openCfg", "writeCfg"} /\ UNCHANGED <<bak, tmp, view, core, mode, unreloaded, ends>>
      BY DEF Restore, ghosts
<1>3. /\ q.raw \in Config /\ Loadable(q.raw) /\ q.raw # Blank /\ q.back = q.raw /\ bak = q.raw /\ q.saved
      BY <1>0, <1>1 DEF PathInv, FileInv, Undoable, Writers
<1> DEFINE pc == IF q.pc = "openCfg" THEN "writeCfg" ELSE "rmrestored"
<1>4. /\ Goto(h, pc) /\ pc \in Pcs /\ pc \in {"writeCfg", "rmrestored"}
      /\ pc = "writeCfg" => disk' = Blank
      /\ pc = "rmrestored" => disk' = q.raw
  <2>1. CASE q.pc = "openCfg"
        BY <2>1 DEF Restore, Pcs
  <2>2. CASE q.pc = "writeCfg"
    <3>1. disk = Blank
          BY <1>0, <2>2 DEF FileInv, Before
    <3> QED BY <1>3, <2>2, <3>1 DEF Restore, Written, Pcs
  <2> QED BY <1>1, <2>1, <2>2
<1> HIDE DEF pc
<1>5. Moves(h, pc)
      BY <1>0, <1>4, GotoFacts
<1>6. PathInv(req[h])'
      BY <1>0, <1>1, <1>3, <1>4, <1>5 DEF Moves, PathInv, Undoable, Before, HostPcs, Writers
<1>7. FileInv(req[h])'
      BY <1>0, <1>1, <1>3, <1>4, <1>5 DEF Moves, PathInv, FileInv, Undoable, Before, Writers
<1>8. ViewInv(req[h])'
      BY <1>0, <1>1, <1>3, <1>4, <1>5 DEF Moves, PathInv, ViewInv, Dirty, Undoable, Before, Writers, Seen
<1>9. CoreInv(req[h])'
      BY <1>0, <1>1, <1>3, <1>4, <1>5 DEF Moves, PathInv, CoreInv, InStep, Halted, Before, Typed
<1> QED BY <1>0, <1>1, <1>5, <1>6, <1>7, <1>8, <1>9 DEF Going, Moves, Typed

LEMMA RemoveRestoredGoing ==
  ASSUME NEW h \in Handlers, Alone(h), RemoveRestored(h)
  PROVE  Going(h)
<1> DEFINE q == req[h]
<1>0. PathInv(q) /\ FileInv(q) /\ ViewInv(q) /\ CoreInv(q) /\ Typed /\ q \in Reqs
      BY DEF Alone, Serving
<1>1. q.pc = "rmrestored" /\ UNCHANGED <<disk, tmp, view, core, mode, unreloaded, ends>>
      BY DEF RemoveRestored, ghosts
<1>3. disk \in Config /\ Loadable(disk) /\ disk = q.raw /\ q.saved
      BY <1>0, <1>1 DEF FileInv, PathInv
<1>4. Goto(h, q.next) /\ q.next \in Pcs /\ q.next \in {"recover", "replyErr"}
      BY <1>0, <1>1 DEF RemoveRestored, PathInv, Pcs
<1>5. Moves(h, q.next)
      BY <1>0, <1>4, GotoFacts
<1>6. PathInv(req[h])'
      BY <1>0, <1>1, <1>3, <1>4, <1>5 DEF Moves, PathInv, Undoable, Before, HostPcs, Writers
<1>7. FileInv(req[h])'
      BY <1>0, <1>1, <1>3, <1>4, <1>5 DEF Moves, PathInv, FileInv, Undoable, Before, Writers
<1>8. ViewInv(req[h])'
      BY <1>0, <1>1, <1>3, <1>4, <1>5 DEF Moves, PathInv, ViewInv, Dirty, Undoable, Before, Writers, Seen
<1>9. CoreInv(req[h])'
      BY <1>0, <1>1, <1>3, <1>4, <1>5 DEF Moves, PathInv, CoreInv, InStep, Halted, Before, Typed
<1> QED BY <1>0, <1>1, <1>5, <1>6, <1>7, <1>8, <1>9 DEF Going, Moves, Typed

LEMMA ReadBackupGoing ==
  ASSUME NEW h \in Handlers, Alone(h), ReadBackup(h)
  PROVE  Going(h)
<1> DEFINE q == req[h]
<1>0. PathInv(q) /\ FileInv(q) /\ ViewInv(q) /\ CoreInv(q) /\ Typed /\ q \in Reqs
      BY DEF Alone, Serving
<1> DEFINE next == IF q.pc = "rollback" THEN "recover" ELSE "replyErr"
           r == [q EXCEPT !.pc = "openCfg", !.back = bak, !.next = next]
<1>1. q.pc \in {"rollback", "giveup"} /\ UNCHANGED <<disk, bak, tmp, view, core, mode, unreloaded, ends>>
      BY DEF ReadBackup, ghosts
<1>3. /\ q.raw \in Config /\ Loadable(q.raw) /\ q.raw # Blank /\ bak = q.raw /\ q.saved /\ bak # NoFile
      /\ disk \in Config /\ Loadable(disk) /\ mode = "hosting"
      BY <1>0, <1>1, LoadFacts DEF PathInv, FileInv, Undoable, Writers, HostPcs
<1>4. req' = [req EXCEPT ![h] = r] /\ next \in {"recover", "replyErr"} /\ (q.pc = "rollback" => next = "recover")
      BY <1>3 DEF ReadBackup
<1> HIDE DEF next
<1>r. /\ r \in Reqs /\ r.pc = "openCfg" /\ r.kind = q.kind /\ r.raw = q.raw /\ r.out = q.out /\ r.saved = q.saved
      /\ r.back = bak /\ r.next = next
      BY <1>0, <1>3, <1>4 DEF Reqs, Pcs, Content
<1> HIDE DEF r
<1>5. /\ req' \in [Handlers -> Reqs] /\ req'[h] = r /\ \A g \in Handlers : g # h => req'[g] = req[g]
      BY <1>0, <1>4, <1>r DEF Typed
<1>6. PathInv(req[h])'
      BY <1>0, <1>1, <1>3, <1>4, <1>5, <1>r DEF PathInv, Undoable, Before, HostPcs, Writers
<1>7. FileInv(req[h])'
      BY <1>0, <1>1, <1>3, <1>4, <1>5, <1>r DEF PathInv, FileInv, Undoable, Before, Writers
<1>8. ViewInv(req[h])'
      BY <1>0, <1>1, <1>3, <1>4, <1>5, <1>r DEF PathInv, ViewInv, Dirty, Undoable, Before, Writers, Seen
<1>9. CoreInv(req[h])'
      BY <1>0, <1>1, <1>3, <1>4, <1>5, <1>r DEF PathInv, CoreInv, InStep, Halted, Before, Typed
<1> QED BY <1>0, <1>1, <1>5, <1>6, <1>7, <1>8, <1>9 DEF Going, Typed

LEMMA RenameGoing ==
  ASSUME NEW h \in Handlers, Alone(h), Rename(h)
  PROVE  Going(h)
<1> DEFINE q == req[h]
<1>0. PathInv(q) /\ FileInv(q) /\ ViewInv(q) /\ CoreInv(q) /\ Typed /\ q \in Reqs
      BY DEF Alone, Serving
<1> DEFINE pc == CASE q.kind = "apply" -> "running" [] q.kind = "save" -> "load" [] OTHER -> "stop"
           r == [q EXCEPT !.saved = TRUE, !.out = NoReq.out, !.pc = pc]
<1>1. q.pc = "rename" /\ UNCHANGED <<bak, view, core, mode, unreloaded, ends>>
      BY DEF Rename, ghosts
<1>3. /\ q.out \in Config /\ Loadable(q.out) /\ tmp = q.out /\ tmp # NoFile /\ q.raw = disk /\ ~q.saved
      /\ q.raw # Blank => bak = q.raw /\ q.raw \in Config /\ Loadable(q.raw)
  <2>1. q.out \in Config /\ Valid(q.out) /\ tmp = q.out /\ q.raw = disk /\ ~q.saved
        BY <1>0, <1>1 DEF FileInv, PathInv, Before, Reqs
  <2>2. q.raw # Blank => bak = q.raw /\ q.raw \in Config /\ Loadable(q.raw)
        BY <1>0, <1>1, <2>1 DEF FileInv
  <2> QED BY <2>1, <2>2, LoadFacts
<1>s. ~IsOpen("writeTmp") /\ ~IsOpen("writeCfg")
      BY <1>1 DEF Alone, IsOpen
<1>4. /\ disk' = q.out /\ req' = [req EXCEPT ![h] = r]
      /\ q.kind = "apply" => pc = "running"
      /\ q.kind = "save" => pc = "load"
      /\ q.kind = "resume" => pc = "stop"
      BY <1>3, <1>s DEF Rename
<1>k. q.kind \in Writers
      BY <1>0, <1>1 DEF PathInv, Before
<1> HIDE DEF pc
<1>r. /\ r \in Reqs /\ r.pc = pc /\ r.kind = q.kind /\ r.raw = q.raw /\ r.saved = TRUE
      BY <1>0, <1>4, <1>k, NoReqFacts, LoadFacts DEF Reqs, Pcs, Writers
<1> HIDE DEF r
<1>5. /\ req' \in [Handlers -> Reqs] /\ req'[h] = r /\ \A g \in Handlers : g # h => req'[g] = req[g]
      BY <1>0, <1>4, <1>r DEF Typed
<1>6. PathInv(req[h])'
      BY <1>0, <1>1, <1>3, <1>4, <1>5, <1>r, <1>k DEF PathInv, Undoable, Before, HostPcs, Writers
<1>7. FileInv(req[h])'
      BY <1>0, <1>1, <1>3, <1>4, <1>5, <1>r, <1>k DEF PathInv, FileInv, Undoable, Before, Writers
<1>8. ViewInv(req[h])'
      BY <1>0, <1>1, <1>3, <1>4, <1>5, <1>r, <1>k DEF PathInv, ViewInv, Dirty, Undoable, Before, Writers, Seen
<1>9. CoreInv(req[h])'
      BY <1>0, <1>1, <1>3, <1>4, <1>5, <1>r, <1>k DEF PathInv, CoreInv, InStep, Halted, Before, Writers, Typed
<1> QED BY <1>0, <1>1, <1>5, <1>6, <1>7, <1>8, <1>9 DEF Going, Typed


\* What a request writes is a configuration.
LEMMA EditedConfig ==
  ASSUME NEW q \in Reqs, NEW c, c \in Config \/ c = <<>>, Accepts(q, c),
         q.kind = "save" => q.readers # {}
  PROVE  Edited(q, c) \in Config
<1> DEFINE V == Tokens \cup {Zero}
<1>1. PICK S \in SUBSET Readers : c \in [S -> V]
  <2>1. CASE c \in Config
        BY <2>1 DEF Config
  <2>2. CASE c = <<>>
    <3>1. <<>> \in [{} -> V]
          OBVIOUS
    <3>2. {} \in SUBSET Readers
          OBVIOUS
    <3> QED BY <2>2, <3>1, <3>2
  <2> QED BY <2>1, <2>2
<1>2. CASE q.kind = "save"
  <2> DEFINE R == q.readers
  <2>1. R \in (SUBSET Readers) \ {{}}
        BY <1>2 DEF Reqs
  <2>2. ASSUME NEW r \in R
        PROVE  (IF r \in DOMAIN c THEN c[r]
                ELSE IF \E o \in Readers : DOMAIN c = {o} /\ R = {r} THEN c[CHOOSE o \in DOMAIN c : TRUE]
                ELSE Zero) \in V
    <3>1. CASE r \in DOMAIN c
          BY <1>1, <3>1
    <3>2. CASE r \notin DOMAIN c /\ \E o \in Readers : DOMAIN c = {o} /\ R = {r}
      <4>1. (CHOOSE o \in DOMAIN c : TRUE) \in DOMAIN c
            BY <3>2
      <4> QED BY <1>1, <3>2, <4>1
    <3> QED BY <3>1, <3>2
  <2>3. EditReaders(c, R) \in [R -> V]
        BY <2>2 DEF EditReaders
  <2> QED BY <1>2, <2>1, <2>3 DEF Edited, Config
<1>3. CASE q.kind # "save"
  <2>1. q.reader \in S /\ q.token \in V /\ S # {}
        BY <1>1, <1>3 DEF Accepts, Reqs
  <2>2. [c EXCEPT ![q.reader] = q.token] \in [S -> V]
        BY <1>1, <2>1
  <2> QED BY <1>3, <2>1, <2>2 DEF Edited, Config
<1> QED BY <1>2, <1>3

LEMMA ReadConfigGoing ==
  ASSUME NEW h \in Handlers, Alone(h), ReadConfig(h)
  PROVE  Going(h)
<1> DEFINE q == req[h]
           c == ReadersIn(disk)
<1>0. PathInv(q) /\ FileInv(q) /\ ViewInv(q) /\ CoreInv(q) /\ Typed /\ q \in Reqs
      BY DEF Alone, Serving
<1>1. q.pc = "read" /\ UNCHANGED <<disk, bak, tmp, view, core, mode, unreloaded, ends>>
      BY DEF ReadConfig, ghosts
<1>2. /\ q.kind \in Writers /\ ~q.saved /\ (q.kind = "save" => q.readers # {})
      /\ disk = Blank => mode = "blank" /\ q.kind = "save"
      /\ disk # Blank => disk \in Config /\ Loadable(disk)
      BY <1>0, <1>1, LoadFacts DEF PathInv, FileInv, Before, Writers
<1>3. CASE ~Accepts(q, c)
  <2>4. Goto(h, "replyErr")
        BY <1>3 DEF ReadConfig
  <2>5. Moves(h, "replyErr")
        BY <1>0, <2>4, GotoFacts DEF Pcs
  <2>6. PathInv(req[h])'
        BY <1>0, <1>1, <1>2, <2>5 DEF Moves, PathInv, Undoable, Before, HostPcs, Writers
  <2>7. FileInv(req[h])'
        BY <1>0, <1>1, <1>2, <2>5 DEF Moves, PathInv, FileInv, Undoable, Before, Writers
  <2>8. ViewInv(req[h])'
        BY <1>0, <1>1, <1>2, <2>5 DEF Moves, ViewInv, Dirty, Undoable, Before, Seen
  <2>9. CoreInv(req[h])'
        BY <1>0, <1>1, <2>5 DEF Moves, CoreInv, InStep, Before
  <2> QED BY <1>0, <1>1, <2>5, <2>6, <2>7, <2>8, <2>9 DEF Going, Moves, Typed
<1>4. CASE Accepts(q, c)
  <2> DEFINE e == Edited(q, c)
             pc == IF disk = Blank THEN "openTmp" ELSE "openBak"
             r == [NoReq EXCEPT !.kind = q.kind, !.raw = disk, !.out = e, !.pc = pc]
  <2>1. req' = [req EXCEPT ![h] = r]
        BY <1>4 DEF ReadConfig
  <2>2. e \in Config /\ Valid(e)
    <3>1. c \in Config \/ c = <<>>
          BY <1>2 DEF ReadersIn
    <3>2. Valid(e)
          BY <1>4 DEF Accepts
    <3> QED BY <1>0, <1>2, <1>4, <3>1, <3>2, EditedConfig
  <2>3. pc \in {"openTmp", "openBak"} /\ (pc = "openTmp" <=> disk = Blank)
        OBVIOUS
  <2>4. disk \in Content
        BY <1>2 DEF Content
  <2> HIDE DEF e, pc
  <2>r. r \in Reqs /\ r.pc = pc /\ r.kind = q.kind /\ r.raw = disk /\ r.out = e /\ r.saved = FALSE
        BY <1>0, <2>2, <2>3, <2>4, NoReqFacts DEF Reqs, Pcs
  <2> HIDE DEF r
  <2>5. /\ req' \in [Handlers -> Reqs] /\ req'[h] = r /\ \A g \in Handlers : g # h => req'[g] = req[g]
        BY <1>0, <2>1, <2>r DEF Typed
  <2>6. PathInv(req[h])'
        BY <1>0, <1>1, <1>2, <2>3, <2>5, <2>r DEF PathInv, Undoable, Before, HostPcs, Writers
  <2>7. FileInv(req[h])'
        BY <1>0, <1>1, <1>2, <2>2, <2>3, <2>5, <2>r DEF FileInv, Undoable, Before, Writers
  <2>8. ViewInv(req[h])'
        BY <1>0, <1>1, <1>2, <2>5, <2>r DEF ViewInv, Dirty, Undoable, Before, Seen
  <2>9. CoreInv(req[h])'
        BY <1>0, <1>1, <2>3, <2>5, <2>r DEF CoreInv, InStep, Before
  <2> QED BY <1>0, <1>1, <2>5, <2>6, <2>7, <2>8, <2>9 DEF Going, Typed
<1> QED BY <1>3, <1>4

-----------------------------------------------------------------------------
(* The invariant *)

\* A step of the one request under way that does not end it.
LEMMA GoingInv ==
  ASSUME NEW h \in Handlers, Alone(h), Going(h), mode' = mode, overlapped' = overlapped, ends' = ends
  PROVE  HostInv'
<1>1. Typed'
      BY DEF Going, Alone, Typed
<1>2. Serving(req[h])' /\ req'[h].pc # "idle"
      BY DEF Going, Serving, PathInv
<1>3. \A g \in Handlers : g # h => req'[g].pc = "idle" /\ req'[g] = NoReq
      BY DEF Going, Alone
<1>4. \A g \in Handlers : req'[g].pc # "idle" => Serving(req[g])'
      BY <1>2, <1>3
<1>5. ~AllIdle'
      BY <1>2 DEF AllIdle
<1> QED BY <1>1, <1>2, <1>3, <1>4, <1>5 DEF HostInv

LEMMA AloneFacts ==
  ASSUME HostInv, ~overlapped, NEW h \in Handlers, req[h].pc # "idle"
  PROVE  Alone(h)
<1>1. Typed /\ req[h] \in Reqs /\ Serving(req[h])
      BY DEF HostInv, Typed
<1>2. \A g \in Handlers : g # h => req[g].pc = "idle" /\ req[g] = NoReq
      BY DEF HostInv
<1> QED BY <1>1, <1>2 DEF Alone

\* The answer: what is left holds between requests.
LEMMA RepliedInv ==
  ASSUME NEW h \in Handlers, Alone(h), Replied(h)
  PROVE  HostInv'
<1> DEFINE q == req[h]
<1>0. PathInv(q) /\ FileInv(q) /\ ViewInv(q) /\ CoreInv(q) /\ Typed
      BY DEF Alone, Serving
<1>1. /\ q.pc \in {"replyOk", "replyErr", "replyBack"} /\ req' = [req EXCEPT ![h] = NoReq]
      /\ UNCHANGED <<disk, bak, tmp, view, core, mode, unreloaded, overlapped, ends>>
      BY DEF Replied, ghosts
<1>2. \A g \in Handlers : req'[g] = NoReq /\ req'[g].pc = "idle"
      BY <1>0, <1>1, NoReqFacts DEF Alone, Typed
<1>3. Typed'
      BY <1>0, <1>1, NoReqFacts DEF Typed
<1>4. Resting'
  <2>1. /\ \/ disk \in Config /\ Loadable(disk)
           \/ disk = Blank /\ Loadable(bak) /\ ends > 0 /\ mode = "blank"
        BY <1>0, <1>1 DEF FileInv
  <2>2. ~unreloaded => view = Seen(disk)
        BY <1>0, <1>1 DEF ViewInv, Dirty, Undoable
  <2>3. InStep
        BY <1>0, <1>1 DEF CoreInv, Before
  <2> QED BY <1>1, <2>1, <2>2, <2>3 DEF Resting, InStep, Seen
<1> QED BY <1>2, <1>3, <1>4 DEF HostInv, AllIdle

LEMMA HandlerInv ==
  ASSUME HostInv, NEW h \in Handlers, HandlerStep(h)
  PROVE  HostInv'
<1>1. mode' = mode /\ overlapped' = overlapped /\ ends' = ends /\ req[h].pc # "idle"
  <2>1. CASE ReadConfig(h) \/ WriteBackup(h) \/ WriteTemp(h) \/ Rename(h) \/ RemoveTemp(h) \/ LoadBack(h)
        BY <2>1 DEF ReadConfig, WriteBackup, WriteTemp, Rename, RemoveTemp, LoadBack, ghosts
  <2>2. CASE ReadBackup(h) \/ Restore(h) \/ RemoveRestored(h) \/ CheckRunning(h) \/ StopCore(h) \/ StopPoll(h)
        BY <2>2 DEF ReadBackup, Restore, RemoveRestored, CheckRunning, StopCore, StopPoll, ghosts
  <2>3. CASE StartCore(h) \/ QueueResume(h) \/ Recover(h) \/ RemoveBackup(h) \/ ReloadCfg(h) \/ Replied(h)
        BY <2>3 DEF StartCore, QueueResume, Recover, RemoveBackup, ReloadCfg, Replied, ghosts
  <2> QED BY <2>1, <2>2, <2>3 DEF HandlerStep
<1>2. CASE overlapped
      BY <1>1, <1>2 DEF HostInv
<1>3. CASE ~overlapped
  <2>1. Alone(h)
        BY <1>1, <1>3, AloneFacts
  <2>2. ~RemoveTemp(h)
        BY <2>1 DEF Alone, Serving, PathInv, RemoveTemp
  <2>3. CASE Replied(h)
        BY <2>1, <2>3, RepliedInv
  <2>4. CASE ~Replied(h)
    <3>1. Going(h)
          BY <2>1, <2>2, <2>4, ReadConfigGoing, WriteBackupGoing, WriteTempGoing, RenameGoing, LoadBackGoing,
             ReadBackupGoing, RestoreGoing, RemoveRestoredGoing, CheckRunningGoing, StopCoreGoing,
             StopPollGoing, StartCoreGoing, QueueResumeGoing, RecoverGoing, RemoveBackupGoing, ReloadCfgGoing
             DEF HandlerStep
    <3> QED BY <1>1, <2>1, <3>1, GoingInv
  <2> QED BY <2>3, <2>4
<1> QED BY <1>2, <1>3

\* A request arrives: it is alone, or the requests overlap from here on.
LEMMA ArriveInv ==
  ASSUME HostInv, NEW h \in Handlers, NEW k \in Kinds, NEW r \in Readers, NEW t \in Tokens \cup {Zero},
         NEW S \in SUBSET Readers, Arrive(h, k, r, t, S),
         k \notin {"apply", "save"} => mode = "hosting",
         k = "apply" => mode # "blank",
         k = "save" => S # {}
  PROVE  HostInv'
<1> DEFINE q == [NoReq EXCEPT !.pc = FirstPc(k), !.kind = k, !.reader = r, !.token = t, !.readers = S]
<1>1. /\ mode # "off" /\ req' = [req EXCEPT ![h] = q]
      /\ overlapped' = (overlapped \/ \E g \in Handlers \ {h} : req[g].pc # "idle")
      /\ UNCHANGED <<disk, bak, tmp, view, core, mode, unreloaded, ends>>
      /\ req[h].pc = "idle"
      BY DEF Arrive
<1>2. SUFFICES ASSUME ~overlapped'
               PROVE  HostInv'
      BY DEF HostInv
<1>3. ~overlapped /\ \A g \in Handlers : req[g].pc = "idle"
      BY <1>1, <1>2
<1>4. Typed /\ Resting /\ \A g \in Handlers : req[g] = NoReq
      BY <1>3 DEF HostInv, AllIdle
<1>5. /\ FirstPc(k) \in {"read", "start", "stop"} /\ FirstPc(k) \in Pcs
      /\ FirstPc(k) = "read" <=> k \in Writers
      /\ FirstPc(k) = "start" => k = "start"
      BY DEF FirstPc, Pcs, Writers
<1> DEFINE pc == FirstPc(k)
<1> HIDE DEF pc
<1>6. q = [NoReq EXCEPT !.pc = pc, !.kind = k, !.reader = r, !.token = t, !.readers = S]
      BY DEF pc
<1>7. pc \in {"read", "start", "stop"} /\ pc \in Pcs /\ (pc = "read" <=> k \in Writers) /\ (pc = "start" => k = "start")
      BY <1>5 DEF pc
<1>8. q \in Reqs /\ q.pc = pc /\ q.kind = k /\ q.readers = S /\ q.saved = FALSE /\ q.raw # Blank
      BY <1>6, <1>7, NoReqFacts DEF Reqs
<1> HIDE DEF q
<1>9. /\ req' \in [Handlers -> Reqs] /\ req'[h] = q
      /\ \A g \in Handlers : g # h => req'[g] = NoReq /\ req'[g].pc = "idle"
      BY <1>1, <1>3, <1>4, <1>8 DEF Typed
<1>10. Typed'
      BY <1>1, <1>4, <1>9 DEF Typed
<1>11. PathInv(req[h])'
      BY <1>1, <1>7, <1>8, <1>9 DEF PathInv, Undoable, Before, HostPcs, Writers
<1>12. FileInv(req[h])'
  <2>1. \/ disk \in Config /\ Loadable(disk)
        \/ disk = Blank /\ Loadable(bak) /\ ends > 0 /\ mode = "blank"
        BY <1>1, <1>4 DEF Resting
  <2>2. mode = "blank" => pc = "read"
        BY <1>7 DEF Writers
  <2> QED BY <1>1, <1>7, <1>8, <1>9, <2>1, <2>2 DEF FileInv, Before, Undoable
<1>13. ViewInv(req[h])'
      BY <1>1, <1>4, <1>8, <1>9 DEF ViewInv, Dirty, Resting, Seen
<1>14. CoreInv(req[h])'
      BY <1>1, <1>4, <1>7, <1>8, <1>9 DEF CoreInv, Resting, InStep, Before
<1>15. Serving(req[h])' /\ ~AllIdle'
      BY <1>7, <1>8, <1>9, <1>11, <1>12, <1>13, <1>14 DEF Serving, AllIdle
<1> QED BY <1>7, <1>8, <1>9, <1>10, <1>15 DEF HostInv

LEMMA NewRequestInv ==
  ASSUME HostInv, NEW h \in Handlers, NewRequest(h)
  PROVE  HostInv'
<1> DEFINE d == CHOOSE r \in Readers : TRUE
<1>0. d \in Readers /\ Zero \in Tokens \cup {Zero} /\ {} \in SUBSET Readers
      BY NoReqFacts
<1> HIDE DEF d
<1>1. ASSUME NEW r \in Readers, NEW t \in Tokens, ApplySession(h, r, t)
      PROVE  HostInv'
  <2>1. mode # "blank" /\ Arrive(h, "apply", r, t, {}) /\ t \in Tokens \cup {Zero} /\ "apply" \in Kinds
        BY <1>1 DEF ApplySession, Kinds
  <2> QED BY <1>0, <2>1, ArriveInv
<1>2. ASSUME NEW r \in Readers, NEW t \in Tokens \cup {Zero}, Resume(h, r, t)
      PROVE  HostInv'
  <2>1. /\ mode = "hosting" /\ "resume" \in Kinds /\ "resumeOnly" \in Kinds
        /\ Arrive(h, "resume", r, t, {}) \/ Arrive(h, "resumeOnly", r, t, {})
        BY <1>2 DEF Resume, Kinds
  <2> QED BY <1>0, <2>1, ArriveInv
<1>3. ASSUME NEW S \in SUBSET Readers, ConfigSave(h, S)
      PROVE  HostInv'
  <2>1. S # {} /\ Arrive(h, "save", d, Zero, S) /\ "save" \in Kinds
        BY <1>3 DEF ConfigSave, Kinds, d
  <2> QED BY <1>0, <2>1, ArriveInv
<1>4. ASSUME NEW a \in {"start", "stop", "restart"}, CoreControl(h, a)
      PROVE  HostInv'
  <2>1. mode = "hosting" /\ Arrive(h, a, d, Zero, {}) /\ a \in Kinds /\ a \notin {"apply", "save"}
        BY <1>4 DEF CoreControl, Kinds, d
  <2> QED BY <1>0, <2>1, ArriveInv
<1> QED BY <1>1, <1>2, <1>3, <1>4 DEF NewRequest

\* What the core and the other instance do behind the GUI's back: a core that
\* has stopped agrees with every configuration.
LEMMA OutsideInv ==
  ASSUME HostInv, core' = core \/ core' = Standby,
         UNCHANGED <<disk, bak, tmp, view, mode, req, overlapped, unreloaded, ends>>
  PROVE  HostInv'
<1>1. SUFFICES ASSUME ~overlapped
               PROVE  HostInv'
      BY DEF HostInv
<1>2. Typed' /\ (core'.up => core' = core)
  <2>1. Standby \in Cores /\ ~Standby.up
        BY LoadFacts DEF Standby, Cores
  <2> QED BY <1>1, <2>1 DEF HostInv, Typed
<1>3. (InStep => InStep') /\ (Halted => Halted')
      BY <1>2 DEF InStep, Halted
<1>4. ASSUME NEW h \in Handlers, Serving(req[h])
      PROVE  Serving(req[h])'
  <2>1. PathInv(req[h])'
        BY <1>4 DEF Serving, PathInv
  <2>2. FileInv(req[h])'
        BY <1>4 DEF Serving, FileInv
  <2>3. ViewInv(req[h])'
        BY <1>4 DEF Serving, ViewInv, Dirty, Seen
  <2>4. CoreInv(req[h])'
        BY <1>3, <1>4 DEF Serving, CoreInv
  <2> QED BY <2>1, <2>2, <2>3, <2>4 DEF Serving
<1>5. Resting => Resting'
      BY <1>3 DEF Resting, Seen
<1> QED BY <1>1, <1>2, <1>4, <1>5 DEF HostInv, AllIdle

\* The process ends: what a rollback has not written yet is in the backup.
LEMMA GuiEndsInv ==
  ASSUME HostInv, GuiEnds
  PROVE  HostInv'
<1>1. /\ ~overlapped /\ mode' = "off" /\ ends' = ends + 1 /\ core' = Standby
      /\ req' = [h \in Handlers |-> NoReq] /\ UNCHANGED <<disk, bak, overlapped>>
      BY DEF GuiEnds
<1>2. Typed
      BY <1>1 DEF HostInv
<1>3. Standby \in Cores /\ ~Standby.up
      BY LoadFacts DEF Standby, Cores
<1>4. Typed' /\ ends' > 0
      BY <1>1, <1>2, <1>3, NoReqFacts DEF Typed
<1>5. (disk \in Config /\ Loadable(disk)) \/ (disk = Blank /\ Loadable(bak))
  <2>1. CASE AllIdle
        BY <1>1, <2>1 DEF HostInv, Resting
  <2>2. ASSUME NEW h \in Handlers, req[h].pc # "idle"
        PROVE  (disk \in Config /\ Loadable(disk)) \/ (disk = Blank /\ Loadable(bak))
    <3>1. PathInv(req[h]) /\ FileInv(req[h])
          BY <1>1, <2>2 DEF HostInv, Serving
    <3>2. req[h].pc = "writeCfg" => Loadable(bak)
          BY <3>1 DEF PathInv, FileInv, Undoable, Writers
    <3> QED BY <3>1, <3>2 DEF FileInv
  <2> QED BY <2>1, <2>2 DEF AllIdle
<1>6. Resting'
      BY <1>1, <1>3, <1>4, <1>5 DEF Resting, InStep
<1>7. \A h \in Handlers : req'[h] = NoReq /\ req'[h].pc = "idle"
      BY <1>1, NoReqFacts
<1> QED BY <1>4, <1>6, <1>7 DEF HostInv

\* The GUI starts and reads what is there.
LEMMA GuiStartsInv ==
  ASSUME HostInv, GuiStarts
  PROVE  HostInv'
<1>1. /\ mode = "off" /\ view' = Seen(disk) /\ UNCHANGED <<disk, bak, core, req, overlapped, ends>>
      /\ mode' \in {"hosting", "observer", "blank"} /\ (~Loadable(disk) => mode' = "blank")
      BY DEF GuiStarts, ghosts, Seen
<1>2. SUFFICES ASSUME ~overlapped
               PROVE  HostInv'
      BY <1>1 DEF HostInv
<1>3. AllIdle
      BY <1>1, <1>2 DEF HostInv, AllIdle, Serving, PathInv
<1>4. Typed /\ Resting
      BY <1>2, <1>3 DEF HostInv
<1>5. ~core.up
      BY <1>1, <1>4 DEF Typed
<1>6. Typed'
      BY <1>1, <1>4, <1>5 DEF Typed
<1>7. Resting'
  <2>1. \/ disk \in Config /\ Loadable(disk)
        \/ disk = Blank /\ Loadable(bak) /\ ends > 0 /\ mode' = "blank"
        BY <1>1, <1>4, LoadFacts DEF Resting
  <2> QED BY <1>1, <1>5, <2>1 DEF Resting, InStep, Seen
<1> QED BY <1>1, <1>2, <1>3, <1>6, <1>7 DEF HostInv, AllIdle

LEMMA HostInvInit ==
  ASSUME HostInit
  PROVE  HostInv
<1>1. \A h \in Handlers : req[h] = NoReq /\ req[h].pc = "idle"
      BY NoReqFacts DEF HostInit
<1>2. Typed
      BY NoReqFacts, LoadFacts DEF HostInit, Typed, Cores
<1>3. Resting
  <2>1. disk = InitTokens /\ view = disk /\ core.cfg = disk
        BY DEF HostInit
  <2>2. disk \in Config /\ Loadable(disk)
        BY <2>1, LoadFacts, HostConstants
  <2> QED BY <2>1, <2>2 DEF Resting, InStep, Seen
<1> QED BY <1>1, <1>2, <1>3 DEF HostInv

LEMMA HostInvStep ==
  ASSUME HostInv, [HostNext]_hostVars
  PROVE  HostInv'
<1>1. CASE \E h \in Handlers : NewRequest(h)
      BY <1>1, NewRequestInv
<1>2. CASE \E h \in Handlers : HandlerStep(h)
      BY <1>2, HandlerInv
<1>3. CASE CoreEnds \/ CoreCrashes \/ ForeignToggles
      BY <1>3, OutsideInv DEF CoreEnds, CoreCrashes, ForeignToggles, ghosts
<1>4. CASE GuiEnds
      BY <1>4, GuiEndsInv
<1>5. CASE GuiStarts
      BY <1>5, GuiStartsInv
<1>6. CASE UNCHANGED hostVars
      BY <1>6, OutsideInv DEF hostVars, ghosts
<1> QED BY <1>1, <1>2, <1>3, <1>4, <1>5, <1>6 DEF HostNext

LEMMA HostInvariance == HostSpec => []HostInv
BY HostInvInit, HostInvStep, PTL DEF HostSpec

-----------------------------------------------------------------------------
(* Theorems *)

(***************************************************************************)
(* Requests that do not overlap never leave the operator without a         *)
(* configuration: config.json can be loaded, or its backup can             *)
(* (WriteReaderSession, WriteConfig, RollbackConfig, and the process       *)
(* ending between any two of their steps).                                 *)
(***************************************************************************)
THEOREM DiskStaysLoadable == HostSpec => []DiskValid
<1>1. ASSUME HostInv
      PROVE  DiskValid
  <2>1. SUFFICES ASSUME ~overlapped
                 PROVE  Loadable(disk) \/ ((IsOpen("writeCfg") \/ ends > 0) /\ Loadable(bak))
        BY DEF DiskValid
  <2>2. CASE AllIdle
        BY <1>1, <2>1, <2>2 DEF HostInv, Resting
  <2>3. ASSUME NEW h \in Handlers, req[h].pc # "idle"
        PROVE  Loadable(disk) \/ ((IsOpen("writeCfg") \/ ends > 0) /\ Loadable(bak))
    <3>1. PathInv(req[h]) /\ FileInv(req[h])
          BY <1>1, <2>1, <2>3 DEF HostInv, Serving
    <3>2. req[h].pc = "writeCfg" => Loadable(bak) /\ IsOpen("writeCfg")
          BY <3>1 DEF PathInv, FileInv, Undoable, Writers, IsOpen
    <3> QED BY <3>1, <3>2 DEF FileInv
  <2> QED BY <2>2, <2>3 DEF AllIdle
<1> QED BY <1>1, HostInvariance, PTL

(***************************************************************************)
(* Between requests that have not overlapped the GUI checks requests       *)
(* against the configuration on disk (reloadCfg), but after a resume that  *)
(* could not start the core.                                               *)
(***************************************************************************)
THEOREM ViewFollowsDisk == HostSpec => []ViewIsDisk
<1>1. ASSUME HostInv
      PROVE  ViewIsDisk
      BY <1>1 DEF HostInv, AllIdle, Resting, ViewIsDisk, Seen
<1> QED BY <1>1, HostInvariance, PTL

(***************************************************************************)
(* Between requests that have not overlapped a running core runs the       *)
(* configuration on disk, whichever of the requests' error paths was taken *)
(* (applySession, resume, configSave, coreControl).                        *)
(***************************************************************************)
THEOREM CoreRunsDisk == HostSpec => []RunningMatchesDisk
<1>1. ASSUME HostInv
      PROVE  RunningMatchesDisk
      BY <1>1 DEF HostInv, AllIdle, Resting, RunningMatchesDisk, InStep
<1> QED BY <1>1, HostInvariance, PTL

(***************************************************************************)
(* A request that answers that it went back to the previous configuration  *)
(* has restored what it found (RollbackConfig).                            *)
(***************************************************************************)
THEOREM RollbackRestores == HostSpec => []RolledBackMeansOld
<1>1. ASSUME HostInv
      PROVE  RolledBackMeansOld
      BY <1>1 DEF HostInv, Serving, FileInv, RolledBackMeansOld
<1> QED BY <1>1, HostInvariance, PTL

-----------------------------------------------------------------------------
(***************************************************************************)
(* The session catalog.  NoChangeIsMissed is the safety part of            *)
(* CatalogConverges: as long as the catalog shown is not the file's, a     *)
(* goroutine is on its way to reload it (Run, reload, Import).             *)
(***************************************************************************)
Shown ==
    \/ file.v = 0 /\ loadErr
    \/ file.v > 0 /\ cat = file.v /\ ~loadErr

\* Run finds a new mtime at its next tick, or a reload has yet to read the file
\* or has read it as it is.
ReloadAhead ==
    \/ Booted /\ file.at # lastMod
    \/ task["run"].pc \in {"settle", "load", "again"}
    \/ task["op"].pc \in {"remove", "clear", "load", "again"}
    \/ \E t \in Tasks : At(t, "assign") /\ task[t].got = file

NoChangeIsMissed == raced \/ file = Absent \/ Shown \/ ReloadAhead

\* A reload that assigns something else than the file has is not the last one.
LateReload ==
    /\ At("run", "assign") => \/ raced \/ task["run"].got = file
                              \/ Booted /\ file.at # lastMod
    /\ At("op", "assign") => raced \/ task["op"].got = file

CatalogInv ==
    /\ CatalogTypeOK
    /\ lastMod <= now /\ file.at <= now
    /\ At("run", "again") => task["run"].retry
    /\ At("run", "stat") => ~task["run"].retry
    /\ LateReload
    /\ NoChangeIsMissed

\* What a step of task t does to the tasks.
LEMMA GoFacts ==
    ASSUME CatalogTypeOK, NEW t \in Tasks, NEW pc, task' = [task EXCEPT ![t].pc = pc]
    PROVE  /\ task'[t].pc = pc /\ task'[t].retry = task[t].retry /\ task'[t].got = task[t].got
           /\ \A u \in Tasks : u # t => task'[u] = task[u]
BY DEF CatalogTypeOK

LEMMA ReadFacts ==
    ASSUME CatalogTypeOK, NEW t \in Tasks, NEW pc, NEW got,
           task' = [task EXCEPT ![t].got = got, ![t].pc = pc]
    PROVE  /\ task'[t].pc = pc /\ task'[t].retry = task[t].retry /\ task'[t].got = got
           /\ \A u \in Tasks : u # t => task'[u] = task[u]
BY DEF CatalogTypeOK

LEMMA BeginFacts ==
    ASSUME CatalogTypeOK, NEW t \in Tasks, NEW pc,
           task' = [task EXCEPT ![t].pc = pc, ![t].retry = TRUE]
    PROVE  /\ task'[t].pc = pc /\ task'[t].retry = TRUE /\ task'[t].got = task[t].got
           /\ \A u \in Tasks : u # t => task'[u] = task[u]
BY DEF CatalogTypeOK

LEMMA CatalogTypeInit == CatalogInit => CatalogTypeOK
<1> SUFFICES ASSUME CatalogInit PROVE CatalogTypeOK
    OBVIOUS
<1>1. 1 \in 0..MaxVersion /\ 1 \in 0..MaxWrites /\ 0 \in 0..MaxVersion /\ 0 \in 0..MaxWrites /\ 0 \in 0..MaxOps
      BY CatalogConstants
<1>2. Absent \in File /\ [v |-> 1, at |-> 1] \in File
      BY <1>1 DEF Absent, File
<1> QED BY <1>1, <1>2 DEF CatalogInit, CatalogTypeOK

TaskPcs == {"idle", "load", "again", "assign", "stat", "poll", "settle", "write", "remove", "clear"}
TaskType == [Tasks -> [pc : TaskPcs, retry : BOOLEAN, got : File]]

\* A write leaves a well-formed file, with an mtime of its own.
LEMMA PutFacts ==
    ASSUME CatalogTypeOK, NEW v \in 0..MaxVersion, Put(v)
    PROVE  /\ file' \in File /\ now' \in 0..MaxWrites /\ raced' \in BOOLEAN
           /\ file'.v = v /\ file'.at = now + 1 /\ now' = now + 1 /\ now \in Nat /\ file' # Absent
<1>1. now \in Nat /\ now' = now + 1 /\ now < MaxWrites /\ MaxWrites \in Nat
      BY CatalogConstants DEF CatalogTypeOK, Put
<1>2. file' = [v |-> v, at |-> now + 1]
      BY DEF Put
<1>3. now + 1 \in 0..MaxWrites
      BY <1>1
<1>4. file' \in File /\ file'.v = v /\ file'.at = now + 1
      BY <1>2, <1>3 DEF File
<1>5. file' # Absent
  <2>1. Absent.at = 0
        BY DEF Absent
  <2> QED BY <1>1, <1>4, <2>1
<1>6. raced' \in BOOLEAN
      BY DEF Put, CatalogTypeOK
<1> QED BY <1>1, <1>3, <1>4, <1>5, <1>6

LEMMA CatalogTypeStep ==
    ASSUME CatalogTypeOK, [CatalogNext]_catalogVars
    PROVE  CatalogTypeOK'
<1>0. task \in TaskType /\ file \in File /\ download \in File
      BY DEF CatalogTypeOK, TaskType, TaskPcs
<1>1. ASSUME NEW t \in Tasks, Load(t) PROVE CatalogTypeOK'
  <2>1. task' \in TaskType
        BY <1>0, <1>1 DEF Load, TaskType, TaskPcs
  <2> QED BY <1>1, <2>1 DEF Load, CatalogTypeOK, TaskType, TaskPcs
<1>2. ASSUME NEW t \in Tasks, LoadAgain(t) PROVE CatalogTypeOK'
  <2>1. task' \in TaskType
        BY <1>0, <1>2 DEF LoadAgain, TaskType, TaskPcs
  <2> QED BY <1>2, <2>1 DEF LoadAgain, CatalogTypeOK, TaskType, TaskPcs
<1>3. ASSUME NEW t \in Tasks, Assign(t) PROVE CatalogTypeOK'
  <2>1. task' \in TaskType
        BY <1>0, <1>3 DEF Assign, Go, TaskType, TaskPcs
  <2>2. cat' \in 0..MaxVersion
    <3>1. task[t].got.v \in 0..MaxVersion
          BY <1>0 DEF TaskType, File
    <3> QED BY <1>3, <3>1 DEF Assign, CatalogTypeOK
  <2>3. loadErr' \in BOOLEAN
        BY <1>3 DEF Assign
  <2> QED BY <1>3, <2>1, <2>2, <2>3 DEF Assign, CatalogTypeOK, TaskType, TaskPcs
<1>4. CASE StatFirst
  <2>1. task' \in TaskType
        BY <1>0, <1>4 DEF StatFirst, Go, TaskType, TaskPcs, Tasks
  <2>2. lastMod' \in 0..MaxWrites
    <3>1. file.at \in 0..MaxWrites /\ 0 \in 0..MaxWrites
          BY <1>0, CatalogConstants DEF File
    <3> QED BY <1>4, <3>1 DEF StatFirst
  <2> QED BY <1>4, <2>1, <2>2 DEF StatFirst, CatalogTypeOK, TaskType, TaskPcs
<1>5. CASE Poll
  <2>1. task' \in TaskType
        BY <1>0, <1>5 DEF Poll, Go, TaskType, TaskPcs, Tasks
  <2>2. lastMod' \in 0..MaxWrites
        BY <1>0, <1>5 DEF Poll, File
  <2> QED BY <1>5, <2>1, <2>2 DEF Poll, CatalogTypeOK, TaskType, TaskPcs
<1>6. CASE Settled
  <2>1. task' \in TaskType
        BY <1>0, <1>6 DEF Settled, TaskType, TaskPcs, Tasks
  <2> QED BY <1>6, <2>1 DEF Settled, CatalogTypeOK, TaskType, TaskPcs
<1>7. CASE ScanDownloads
      BY <1>7 DEF ScanDownloads, CatalogTypeOK
<1>8. CASE ImportWrite
  <2>1. task' \in TaskType /\ task["op"].got.v \in 0..MaxVersion
        BY <1>0, <1>8 DEF ImportWrite, Go, TaskType, TaskPcs, Tasks, File
  <2>2. file' \in File /\ now' \in 0..MaxWrites /\ raced' \in BOOLEAN
        BY <1>8, <2>1, PutFacts DEF ImportWrite
  <2> QED BY <1>8, <2>1, <2>2 DEF ImportWrite, CatalogTypeOK, TaskType, TaskPcs
<1>9. CASE ImportRemove
  <2>1. task' \in TaskType
        BY <1>0, <1>9 DEF ImportRemove, Go, TaskType, TaskPcs, Tasks
  <2>2. Absent \in File
        BY CatalogConstants DEF Absent, File
  <2> QED BY <1>9, <2>1, <2>2 DEF ImportRemove, CatalogTypeOK, TaskType, TaskPcs
<1>10. CASE ImportClear
  <2>1. task' \in TaskType
        BY <1>0, <1>10 DEF ImportClear, Go, TaskType, TaskPcs, Tasks
  <2> QED BY <1>10, <2>1 DEF ImportClear, CatalogTypeOK, TaskType, TaskPcs
<1>11. ASSUME Request PROVE ops' \in 0..MaxOps
      BY <1>11, CatalogConstants DEF Request, CatalogTypeOK
<1>12. CASE Refresh
  <2>1. task' \in TaskType
        BY <1>0, <1>12 DEF Refresh, TaskType, TaskPcs, Tasks
  <2>2. ops' \in 0..MaxOps
        BY <1>11, <1>12 DEF Refresh
  <2> QED BY <1>12, <2>1, <2>2 DEF Refresh, CatalogTypeOK, TaskType, TaskPcs
<1>13. CASE Import
  <2>1. task' \in TaskType
        BY <1>0, <1>13 DEF Import, TaskType, TaskPcs, Tasks
  <2>2. ops' \in 0..MaxOps
        BY <1>11, <1>13 DEF Import
  <2> QED BY <1>13, <2>1, <2>2 DEF Import, CatalogTypeOK, TaskType, TaskPcs
<1>14. ASSUME NEW v \in 0..MaxVersion, ImportContent(v) PROVE CatalogTypeOK'
  <2>1. task' \in TaskType
        BY <1>0, <1>14 DEF ImportContent, TaskType, TaskPcs, Tasks
  <2>2. ops' \in 0..MaxOps
        BY <1>11, <1>14 DEF ImportContent
  <2>3. file' \in File /\ now' \in 0..MaxWrites /\ raced' \in BOOLEAN
        BY <1>14, PutFacts DEF ImportContent
  <2> QED BY <1>14, <2>1, <2>2, <2>3 DEF ImportContent, CatalogTypeOK, TaskType, TaskPcs
<1>15. ASSUME NEW v \in 0..MaxVersion, Overwrite(v) PROVE CatalogTypeOK'
  <2>1. file' \in File /\ now' \in 0..MaxWrites /\ raced' \in BOOLEAN
        BY <1>15, PutFacts DEF Overwrite
  <2> QED BY <1>15, <2>1 DEF Overwrite, CatalogTypeOK
<1>16. ASSUME NEW v \in 0..MaxVersion, Download(v) PROVE CatalogTypeOK'
  <2>1. now' \in 0..MaxWrites
        BY <1>16, CatalogConstants DEF Download, CatalogTypeOK
  <2>2. download' \in File
        BY <1>16, <2>1 DEF Download, File
  <2> QED BY <1>16, <2>1, <2>2 DEF Download, CatalogTypeOK
<1>17. CASE UNCHANGED catalogVars
      BY <1>17 DEF catalogVars, CatalogTypeOK
<1> QED BY <1>1, <1>2, <1>3, <1>4, <1>5, <1>6, <1>7, <1>8, <1>9, <1>10, <1>12, <1>13, <1>14, <1>15, <1>16, <1>17
        DEF CatalogNext, CatalogTask

\* The steps that leave the file alone.
LEMMA ReloadInv ==
    ASSUME CatalogInv, CatalogTypeOK', NEW t \in Tasks, Load(t) \/ LoadAgain(t)
    PROVE  CatalogInv'
<1>1. /\ task'[t].got = file /\ task'[t].pc \in {"again", "assign"}
      /\ task'[t].retry = task[t].retry /\ task[t].pc \in {"load", "again"}
      /\ task'[t].pc = "again" => task[t].retry
      /\ \A u \in Tasks : u # t => task'[u] = task[u]
  <2>0. CatalogTypeOK
        BY DEF CatalogInv
  <2>1. CASE Load(t)
    <3> DEFINE pc == IF file.v = 0 /\ task[t].retry THEN "again" ELSE "assign"
    <3>1. task' = [task EXCEPT ![t].got = file, ![t].pc = pc] /\ task[t].pc = "load"
          BY <2>1 DEF Load, At
    <3>2. pc \in {"again", "assign"} /\ (pc = "again" => task[t].retry)
          OBVIOUS
    <3> HIDE DEF pc
    <3>3. /\ task'[t].pc = pc /\ task'[t].retry = task[t].retry /\ task'[t].got = file
          /\ \A u \in Tasks : u # t => task'[u] = task[u]
          BY <2>0, <3>1, ReadFacts
    <3> QED BY <3>1, <3>2, <3>3
  <2>2. CASE LoadAgain(t)
    <3>1. task' = [task EXCEPT ![t].got = file, ![t].pc = "assign"] /\ task[t].pc = "again"
          BY <2>2 DEF LoadAgain, At
    <3>2. /\ task'[t].pc = "assign" /\ task'[t].retry = task[t].retry /\ task'[t].got = file
          /\ \A u \in Tasks : u # t => task'[u] = task[u]
          BY <2>0, <3>1, ReadFacts
    <3> QED BY <3>1, <3>2
  <2> QED BY <2>1, <2>2
<1>2. UNCHANGED <<file, cat, loadErr, lastMod, now, raced>>
      BY DEF Load, LoadAgain
<1>3. t = "run" \/ t = "op"
      BY DEF Tasks
<1>4. "run" \in Tasks /\ "op" \in Tasks
      BY DEF Tasks
<1>5. Booted => Booted'
      BY <1>1, <1>3, <1>4 DEF Booted
<1>6. LateReload'
      BY <1>1, <1>2, <1>3, <1>4, <1>5 DEF CatalogInv, LateReload, At
<1>7. ReloadAhead'
      BY <1>1, <1>2 DEF ReloadAhead, At, Tasks
<1>8. (At("run", "again") => task["run"].retry)' /\ (At("run", "stat") => ~task["run"].retry)'
      BY <1>1, <1>3, <1>4 DEF At, CatalogInv
<1> QED BY <1>2, <1>6, <1>7, <1>8 DEF CatalogInv, NoChangeIsMissed

LEMMA AssignInv ==
    ASSUME CatalogInv, CatalogTypeOK', NEW t \in Tasks, Assign(t)
    PROVE  CatalogInv'
<1>1. /\ task'[t].got = task[t].got /\ task'[t].retry = task[t].retry
      /\ task[t].pc = "assign"
      /\ task'[t].pc = (IF t = "op" THEN "idle" ELSE IF task[t].retry THEN "poll" ELSE "stat")
      /\ \A u \in Tasks : u # t => task'[u] = task[u]
  <2> DEFINE pc == IF t = "op" THEN "idle" ELSE IF task[t].retry THEN "poll" ELSE "stat"
  <2>1. CatalogTypeOK /\ task' = [task EXCEPT ![t].pc = pc] /\ task[t].pc = "assign"
        BY DEF Assign, At, Go, CatalogInv
  <2> HIDE DEF pc
  <2>2. /\ task'[t].pc = pc /\ task'[t].retry = task[t].retry /\ task'[t].got = task[t].got
        /\ \A u \in Tasks : u # t => task'[u] = task[u]
        BY <2>1, GoFacts
  <2> QED BY <2>1, <2>2 DEF pc
<1>2. /\ UNCHANGED <<file, lastMod, now, raced>>
      /\ cat' = IF task[t].got.v = 0 THEN cat ELSE task[t].got.v
      /\ loadErr' = (task[t].got.v = 0 /\ task[t].got # Absent)
      BY DEF Assign
<1>3. (t = "run" \/ t = "op") /\ "run" \in Tasks /\ "op" \in Tasks
      BY DEF Tasks
<1>4. Booted => Booted'
      BY <1>1, <1>3 DEF Booted
<1>5. LateReload'
      BY <1>1, <1>2, <1>3, <1>4 DEF CatalogInv, LateReload, At
<1>6. (At("run", "again") => task["run"].retry)' /\ (At("run", "stat") => ~task["run"].retry)'
      BY <1>1, <1>3 DEF At, CatalogInv
<1>7. NoChangeIsMissed'
  <2>1. CASE raced \/ file = Absent
        BY <1>2, <2>1 DEF NoChangeIsMissed
  <2>2. CASE task[t].got = file /\ file # Absent
    <3>1. file.v \in Nat
          BY CatalogConstants DEF CatalogInv, CatalogTypeOK, File
    <3>2. ASSUME file.v = 0 PROVE Shown'
      <4>1. file'.v = 0 /\ loadErr'
            BY <1>2, <2>2, <3>2
      <4> QED BY <4>1 DEF Shown
    <3>3. ASSUME file.v # 0 PROVE Shown'
      <4>1. cat' = file'.v /\ file'.v > 0
            BY <1>2, <2>2, <3>1, <3>3
      <4>2. ~loadErr'
            BY <1>2, <2>2, <3>3
      <4> QED BY <4>1, <4>2 DEF Shown
    <3>4. Shown'
          BY <3>2, <3>3
    <3> QED BY <3>4 DEF NoChangeIsMissed
  <2>3. CASE ~raced /\ task[t].got # file
    <3>1. t = "run" /\ Booted /\ file.at # lastMod
          BY <1>1, <1>3, <2>3 DEF CatalogInv, LateReload, At
    <3>2. ReloadAhead'
          BY <1>2, <1>4, <3>1 DEF ReloadAhead
    <3> QED BY <3>2 DEF NoChangeIsMissed
  <2> QED BY <2>1, <2>2, <2>3
<1> QED BY <1>2, <1>5, <1>6, <1>7 DEF CatalogInv

LEMMA RunInv ==
    ASSUME CatalogInv, CatalogTypeOK', StatFirst \/ Poll \/ Settled
    PROVE  CatalogInv'
<1>1. "run" \in Tasks /\ "op" \in Tasks /\ Tasks = {"run", "op"}
      BY DEF Tasks
<1>2. UNCHANGED <<file, cat, loadErr, now, raced>>
      BY DEF StatFirst, Poll, Settled
<1>3. lastMod' <= now' /\ file'.at <= now'
  <2>1. file.at \in Nat /\ now \in Nat
        BY CatalogConstants DEF CatalogInv, CatalogTypeOK, File
  <2> QED BY <1>2, <2>1 DEF StatFirst, Poll, Settled, CatalogInv
<1>4. /\ task'["op"] = task["op"]
      /\ task["run"].pc \in {"stat", "poll", "settle"}
      /\ task'["run"].pc \in {"poll", "settle", "load"}
      /\ task'["run"].pc = "poll" => StatFirst
  <2>1. CASE StatFirst
        BY <1>1, <2>1, GoFacts DEF StatFirst, Go, At, CatalogInv
  <2>2. CASE Poll
    <3>1. task' = [task EXCEPT !["run"].pc = "settle"] /\ task["run"].pc = "poll" /\ CatalogTypeOK
          BY <2>2 DEF Poll, Go, At, CatalogInv
    <3>2. task'["run"].pc = "settle" /\ task'["op"] = task["op"]
          BY <1>1, <3>1, GoFacts
    <3> QED BY <3>1, <3>2
  <2>3. CASE Settled
    <3>1. /\ task' = [task EXCEPT !["run"].pc = "load", !["run"].retry = TRUE]
          /\ task["run"].pc = "settle" /\ CatalogTypeOK
          BY <2>3 DEF Settled, At, CatalogInv
    <3>2. task'["run"].pc = "load" /\ task'["op"] = task["op"]
          BY <1>1, <3>1, BeginFacts
    <3> QED BY <3>1, <3>2
  <2> QED BY <2>1, <2>2, <2>3
<1>5. LateReload'
      BY <1>2, <1>4 DEF CatalogInv, LateReload, At
<1>6. NoChangeIsMissed'
  <2>1. CASE task'["run"].pc \in {"settle", "load"}
        BY <2>1 DEF NoChangeIsMissed, ReloadAhead
  <2>2. CASE StatFirst /\ file # Absent
    <3>1. task["run"].pc = "stat"
          BY <2>2 DEF StatFirst, At
    <3>2. \/ raced \/ Shown \/ task["op"].pc \in {"remove", "clear", "load", "again"}
          \/ task["op"].pc = "assign" /\ task["op"].got = file
          BY <1>1, <2>2, <3>1 DEF CatalogInv, NoChangeIsMissed, ReloadAhead, At, Booted
    <3> QED BY <1>1, <1>2, <1>4, <3>2 DEF NoChangeIsMissed, ReloadAhead, At, Shown
  <2> QED BY <1>2, <1>4, <2>1, <2>2 DEF NoChangeIsMissed
<1>7. (At("run", "again") => task["run"].retry)' /\ (At("run", "stat") => ~task["run"].retry)'
      BY <1>4 DEF At
<1> QED BY <1>3, <1>5, <1>6, <1>7 DEF CatalogInv

\* The operator's steps that write nothing.
LEMMA OperatorInv ==
    ASSUME CatalogInv, CatalogTypeOK', ImportRemove \/ ImportClear \/ Refresh \/ Import
    PROVE  CatalogInv'
<1>1. "run" \in Tasks /\ "op" \in Tasks /\ Tasks = {"run", "op"} /\ CatalogTypeOK
      BY DEF Tasks, CatalogInv
<1>2. UNCHANGED <<file, cat, loadErr, lastMod, now, raced>>
      BY DEF ImportRemove, ImportClear, Refresh, Import
<1>3. /\ task'["run"] = task["run"]
      /\ \/ task["op"].pc = "idle" /\ task'["op"].pc = "write"
         \/ task'["op"].pc \in {"clear", "load"}
  <2>1. CASE ImportRemove
    <3>1. task' = [task EXCEPT !["op"].pc = "clear"]
          BY <2>1 DEF ImportRemove, Go
    <3> QED BY <1>1, <3>1, GoFacts
  <2>2. CASE ImportClear
    <3>1. task' = [task EXCEPT !["op"].pc = "load"]
          BY <2>2 DEF ImportClear, Go
    <3> QED BY <1>1, <3>1, GoFacts
  <2>3. CASE Refresh
    <3>1. task' = [task EXCEPT !["op"].pc = "load", !["op"].retry = TRUE]
          BY <2>3 DEF Refresh
    <3> QED BY <1>1, <3>1, BeginFacts
  <2>4. CASE Import
    <3>1. /\ task' = [task EXCEPT !["op"] = [pc |-> "write", retry |-> TRUE, got |-> download]]
          /\ task["op"].pc = "idle"
          BY <2>4 DEF Import, Request, At
    <3> QED BY <1>1, <3>1 DEF CatalogTypeOK
  <2> QED BY <2>1, <2>2, <2>3, <2>4
<1>4. LateReload'
      BY <1>2, <1>3 DEF CatalogInv, LateReload, At, Booted
<1>5. NoChangeIsMissed'
  <2>1. CASE task'["op"].pc \in {"clear", "load"}
        BY <2>1 DEF NoChangeIsMissed, ReloadAhead
  <2>2. CASE task["op"].pc = "idle"
    <3>1. ReloadAhead => ReloadAhead'
          BY <1>1, <1>2, <1>3, <2>2 DEF ReloadAhead, Booted, At
    <3>2. Shown' = Shown
          BY <1>2 DEF Shown
    <3> QED BY <1>2, <3>1, <3>2 DEF CatalogInv, NoChangeIsMissed
  <2> QED BY <1>3, <2>1, <2>2
<1>6. (At("run", "again") => task["run"].retry)' /\ (At("run", "stat") => ~task["run"].retry)'
      BY <1>3 DEF At, CatalogInv
<1> QED BY <1>2, <1>4, <1>5, <1>6 DEF CatalogInv

\* A write to the file: Run has yet to see its mtime, or was starting.
LEMMA WriteInv ==
    ASSUME CatalogInv, CatalogTypeOK', NEW v \in 0..MaxVersion, Put(v),
           task'["run"] = task["run"], UNCHANGED lastMod,
           \/ task'["op"].pc \in {"remove", "load"}
           \/ task'["op"] = task["op"] /\ Prompt
    PROVE  CatalogInv'
<1>1. file'.at = now + 1 /\ now' = now + 1 /\ now \in Nat /\ lastMod \in Nat
      BY PutFacts, CatalogConstants DEF CatalogInv, CatalogTypeOK
<1>2. lastMod' <= now' /\ file'.at <= now' /\ file'.at # lastMod'
      BY <1>1 DEF CatalogInv
<1>3. Booted' = Booted
      BY DEF Booted
<1>4. raced => raced'
      BY DEF Put
<1>5. CASE Booted
  <2>1. ReloadAhead'
        BY <1>2, <1>3, <1>5 DEF ReloadAhead
  <2>2. LateReload'
    <3>1. ~(task'["op"].pc = "assign")
          BY <1>5 DEF Prompt, At, Tasks
    <3> QED BY <1>2, <1>3, <1>5, <3>1 DEF LateReload, At
  <2> QED BY <1>2, <2>1, <2>2 DEF CatalogInv, NoChangeIsMissed, At
<1>6. CASE ~Booted /\ raced'
      BY <1>2, <1>6 DEF CatalogInv, NoChangeIsMissed, LateReload, At
<1>7. CASE ~Booted /\ ~raced'
  <2>1. task["run"].pc = "load" /\ task["op"].pc # "assign"
        BY <1>7 DEF Put, At
  <2>2. ReloadAhead' /\ LateReload'
        BY <2>1 DEF ReloadAhead, LateReload, At
  <2> QED BY <1>2, <2>1, <2>2 DEF CatalogInv, NoChangeIsMissed, At
<1> QED BY <1>5, <1>6, <1>7

LEMMA CatalogInvInit == CatalogInit => CatalogInv
<1> SUFFICES ASSUME CatalogInit PROVE CatalogInv
    OBVIOUS
<1>1. CatalogTypeOK
      BY CatalogTypeInit
<1>2. task["run"].pc = "load" /\ task["op"].pc = "idle"
      BY DEF CatalogInit, Tasks
<1>3. lastMod <= now /\ file.at <= now
      BY DEF CatalogInit, Absent
<1> QED BY <1>1, <1>2, <1>3 DEF CatalogInv, LateReload, NoChangeIsMissed, ReloadAhead, At

LEMMA CatalogInvStep ==
    ASSUME CatalogInv, [CatalogNext]_catalogVars
    PROVE  CatalogInv'
<1>0. CatalogTypeOK /\ CatalogTypeOK' /\ "run" \in Tasks /\ "op" \in Tasks
      BY CatalogTypeStep DEF CatalogInv, Tasks
<1>1. CASE \E t \in Tasks : Load(t) \/ LoadAgain(t) \/ Assign(t)
      BY <1>0, <1>1, ReloadInv, AssignInv
<1>2. CASE StatFirst \/ Poll \/ Settled
      BY <1>0, <1>2, RunInv
<1>3. CASE ImportRemove \/ ImportClear \/ Refresh \/ Import
      BY <1>0, <1>3, OperatorInv
<1>4. CASE ImportWrite
  <2>1. task' = [task EXCEPT !["op"].pc = "remove"] /\ UNCHANGED lastMod /\ Put(task["op"].got.v)
        BY <1>4 DEF ImportWrite, Go
  <2>2. task'["op"].pc = "remove" /\ task'["run"] = task["run"]
        BY <1>0, <2>1, GoFacts
  <2>3. task["op"].got.v \in 0..MaxVersion
        BY <1>0 DEF CatalogTypeOK, File
  <2> QED BY <1>0, <2>1, <2>2, <2>3, WriteInv
<1>5. ASSUME NEW v \in 0..MaxVersion, ImportContent(v) PROVE CatalogInv'
  <2>1. /\ task' = [task EXCEPT !["op"].pc = "load", !["op"].retry = TRUE]
        /\ UNCHANGED lastMod /\ Put(v)
        BY <1>5 DEF ImportContent
  <2>2. task'["op"].pc = "load" /\ task'["run"] = task["run"]
        BY <1>0, <2>1, BeginFacts
  <2> QED BY <1>0, <2>1, <2>2, WriteInv
<1>6. ASSUME NEW v \in 0..MaxVersion, Overwrite(v) PROVE CatalogInv'
  <2>1. UNCHANGED <<task, lastMod>> /\ Put(v) /\ Prompt
        BY <1>6 DEF Overwrite
  <2> QED BY <1>0, <2>1, WriteInv
<1>7. ASSUME UNCHANGED <<file, cat, loadErr, task, lastMod, raced>>, now <= now'
      PROVE  CatalogInv'
  <2>1. now \in Nat /\ now' \in Nat /\ lastMod \in Nat /\ file.at \in Nat
        BY <1>0, CatalogConstants DEF CatalogTypeOK, File
  <2>2. lastMod' <= now' /\ file'.at <= now'
        BY <1>7, <2>1 DEF CatalogInv
  <2>3. LateReload' /\ NoChangeIsMissed'
        BY <1>7 DEF CatalogInv, LateReload, NoChangeIsMissed, Shown, ReloadAhead, Booted, At
  <2> QED BY <1>0, <1>7, <2>2, <2>3 DEF CatalogInv, At
<1>8. CASE ScanDownloads \/ (\E v \in 0..MaxVersion : Download(v)) \/ UNCHANGED catalogVars
  <2>1. UNCHANGED <<file, cat, loadErr, task, lastMod, raced>> /\ (now' = now \/ now' = now + 1)
        BY <1>8 DEF ScanDownloads, Download, catalogVars
  <2>2. now \in Nat
        BY <1>0, CatalogConstants DEF CatalogTypeOK
  <2>3. now <= now'
        BY <2>1, <2>2
  <2> QED BY <1>7, <2>1, <2>3
<1> QED BY <1>1, <1>2, <1>3, <1>4, <1>5, <1>6, <1>8 DEF CatalogNext, CatalogTask

(***************************************************************************)
(* For any number of writes, downloads, requests and versions: no change   *)
(* of the catalog file is missed, however reloads of Run and the operator  *)
(* interleave, unless the file changed while Run started.  What is shown   *)
(* is the file's catalog or its parse error, or a reload is on its way.    *)
(***************************************************************************)
THEOREM ChangesAreNotMissed == CatalogSpec => []NoChangeIsMissed
<1>1. CatalogInv => NoChangeIsMissed
      BY DEF CatalogInv
<1> QED BY <1>1, CatalogInvInit, CatalogInvStep, PTL DEF CatalogSpec
=============================================================================
