------------------------------- MODULE Wizard -------------------------------
(***************************************************************************)
(* internal/gui/wizard.go and wizard_run.go: the field-check wizard of the *)
(* GUI.  HTTP handlers start, confirm, abort and report; each start spawns *)
(* a run goroutine that works through the chosen steps, and step 3a a      *)
(* watcher goroutine that looks for SEND_RESULT lines in the core's log.   *)
(* What a run changes it sends to the pages before it goes on, except that *)
(* its last event is sent after Running is FALSE again.  An event may be   *)
(* dropped on the way to a page, and no later one repeats it (server.go);  *)
(* a page also asks for the wizard by itself (app.js).                     *)
(***************************************************************************)
EXTENDS Naturals, Sequences, FiniteSets

CONSTANTS StepLists,   \* step lists an operator may choose
          WatchCap,    \* capacity of the watcher's channel, 8 in the code
          PageCap,     \* wizard events a page's channel holds, at most 256 in the code
          MaxRuns,     \* bound: runs started
          MaxLines,    \* bound: SEND_RESULT lines logged
          Budgets      \* bound: which step lists, how many runs, lines and requests of a
                       \* page (asks) there are together, how the GUI has started, and
                       \* whether a page is open at all

ASSUME WizardConstants ==
    /\ StepLists \subseteq Seq({"0", "1", "2", "3a", "3b", "4"})
    /\ {WatchCap, PageCap} \subseteq Nat \ {0} /\ {MaxRuns, MaxLines} \subseteq Nat
    /\ Budgets \subseteq [lists : SUBSET StepLists, runs : 0..MaxRuns, lines : 0..MaxLines, asks : Nat,
                    gui : {"up", "bare"}, page : BOOLEAN]

Runs == 1..MaxRuns
Verdicts == {"pass", "warn", "fail", "skip"}

\* A SEND_RESULT line: of the reader under test, or of another one.
Lines == {"own", "other"}

VARIABLES gui,      \* the GUI process: "up", "bare" while ga.cfg is nil, or "dead"
          lines,    \* the SEND_RESULT lines of the log
          wiz,      \* Wizard.state and tagCh: run number, Running, AwaitTag, confirm slot
          steps,    \* state.Steps: id and status
          aborted,  \* runs whose context is cancelled
          job,      \* run -> its goroutine
          watch,    \* run -> its watcher goroutine
          late,     \* run -> its last onChange
          chan,     \* wizard events in the page's channel
          asked,    \* the answer to the page's last request for the wizard; fresh (ghost)
                    \* while no event was sent since it was taken
          shown,    \* what the page shows
          behind,   \* ghost: the last event did not reach the page, or an older answer
                    \* has replaced it
          left,     \* what is left of the budget
          okAt,     \* ghost: lines logged when the operator first confirmed in this run
          seen,     \* ghost: the line step 3a of this run was judged by
          overlap   \* ghost: a start overtook the last event of an earlier run

wizVars == <<wiz, steps, aborted>>
ghostVars == <<okAt, seen, overlap>>
envVars == <<gui, lines>>
pageVars == <<chan, asked, shown, behind, left>>
vars == <<envVars, wizVars, job, watch, late, pageVars, ghostVars>>

None == MaxLines + 1
NoJob == [pc |-> "none", i |-> 0, pre |-> FALSE, cfg |-> FALSE, known |-> FALSE]
NoLate == [pc |-> "none", shot |-> <<>>]
NoWatch == [pc |-> "off", at |-> 0, out |-> <<>>]

NoAnswer == [pc |-> "none", shot |-> <<>>, fresh |-> FALSE]

\* Snapshot, as far as renderWizard shows it: the run, Running, AwaitTag, the icons.
View(w, s) == [run |-> w.run, running |-> w.running, await |-> w.await,
               icons |-> [i \in DOMAIN s |-> s[i].status]]

\* broadcast to the page's channel.  States and log lines share it, and a page that is
\* about to connect again has none: an event may be dropped at any time.
Send(shot) ==
    /\ \/ left.page /\ Len(chan) < PageCap /\ chan' = Append(chan, shot) /\ behind' = FALSE
       \/ chan' = chan /\ behind' = TRUE
    /\ asked' = [asked EXCEPT !.fresh = FALSE]
    /\ UNCHANGED <<shown, left>>

\* onChange: the wizard as it is now, in one event.
Publish == Send(View(wiz', steps'))

WizardTypeOK ==
    /\ gui \in {"up", "bare", "dead"}
    /\ lines \in Seq(Lines)
    /\ wiz \in [run : 0..MaxRuns, running : BOOLEAN, await : BOOLEAN, tag : BOOLEAN]
    /\ \A i \in DOMAIN steps : steps[i].status \in Verdicts \cup {"pending", "running"}
    /\ aborted \subseteq Runs
    /\ \A n \in Runs : job[n].pc \in {"none", "load", "top", "work", "probe", "await", "watch"}
    /\ \A n \in Runs : watch[n].pc \in {"off", "attach", "poll"} /\ Len(watch[n].out) <= WatchCap
    /\ Len(chan) <= PageCap /\ asked.pc \in {"none", "back"}
    /\ okAt \in 0..None /\ seen \in 0..MaxLines

WizardInit ==
    /\ left \in Budgets /\ gui = left.gui /\ lines = <<>>
    /\ wiz = [run |-> 0, running |-> FALSE, await |-> FALSE, tag |-> FALSE]
    /\ steps = <<>> /\ aborted = {}
    /\ job = [n \in Runs |-> NoJob]
    /\ watch = [n \in Runs |-> NoWatch]
    /\ late = [n \in Runs |-> NoLate]
    /\ chan = <<>> /\ asked = NoAnswer /\ shown = View(wiz, steps) /\ behind = FALSE
    /\ okAt = None /\ seen = 0
    /\ overlap = FALSE

-----------------------------------------------------------------------------
(* The HTTP handlers *)

Fresh(list) == [i \in DOMAIN list |-> [id |-> list[i], status |-> "pending"]]

\* Start: refused while a run is on; a new context, channel and array.
Start(list, known) ==
    LET n == wiz.run + 1 IN
    /\ gui # "dead" /\ ~wiz.running /\ n \in 1..left.runs /\ list \in left.lists
    /\ wiz' = [run |-> n, running |-> TRUE, await |-> FALSE, tag |-> FALSE]
    /\ steps' = Fresh(list)
    /\ job' = [job EXCEPT ![n] = [NoJob EXCEPT !.pc = "load", !.known = known]]
    /\ Publish
    /\ overlap' = (overlap \/ \E m \in Runs : late[m].pc # "none")
    /\ okAt' = None /\ seen' = 0
    /\ UNCHANGED <<envVars, aborted, watch, late>>

\* ConfirmTag: the slot may be full, and there is none before the first start.
Confirm ==
    /\ gui # "dead" /\ wiz.run # 0
    /\ wiz' = [wiz EXCEPT !.tag = TRUE]
    /\ okAt' = IF wiz.running /\ okAt = None THEN Len(lines) ELSE okAt
    /\ UNCHANGED <<envVars, steps, aborted, job, watch, late, pageVars, seen, overlap>>

\* An abort that declares the run over itself.
MutAbort ==
    /\ gui # "dead" /\ wiz.running
    /\ aborted' = aborted \cup {wiz.run}
    /\ wiz' = [wiz EXCEPT !.running = FALSE]
    /\ UNCHANGED <<envVars, steps, job, watch, late, pageVars, ghostVars>>

\* Abort: cancel is nil once the run has ended.
Abort ==
    /\ gui # "dead" /\ wiz.running
    /\ aborted' = aborted \cup {wiz.run}
    /\ UNCHANGED <<envVars, wiz, steps, job, watch, late, pageVars, ghostVars>>

Handler == (\E list \in StepLists, known \in BOOLEAN : Start(list, known)) \/ Confirm \/ Abort

-----------------------------------------------------------------------------
(* The goroutine run *)

RunAt(n, pc) == gui # "dead" /\ job[n].pc = pc
Cancelled(n) == n \in aborted
StepOf(n) == steps[job[n].i].id
Goto(n, pc) == job' = [job EXCEPT ![n].pc = pc]

\* setStep: it writes to the steps there are now.
SetStep(n, v) == steps' = [steps EXCEPT ![job[n].i] = [@ EXCEPT !.status = v]]

\* preflightOK: the verdict of step 2, for the steps that depend on it.
PreflightOK(n, v) == IF StepOf(n) = "2" THEN v = "pass" ELSE job[n].pre

\* The result of a step, then the next one.
Result(n, v) ==
    /\ SetStep(n, v)
    /\ job' = [job EXCEPT ![n] = [job[n] EXCEPT !.pc = "top", !.i = @ + 1, !.pre = PreflightOK(n, v)]]
    /\ Publish

\* A nil pointer dereferenced in a goroutine ends the GUI process and the core in it.
Panic ==
    /\ gui' = "dead"
    /\ UNCHANGED <<lines, wizVars, job, watch, late, pageVars, ghostVars>>

\* run: config.json, which may have been edited by hand, is read once.
LoadCfg(n, loads) ==
    /\ RunAt(n, "load")
    /\ job' = [job EXCEPT ![n] = [@ EXCEPT !.pc = "top", !.i = 1, !.cfg = loads]]
    /\ UNCHANGED <<envVars, wizVars, watch, late, pageVars, ghostVars>>

FinishWith(n, publication) ==
    /\ RunAt(n, "top") /\ (Cancelled(n) \/ job[n].i > Len(steps))
    /\ wiz' = [wiz EXCEPT !.running = FALSE, !.await = FALSE]
    /\ job' = [job EXCEPT ![n] = NoJob]
    /\ late' = [late EXCEPT ![n] = publication]
    /\ watch' = [watch EXCEPT ![n] = NoWatch]
    /\ UNCHANGED <<envVars, steps, aborted, pageVars, ghostVars>>

\* A deferred function without the last onChange.
MutFinish(n) == FinishWith(n, NoLate)

\* The loop is over, or the context is cancelled: the deferred function.  A watcher
\* the run leaves behind polls into a channel nobody receives from, and is left out.
Finish(n) == FinishWith(n, [pc |-> "todo", shot |-> <<>>])

StepBegin(n) ==
    /\ RunAt(n, "top") /\ ~Cancelled(n) /\ job[n].i <= Len(steps)
    /\ SetStep(n, "running")
    /\ Goto(n, "work")
    /\ UNCHANGED <<envVars, wiz, aborted, watch, late, ghostVars>>
    /\ Publish

At(n, id) == RunAt(n, "work") /\ StepOf(n) = id
StepKeeps == UNCHANGED <<envVars, wiz, aborted, watch, late, ghostVars>>

\* step0: data folder, NTP and clock skew, which may fail; then the catalog file, whose
\* place the GUI's own configuration gives.
Step0(n) ==
    /\ At(n, "0")
    /\ \/ StepKeeps /\ Result(n, "fail")
       \/ job[n].cfg /\ gui = "bare" /\ Panic
       \/ job[n].cfg /\ gui = "up" /\ StepKeeps /\ \E v \in {"pass", "warn"} : Result(n, v)

\* step1: the state of a running core stands in for a probe of its reader.
Step1(n, core) ==
    /\ At(n, "1")
    /\ \/ ~job[n].cfg /\ Panic
       \/ job[n].cfg /\ ~job[n].known /\ StepKeeps /\ Result(n, "fail")
       \/ job[n].cfg /\ job[n].known /\ core /\ StepKeeps /\ \E v \in {"pass", "fail"} : Result(n, v)
       \/ /\ job[n].cfg /\ job[n].known /\ ~core
          /\ Goto(n, "probe")
          /\ UNCHANGED <<envVars, wizVars, watch, late, pageVars, ghostVars>>

\* session.Probe returns; the core may have been started meanwhile.
Probed(n) == RunAt(n, "probe") /\ StepKeeps /\ \E v \in {"pass", "warn", "fail"} : Result(n, v)

\* step2: Preflight with the reader's token.
Step2(n) ==
    /\ At(n, "2")
    /\ \/ ~job[n].cfg /\ Panic
       \/ /\ job[n].cfg /\ StepKeeps
          /\ \E v \in {"pass", "warn", "fail"} : (~job[n].known => v = "fail") /\ Result(n, v)

\* step3a without a passed preflight or a running core.
Step3aSkip(n, core) == At(n, "3a") /\ (~job[n].pre \/ ~core) /\ StepKeeps /\ Result(n, "skip")

\* step3a raises AwaitTag.
Step3aGate(n, core) ==
    /\ At(n, "3a") /\ job[n].pre /\ core
    /\ wiz' = [wiz EXCEPT !.await = TRUE]
    /\ Goto(n, "await")
    /\ UNCHANGED <<envVars, steps, aborted, watch, late, ghostVars>>
    /\ Publish

GateAborted(n) == RunAt(n, "await") /\ Cancelled(n) /\ StepKeeps /\ Result(n, "skip")

\* A gate that waits for the operator for ever.
MutGateTimeout(n) == FALSE /\ UNCHANGED vars

\* Two minutes without a confirmation.
GateTimeout(n) ==
    /\ RunAt(n, "await")
    /\ wiz' = [wiz EXCEPT !.await = FALSE]
    /\ UNCHANGED <<envVars, aborted, watch, late, ghostVars>>
    /\ Result(n, "skip")

\* The confirmation is received and the watcher started.
GatePassed(n) ==
    /\ RunAt(n, "await") /\ wiz.tag
    /\ wiz' = [wiz EXCEPT !.tag = FALSE, !.await = FALSE]
    /\ watch' = [watch EXCEPT ![n].pc = "attach"]
    /\ Goto(n, "watch")
    /\ UNCHANGED <<envVars, steps, aborted, late, ghostVars>>
    /\ Publish

WatchAborted(n) == RunAt(n, "watch") /\ Cancelled(n) /\ StepKeeps /\ Result(n, "skip")
WatchTimeout(n) == RunAt(n, "watch") /\ StepKeeps /\ Result(n, "fail")

\* The next event: another reader's is passed over; the HTTP status is the result.
WatchEvent(n) ==
    /\ RunAt(n, "watch") /\ watch[n].out # <<>>
    /\ watch' = [watch EXCEPT ![n].out = Tail(@)]
    /\ UNCHANGED <<envVars, wiz, aborted, late, okAt, overlap>>
    /\ LET at == Head(watch[n].out) IN
       \/ lines[at] = "other" /\ UNCHANGED <<steps, job, pageVars, seen>>
       \/ lines[at] = "own" /\ seen' = at /\ \E v \in {"pass", "warn", "fail"} : Result(n, v)

\* step3b and step4: selftestReplay, without a core of its own in the model.
Selftest(n) ==
    \/ At(n, "3b") /\ ~job[n].pre /\ StepKeeps /\ Result(n, "skip")
    \/ /\ At(n, "4") \/ (At(n, "3b") /\ job[n].pre)
       /\ \/ ~job[n].cfg /\ Panic
          \/ /\ job[n].cfg /\ StepKeeps
             /\ \E v \in {"pass", "warn", "fail"} : (~job[n].known => v = "fail") /\ Result(n, v)

\* coreRunning is asked when a step needs it, and may be different at the next; a GUI
\* without a configuration knows of no core.
RunStep(n) ==
    \/ \E loads \in BOOLEAN : LoadCfg(n, loads)
    \/ \E core \in {FALSE, gui = "up"} : Step1(n, core) \/ Step3aSkip(n, core) \/ Step3aGate(n, core)
    \/ Finish(n) \/ StepBegin(n) \/ Step0(n) \/ Probed(n) \/ Step2(n)
    \/ GateAborted(n) \/ GateTimeout(n) \/ GatePassed(n)
    \/ WatchAborted(n) \/ WatchTimeout(n) \/ WatchEvent(n) \/ Selftest(n)

-----------------------------------------------------------------------------
(* A run's last publication, and the watcher goroutine *)

\* onChange after the run is over: the snapshot, which may be a later run's.
LateSnapshot(n) ==
    /\ gui # "dead" /\ late[n].pc = "todo"
    /\ late' = [late EXCEPT ![n] = [pc |-> "taken", shot |-> View(wiz, steps)]]
    /\ UNCHANGED <<envVars, wizVars, job, watch, pageVars, ghostVars>>

LateSend(n) ==
    /\ gui # "dead" /\ late[n].pc = "taken"
    /\ late' = [late EXCEPT ![n] = NoLate]
    /\ Send(late[n].shot)
    /\ UNCHANGED <<envVars, wizVars, job, watch, ghostVars>>

WatchKeeps == gui # "dead" /\ UNCHANGED <<envVars, wizVars, job, late, pageVars, ghostVars>>

\* A watcher that reads the log from its start.
MutAttach(n) ==
    /\ watch[n].pc = "attach" /\ WatchKeeps
    /\ watch' = [watch EXCEPT ![n].pc = "poll"]

\* The watcher takes the end of the log as it is when its goroutine runs.
Attach(n) ==
    /\ watch[n].pc = "attach" /\ WatchKeeps
    /\ watch' = [watch EXCEPT ![n].pc = "poll", ![n].at = Len(lines)]

\* A tick: the next line is handed over if the channel has room.
Poll(n) ==
    /\ watch[n].pc = "poll" /\ WatchKeeps
    /\ watch[n].at < Len(lines) /\ Len(watch[n].out) < WatchCap
    /\ watch' = [watch EXCEPT ![n].at = @ + 1, ![n].out = Append(@, watch[n].at + 1)]

Background(n) == LateSnapshot(n) \/ LateSend(n) \/ Attach(n) \/ Poll(n)

-----------------------------------------------------------------------------
(* The page *)

PageKeeps == UNCHANGED <<envVars, wizVars, job, watch, late, ghostVars>>

\* A wizard event is read and shown.
RenderEvent ==
    /\ chan # <<>> /\ chan' = Tail(chan) /\ shown' = Head(chan)
    /\ UNCHANGED <<asked, behind, left>> /\ PageKeeps

\* The connection is lost with what was in its channel; the next one begins with a
\* State and no wizard event.
Reconnect ==
    /\ chan # <<>> /\ chan' = <<>> /\ behind' = TRUE
    /\ UNCHANGED <<asked, shown, left>> /\ PageKeeps

\* loadWizard, at load and at each click on the setup mode: the handler takes the
\* snapshot.  The answer to an earlier request may never have come.
Ask ==
    /\ gui # "dead" /\ left.page /\ left.asks > 0 /\ left' = [left EXCEPT !.asks = @ - 1]
    /\ asked' = [pc |-> "back", shot |-> View(wiz, steps), fresh |-> TRUE]
    /\ UNCHANGED <<chan, shown, behind>> /\ PageKeeps

\* The answer comes and is shown, before or after the events sent meanwhile.
RenderAnswer ==
    /\ asked.pc = "back" /\ asked' = NoAnswer
    /\ shown' = asked.shot
    /\ behind' = IF chan = <<>> THEN ~asked.fresh ELSE behind
    /\ UNCHANGED <<chan, left>> /\ PageKeeps

Page == RenderEvent \/ Reconnect \/ Ask \/ RenderAnswer

-----------------------------------------------------------------------------
(* The rest of the system *)

\* A configuration is saved in the GUI, which loads it.
ConfigSaved ==
    /\ gui = "bare" /\ gui' = "up"
    /\ UNCHANGED <<lines, wizVars, job, watch, late, pageVars, ghostVars>>

\* The core, on or off as it may be, logs the answer to a check-in.
CoreLogs(l) ==
    /\ gui # "dead" /\ Len(lines) < left.lines
    /\ lines' = Append(lines, l)
    /\ UNCHANGED <<gui, wizVars, job, watch, late, pageVars, ghostVars>>

Environment == ConfigSaved \/ \E l \in Lines : CoreLogs(l)

WizardNext == Handler \/ Page \/ Environment \/ \E n \in Runs : RunStep(n) \/ Background(n)

WizardSpec == WizardInit /\ [][WizardNext]_vars /\ \A n \in Runs : WF_vars(RunStep(n))

-----------------------------------------------------------------------------
(* Properties *)

(***************************************************************************)
(* Step 3a is judged only by a line the core logged after the operator     *)
(* confirmed in this run: neither a result that was in the log before nor  *)
(* a confirmation left over from an earlier run decides it (Start,         *)
(* ConfirmTag, step3a, watchSendResults).                                  *)
(***************************************************************************)
ConfirmedFirst == seen # 0 => okAt < seen

(***************************************************************************)
(* When a run is over no step of it is left running, however it ended, and *)
(* a step that was not reached means the operator aborted (run, step3a).   *)
(***************************************************************************)
FinishedIsSettled ==
    ~wiz.running => \A i \in DOMAIN steps :
                      \/ steps[i].status \in Verdicts
                      \/ steps[i].status = "pending" /\ Cancelled(wiz.run)

(***************************************************************************)
(* When no event is about to be sent, what the page shows once it has read *)
(* its channel is the wizard as it is, through answers that overtake       *)
(* events and events that overtake answers, unless the last event did not  *)
(* reach the page, an older answer came after it or the next start         *)
(* overtook it (setStep, run's deferred onChange, broadcast, loadWizard).  *)
(***************************************************************************)
WillShow == IF chan = <<>> THEN shown ELSE chan[Len(chan)]

ViewCurrent ==
    (~overlap /\ ~behind /\ \A n \in Runs : late[n].pc = "none") => WillShow = View(wiz, steps)

(***************************************************************************)
(* A run ends although nobody confirms, no tag is read and nobody aborts,  *)
(* unless the process died (step3a, run).                                  *)
(***************************************************************************)
WizardEnds == wiz.running ~> (~wiz.running \/ gui = "dead")
=============================================================================
