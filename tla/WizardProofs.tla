---------------------------- MODULE WizardProofs ----------------------------
(***************************************************************************)
(* Proofs about Wizard, for any step lists and any number of runs, lines,  *)
(* confirmations, dropped events and requests of the page.                 *)
(***************************************************************************)
EXTENDS Wizard, SequenceTheorems, TLAPS

Jobs == [pc : {"none", "load", "top", "work", "probe", "await", "watch"},
         i : Nat, pre : BOOLEAN, cfg : BOOLEAN, known : BOOLEAN]

Statuses == Verdicts \cup {"pending", "running"}
StepRecs == [id : {"0", "1", "2", "3a", "3b", "4"}, status : Statuses]
Wizards == [run : 0..MaxRuns, running : BOOLEAN, await : BOOLEAN, tag : BOOLEAN]
Shots == [run : 0..MaxRuns, running : BOOLEAN, await : BOOLEAN, icons : Seq(Statuses)]

\* Every variable is in its domain.
Typed ==
    /\ lines \in Seq(Lines) /\ Len(lines) <= MaxLines
    /\ wiz \in Wizards
    /\ steps \in Seq(StepRecs)
    /\ job \in [Runs -> Jobs]
    /\ watch \in [Runs -> [pc : {"off", "attach", "poll"}, at : Nat, out : Seq(Nat)]]
    /\ late = [n \in Runs |-> late[n]]
    /\ okAt \in 0..None /\ seen \in 0..MaxLines

\* Only the current run has a goroutine or a watcher.
OneRun ==
    \A n \in Runs : (job[n].pc # "none" \/ watch[n] # NoWatch) => wiz.running /\ n = wiz.run

\* The steps before the current one have a verdict, those after it are pending.
Progress(n) ==
    /\ job[n].pc = "load" => \A k \in DOMAIN steps : steps[k].status = "pending"
    /\ job[n].pc \notin {"none", "load"} =>
         /\ job[n].i \in 1..(Len(steps) + 1)
         /\ \A k \in DOMAIN steps : /\ k < job[n].i => steps[k].status \in Verdicts
                                    /\ k > job[n].i => steps[k].status = "pending"
         /\ job[n].pc = "top" /\ job[n].i <= Len(steps) => steps[job[n].i].status = "pending"
         /\ job[n].pc # "top" => job[n].i <= Len(steps)

\* The operator has confirmed, and what the watcher found came after that.
AfterConfirm(n) ==
    /\ watch[n].pc # "off" => okAt <= Len(lines)
    /\ watch[n].pc = "poll" => okAt <= watch[n].at
    /\ \A k \in 1..Len(watch[n].out) : okAt < watch[n].out[k] /\ watch[n].out[k] <= MaxLines

\* The last event of a run shows what the wizard holds, unless it was overtaken.
LateInv ==
    ~overlap => \A n \in Runs :
        /\ late[n].pc # "none" => ~wiz.running
        /\ late[n].pc = "taken" => late[n].shot = View(wiz, steps)

\* What is on its way to the page, what it is answered and the budget.
PageTyped ==
    /\ chan \in Seq(Shots)
    /\ asked = [pc |-> asked.pc, shot |-> asked.shot, fresh |-> asked.fresh]
    /\ left \in [lists : SUBSET StepLists, runs : 0..MaxRuns, lines : 0..MaxLines, asks : Nat,
                 gui : {"up", "bare"}, page : BOOLEAN]
    /\ \A n \in Runs : late[n].pc = "taken" => late[n].shot \in Shots

Quiet == ~overlap /\ \A n \in Runs : late[n].pc = "none"

\* An answer no event was sent after is the wizard as it is.
AnswerInv == Quiet /\ asked.fresh => asked.shot = View(wiz, steps)

PageInv == PageTyped /\ AnswerInv /\ ViewCurrent

\* A confirmation waiting in the slot of a run was given in that run.
SlotInv ==
    /\ wiz.running /\ wiz.tag => okAt <= Len(lines)
    /\ okAt # None => okAt <= Len(lines)

WizardInv ==
    /\ Typed /\ OneRun
    /\ \A n \in Runs : Progress(n) /\ AfterConfirm(n)
    /\ SlotInv /\ LateInv
    /\ ConfirmedFirst /\ FinishedIsSettled /\ PageInv

\* A snapshot of a wizard is one.
LEMMA ViewType ==
  ASSUME NEW w \in Wizards, NEW s \in Seq(StepRecs)
  PROVE  View(w, s) \in Shots
<1> DEFINE icons == [i \in DOMAIN s |-> s[i].status]
<1>1. DOMAIN s = 1..Len(s) /\ Len(s) \in Nat /\ \A i \in 1..Len(s) : s[i] \in StepRecs
      OBVIOUS
<1>2. \A i \in 1..Len(s) : s[i].status \in Statuses
      BY <1>1 DEF StepRecs
<1>3. icons \in [1..Len(s) -> Statuses]
      BY <1>1, <1>2
<1>4. icons \in Seq(Statuses)
      BY <1>1, <1>3
<1>5. w.run \in 0..MaxRuns /\ w.running \in BOOLEAN /\ w.await \in BOOLEAN
      BY Zenon DEF Wizards
<1>6. View(w, s) = [run |-> w.run, running |-> w.running, await |-> w.await, icons |-> icons]
      BY DEF View
<1> HIDE DEF icons
<1> QED BY <1>4, <1>5, <1>6 DEF Shots

\* A step that sends nothing and changes nothing the page shows.
LEMMA PageKept ==
  ASSUME PageInv, UNCHANGED <<chan, asked, shown, behind, left, late, overlap>>,
         View(wiz', steps') = View(wiz, steps)
  PROVE  PageInv'
<1>1. PageTyped'
      BY DEF PageInv, PageTyped
<1>2. WillShow' = WillShow
      BY DEF WillShow
<1>3. AnswerInv' /\ ViewCurrent'
      BY <1>2 DEF PageInv, AnswerInv, ViewCurrent, Quiet
<1> QED BY <1>1, <1>3 DEF PageInv

\* An event that is the wizard as it is, unless another is about to be sent, reaches
\* the page or counts as lost.
LEMMA PageSent ==
  ASSUME PageInv, NEW shot \in Shots, Send(shot), Quiet' => shot = View(wiz', steps'),
         \A n \in Runs : late'[n].pc = "taken" => late'[n].shot \in Shots
  PROVE  PageInv'
<1>1. chan \in Seq(Shots) /\ asked = [pc |-> asked.pc, shot |-> asked.shot, fresh |-> asked.fresh] /\ left' = left
      BY DEF PageInv, PageTyped, Send
<1>2. asked' = [pc |-> asked.pc, shot |-> asked.shot, fresh |-> FALSE]
      BY <1>1 DEF Send
<1>3. chan' \in Seq(Shots) /\ (~behind' => WillShow' = shot)
  <2>1. CASE chan' = Append(chan, shot)
    <3>1. /\ chan' \in Seq(Shots) /\ Len(chan') = Len(chan) + 1 /\ Len(chan) \in Nat
          /\ chan'[Len(chan) + 1] = shot
          BY <1>1, <2>1
    <3>2. chan' # <<>>
          BY <3>1
    <3> QED BY <3>1, <3>2 DEF WillShow
  <2>2. CASE chan' = chan /\ behind' = TRUE
        BY <1>1, <2>2
  <2> QED BY <2>1, <2>2 DEF Send
<1>4. PageTyped'
      BY <1>1, <1>2, <1>3 DEF PageInv, PageTyped
<1>5. AnswerInv'
      BY <1>2 DEF AnswerInv
<1>6. ViewCurrent'
      BY <1>3 DEF ViewCurrent, Quiet
<1> QED BY <1>4, <1>5, <1>6 DEF PageInv

\* onChange, when no last event of an earlier run changes.
LEMMA PagePublished ==
  ASSUME PageInv, Publish, late' = late, wiz' \in Wizards, steps' \in Seq(StepRecs)
  PROVE  PageInv'
<1>1. View(wiz', steps') \in Shots
      BY ViewType
<1>2. \A n \in Runs : late'[n].pc = "taken" => late'[n].shot \in Shots
      BY DEF PageInv, PageTyped
<1> QED BY <1>1, <1>2, PageSent DEF Publish

\* A new run's steps are the chosen ones, all pending.
LEMMA FreshFacts ==
  ASSUME NEW list \in StepLists
  PROVE  /\ Fresh(list) \in Seq(StepRecs) /\ Len(Fresh(list)) = Len(list)
         /\ \A k \in DOMAIN Fresh(list) : Fresh(list)[k].status = "pending"
<1>1. list \in Seq({"0", "1", "2", "3a", "3b", "4"})
      BY WizardConstants
<1>2. DOMAIN list = 1..Len(list) /\ Len(list) \in Nat /\ \A k \in 1..Len(list) : list[k] \in {"0", "1", "2", "3a", "3b", "4"}
      BY <1>1
<1>3. Fresh(list) \in [1..Len(list) -> StepRecs]
      BY <1>2 DEF Fresh, StepRecs, Statuses
<1>4. Fresh(list) \in Seq(StepRecs)
      BY <1>2, <1>3
<1>5. Len(Fresh(list)) = Len(list)
      BY <1>2, <1>3, <1>4
<1> QED BY <1>4, <1>5 DEF Fresh

\* setStep writes the status of one step.
LEMMA SetFacts ==
  ASSUME Typed, NEW n \in Runs, job[n].i \in DOMAIN steps, NEW v \in Statuses, SetStep(n, v)
  PROVE  /\ steps' \in Seq(StepRecs) /\ Len(steps') = Len(steps) /\ DOMAIN steps' = DOMAIN steps
         /\ steps'[job[n].i].status = v
         /\ \A k \in DOMAIN steps : k # job[n].i => steps'[k] = steps[k]
<1>1. steps \in Seq(StepRecs) /\ steps[job[n].i] \in StepRecs
      BY DEF Typed
<1>2. [steps[job[n].i] EXCEPT !.status = v] \in StepRecs
      BY <1>1 DEF StepRecs
<1>3. steps' = [steps EXCEPT ![job[n].i] = [steps[job[n].i] EXCEPT !.status = v]]
      BY DEF SetStep
<1>4. steps' \in Seq(StepRecs) /\ Len(steps') = Len(steps) /\ DOMAIN steps' = DOMAIN steps
      BY <1>1, <1>2, <1>3, ExceptSeq
<1> QED BY <1>1, <1>2, <1>3, <1>4 DEF StepRecs

\* A result takes the run to its next step.
LEMMA ResultJob ==
  ASSUME Typed, NEW n \in Runs, NEW v \in Verdicts, Result(n, v)
  PROVE  /\ job' \in [Runs -> Jobs] 
         /\ job'[n].pc = "top" /\ job'[n].i = job[n].i + 1
         /\ \A m \in Runs : m # n => job'[m] = job[m]
<1>1. job[n] \in Jobs /\ job[n].i + 1 \in Nat
      BY DEF Typed, Jobs
<1>2. PreflightOK(n, v) \in BOOLEAN
  <2>1. job[n].pre \in BOOLEAN /\ (v = "pass") \in BOOLEAN
        BY <1>1, Zenon DEF Jobs
  <2> QED BY <2>1, Zenon DEF PreflightOK
<1>3. job' = [job EXCEPT ![n] = [job[n] EXCEPT !.pc = "top", !.i = job[n].i + 1, !.pre = PreflightOK(n, v)]]
      BY DEF Result
<1>4. [job[n] EXCEPT !.pc = "top", !.i = job[n].i + 1, !.pre = PreflightOK(n, v)] \in Jobs
      BY <1>1, <1>2 DEF Jobs
<1> QED BY <1>1, <1>3, <1>4 DEF Jobs, Typed

Working == {"work", "probe", "await", "watch"}

\* Another record, same place: a run that only moves on within its step.
LEMMA GotoFacts ==
  ASSUME Typed, NEW n \in Runs, NEW pc \in Working, Goto(n, pc)
  PROVE  /\ job' \in [Runs -> Jobs]
         /\ job'[n].pc = pc /\ job'[n].i = job[n].i
         /\ \A m \in Runs : m # n => job'[m] = job[m]
<1>1. job[n] \in Jobs
      BY DEF Typed
<1>2. job' = [job EXCEPT ![n] = [job[n] EXCEPT !.pc = pc]]
      BY DEF Goto
<1>3. [job[n] EXCEPT !.pc = pc] \in Jobs
      BY <1>1 DEF Jobs, Working
<1> QED BY <1>1, <1>2, <1>3 DEF Jobs, Typed

\* A run that only moves on, or gets a result, keeps its steps in order.
LEMMA ProgressMoves ==
  ASSUME Typed, NEW n \in Runs, Progress(n), job[n].pc \in Working,
         \/ \E pc \in Working : Goto(n, pc) /\ steps' = steps
         \/ job' = job /\ steps' = steps
         \/ \E v \in Verdicts : Result(n, v)
  PROVE  /\ job' \in [Runs -> Jobs] /\ steps' \in Seq(StepRecs)
         /\ Progress(n)' /\ job'[n].pc # "none"
         /\ \A m \in Runs : m # n => job'[m] = job[m]
<1>1. /\ job[n].i \in 1..(Len(steps) + 1) /\ job[n].i <= Len(steps) /\ job[n] \in Jobs
      /\ Len(steps) \in Nat /\ DOMAIN steps = 1..Len(steps) /\ steps \in Seq(StepRecs)
      BY DEF Progress, Working, Typed
<1>2. ASSUME NEW pc \in Working, Goto(n, pc), steps' = steps
      PROVE  /\ job' \in [Runs -> Jobs] /\ steps' \in Seq(StepRecs)
             /\ Progress(n)' /\ job'[n].pc # "none"
             /\ \A m \in Runs : m # n => job'[m] = job[m]
  <2>1. /\ job' \in [Runs -> Jobs] /\ job'[n].pc = pc /\ job'[n].i = job[n].i
        /\ \A m \in Runs : m # n => job'[m] = job[m]
        BY <1>2, GotoFacts
  <2> QED BY <1>1, <1>2, <2>1 DEF Progress, Working
<1>3. CASE job' = job /\ steps' = steps
      BY <1>1, <1>3 DEF Progress, Working, Typed
<1>4. ASSUME NEW v \in Verdicts, Result(n, v)
      PROVE  /\ job' \in [Runs -> Jobs] /\ steps' \in Seq(StepRecs)
             /\ Progress(n)' /\ job'[n].pc # "none"
             /\ \A m \in Runs : m # n => job'[m] = job[m]
  <2>1. /\ job' \in [Runs -> Jobs] /\ job'[n].pc = "top" /\ job'[n].i = job[n].i + 1
        /\ \A m \in Runs : m # n => job'[m] = job[m]
        BY <1>4, ResultJob
  <2>2. job[n].i \in DOMAIN steps /\ SetStep(n, v) /\ job[n].i \in Nat
    <3>1. job[n].i \in Nat /\ job[n].i \in 1..Len(steps)
          BY <1>1
    <3> QED BY <1>1, <1>4, <3>1 DEF Result
  <2>3. /\ steps' \in Seq(StepRecs) /\ Len(steps') = Len(steps) /\ DOMAIN steps' = DOMAIN steps
        /\ steps'[job[n].i].status = v
        /\ \A k \in DOMAIN steps : k # job[n].i => steps'[k] = steps[k]
        BY <2>2, SetFacts DEF Statuses
  <2>4. \A k \in DOMAIN steps : /\ k < job[n].i => steps[k].status \in Verdicts
                                /\ k > job[n].i => steps[k].status = "pending"
        BY DEF Progress, Working
  <2>5. \A k \in DOMAIN steps : k < job[n].i + 1 => steps'[k].status \in Verdicts
    <3> TAKE k \in DOMAIN steps
    <3>1. CASE k = job[n].i
          BY <2>3, <3>1
    <3>2. CASE k # job[n].i
      <4>1. k \in Nat /\ (k < job[n].i + 1 => k < job[n].i)
            BY <1>1, <2>2, <3>2
      <4> QED BY <2>3, <2>4, <3>2, <4>1
    <3> QED BY <3>1, <3>2
  <2>6. \A k \in DOMAIN steps : k > job[n].i => steps'[k].status = "pending"
        BY <1>1, <2>2, <2>3, <2>4
  <2>7. /\ job'[n].i \in 1..(Len(steps') + 1)
        /\ \A k \in DOMAIN steps' : k < job'[n].i => steps'[k].status \in Verdicts
        /\ \A k \in DOMAIN steps' : k > job'[n].i => steps'[k].status = "pending"
        BY <1>1, <2>1, <2>2, <2>3, <2>5, <2>6
  <2>8. job'[n].i <= Len(steps') => steps'[job'[n].i].status = "pending"
    <3>1. job[n].i + 1 <= Len(steps) => job[n].i + 1 \in DOMAIN steps /\ job[n].i + 1 > job[n].i
          BY <1>1, <2>2
    <3>2. job[n].i + 1 <= Len(steps) => steps'[job[n].i + 1].status = "pending"
          BY <2>6, <3>1
    <3>3. job'[n].i = job[n].i + 1 /\ Len(steps') = Len(steps)
          BY <2>1, <2>3
    <3> QED BY <3>2, <3>3
  <2>9. Progress(n)'
    <3>1. job'[n].pc = "top"
          BY <2>1
    <3> QED BY <2>7, <2>8, <3>1 DEF Progress
  <2> QED BY <2>1, <2>3, <2>9
<1> QED BY <1>2, <1>3, <1>4

\* What a working run does to the wizard, the watcher and the verdict of step 3a.
WorkStep(n) ==
    /\ job[n].pc \in Working
    /\ \/ \E pc \in Working : Goto(n, pc) /\ steps' = steps
       \/ job' = job /\ steps' = steps
       \/ \E v \in Verdicts : Result(n, v)
    /\ \/ UNCHANGED wiz
       \/ \E a \in BOOLEAN : wiz' = [wiz EXCEPT !.await = a]
       \/ wiz.tag /\ wiz' = [wiz EXCEPT !.tag = FALSE, !.await = FALSE]
    /\ \/ UNCHANGED <<watch, seen>>
       \/ wiz.tag /\ watch' = [watch EXCEPT ![n].pc = "attach"] /\ UNCHANGED seen
       \/ /\ watch[n].out # <<>> /\ watch' = [watch EXCEPT ![n].out = Tail(@)]
          /\ seen' = seen \/ seen' = Head(watch[n].out)
    /\ Publish \/ UNCHANGED <<chan, asked, shown, behind, left, wiz, steps>>
    /\ UNCHANGED <<gui, lines, aborted, late, okAt, overlap>>

\* Every step of a run is a start of it, its end, the begin of a step, work on
\* one, or the end of the process.
LEMMA RunEffects ==
  ASSUME NEW n \in Runs, RunStep(n)
  PROVE  \/ Panic
         \/ \E loads \in BOOLEAN : LoadCfg(n, loads)
         \/ Finish(n)
         \/ StepBegin(n)
         \/ WorkStep(n)
<1> USE DEF Working, Verdicts
<1>1. ASSUME NEW v \in Verdicts, StepKeeps, Result(n, v), job[n].pc \in Working PROVE WorkStep(n)
      BY <1>1 DEF WorkStep, StepKeeps, Result, envVars, ghostVars
<1>2. CASE \E core \in {FALSE, gui = "up"} : Step1(n, core)
  <2>1. CASE Goto(n, "probe") /\ RunAt(n, "work") /\ UNCHANGED <<envVars, wizVars, watch, late, pageVars, ghostVars>>
        BY <2>1 DEF WorkStep, RunAt, envVars, wizVars, pageVars, ghostVars
  <2> QED BY <1>1, <1>2, <2>1 DEF Step1, At, RunAt
<1>3. CASE \E core \in {FALSE, gui = "up"} : Step3aSkip(n, core)
      BY <1>1, <1>3 DEF Step3aSkip, At, RunAt
<1>4. CASE \E core \in {FALSE, gui = "up"} : Step3aGate(n, core)
      BY <1>4 DEF Step3aGate, At, RunAt, WorkStep, envVars, ghostVars
<1>5. CASE Step0(n) \/ Probed(n) \/ Step2(n)
      BY <1>1, <1>5 DEF Step0, Probed, Step2, At, RunAt
<1>6. CASE GateAborted(n) \/ WatchAborted(n) \/ WatchTimeout(n)
      BY <1>1, <1>6 DEF GateAborted, WatchAborted, WatchTimeout, RunAt
<1>7. CASE GateTimeout(n)
      BY <1>7 DEF GateTimeout, RunAt, WorkStep, Result, envVars, ghostVars
<1>8. CASE GatePassed(n)
      BY <1>8 DEF GatePassed, RunAt, WorkStep, envVars, ghostVars
<1>9. CASE WatchEvent(n)
      BY <1>9 DEF WatchEvent, RunAt, WorkStep, Result, pageVars, envVars, ghostVars
<1>10. CASE Selftest(n)
      BY <1>1, <1>10 DEF Selftest, At, RunAt
<1> QED BY <1>2, <1>3, <1>4, <1>5, <1>6, <1>7, <1>8, <1>9, <1>10 DEF RunStep

\* A step of the current run that ends neither it nor the process.
LEMMA GoesOn ==
  ASSUME WizardInv, NEW n \in Runs, job[n].pc # "none", wiz'.running, wiz'.run = wiz.run, job'[n].pc # "none",
         \A m \in Runs : m # n => job'[m] = job[m] /\ watch'[m] = watch[m],
         Progress(n)', late' = late, overlap' = overlap
  PROVE  /\ OneRun' /\ LateInv' /\ FinishedIsSettled'
         /\ \A m \in Runs : Progress(m)'
<1>1. wiz.running /\ n = wiz.run
      BY DEF WizardInv, OneRun
<1>2. \A m \in Runs : m # n => job[m].pc = "none" /\ watch[m] = NoWatch
      BY <1>1 DEF WizardInv, OneRun
<1>3. OneRun'
      BY <1>1, <1>2 DEF OneRun, NoWatch
<1>4. ~overlap => \A m \in Runs : late[m].pc = "none"
      BY <1>1 DEF WizardInv, LateInv
<1>5. LateInv'
      BY <1>4 DEF LateInv
<1>6. FinishedIsSettled'
      BY DEF FinishedIsSettled
<1>7. ASSUME NEW m \in Runs, m # n PROVE Progress(m)'
      BY <1>2, <1>7 DEF Progress
<1> QED BY <1>3, <1>5, <1>6, <1>7

\* Work on a step keeps the invariant.
LEMMA WorkInv ==
  ASSUME WizardInv, NEW n \in Runs, WorkStep(n)
  PROVE  WizardInv'
<1>t. Typed /\ Progress(n) /\ (\A m \in Runs : AfterConfirm(m)) /\ ConfirmedFirst
      BY DEF WizardInv
<1>1. wiz.running /\ n = wiz.run /\ job[n].pc # "none"
      BY DEF WizardInv, OneRun, WorkStep, Working
<1>2. /\ job' \in [Runs -> Jobs] /\ steps' \in Seq(StepRecs)
      /\ Progress(n)' /\ job'[n].pc # "none"
      /\ \A m \in Runs : m # n => job'[m] = job[m]
      BY <1>t, ProgressMoves DEF WorkStep
<1>3. /\ wiz' \in Wizards
      /\ wiz'.run = wiz.run /\ wiz'.running = wiz.running /\ (wiz'.tag => wiz.tag)
      BY <1>t DEF WorkStep, Typed, Wizards
<1>u. UNCHANGED <<lines, late, okAt, overlap>>
      BY DEF WorkStep
<1>4. Len(lines) \in Nat /\ Len(lines) <= MaxLines /\ okAt \in Nat /\ MaxLines \in Nat
      BY <1>t, WizardConstants DEF Typed, None
<1>5. /\ watch' \in [Runs -> [pc : {"off", "attach", "poll"}, at : Nat, out : Seq(Nat)]]
      /\ \A m \in Runs : m # n => watch'[m] = watch[m]
      /\ AfterConfirm(n)' /\ seen' \in 0..MaxLines /\ ConfirmedFirst'
  <2>w. /\ watch \in [Runs -> [pc : {"off", "attach", "poll"}, at : Nat, out : Seq(Nat)]]
        /\ watch[n].out \in Seq(Nat) /\ seen \in 0..MaxLines
        BY <1>t DEF Typed
  <2>1. CASE UNCHANGED <<watch, seen>>
        BY <1>t, <1>u, <2>w, <2>1 DEF AfterConfirm, ConfirmedFirst
  <2>2. CASE wiz.tag /\ watch' = [watch EXCEPT ![n].pc = "attach"] /\ UNCHANGED seen
    <3>1. /\ watch' \in [Runs -> [pc : {"off", "attach", "poll"}, at : Nat, out : Seq(Nat)]]
          /\ watch'[n].pc = "attach" /\ watch'[n].out = watch[n].out
          /\ \A m \in Runs : m # n => watch'[m] = watch[m]
          BY <2>w, <2>2
    <3>2. okAt <= Len(lines)
          BY <1>1, <2>2 DEF WizardInv, SlotInv
    <3>3. AfterConfirm(n)'
          BY <1>t, <1>u, <3>1, <3>2 DEF AfterConfirm
    <3> QED BY <1>t, <1>u, <2>w, <2>2, <3>1, <3>3 DEF ConfirmedFirst
  <2>3. CASE /\ watch[n].out # <<>> /\ watch' = [watch EXCEPT ![n].out = Tail(@)]
             /\ seen' = seen \/ seen' = Head(watch[n].out)
    <3> DEFINE q == watch[n].out
    <3>1. /\ Len(q) \in Nat \ {0} /\ Tail(q) \in Seq(Nat) /\ Len(Tail(q)) = Len(q) - 1
          /\ \A k \in 1..(Len(q) - 1) : Tail(q)[k] = q[k + 1] /\ k + 1 \in 1..Len(q)
          /\ Head(q) = q[1] /\ 1 \in 1..Len(q) /\ q[1] \in Nat
          BY <2>w, <2>3
    <3>2. /\ watch' \in [Runs -> [pc : {"off", "attach", "poll"}, at : Nat, out : Seq(Nat)]]
          /\ watch'[n].pc = watch[n].pc /\ watch'[n].at = watch[n].at /\ watch'[n].out = Tail(q)
          /\ \A m \in Runs : m # n => watch'[m] = watch[m]
          BY <2>w, <2>3, <3>1
    <3>3. \A k \in 1..Len(q) : okAt < q[k] /\ q[k] <= MaxLines
          BY <1>t DEF AfterConfirm
    <3>4. AfterConfirm(n)'
      <4>1. \A k \in 1..Len(Tail(q)) : okAt < Tail(q)[k] /\ Tail(q)[k] <= MaxLines
            BY <3>1, <3>3
      <4> QED BY <1>t, <1>u, <3>2, <4>1 DEF AfterConfirm
    <3>5. okAt < Head(q) /\ Head(q) \in 0..MaxLines
          BY <1>4, <3>1, <3>3
    <3>6. seen' \in 0..MaxLines /\ ConfirmedFirst'
          BY <1>t, <1>u, <2>w, <2>3, <3>5 DEF ConfirmedFirst
    <3> QED BY <3>2, <3>4, <3>6
  <2> QED BY <2>1, <2>2, <2>3 DEF WorkStep
<1>6. Typed'
      BY <1>t, <1>2, <1>3, <1>5, <1>u DEF Typed
<1>7. \A m \in Runs : AfterConfirm(m)'
      BY <1>t, <1>5, <1>u DEF AfterConfirm
<1>8. SlotInv'
      BY <1>1, <1>3, <1>u DEF WizardInv, SlotInv
<1>9. /\ OneRun' /\ LateInv' /\ FinishedIsSettled'
      /\ \A m \in Runs : Progress(m)'
      BY <1>1, <1>2, <1>3, <1>5, <1>u, GoesOn
<1>10. PageInv'
  <2>1. CASE Publish
        BY <1>2, <1>3, <1>u, <2>1, PagePublished DEF WizardInv
  <2>2. CASE UNCHANGED <<chan, asked, shown, behind, left, wiz, steps>>
        BY <1>u, <2>2, PageKept DEF WizardInv
  <2> QED BY <2>1, <2>2 DEF WorkStep
<1> QED BY <1>5, <1>6, <1>7, <1>8, <1>9, <1>10 DEF WizardInv

\* So does the start of a run's loop and of a step.
LEMMA BeginInv ==
  ASSUME WizardInv, NEW n \in Runs, StepBegin(n) \/ \E loads \in BOOLEAN : LoadCfg(n, loads)
  PROVE  WizardInv'
<1>t. Typed /\ Progress(n)
      BY DEF WizardInv
<1>s. steps \in Seq(StepRecs) /\ Len(steps) \in Nat /\ DOMAIN steps = 1..Len(steps) /\ job[n] \in Jobs
      BY <1>t DEF Typed
<1>1. UNCHANGED <<lines, wiz, watch, late, okAt, seen, overlap>>
      BY DEF StepBegin, LoadCfg, envVars, wizVars, ghostVars
<1>2. job[n].pc \in {"load", "top"} /\ job[n].pc # "none"
      BY DEF StepBegin, LoadCfg, RunAt
<1>r. wiz.running /\ n = wiz.run
      BY <1>2 DEF WizardInv, OneRun
<1>3. /\ job' \in [Runs -> Jobs] /\ steps' \in Seq(StepRecs)
      /\ Progress(n)' /\ job'[n].pc # "none"
      /\ \A m \in Runs : m # n => job'[m] = job[m]
  <2>1. CASE StepBegin(n)
    <3>1. job[n].i \in DOMAIN steps /\ job[n].i \in 1..Len(steps) /\ job[n].pc = "top"
          BY <1>t, <1>s, <2>1 DEF StepBegin, Progress, RunAt
    <3>2. /\ job' \in [Runs -> Jobs] /\ job'[n].pc = "work" /\ job'[n].i = job[n].i
          /\ \A m \in Runs : m # n => job'[m] = job[m]
          BY <1>t, <2>1, GotoFacts DEF StepBegin, Working
    <3>3. /\ steps' \in Seq(StepRecs) /\ Len(steps') = Len(steps) /\ DOMAIN steps' = DOMAIN steps
          /\ \A k \in DOMAIN steps : k # job[n].i => steps'[k] = steps[k]
          BY <1>t, <2>1, <3>1, SetFacts DEF StepBegin, Statuses
    <3>4. /\ \A k \in DOMAIN steps : k < job[n].i => steps[k].status \in Verdicts
          /\ \A k \in DOMAIN steps : k > job[n].i => steps[k].status = "pending"
          BY <1>t, <3>1 DEF Progress
    <3>5. /\ \A k \in DOMAIN steps' : k < job'[n].i => steps'[k].status \in Verdicts
          /\ \A k \in DOMAIN steps' : k > job'[n].i => steps'[k].status = "pending"
          BY <1>s, <3>1, <3>2, <3>3, <3>4
    <3>6. job'[n].i \in 1..(Len(steps') + 1) /\ job'[n].i <= Len(steps')
          BY <1>s, <3>1, <3>2, <3>3
    <3>7. Progress(n)'
          BY <3>2, <3>5, <3>6 DEF Progress
    <3> QED BY <3>2, <3>3, <3>7
  <2>2. ASSUME NEW loads \in BOOLEAN, LoadCfg(n, loads)
        PROVE  /\ job' \in [Runs -> Jobs] /\ steps' \in Seq(StepRecs)
               /\ Progress(n)' /\ job'[n].pc # "none"
               /\ \A m \in Runs : m # n => job'[m] = job[m]
    <3>1. job' = [job EXCEPT ![n] = [job[n] EXCEPT !.pc = "top", !.i = 1, !.cfg = loads]] /\ steps' = steps
          BY <2>2 DEF LoadCfg, wizVars
    <3>2. [job[n] EXCEPT !.pc = "top", !.i = 1, !.cfg = loads] \in Jobs
          BY <1>s DEF Jobs
    <3>3. /\ job' \in [Runs -> Jobs] /\ job'[n].pc = "top" /\ job'[n].i = 1
          /\ \A m \in Runs : m # n => job'[m] = job[m]
          BY <1>t, <1>s, <3>1, <3>2 DEF Typed, Jobs
    <3>4. \A k \in DOMAIN steps : steps[k].status = "pending"
      <4>1. job[n].pc = "load"
            BY <2>2 DEF LoadCfg, RunAt
      <4> QED BY <1>t, <4>1 DEF Progress
    <3>5. 1 \in 1..(Len(steps) + 1) /\ (1 <= Len(steps) => 1 \in DOMAIN steps)
          BY <1>s
    <3>6. \A k \in DOMAIN steps : ~(k < 1)
          BY <1>s
    <3>7. Progress(n)'
          BY <3>1, <3>3, <3>4, <3>5, <3>6 DEF Progress
    <3> QED BY <1>s, <3>1, <3>3, <3>7
  <2> QED BY <2>1, <2>2
<1>4. Typed'
      BY <1>t, <1>1, <1>3 DEF Typed
<1>5. /\ OneRun' /\ LateInv' /\ FinishedIsSettled'
      /\ \A m \in Runs : Progress(m)'
      BY <1>1, <1>2, <1>3, <1>r, GoesOn
<1>7. PageInv'
  <2>1. CASE StepBegin(n)
        BY <1>t, <1>1, <1>3, <2>1, PagePublished DEF WizardInv, StepBegin, Typed
  <2>2. CASE \E loads \in BOOLEAN : LoadCfg(n, loads)
        BY <2>2, PageKept DEF WizardInv, LoadCfg, wizVars, pageVars, ghostVars
  <2> QED BY <2>1, <2>2
<1>6. (\A m \in Runs : AfterConfirm(m)') /\ ConfirmedFirst' /\ SlotInv'
      BY <1>1 DEF WizardInv, AfterConfirm, ConfirmedFirst, SlotInv
<1> QED BY <1>4, <1>5, <1>6, <1>7 DEF WizardInv

\* The end of a run leaves its steps settled and its last event to come.
LEMMA FinishInv ==
  ASSUME WizardInv, NEW n \in Runs, Finish(n)
  PROVE  WizardInv'
<1>t. Typed /\ Progress(n)
      BY DEF WizardInv
<1>1. /\ wiz' = [wiz EXCEPT !.running = FALSE, !.await = FALSE]
      /\ job' = [job EXCEPT ![n] = NoJob] /\ watch' = [watch EXCEPT ![n] = NoWatch]
      /\ late' = [late EXCEPT ![n] = [pc |-> "todo", shot |-> <<>>]]
      /\ UNCHANGED <<lines, steps, aborted, okAt, seen, overlap, chan, asked, left>>
      /\ job[n].pc = "top" /\ (n \in aborted \/ job[n].i > Len(steps))
      BY DEF Finish, FinishWith, RunAt, Cancelled, envVars, pageVars, ghostVars
<1>r. wiz.running /\ n = wiz.run
      BY <1>1 DEF WizardInv, OneRun
<1>2. /\ wiz' \in Wizards
      /\ ~wiz'.running /\ wiz'.run = wiz.run
      BY <1>t, <1>1 DEF Typed, Wizards
<1>3. NoJob \in Jobs /\ NoWatch \in [pc : {"off", "attach", "poll"}, at : Nat, out : Seq(Nat)]
      /\ NoWatch.pc = "off" /\ Len(NoWatch.out) = 0 /\ NoJob.pc = "none"
      BY DEF NoJob, NoWatch, Jobs
<1>4. Typed'
      BY <1>t, <1>1, <1>2, <1>3 DEF Typed
<1>5. \A m \in Runs : job'[m].pc = "none" /\ watch'[m] = NoWatch
      BY <1>t, <1>1, <1>3, <1>r DEF WizardInv, OneRun, Typed
<1>6. OneRun' /\ \A m \in Runs : Progress(m)' /\ AfterConfirm(m)'
      BY <1>3, <1>5 DEF OneRun, Progress, AfterConfirm
<1>7. late'[n].pc = "todo" /\ \A m \in Runs : m # n => late'[m] = late[m]
      BY <1>t, <1>1 DEF Typed
<1>8. LateInv'
      BY <1>1, <1>2, <1>7, <1>r DEF WizardInv, LateInv
<1>9. FinishedIsSettled'
  <2>1. steps \in Seq(StepRecs) /\ Len(steps) \in Nat /\ DOMAIN steps = 1..Len(steps) /\ job[n] \in Jobs /\ job[n].i \in Nat
        BY <1>t DEF Typed, Jobs
  <2>2. /\ job[n].i \in 1..(Len(steps) + 1)
        /\ \A k \in DOMAIN steps : k < job[n].i => steps[k].status \in Verdicts
        /\ \A k \in DOMAIN steps : k > job[n].i => steps[k].status = "pending"
        /\ job[n].i <= Len(steps) => steps[job[n].i].status = "pending"
        BY <1>t, <1>1 DEF Progress
  <2>3. ASSUME NEW k \in DOMAIN steps
        PROVE  steps[k].status \in Verdicts \/ (steps[k].status = "pending" /\ n \in aborted)
    <3>1. CASE k < job[n].i
          BY <2>2, <3>1
    <3>2. CASE k = job[n].i \/ k > job[n].i
      <4>1. ~(job[n].i > Len(steps))
            BY <2>1, <3>2
      <4>2. n \in aborted /\ job[n].i <= Len(steps)
            BY <1>1, <2>1, <4>1
      <4> QED BY <2>2, <3>2, <4>2
    <3> QED BY <2>1, <3>1, <3>2
  <2> QED BY <1>1, <1>2, <1>r, <2>3 DEF FinishedIsSettled, Cancelled
<1>10. PageInv' /\ ConfirmedFirst'
  <2>1. PageTyped'
        BY <1>1, <1>7 DEF WizardInv, PageInv, PageTyped
  <2>2. ViewCurrent' /\ AnswerInv'
        BY <1>7 DEF ViewCurrent, AnswerInv, Quiet
  <2> QED BY <1>1, <2>1, <2>2 DEF ConfirmedFirst, WizardInv, PageInv
<1>11. SlotInv'
       BY <1>1, <1>2 DEF WizardInv, SlotInv
<1> QED BY <1>4, <1>6, <1>8, <1>9, <1>10, <1>11 DEF WizardInv

\* A start finds no goroutine, watcher or confirmation of an earlier run.
LEMMA StartInv ==
  ASSUME WizardInv, NEW list \in StepLists, NEW known \in BOOLEAN, Start(list, known)
  PROVE  WizardInv'
<1> DEFINE n == wiz.run + 1
<1>t. Typed
      BY DEF WizardInv
<1>n. n \in 1..left.runs /\ left.runs \in 0..MaxRuns /\ MaxRuns \in Nat
      BY WizardConstants DEF Start, WizardInv, PageInv, PageTyped
<1>1. /\ n \in Runs /\ ~wiz.running /\ n \in 0..MaxRuns
      /\ wiz' = [run |-> n, running |-> TRUE, await |-> FALSE, tag |-> FALSE]
      /\ job' = [job EXCEPT ![n] = [NoJob EXCEPT !.pc = "load", !.known = known]]
      /\ steps' = Fresh(list) /\ okAt' = None /\ seen' = 0
      /\ UNCHANGED <<lines, watch, late>> /\ Publish
      BY <1>n DEF Start, envVars, Runs
<1>o. overlap' = (overlap \/ \E m \in Runs : late[m].pc # "none")
      BY DEF Start
<1> HIDE DEF n
<1>2. \A m \in Runs : job[m].pc = "none" /\ watch[m] = NoWatch
      BY <1>1 DEF WizardInv, OneRun
<1>3. [NoJob EXCEPT !.pc = "load", !.known = known] \in Jobs
      BY DEF NoJob, Jobs
<1>4. /\ job' \in [Runs -> Jobs] /\ job'[n].pc = "load"
      /\ \A m \in Runs : m # n => job'[m].pc = "none"
      BY <1>t, <1>1, <1>2, <1>3 DEF Typed, NoJob
<1>5. steps' \in Seq(StepRecs) /\ \A k \in DOMAIN steps' : steps'[k].status = "pending"
      BY <1>1, FreshFacts
<1>6. /\ wiz' \in Wizards
      /\ wiz'.run = n /\ wiz'.running /\ ~wiz'.tag
      BY <1>1 DEF Wizards
<1>7. MaxLines \in Nat /\ None \in 0..None /\ 0 \in 0..MaxLines
      BY WizardConstants DEF None
<1>8. Typed'
      BY <1>t, <1>1, <1>4, <1>5, <1>6, <1>7 DEF Typed, None
<1>9. OneRun'
      BY <1>1, <1>2, <1>4, <1>6 DEF OneRun
<1>10. \A m \in Runs : Progress(m)'
       BY <1>4, <1>5 DEF Progress
<1>11. \A m \in Runs : AfterConfirm(m)'
  <2>1. NoWatch.pc = "off" /\ Len(NoWatch.out) = 0 /\ 1..0 = {}
        BY DEF NoWatch
  <2> QED BY <1>1, <1>2, <2>1 DEF AfterConfirm
<1>12. LateInv'
  <2>1. ~overlap' => \A m \in Runs : late[m].pc = "none"
        BY <1>o
  <2> QED BY <1>1, <2>1 DEF LateInv
<1>13. ConfirmedFirst' /\ FinishedIsSettled' /\ PageInv'
       BY <1>1, <1>5, <1>6, PagePublished DEF WizardInv, ConfirmedFirst, FinishedIsSettled
<1>14. SlotInv'
       BY <1>1, <1>6 DEF SlotInv, None
<1> QED BY <1>8, <1>9, <1>10, <1>11, <1>12, <1>13, <1>14 DEF WizardInv

\* A confirmation is of the current run, or is thrown away by the next start.
LEMMA ConfirmInv ==
  ASSUME WizardInv, Confirm
  PROVE  WizardInv'
<1>t. Typed
      BY DEF WizardInv
<1>1. /\ wiz' = [wiz EXCEPT !.tag = TRUE]
      /\ okAt' = IF wiz.running /\ okAt = None THEN Len(lines) ELSE okAt
      /\ UNCHANGED <<lines, steps, aborted, job, watch, late, seen, overlap, chan, asked, shown, behind, left>>
      BY DEF Confirm, envVars, pageVars
<1>2. /\ wiz' \in Wizards
      /\ wiz'.run = wiz.run /\ wiz'.running = wiz.running /\ wiz'.await = wiz.await
      BY <1>t, <1>1 DEF Typed, Wizards
<1>3. View(wiz', steps') = View(wiz, steps)
      BY <1>1, <1>2 DEF View
<1>4. /\ Len(lines) \in Nat /\ Len(lines) <= MaxLines /\ MaxLines \in Nat /\ None = MaxLines + 1
      /\ okAt \in 0..None /\ seen \in 0..MaxLines /\ okAt \in Nat /\ seen \in Nat
      BY <1>t, WizardConstants DEF Typed, None
<1>5. okAt' \in 0..None /\ okAt' <= okAt /\ okAt' \in Nat /\ (okAt # None => okAt' = okAt)
      BY <1>1, <1>4
<1>6. Typed'
      BY <1>t, <1>1, <1>2, <1>5 DEF Typed, None
<1>7. OneRun' /\ FinishedIsSettled' /\ \A m \in Runs : Progress(m)'
      BY <1>1, <1>2 DEF WizardInv, OneRun, FinishedIsSettled, Progress, Cancelled
<1>8. LateInv' /\ PageInv'
      BY <1>1, <1>2, <1>3, PageKept DEF WizardInv, LateInv
<1>9. ASSUME NEW m \in Runs PROVE AfterConfirm(m)'
  <2>0. AfterConfirm(m) /\ watch[m].at \in Nat /\ watch[m].out \in Seq(Nat)
        BY <1>t DEF WizardInv, Typed
  <2>1. watch[m].pc # "off" => okAt # None
        BY <1>4, <2>0 DEF AfterConfirm
  <2>2. \A k \in 1..Len(watch[m].out) : watch[m].out[k] \in Nat
        BY <2>0
  <2>3. \A k \in 1..Len(watch[m].out) : okAt' < watch[m].out[k] /\ watch[m].out[k] <= MaxLines
        BY <1>4, <1>5, <2>0, <2>2 DEF AfterConfirm
  <2>4. /\ watch[m].pc # "off" => okAt' <= Len(lines)
        /\ watch[m].pc = "poll" => okAt' <= watch[m].at
        BY <1>5, <2>0, <2>1 DEF AfterConfirm
  <2> QED BY <1>1, <2>3, <2>4 DEF AfterConfirm
<1>10. ConfirmedFirst'
       BY <1>1, <1>4, <1>5 DEF WizardInv, ConfirmedFirst
<1>11. SlotInv'
  <2>1. okAt # None => okAt <= Len(lines)
        BY DEF WizardInv, SlotInv
  <2>2. (wiz.running \/ okAt # None) => okAt' <= Len(lines)
        BY <1>1, <1>4, <1>5, <2>1
  <2>3. okAt' # None => okAt' <= Len(lines)
        BY <1>1, <1>4, <2>2
  <2> QED BY <1>1, <1>2, <2>2, <2>3 DEF SlotInv, None
<1> QED BY <1>6, <1>7, <1>8, <1>9, <1>10, <1>11 DEF WizardInv

\* An abort only marks the context of the current run.
LEMMA AbortInv ==
  ASSUME WizardInv, Abort
  PROVE  WizardInv'
<1>1. wiz.running /\ UNCHANGED <<lines, wiz, steps, job, watch, late, okAt, seen, overlap, chan, asked, shown, behind, left>>
      BY DEF Abort, envVars, pageVars, ghostVars
<1>2. Typed' /\ OneRun' /\ SlotInv' /\ LateInv'
      BY <1>1 DEF WizardInv, Typed, OneRun, SlotInv, LateInv
<1>3. \A m \in Runs : Progress(m)' /\ AfterConfirm(m)'
      BY <1>1 DEF WizardInv, Progress, AfterConfirm
<1>4. ConfirmedFirst' /\ FinishedIsSettled' /\ PageInv'
      BY <1>1, PageKept DEF WizardInv, ConfirmedFirst, FinishedIsSettled
<1> QED BY <1>2, <1>3, <1>4 DEF WizardInv

\* A step of the page alone.
LEMMA OnlyPageInv ==
  ASSUME WizardInv, UNCHANGED <<lines, wiz, steps, aborted, job, watch, late, okAt, seen, overlap>>, PageInv'
  PROVE  WizardInv'
<1>1. Typed' /\ OneRun' /\ SlotInv' /\ LateInv'
      BY DEF WizardInv, Typed, OneRun, SlotInv, LateInv
<1>2. \A m \in Runs : Progress(m)' /\ AfterConfirm(m)'
      BY DEF WizardInv, Progress, AfterConfirm
<1>3. ConfirmedFirst' /\ FinishedIsSettled'
      BY DEF WizardInv, ConfirmedFirst, FinishedIsSettled, Cancelled
<1> QED BY <1>1, <1>2, <1>3 DEF WizardInv

\* Nothing the invariant speaks of changes when the process dies.
LEMMA StillInv ==
  ASSUME WizardInv, UNCHANGED <<lines, wizVars, job, watch, late, pageVars, ghostVars>>
  PROVE  WizardInv'
<1>1. UNCHANGED <<lines, wiz, steps, aborted, job, watch, late, okAt, seen, overlap, chan, asked, shown, behind, left>>
      BY DEF wizVars, pageVars, ghostVars
<1>2. PageInv'
      BY <1>1, PageKept DEF WizardInv
<1> QED BY <1>1, <1>2, OnlyPageInv

\* Neither the order of events and answers nor a lost connection makes the page
\* believe what the wizard is not, without counting as behind.
LEMMA PageStepInv ==
  ASSUME WizardInv, Page
  PROVE  WizardInv'
<1>1. UNCHANGED <<lines, wiz, steps, aborted, job, watch, late, okAt, seen, overlap>>
      BY DEF Page, RenderEvent, Reconnect, Ask, RenderAnswer, PageKeeps, envVars, wizVars, ghostVars
<1>p. PageTyped /\ AnswerInv /\ ViewCurrent
      BY DEF WizardInv, PageInv
<1>q. Quiet' = Quiet /\ View(wiz', steps') = View(wiz, steps)
      BY <1>1 DEF Quiet
<1>2. CASE RenderEvent
  <2>1. chan \in Seq(Shots) /\ chan # <<>> /\ chan' = Tail(chan) /\ shown' = Head(chan) /\ UNCHANGED <<asked, behind, left>>
        BY <1>p, <1>2 DEF RenderEvent, PageTyped
  <2>2. /\ Len(chan) \in Nat \ {0} /\ chan' \in Seq(Shots) /\ Len(chan') = Len(chan) - 1
        /\ \A k \in 1..(Len(chan) - 1) : chan'[k] = chan[k + 1]
        /\ shown' = chan[1]
        BY <2>1
  <2>3. WillShow' = WillShow
    <3>1. CASE Len(chan) = 1
          BY <2>1, <2>2, <3>1 DEF WillShow
    <3>2. CASE Len(chan) # 1
      <4>1. Len(chan) - 1 \in 1..(Len(chan) - 1) /\ (Len(chan) - 1) + 1 = Len(chan)
            BY <2>2, <3>2
      <4>2. chan'[Len(chan')] = chan[Len(chan)] /\ chan' # <<>>
            BY <2>2, <4>1
      <4> QED BY <2>1, <4>2 DEF WillShow
    <3> QED BY <3>1, <3>2
  <2>4. PageTyped' /\ AnswerInv' /\ ViewCurrent'
        BY <1>1, <1>p, <1>q, <2>1, <2>2, <2>3 DEF PageTyped, AnswerInv, ViewCurrent
  <2> QED BY <1>1, <2>4, OnlyPageInv DEF PageInv
<1>3. CASE Reconnect
  <2>1. chan' = <<>> /\ behind' /\ UNCHANGED <<asked, left>>
        BY <1>3 DEF Reconnect
  <2>2. PageTyped' /\ AnswerInv' /\ ViewCurrent'
        BY <1>1, <1>p, <1>q, <2>1 DEF PageTyped, AnswerInv, ViewCurrent
  <2> QED BY <1>1, <2>2, OnlyPageInv DEF PageInv
<1>4. CASE Ask
  <2>1. /\ asked' = [pc |-> "back", shot |-> View(wiz, steps), fresh |-> TRUE]
        /\ left' = [left EXCEPT !.asks = @ - 1] /\ left.asks > 0 /\ UNCHANGED <<chan, shown, behind>>
        BY <1>4 DEF Ask
  <2>2. left' \in [lists : SUBSET StepLists, runs : 0..MaxRuns, lines : 0..MaxLines, asks : Nat,
                  gui : {"up", "bare"}, page : BOOLEAN]
    <3>1. left.asks - 1 \in Nat
          BY <1>p, <2>1 DEF PageTyped
    <3> QED BY <1>p, <2>1, <3>1 DEF PageTyped
  <2>3. PageTyped' /\ AnswerInv'
        BY <1>1, <1>p, <1>q, <2>1, <2>2 DEF PageTyped, AnswerInv
  <2>4. ViewCurrent'
        BY <1>1, <1>p, <1>q, <2>1 DEF ViewCurrent, WillShow
  <2> QED BY <1>1, <2>3, <2>4, OnlyPageInv DEF PageInv
<1>5. CASE RenderAnswer
  <2>1. /\ asked' = NoAnswer /\ shown' = asked.shot /\ UNCHANGED <<chan, left>>
        /\ behind' = IF chan = <<>> THEN ~asked.fresh ELSE behind
        BY <1>5 DEF RenderAnswer
  <2>2. PageTyped' /\ AnswerInv'
        BY <1>1, <1>p, <2>1 DEF PageTyped, AnswerInv, NoAnswer
  <2>3. ViewCurrent'
    <3>1. CASE chan = <<>>
          BY <1>1, <1>p, <1>q, <2>1, <3>1 DEF ViewCurrent, WillShow, AnswerInv, Quiet
    <3>2. CASE chan # <<>>
          BY <1>1, <1>p, <1>q, <2>1, <3>2 DEF ViewCurrent, WillShow
    <3> QED BY <3>1, <3>2
  <2> QED BY <1>1, <2>2, <2>3, OnlyPageInv DEF PageInv
<1> QED BY <1>2, <1>3, <1>4, <1>5 DEF Page

\* A line the core logs comes after every confirmation.
LEMMA LogInv ==
  ASSUME WizardInv, NEW l \in Lines, CoreLogs(l)
  PROVE  WizardInv'
<1>t. Typed
      BY DEF WizardInv
<1>1. /\ lines' = Append(lines, l) /\ Len(lines) < left.lines
      /\ UNCHANGED <<wiz, steps, aborted, job, watch, late, okAt, seen, overlap, chan, asked, shown, behind, left>>
      BY DEF CoreLogs, wizVars, pageVars, ghostVars
<1>2. /\ lines' \in Seq(Lines) /\ Len(lines') = Len(lines) + 1 /\ Len(lines) \in Nat
      /\ MaxLines \in Nat /\ okAt \in Nat
      BY <1>t, <1>1, WizardConstants DEF Typed, None
<1>l. left.lines \in 0..MaxLines
      BY DEF WizardInv, PageInv, PageTyped
<1>3. Typed'
      BY <1>t, <1>1, <1>2, <1>l DEF Typed
<1>4. OneRun' /\ LateInv' /\ \A m \in Runs : Progress(m)'
      BY <1>1 DEF WizardInv, OneRun, LateInv, Progress
<1>5. SlotInv' /\ \A m \in Runs : AfterConfirm(m)'
      BY <1>1, <1>2 DEF WizardInv, SlotInv, AfterConfirm
<1>6. ConfirmedFirst' /\ FinishedIsSettled' /\ PageInv'
      BY <1>1, PageKept DEF WizardInv, ConfirmedFirst, FinishedIsSettled, Cancelled
<1> QED BY <1>3, <1>4, <1>5, <1>6 DEF WizardInv

\* The last event of a run: unless a start overtook it, it is what the wizard holds.
LEMMA LateEventInv ==
  ASSUME WizardInv, NEW n \in Runs, LateSnapshot(n) \/ LateSend(n)
  PROVE  WizardInv'
<1>t. Typed
      BY DEF WizardInv
<1>1. /\ UNCHANGED <<lines, wiz, steps, aborted, job, watch, okAt, seen, overlap>>
      /\ late[n].pc # "none"
      BY DEF LateSnapshot, LateSend, envVars, wizVars, ghostVars
<1>2. \A m \in Runs : m # n => late'[m] = late[m]
      BY <1>t DEF LateSnapshot, LateSend, Typed
<1>3. CASE LateSnapshot(n)
  <2>1. late'[n] = [pc |-> "taken", shot |-> View(wiz, steps)] /\ UNCHANGED <<chan, asked, left>>
        BY <1>t, <1>3 DEF LateSnapshot, Typed, pageVars
  <2>2. late'[n].pc = "taken" /\ late'[n].shot = View(wiz, steps) /\ View(wiz, steps) \in Shots
        BY <1>t, <2>1, ViewType DEF Typed
  <2>3. LateInv'
        BY <1>1, <1>2, <2>2 DEF WizardInv, LateInv, View
  <2>4. PageInv'
    <3>1. PageTyped'
          BY <1>2, <2>1, <2>2 DEF WizardInv, PageInv, PageTyped
    <3> QED BY <2>2, <3>1 DEF PageInv, ViewCurrent, AnswerInv, Quiet
  <2>5. Typed'
        BY <1>t, <1>1, <1>3 DEF Typed, LateSnapshot
  <2> QED BY <1>1, <2>3, <2>4, <2>5 DEF WizardInv, OneRun, SlotInv, Progress, AfterConfirm, ConfirmedFirst, FinishedIsSettled, Cancelled
<1>4. CASE LateSend(n)
  <2>1. late'[n] = NoLate /\ Send(late[n].shot) /\ late[n].pc = "taken"
        BY <1>t, <1>4 DEF LateSend, Typed
  <2>2. late'[n].pc = "none"
        BY <2>1 DEF NoLate
  <2>3. LateInv'
        BY <1>1, <1>2, <2>2 DEF WizardInv, LateInv, View
  <2>4. PageInv'
    <3>1. late[n].shot \in Shots /\ \A m \in Runs : late'[m].pc = "taken" => late'[m].shot \in Shots
          BY <1>2, <2>1, <2>2 DEF WizardInv, PageInv, PageTyped
    <3>2. Quiet' => late[n].shot = View(wiz', steps')
          BY <1>1, <2>1 DEF WizardInv, Quiet, LateInv, View
    <3> QED BY <2>1, <3>1, <3>2, PageSent DEF WizardInv
  <2>5. Typed'
        BY <1>t, <1>1, <1>4 DEF Typed, LateSend
  <2> QED BY <1>1, <2>3, <2>4, <2>5 DEF WizardInv, OneRun, SlotInv, Progress, AfterConfirm, ConfirmedFirst, FinishedIsSettled, Cancelled
<1> QED BY <1>3, <1>4

\* The watcher hands over only lines behind the end of the log it attached at.
LEMMA WatcherInv ==
  ASSUME WizardInv, NEW n \in Runs, Attach(n) \/ Poll(n)
  PROVE  WizardInv'
<1> DEFINE Watchers == [pc : {"off", "attach", "poll"}, at : Nat, out : Seq(Nat)]
<1>t. Typed /\ AfterConfirm(n) /\ watch \in [Runs -> Watchers] /\ watch[n] \in Watchers
      BY DEF WizardInv, Typed
<1>1. UNCHANGED <<lines, wiz, steps, aborted, job, late, okAt, seen, overlap, chan, asked, shown, behind, left>>
      BY DEF Attach, Poll, WatchKeeps, envVars, wizVars, pageVars, ghostVars
<1>2. /\ Len(lines) \in Nat /\ Len(lines) <= MaxLines /\ MaxLines \in Nat /\ okAt \in Nat
      /\ watch[n].at \in Nat /\ watch[n].out \in Seq(Nat) /\ Len(watch[n].out) \in Nat
      BY <1>t, WizardConstants DEF Typed, None
<1>3. watch[n].pc # "off" /\ watch[n] # NoWatch
      BY DEF Attach, Poll, NoWatch
<1>4. wiz.running /\ n = wiz.run
      BY <1>3 DEF WizardInv, OneRun
<1>5. /\ watch' \in [Runs -> Watchers] /\ AfterConfirm(n)'
      /\ \A m \in Runs : m # n => watch'[m] = watch[m]
  <2>1. CASE Attach(n)
    <3>1. watch' = [watch EXCEPT ![n] = [watch[n] EXCEPT !.pc = "poll", !.at = Len(lines)]]
          BY <2>1 DEF Attach
    <3>2. [watch[n] EXCEPT !.pc = "poll", !.at = Len(lines)] \in Watchers
          BY <1>t, <1>2
    <3>3. /\ watch' \in [Runs -> Watchers] /\ watch'[n].at = Len(lines) /\ watch'[n].out = watch[n].out
          /\ \A m \in Runs : m # n => watch'[m] = watch[m]
          BY <1>t, <3>1, <3>2
    <3>4. okAt <= Len(lines)
          BY <1>t, <1>3 DEF AfterConfirm
    <3> QED BY <1>t, <1>1, <3>3, <3>4 DEF AfterConfirm
  <2>2. CASE Poll(n)
    <3> DEFINE a == watch[n].at
               q == watch[n].out
    <3>1. watch' = [watch EXCEPT ![n] = [watch[n] EXCEPT !.at = a + 1, !.out = Append(q, a + 1)]]
          BY <2>2 DEF Poll
    <3>2. a + 1 \in Nat /\ Append(q, a + 1) \in Seq(Nat)
          BY <1>2
    <3>3. [watch[n] EXCEPT !.at = a + 1, !.out = Append(q, a + 1)] \in Watchers
          BY <1>t, <3>2
    <3>4. /\ watch' \in [Runs -> Watchers] /\ watch'[n].at = a + 1 /\ watch'[n].out = Append(q, a + 1)
          /\ watch'[n].pc = watch[n].pc
          /\ \A m \in Runs : m # n => watch'[m] = watch[m]
          BY <1>t, <3>1, <3>3
    <3>5. okAt <= a /\ a < Len(lines)
          BY <1>t, <2>2 DEF AfterConfirm, Poll
    <3>6. \A k \in 1..Len(Append(q, a + 1)) :
             okAt < Append(q, a + 1)[k] /\ Append(q, a + 1)[k] <= MaxLines
      <4>1. \A k \in 1..Len(q) : okAt < q[k] /\ q[k] <= MaxLines
            BY <1>t DEF AfterConfirm
      <4>2. /\ Len(Append(q, a + 1)) = Len(q) + 1 /\ Append(q, a + 1)[Len(q) + 1] = a + 1
            /\ \A k \in 1..Len(q) : Append(q, a + 1)[k] = q[k]
            BY <1>2, <3>2
      <4>3. okAt < a + 1 /\ a + 1 <= MaxLines
            BY <1>2, <3>5
      <4>4. \A k \in 1..(Len(q) + 1) : k \in 1..Len(q) \/ k = Len(q) + 1
            BY <1>2
      <4> QED BY <4>1, <4>2, <4>3, <4>4
    <3>7. okAt <= a + 1 /\ okAt <= Len(lines)
          BY <1>2, <3>5
    <3> HIDE DEF a, q
    <3> QED BY <1>1, <3>4, <3>6, <3>7 DEF AfterConfirm
  <2> QED BY <2>1, <2>2
<1>6. Typed' /\ OneRun' /\ SlotInv' /\ LateInv'
  <2>1. Typed'
        BY <1>t, <1>1, <1>5 DEF Typed
  <2>2. OneRun'
        BY <1>1, <1>4, <1>5 DEF WizardInv, OneRun
  <2> QED BY <1>1, <2>1, <2>2 DEF WizardInv, SlotInv, LateInv
<1>7. \A m \in Runs : Progress(m)' /\ AfterConfirm(m)'
      BY <1>1, <1>5 DEF WizardInv, Progress, AfterConfirm
<1>8. ConfirmedFirst' /\ FinishedIsSettled' /\ PageInv'
      BY <1>1, PageKept DEF WizardInv, ConfirmedFirst, FinishedIsSettled, Cancelled
<1> QED BY <1>6, <1>7, <1>8 DEF WizardInv

LEMMA WizardInitInv ==
  ASSUME WizardInit
  PROVE  WizardInv
<1>1. MaxLines \in Nat /\ MaxRuns \in Nat /\ None \in 0..None /\ 0 \in 0..MaxLines /\ 0 \in 0..MaxRuns
      BY WizardConstants DEF None
<1>2. /\ NoJob \in Jobs /\ NoWatch \in [pc : {"off", "attach", "poll"}, at : Nat, out : Seq(Nat)]
      /\ NoWatch.pc = "off" /\ Len(NoWatch.out) = 0 /\ NoJob.pc = "none" /\ NoLate.pc = "none"
      BY DEF NoJob, NoWatch, NoLate, Jobs
<1>3. \A n \in Runs : job[n] = NoJob /\ watch[n] = NoWatch /\ late[n] = NoLate
      BY DEF WizardInit
<1>4. lines \in Seq(Lines) /\ Len(lines) = 0 /\ steps \in Seq(StepRecs) /\ Len(steps) = 0 /\ DOMAIN steps = {}
      BY DEF WizardInit
<1>5. /\ wiz \in Wizards
      /\ ~wiz.running /\ ~wiz.tag
      BY <1>1 DEF WizardInit, Wizards
<1>6. Typed
      BY <1>1, <1>2, <1>3, <1>4, <1>5 DEF Typed, WizardInit
<1>7. OneRun /\ (\A n \in Runs : Progress(n) /\ AfterConfirm(n)) /\ LateInv
  <2>1. 1..0 = {}
        OBVIOUS
  <2> QED BY <1>2, <1>3, <2>1 DEF OneRun, Progress, AfterConfirm, LateInv
<1>8. SlotInv /\ ConfirmedFirst /\ FinishedIsSettled
      BY <1>4, <1>5 DEF SlotInv, ConfirmedFirst, FinishedIsSettled, WizardInit
<1>9. PageInv
  <2>1. PageTyped
        BY <1>2, <1>3, WizardConstants DEF PageTyped, WizardInit, NoAnswer
  <2>2. AnswerInv /\ ViewCurrent
        BY DEF AnswerInv, ViewCurrent, WillShow, WizardInit, NoAnswer
  <2> QED BY <2>1, <2>2 DEF PageInv
<1> QED BY <1>6, <1>7, <1>8, <1>9 DEF WizardInv

LEMMA WizardInvariance == WizardSpec => []WizardInv
<1>1. WizardInit => WizardInv
      BY WizardInitInv
<1>2. WizardInv /\ [WizardNext]_vars => WizardInv'
  <2> SUFFICES ASSUME WizardInv, [WizardNext]_vars PROVE WizardInv'
      OBVIOUS
  <2>1. CASE Handler
        BY <2>1, StartInv, ConfirmInv, AbortInv DEF Handler
  <2>2. CASE Environment
    <3>1. CASE ConfigSaved
          BY <3>1, StillInv DEF ConfigSaved
    <3> QED BY <2>2, <3>1, LogInv DEF Environment
  <2>6. CASE Page
        BY <2>6, PageStepInv
  <2>3. ASSUME NEW n \in Runs, RunStep(n) PROVE WizardInv'
    <3>1. CASE Panic
          BY <3>1, StillInv DEF Panic
    <3>2. CASE Finish(n)
          BY <3>2, FinishInv
    <3>3. CASE WorkStep(n)
          BY <3>3, WorkInv
    <3>4. CASE StepBegin(n) \/ \E loads \in BOOLEAN : LoadCfg(n, loads)
          BY <3>4, BeginInv
    <3> QED BY <2>3, <3>1, <3>2, <3>3, <3>4, RunEffects
  <2>4. ASSUME NEW n \in Runs, Background(n) PROVE WizardInv'
        BY <2>4, LateEventInv, WatcherInv DEF Background
  <2>5. CASE UNCHANGED vars
        BY <2>5, StillInv DEF vars, envVars
  <2> QED BY <2>1, <2>2, <2>3, <2>4, <2>5, <2>6 DEF WizardNext
<1> QED BY <1>1, <1>2, PTL DEF WizardSpec

(***************************************************************************)
(* Step 3a of a run is judged only by a line the core logged after the     *)
(* operator confirmed in that run (Start's new channel, ConfirmTag, the    *)
(* offset watchSendResults begins at).                                     *)
(***************************************************************************)
THEOREM VerdictsFollowConfirmation == WizardSpec => []ConfirmedFirst
<1>1. WizardInv => ConfirmedFirst
      BY DEF WizardInv
<1> QED BY <1>1, WizardInvariance, PTL

(***************************************************************************)
(* A run that is over, however it ended, leaves none of its steps running, *)
(* and a step it did not reach means an abort (run, setStep, Abort).       *)
(***************************************************************************)
THEOREM RunsEndSettled == WizardSpec => []FinishedIsSettled
<1>1. WizardInv => FinishedIsSettled
      BY DEF WizardInv
<1> QED BY <1>1, WizardInvariance, PTL

(***************************************************************************)
(* However events and answers overtake each other on the way, the page     *)
(* comes to show the wizard as it is when no event is about to be sent,    *)
(* unless the last one was dropped, lost with its connection, overwritten  *)
(* by an older answer or overtaken by a start (onChange, broadcast,        *)
(* handleEvents, loadWizard).                                              *)
(***************************************************************************)
THEOREM BrowserEndsCurrent == WizardSpec => []ViewCurrent
<1>1. WizardInv => ViewCurrent
      BY DEF WizardInv, PageInv
<1> QED BY <1>1, WizardInvariance, PTL

-----------------------------------------------------------------------------
(***************************************************************************)
(* Beyond the properties of the run.  RunIsAlive is the safety part of     *)
(* WizardEnds: Running is never left set without a goroutine to clear it.  *)
(***************************************************************************)
RunIsAlive == wiz.running => wiz.run \in Runs /\ job[wiz.run].pc # "none"

\* The step a run is working on is shown as running.
StepIsOn ==
    \A n \in Runs : job[n].pc \in Working =>
        job[n].i \in DOMAIN steps /\ steps[job[n].i].status = "running"

\* A verdict of a run is not overwritten until the next run starts.
Stands == wiz'.run = wiz.run =>
            \A k \in DOMAIN steps : steps[k].status \in Verdicts => k \in DOMAIN steps' /\ steps'[k] = steps[k]

VerdictsStand == [][Stands]_vars

\* The steps that leave the run and its steps alone.
LEMMA AliveFrame ==
  ASSUME RunIsAlive, StepIsOn, UNCHANGED <<steps, job>>, wiz'.run = wiz.run, wiz'.running = wiz.running
  PROVE  RunIsAlive' /\ StepIsOn' /\ Stands
BY DEF RunIsAlive, StepIsOn, Stands

\* Only the current run has a goroutine.
LEMMA OthersAreGone ==
  ASSUME OneRun, NEW n \in Runs, job[n].pc # "none"
  PROVE  wiz.running /\ n = wiz.run /\ \A m \in Runs : m # n => job[m].pc = "none"
BY DEF OneRun

\* A run of its own goroutine's doing: it goes on, or it gets a verdict.
LEMMA WorkAlive ==
  ASSUME WizardInv, StepIsOn, NEW n \in Runs, WorkStep(n)
  PROVE  RunIsAlive' /\ StepIsOn' /\ Stands
<1>t. Typed /\ OneRun /\ Progress(n) /\ job[n].pc \in Working /\ job[n].pc # "none"
      BY DEF WizardInv, WorkStep, Working
<1>1. n = wiz.run /\ \A m \in Runs : m # n => job[m].pc = "none"
      BY <1>t, OthersAreGone
<1>2. job'[n].pc # "none" /\ \A m \in Runs : m # n => job'[m] = job[m]
      BY <1>t, ProgressMoves DEF WorkStep
<1>3. wiz'.run = wiz.run
      BY <1>t DEF WorkStep, Typed, Wizards
<1>4. RunIsAlive'
      BY <1>1, <1>2, <1>3 DEF RunIsAlive
<1>5. job[n].i \in DOMAIN steps /\ steps[job[n].i].status = "running"
      BY <1>t DEF StepIsOn
<1>6. ASSUME job'[n].i = job[n].i, steps' = steps PROVE StepIsOn' /\ Stands
      BY <1>1, <1>2, <1>5, <1>6 DEF StepIsOn, Stands, Working
<1>7. ASSUME NEW pc \in Working, Goto(n, pc), steps' = steps PROVE StepIsOn' /\ Stands
  <2>1. job'[n].i = job[n].i
        BY <1>t, <1>7, GotoFacts
  <2> QED BY <1>6, <1>7, <2>1
<1>8. ASSUME NEW v \in Verdicts, Result(n, v) PROVE StepIsOn' /\ Stands
  <2>1. job'[n].pc = "top"
        BY <1>t, <1>8, ResultJob
  <2>2. /\ DOMAIN steps' = DOMAIN steps
        /\ \A k \in DOMAIN steps : k # job[n].i => steps'[k] = steps[k]
        BY <1>t, <1>5, <1>8, SetFacts DEF Result, Statuses
  <2>3. StepIsOn'
        BY <1>1, <1>2, <2>1 DEF StepIsOn, Working
  <2>4. Stands
        BY <1>5, <2>2 DEF Stands, Verdicts
  <2> QED BY <2>3, <2>4
<1>9. \/ \E pc \in Working : Goto(n, pc) /\ steps' = steps
      \/ job' = job /\ steps' = steps
      \/ \E v \in Verdicts : Result(n, v)
      BY DEF WorkStep
<1> QED BY <1>4, <1>6, <1>7, <1>8, <1>9

\* A run that reads its configuration, begins a step or ends.
LEMMA TurnAlive ==
  ASSUME WizardInv, StepIsOn, NEW n \in Runs,
         (\E loads \in BOOLEAN : LoadCfg(n, loads)) \/ StepBegin(n) \/ Finish(n)
  PROVE  RunIsAlive' /\ StepIsOn' /\ Stands
<1>t. Typed /\ OneRun /\ Progress(n) /\ job[n] \in Jobs /\ job[n].pc # "none"
      BY DEF WizardInv, Typed, LoadCfg, StepBegin, Finish, FinishWith, RunAt
<1>1. n = wiz.run /\ \A m \in Runs : m # n => job[m].pc = "none"
      BY <1>t, OthersAreGone
<1>2. CASE \E loads \in BOOLEAN : LoadCfg(n, loads)
  <2>1. PICK loads \in BOOLEAN : LoadCfg(n, loads)
        BY <1>2
  <2>2. /\ job' = [job EXCEPT ![n] = [job[n] EXCEPT !.pc = "top", !.i = 1, !.cfg = loads]]
        /\ UNCHANGED <<wiz, steps>>
        BY <2>1 DEF LoadCfg, wizVars
  <2>3. job'[n].pc = "top" /\ \A m \in Runs : m # n => job'[m] = job[m]
        BY <1>t, <2>2 DEF Typed, Jobs
  <2> QED BY <1>1, <2>2, <2>3 DEF RunIsAlive, StepIsOn, Stands, Working
<1>3. CASE StepBegin(n)
  <2>1. /\ job[n].pc = "top" /\ job[n].i <= Len(steps) /\ SetStep(n, "running") /\ Goto(n, "work") /\ UNCHANGED wiz
        BY <1>3 DEF StepBegin, RunAt
  <2>2. /\ job'[n].pc = "work" /\ job'[n].i = job[n].i
        /\ \A m \in Runs : m # n => job'[m] = job[m]
        BY <1>t, <2>1, GotoFacts DEF Working
  <2>3. job[n].i \in DOMAIN steps /\ steps[job[n].i].status = "pending"
    <3>1. job[n].i \in 1..(Len(steps) + 1) /\ steps[job[n].i].status = "pending"
          BY <1>t, <2>1 DEF Progress
    <3>2. Len(steps) \in Nat /\ DOMAIN steps = 1..Len(steps)
          BY <1>t DEF Typed
    <3> QED BY <2>1, <3>1, <3>2
  <2>4. /\ DOMAIN steps' = DOMAIN steps /\ steps'[job[n].i].status = "running"
        /\ \A k \in DOMAIN steps : k # job[n].i => steps'[k] = steps[k]
        BY <1>t, <2>1, <2>3, SetFacts DEF Statuses
  <2>5. RunIsAlive'
        BY <1>1, <2>1, <2>2 DEF RunIsAlive
  <2>6. StepIsOn'
        BY <1>1, <2>2, <2>3, <2>4 DEF StepIsOn, Working
  <2>7. Stands
        BY <2>3, <2>4 DEF Stands, Verdicts
  <2> QED BY <2>5, <2>6, <2>7
<1>4. CASE Finish(n)
  <2>1. wiz' = [wiz EXCEPT !.running = FALSE, !.await = FALSE] /\ job' = [job EXCEPT ![n] = NoJob] /\ steps' = steps
        BY <1>4 DEF Finish, FinishWith
  <2>2. ~wiz'.running /\ wiz'.run = wiz.run
        BY <1>t, <2>1 DEF Typed
  <2>3. job'[n].pc = "none" /\ \A m \in Runs : m # n => job'[m] = job[m]
        BY <1>t, <2>1 DEF Typed, NoJob
  <2> QED BY <1>1, <2>1, <2>2, <2>3 DEF RunIsAlive, StepIsOn, Stands, Working
<1> QED BY <1>2, <1>3, <1>4

\* A start, the only step that begins a run.
LEMMA StartAlive ==
  ASSUME WizardInv, NEW list \in StepLists, NEW known \in BOOLEAN, Start(list, known)
  PROVE  RunIsAlive' /\ StepIsOn' /\ Stands
<1> DEFINE n == wiz.run + 1
<1>t. Typed /\ OneRun /\ wiz.run \in Nat
      BY WizardConstants DEF WizardInv, Typed, Wizards
<1>n. n \in 1..left.runs /\ left.runs \in 0..MaxRuns /\ MaxRuns \in Nat
      BY WizardConstants DEF Start, WizardInv, PageInv, PageTyped
<1>1. /\ ~wiz.running /\ n \in Runs /\ wiz'.run = n
      /\ job' = [job EXCEPT ![n] = [NoJob EXCEPT !.pc = "load", !.known = known]]
      BY <1>n DEF Start, Runs
<1>2. \A m \in Runs : job[m].pc = "none"
      BY <1>t, <1>1 DEF OneRun
<1>3. job'[n].pc = "load" /\ \A m \in Runs : m # n => job'[m] = job[m]
      BY <1>t, <1>1 DEF Typed, NoJob
<1>4. n # wiz.run
      BY <1>t
<1> HIDE DEF n
<1> QED BY <1>1, <1>2, <1>3, <1>4 DEF RunIsAlive, StepIsOn, Stands, Working

LEMMA AliveStep ==
  ASSUME WizardInv, RunIsAlive, StepIsOn, [WizardNext]_vars
  PROVE  RunIsAlive' /\ StepIsOn' /\ Stands
<1>t. Typed
      BY DEF WizardInv
<1>1. CASE Handler
  <2>1. CASE Confirm
    <3>1. UNCHANGED <<steps, job>> /\ wiz' = [wiz EXCEPT !.tag = TRUE]
          BY <2>1 DEF Confirm
    <3>2. wiz'.run = wiz.run /\ wiz'.running = wiz.running
          BY <1>t, <3>1 DEF Typed
    <3> QED BY <3>1, <3>2, AliveFrame
  <2>2. CASE Abort
        BY <2>2, AliveFrame DEF Abort
  <2> QED BY <1>1, <2>1, <2>2, StartAlive DEF Handler
<1>2. CASE Environment \/ Page \/ UNCHANGED vars
  <2>1. UNCHANGED <<wiz, steps, job>>
        BY <1>2 DEF Environment, ConfigSaved, CoreLogs, Page, RenderEvent, Reconnect, Ask, RenderAnswer, PageKeeps,
                    vars, wizVars
  <2> QED BY <2>1, AliveFrame
<1>3. ASSUME NEW n \in Runs, RunStep(n) PROVE RunIsAlive' /\ StepIsOn' /\ Stands
  <2>1. CASE Panic
        BY <2>1, AliveFrame DEF Panic, wizVars
  <2> QED BY <1>3, <2>1, RunEffects, WorkAlive, TurnAlive
<1>4. ASSUME NEW n \in Runs, Background(n) PROVE RunIsAlive' /\ StepIsOn' /\ Stands
  <2>1. UNCHANGED <<wiz, steps, job>>
        BY <1>4 DEF Background, LateSnapshot, LateSend, Attach, Poll, WatchKeeps, wizVars
  <2> QED BY <2>1, AliveFrame
<1> QED BY <1>1, <1>2, <1>3, <1>4 DEF WizardNext

LEMMA AliveInvariance == WizardSpec => [](RunIsAlive /\ StepIsOn)
<1>1. WizardInit => RunIsAlive /\ StepIsOn
      BY DEF WizardInit, RunIsAlive, StepIsOn, NoJob, Working
<1>2. WizardInv /\ RunIsAlive /\ StepIsOn /\ [WizardNext]_vars => RunIsAlive' /\ StepIsOn'
      BY AliveStep
<1> QED BY <1>1, <1>2, WizardInvariance, PTL DEF WizardSpec

(***************************************************************************)
(* A wizard that says it is running has a goroutine that will end the run: *)
(* no abort, timeout or confirmation, in whatever order, leaves the flag   *)
(* set that refuses every later start (Start, run's deferred function).    *)
(***************************************************************************)
THEOREM RunsAreNotOrphaned == WizardSpec => []RunIsAlive
BY AliveInvariance, PTL

(***************************************************************************)
(* A verdict the operator has seen stays until another run is started: no  *)
(* late event, abort or second confirmation overwrites it (setStep).       *)
(***************************************************************************)
THEOREM VerdictsAreNotOverwritten == WizardSpec => VerdictsStand
<1>1. WizardInv /\ RunIsAlive /\ StepIsOn /\ [WizardNext]_vars => [Stands]_vars
      BY AliveStep
<1> QED BY <1>1, WizardInvariance, AliveInvariance, PTL DEF WizardSpec, VerdictsStand
=============================================================================
