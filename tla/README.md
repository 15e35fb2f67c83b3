# RFID middleware: TLA+ models, model checking and proofs

The program connects IDRO900 RFID readers to the CongKong check-in service. A
reader streams tags over TCP; every tag that passes the debounce window becomes
a durable row in SQLite, and one sender delivers the rows over HTTP in order. A
gate per reader says whether its token and its booth have been confirmed; a
rejected or suspicious gate is suspended until an operator intervenes. A
Windows GUI hosts the core, assigns sessions (tokens) to readers, rewrites
`config.json` and restarts the core.

Contents: [inventory](#inventory), [modules](#modules-and-how-they-correspond-to-the-code),
[runs](#runs), [bounds](#bounds), [fairness and deadlock](#fairness-and-deadlock),
[proofs](#proofs), [abstractions](#abstractions), [findings](#where-the-code-departs-from-its-text),
[not modelled](#not-modelled), [plan](#plan).

To check: `tlc -config Delivery.cfg MCMiddleware` (the module of each run is in
`PROJECT.json`), `tlapm MiddlewareProofs.tla`.

## Inventory

| Component (`internal/`) | State | Operations | Must hold |
|---|---|---|---|
| `store/sqlite` | tables `queue_items`, `debounce_state`, `gate_state` | Admit, NextDue, Complete, RetryLater, MarkAttemptKeepDue, ExpireBefore, CleanupDebounce, DiscardPending, SetGate | an accepted scan is never lost; it keeps its identity; scans are spaced by the debounce window |
| `gate` | entry per reader, global halt, one-slot signal | Init, Set, RefreshMeta, HaltGlobal | suspensions stick, in memory and on disk; the sender is told of every change |
| `admission` | none; runs in each session goroutine | Handle | the gate is checked first; the sender is woken |
| `sender` (`sender.go`) | the loop's locals, `wake` channel | Run, idleWait, waitSignal, deliver | posts only through an open gate with a verified token; no lost wake-up; every row is eventually settled |
| `sender` (`preflight.go`, `metarefresh.go`) | two goroutines per reader | attempt, tick | a gate is eventually decided; pending scans never go to another booth |
| `app` | the process; the sweeper | Run (restore, start, stop), sweeper, QueueResume | recovery: what survives a crash is enough |
| `app/lock_*.go` | `app.lock` | acquireLock, release | one instance per data directory |
| `reader/protocol` | accumulating buffer | Push; Parse; command encoders | frames do not depend on how TCP cuts the stream |
| `reader/session` | connection, initialisation step, reconfig slot | Run, dial, serve, stopAndDrain, initialize, command, reconfigure | no stale tag is handed over; session and reader agree; the session always recovers |
| `gui/core.go`, `cfgwrite.go`, `run.go` | `config.json`, `.bak`, `.tmp`; core running, its configuration; cached view | applySession, resume, configSave, coreControl; Start, Stop, Restart | configuration loadable; the core runs what is on disk; a rollback is a rollback; each request ends |
| `gui/manager.go` | catalog, load error, pending import | Run (poll), reload, scanDownloads, Import, ImportContent | memory converges to the file |
| `gui/logring.go` | ring, one-slot notify | Write, Drain | lines in order, losses counted, none stranded |
| `logging`, `gui/observe.go` | log files; followed file | Log, openFile, cleanup; tailLogs | folder bounded, tail never goes back and reaches the day being logged |
| `congkong` | none | CheckIn, Preflight, Classify | each meaning of an answer comes to its decision; an answer not heard to the end is retried |
| `gui/server.go`, `state.go`, the loops of `run.go`; `health`, `app/telemetry.go` | `status.json`, the pushed State, a bounded channel per page | writeStatus, BuildState, augment, PushState, broadcast, handleEvents | a page comes to show what is, is not taken back by events, and does not stay green for a dead core |
| `gui/wizard.go`, `wizard_run.go`, `reader/session/probe.go` | the steps of a run, confirmation slot; run and watcher goroutines | Start, ConfirmTag, Abort, steps 0 to 4, watchSendResults | a run ends, is settled when it has, and is judged by what happened after the confirmation; a page its last event reaches shows it |
| start-up of `gui/run.go`, `winsvc`, `cmd` | `gui.lock`, `gui.url`, service status; the processes themselves | arbitration of `gui.lock` and `app.lock`, Execute | one process has the queue open; a second GUI finds the first; a stop is reported |

How the parts meet. Session goroutines call `admission.Handle`, which writes the
store and signals the sender. Preflight, meta refresh, sender and restore all
change the gate registry; each change is made in memory under a mutex, signals
the sender, and reaches the database only afterwards. The GUI starts and stops
`app.Run` in its own process and otherwise shares files with it: `config.json`,
`status.json`, the log folder, `app.lock`.

What is hard here: values the sender reads at the top of its loop and uses
several steps later; memory and database copies of a gate that are written in
two steps by four kinds of goroutine; a crash at any of those steps; a clock
that may be set back under debounce, expiry and retry times; a reader that
answers late or not at all and silently ignores settings while it inventories;
HTTP requests of the GUI that nothing serialises although they share two files;
events that a slow page drops; a wizard whose aborted run goes on for a while;
processes that start while others hang or die.
`PROJECT.json` lists these hazards line by line with the properties aimed at
them.

## Modules and how they correspond to the code

The delivery core is one specification, split as the packages are; each module
EXTENDS the previous one.

```
Domain - Classifier - Runtime - Store - GateRegistry - Admission - Sender - Preflight - Middleware
                                                                                           |
                        CheckinDelivery (INSTANCE) - - MCMiddleware (TLC) - - - - - - MiddlewareInv
                                                                                           |
                                                  DeliveryProofs - MiddlewareProofs (TLAPS)
```

* `Domain`: gate states, delivery decisions, gate records (`domain.go`).
* `Classifier`: `Classify` over results abstracted to an error, a status, and the
  one field and text of the body that decide. What the server means by an
  answer (`Tells`) is external; the sender sees only the result.
* `Runtime`: wall clock, life of the process, configured tokens, and the faults
  spent against the alternatives of `Budgets`. `NetFault` is a call that fails in transport: by the network
  (kind `net`) or because a stop cancels its context while it is in flight (kind
  `cancel`, one of its own since no network failure is needed for it).
* `Store`: one operator per SQL method. A method holds the store mutex and is
  one transaction, hence one step; every write may fail (`OrFail`).
* `GateRegistry`: the memory half of `Set` and `RefreshMeta`. The database half
  is a later step of the caller (`SenderPersist`, `PreflightPersist`,
  `RefreshPersist`), because the code releases the mutex in between.
* `Admission`: `Handle` in three steps: check the gate, admit, wake.
* `Sender`: `snd.pc` is the position in `Run` or `deliver`, the other fields of
  `snd` are its local variables. `SenderAnswer` picks what the server made of the
  POST and what is heard of it, and goes on with what `Classify` says;
  `SenderComplete`, `SenderRetry`, `SenderRevoked`, `SenderSuspend`,
  `SenderPersist`, `SenderMark` and `SenderHalt` are the branches of `deliver`.
* `Preflight`: `pf[r]` and `mr[r]` are the two goroutines of reader `r`.
* `Middleware`: restore and start, sweeper, crash, orderly stop, and what the
  operator does while the process is down (edit a token, `queue resume` with
  send or discard). Ghost variables (`accepted`, `answered`, `discarded`,
  `released`, `clockMax` and the like) record history and guard nothing.

`CheckinDelivery` is the abstract specification: a scan is accepted and from
then on owed, unaltered, until it is answered, older than `MaxAge`, or discarded
by the operator; and a discarded scan is never answered. It knows nothing of
retries, gates, crashes or the database. `MiddlewareInv` instantiates it
(`Promise`) with the scans of `accepted`, those of `queue`, `answered` and
`discarded`; `ImplementsDelivery` says that every behaviour of Middleware is one
of its behaviours.

Stand-alone components:

* `Framer`: bytes are CR, LF or "other". `Push` appends a chunk, each round of its
  loop (`Round`) gives out the frame before the first CRLF, `Return` cuts an
  overlong rest. The reference is the division of the whole stream at its CRLFs.
* `AppLock`: one step per system call. `RemoveOpen` selects the build: Unix
  unlinks a file others have open, Windows refuses.
* `ReaderSession`: the session goroutine, serve's pump goroutine, the TCP
  connection and the reader. The reader (external) answers in order, ignores
  settings while inventorying, may stay mute or be late, may have been left
  inventorying, and streams tags.
* `HostedCore`: a set of request goroutines, each at a position of its handler;
  a step is one access to a file, to the controller or to the view. Files
  behave as on Windows: opening for writing truncates, an open file can be
  neither renamed nor removed. The GUI hosts, observes a foreign instance, or
  has started without a configuration; it may die at any step and be started
  again, and finds the files as they were left. The ghost `overlapped`
  remembers that two requests have been under way at once, `unreloaded` the one
  early return that leaves the view behind.
* `CatalogWatch`: the polling goroutine and one operator request, a step being
  one access to a file or to the manager. The ghost `raced` remembers a change
  of the file while the goroutine was starting.
* `LogFiles`: the log folder as names and sizes; the platform (can an open file
  be removed) is chosen in the initial state. Days go forward, and back when the
  clock is set back over midnight (`DayBack`).
* `LogRing`: the ring and its one-slot signal.
* `LiveView` EXTENDS `LogRing`: the core's condition on its way through
  `status.json`, `stateLoop`, `Server.state` and the channel of each page, beside
  the log lines that compete for the channel. `Red`, `Yellow` and `BuildState` are
  the rules of the lamp. Time passes in units of the five-second heartbeats. A page
  has two sources: its connection, and one request for the State when it is loaded
  (`HandleState`), whose answer it shows whenever it comes (`ShowAnswer`).
* `Launch` EXTENDS `AppLock`: GUIs and service processes on one data directory.
  The lock is taken and given back by the steps of `AppLock`; around them are the
  GUI's arbitration, `gui.lock` and `gui.url`, `app.Run` opening and closing the
  queue, and what the service manager is told. Every process may end anywhere.
* `Wizard`: `job[n]` is the goroutine of run `n`, `watch[n]` its watcher, `late[n]`
  the event it publishes after it is over; the handlers are `Start`, `Confirm`,
  `Abort`. What a step measures is a choice among its verdicts; whether
  the configuration can be read, the reader is configured and the core runs are
  choices too, and decide which verdicts there are. `gui` is `bare` in a GUI that has
  started without a configuration, where step 0 ends the process. A page has a
  bounded channel: `Send` puts an event there or drops it, `RenderEvent` shows the
  next one with the icon of each step, `Reconnect` loses what is in the channel, and
  `Ask` and `RenderAnswer` are the page's own request, which crosses the events. The
  ghost `behind` remembers that the last event did not reach the page or an older
  answer has replaced it.

`PROJECT.json` maps every definition to its lines. Definitions that begin with
`Mut` are deliberate bugs, one per checked property; no specification uses
them. Replacing the definition they belong to makes TLC report the property.

## Runs

Sizes are distinct states. All but RebindLost pass.

| Run | What happens in it | Checked | States |
|---|---|---|---|
| Delivery | one scan; crash and network failure, "error bind" and network failure, store failure, stop, or sweep and network failure | NoSilentLoss, RowIdentity, DuplicateOnlyAfterFault, EventuallySettled, GateSettles | 133 k |
| Time | two scans of a tag; a sweep, a clock set back, or a network failure | DebounceSpacing, NoLostWakeup | 747 k |
| Gates | all five writers of one gate; a crash with revocation, contract breach, refresh and token edit, or with revocation, store failure and token edit; or a stop, which may cut off a request, with revocation, refresh and token edit; operator resume | TypeOK, PostOnlyWhenOpen, PostOnlyVerifiedToken, RebindGuarded, VerdictDurable, ImplementsDelivery, SuspensionSticks, StoredSuspensionNeedsResume, LiftNeedsTokenEdit | 686 k |
| RebindLost | stop, token edit to another booth, a second stop that cuts off the preflight of the new token | NoMisdelivery, violated | |
| Framer | all streams up to 10 bytes, all divisions into chunks up to 3 | FramesSurviveChunking | 479 k |
| Launch | two GUIs and two service processes starting, stopping, hanging, dying | OneDatabase, UrlIsLive | 1.3 M |
| Session | lost and late replies, a cut, a power change, cancel | OnlyFreshTags, InventoryMeansRunning, SettingsNotIgnored, SessionSettles | 332 k |
| Host | two requests, in turn or overlapping; core crash, other instance, death and restart of the GUI; the core may never end | DiskValid, ViewIsDisk, RunningMatchesDisk, RolledBackMeansOld, RequestsEnd | 531 k |
| Catalog | file rewritten, downloads, imports, uploads | CatalogConverges | 159 k |
| Logs | rotation, new days, a clock set back over midnight, restarts, both file semantics | FolderBounded, TailReachesDay | 217 k |
| LiveView | a core that changes, stops, fails and starts; a clock set back; a page that comes, goes and is slow, and whose request at load is answered late; log lines | NoStrandedLines, NothingMissedOnConnect, EventsKeepOrder, PageCatchesUp, DeadCoreNotGreen | 896 k |
| Wizard | two runs; confirmation and abort at any moment, results in the log before, during and after, an unreadable configuration, a GUI without one; a page with dropped events, a lost connection and its own requests | ConfirmedFirst, FinishedIsSettled, ViewCurrent, WizardEnds | 503 k |

`RebindGuarded` is `NoMisdelivery` for the executions in which every write and
every request succeeds (`Undisturbed`): stops, edits and resumes are free, but a
stop that cuts off a request is a failed request. RebindLost shows what one such
request does to it. `VerdictDurable` and `LiftNeedsTokenEdit` are likewise
stated for the cases the code does handle: verdicts of a preflight, and
suspensions recorded with a fingerprint. `DiskValid`, `RunningMatchesDisk` and
`RolledBackMeansOld` speak of requests that do not overlap; of a GUI killed
while it restores a backup `DiskValid` says that the backup is left.
`ViewIsDisk` excepts one early return (ghost `unreloaded`). `ViewCurrent`
excepts a start that overtakes the last event of the run before (`overlap`), and
a page the last event did not reach or on which an older answer has replaced it
(`behind`): it says that no change of the wizard goes without an event that
carries it, and that answers which cross events do no other harm.
`EventsKeepOrder` excepts the one answer a page gets at load, which may be older
than what it shows, or newer than an event still on its way; the next push, at
most five seconds later, puts it right (`PageCatchesUp`). After a clock set back
over midnight `TailReachesDay` allows the tail a day later than the one being
logged. `UrlIsLive` excepts a GUI started before the first has written its
address (`bare`), and `WizardEnds` a run that ends the whole process. What
happens outside these limits is listed
[below](#where-the-code-departs-from-its-text).

## Bounds

Every bound is a constant marked "bound" where it is declared.

* Faults are counted per kind. `Budgets` is a set of alternatives, each giving
  how many of a kind may occur, one each here (two stops in RebindLost): an
  execution keeps within one of the alternatives. The interesting
  executions need one fault of each of two or three kinds in a particular
  order; a second fault of a kind starts the same recovery again from a state
  already covered. In Time a sweep and a clock set back are alternatives; what
  both together do to the spacing of scans is in the proof of `ScansAreSpaced`.
* `MaxId` 1 or 2: properties speak of one scan (loss, identity) or of two
  (spacing, which of two rows is next). `MaxClock` 0 to 3 covers "before, at
  and after" each duration of the run, which are scaled to 1 to 6 and keep
  their order. Runs without a question about time have `MaxClock` 0.
* One reader, since the properties are per reader; the proofs have any number.
  Two tokens of different booths where tokens are edited.
* `Framer`: `MaxLine` 2 and 10 bytes suffice for an oversize frame, one cut
  between CR and LF, and a frame after it.
* `ReaderSession`: a channel capacity of 2 for 64; what matters is empty,
  neither, full.
* `HostedCore`: two handlers, two requests, two readers and two tokens: enough
  for an overlap, for a request that finds what a failed one left, and for a
  conflict of tokens.
* `HostedCore` also has one fault of the core or its environment and one end of
  the GUI (`MaxEnds`), which happens only after a request has arrived, since a
  death before it is a later start.
* `LiveView`: a ring and a channel of one, so both overflow; a report is too old
  after one unit rather than three; two conditions, one of them red. `Budgets`
  are four alternatives: two changes of the core, a clock set back and a lost
  connection; a change and a log line; two log lines and a lost connection; a
  change, a lost connection and an answer to the request at load.
  A running core writes its report before it is too old: the heartbeat is a
  third of the limit.
* `Launch`: two of each kind, for a start beside each state of another
  process of its own and of the other kind. One lock file is enough on Windows,
  where it is never replaced while open.
* `Wizard`: two runs (an aborted one and its successor), two log lines and a
  watcher channel of one. The step lists pair each dependent step with the one
  it depends on. `PageCap` is one, so that the channel is full after an event;
  in the code events share 256 places with States and log lines, hence `Send`
  may drop one at any time. `Budgets` are four alternatives: two runs of any list
  without a page, a run in a GUI without a configuration, two runs seen by a page,
  and a run with step 3a seen by a page that also asks once. A page has one
  answer on its way at a time; a second request replaces it, as if it were lost.
* `LogFiles`: files of two or three units, two kept, so rotation, clean-up and a
  change of day all occur within eleven lines, with one turn back of the clock
  (`MaxTurns`). Rotation numbers have one digit.

## Fairness and deadlock

* `LiveSpec` (Middleware): weak fairness of the sender, of the preflights, of an
  admission once begun, of the clock, of the start and of the end of a stop. Go
  schedules runnable goroutines; HTTP calls end because the client has a
  timeout; the service manager restarts the process. Nothing is assumed about
  scans, faults, sweeps, meta refresh or operators. `LateTick` lets the clock
  pass `MaxClock` while a delivery waits for it, so that the bound does not
  stop time.
* `SessionLiveSpec`: each step of the session goroutine, the pump, and the
  reader's handling of its commands; a command that stays unanswered is ended
  by the command timeout. Cuts, mute readers, tags and requests owe nothing.
* `HostLiveSpec`: only the request goroutines run on. Nothing makes a
  cancelled core end, which is the point of `RequestsEnd`.
* `CatalogLiveSpec`: the polling goroutine and a reload or import once begun.
  `LogLiveSpec`: the tail's ticker.
* `ViewSpec`: the two heartbeats, the loops, and a connected page that reads.
  Nobody has to connect, and the core need neither change nor start.
* `WizardSpec`: the run goroutines, whose waits have timeouts. No handler,
  watcher or core owes anything.

The other specifications, `LaunchSpec` among them, assume no fairness.

`CHECK_DEADLOCK FALSE` is set wherever a model ends because its environment is
bounded (no more scans, requests, lines, bytes or faults) or because the program
really stops (cancelled session, halted sender, GUI ended by the wizard).
LiveView checks deadlock.

## Proofs

TLAPS proves the following for every set of readers, tags, tokens and booths,
every duration and every fault budget. `MaxClock`, `LastScan`, `MaxId` and
`Budgets` only occur in guards of the environment, so they bound no proof.

`MiddlewareProofs`, from `DomainAssumption` and `RuntimeAssumption` (durations and
bounds are naturals, `Debounce > 0`, `Empty` is neither a token nor a booth,
`BoothOf` is a function):

| Theorem | States |
|---|---|
| Invariance | `Spec => []IInv` |
| TypeCorrect | `TypeOK` |
| ScansAreNotLost | `NoSilentLoss` |
| RowsKeepIdentity | `RowIdentity` |
| ScansAreSpaced | `DebounceSpacing` |
| PostsNeedOpenGate | `PostOnlyWhenOpen` |
| PostsUseVerifiedToken | `PostOnlyVerifiedToken` |
| SuspensionsStick | `SuspensionSticks` (action property) |
| StoredSuspensionsStick | `StoredSuspensionNeedsResume` (action property) |

`IInv` (in `MiddlewareInv`) is the conjunction of

* `TypeOK`;
* `SenderInv`: what the sender remembers is still true. Without it a row read at
  the top of the loop could have been changed by the time it is completed, and
  `NoSilentLoss` is not inductive: the sender deletes `snd.id`, so that id must
  be answered or too old. It also says the gate of the row in hand is still
  open: only the sender itself suspends an open gate, and a refresh applies
  only to an open one;
* `QueueInv`: rows are what was accepted, and `NoSilentLoss`;
* `DebounceInv`: every accepted scan has a mark at least as recent, or is older
  than the time marks are kept. `DebounceSpacing` alone does not survive the
  clean-up of marks or a clock set back;
* `GateInv`: a preflight that has not settled works on an undecided gate; a
  database write still owed agrees with what memory has become since; an open
  gate carries the configured token and its booth; and a stored REBIND or
  CONFIG suspension leaves no goroutine that could overwrite it. This is what
  makes late writes harmless for REBIND and CONFIG; the same is false for
  SUSPENDED_TOKEN, as observed below;
* `DownInv`: a dead process holds nothing, so restore starts from the database.

`ClassifierFollowsServer` connects what the server
meant with what the sender does: every answer of a decided outcome is classified
as terminal, every other one and every lost one is not, so that `answered`,
which records the former, may be used where the code follows the latter.

The proof has one case per action, and under it one per conjunct the action
can disturb; actions of one goroutine leave the conjuncts about the others
unchanged by lemmas stated once.

`DeliveryProofs` has what follows from `IInv` with one more invariant each, under
the same assumptions:

| Theorem | States | Needs beside `IInv` |
|---|---|---|
| VerdictsAreDurable | `VerdictDurable` | nothing: `GateInv` leaves no goroutine that owes a write over a REBIND or CONFIG verdict |
| LiftsNeedTokenEdit | `LiftNeedsTokenEdit` (action property) | `FingerprintInv`: without a token edit every fingerprint, in memory, in the database or owed to it, is that of the configured token |
| DuplicatesNeedFault | `DuplicateOnlyAfterFault` | `AnsweredInv`: without crash or failed write, an answered row still in the queue is the one the sender is about to delete |
| WakeupsAreNotLost | `NoLostWakeup` | nothing: `idleWait` sets its timer by the earliest row, and every later step that adds a row or opens a gate leaves a signal or an admission about to give one |
| RebindsAreGuarded | `RebindGuarded` | `BoothInv`: see below |
| DiscardedStaysGone, DeliveryRefines | `ImplementsDelivery` | `DiscardInv` |
| UndecidedGatesAreTried | `NoGateAbandoned`: the safety part of `GateSettles` | nothing |
| NoRowIsStranded | `RowsAreInHand`: the safety part of `EventuallySettled` | `NoGateAbandoned`, `NoLostWakeup` |
| SettledRowsStaySettled, DiscardedRowsGetNoAnswer | `SettledForGood`, `DiscardIsFinal` of `CheckinDelivery` (action properties) | `DeliveryRefines` |

`DeliveryRefines` is `Spec => ImplementsDelivery`, by the refinement mapping of
`Promise`: each step of the core is one step of `CheckinDelivery` or leaves its
variables alone. `IInv` alone does not give that a discarded scan is not answered
afterwards; `DiscardInv` (a discarded row is neither in the queue nor in the
sender's hands) is invariant beside it, because the operator discards only while
the process is down. What `CheckinDelivery` promises then holds of the core: the
last two theorems are proved of the abstract specification, where they take a
few lines, and carried over by the refinement.

`NoGateAbandoned` and `RowsAreInHand` say what a stuck delivery would lack. A gate
that is neither open nor suspended has a preflight that will ask again (`Trying`),
also after a failed write, so it cannot stay undecided for want of a goroutine;
and a row that nothing suspends has such a preflight, or a sender that will look
at it in time. That these goroutines then run is fairness, and left to TLC.

`BoothInv` follows a pending row through stops and starts: as long as nothing has
failed, the stored gate row names the booth the pending rows were read for, with
the fingerprint of a token of that booth (`Guards`), or is a suspension, or is about
to be replaced by one that is; and until a preflight has its answer the entry in
memory is such a row too (`RowGuarded`). The attempt to prove `RebindGuarded` as it was first
stated, for any orderly stops, failed at the step in which a stop cancels a
preflight: `attempt` takes the cancelled call for a transport failure and
records the new fingerprint. The two-stop execution TLC then found is the run
RebindLost; the fault kind `cancel` and `Undisturbed` come from it.

`LaunchProofs`, for any number of GUIs and service processes. `LockExcludes`: if an
open file cannot be removed, at most one process holds app.lock. `LockInv`:
whoever has a file open has the file the path names, so two holders would hold
one lock. `LaunchImplementsLock`: whatever they do, app.lock sees only steps of
`AppLock` (`LaunchSpec => LockSpec`), so `LockExcludes` carries over. With
`RunHoldsLock` (app.Run runs inside the lock) and `OpenInRun` (the queue is open
only inside app.Run) it gives `QueueHasOneOwner`: `OneDatabase`. `OwnsGuiLock` and
`OwnsUrl` make `UrlIsLive` inductive (`WindowIsFound`): a GUI holds `gui.lock` from
its arbitration on, so nobody else can write the address.

`ReaderProofs`, first the frame decoder, for every limit, stream and division into
chunks: `FramesAreExact` (`FramesSurviveChunking`). The decoder forgets bytes, so the
property does not follow from what it still has. `FramerInv` accounts for them: the
buffer is the end of the stream (`BufIsTail`); what is gone from it belongs to frames
given out, or else `dropping` is set and it is at least `MaxLine` bytes of the frame
under way, none of them a CR that an LF follows or could follow (`GoneIsDropped`);
and no CRLF before the end of the last frame was skipped (`NothingSkipped`).
Without the middle part a CRLF could be lost across a cut, which is what the kept
trailing CR is for; its length is what makes dropping the verdict of an overlong
frame. A frame of exactly `MaxLine` bytes may go either way, and does.

Then the session, for every capacity of the channel and every fault budget:
`TagsAreFresh` (`OnlyFreshTags`), `InventoryIsReal` (`InventoryMeansRunning`),
`SettingsTakeEffect` (`SettingsNotIgnored`). All three are about a reply that is not
there yet, so `SessionInv` describes everything in transit. `QueueInv` says which
commands the reader may not have executed yet (at most a Stop and the one
awaited), which replies may be in the socket or in the channel, and that in the
order the session takes the lines nothing but tags follows the reply it awaits,
after the reply to Start only tags of the new inventory (`InOrder`). `ConnInv`: a
connection that has ended leaves nothing under way. `DeviceInv`: a reply to be
taken means that the reader has executed its command, so it has the power asked
for, or inventories. `StoppedInv`: unless a command was lost it does not
inventory between Stop and Start. `FreshInv`: from Start on no tag under way is
older than this connection.

`GuiProofs`, for any readers, tokens, requests, faults and ends of the GUI:
`DiskStaysLoadable` (`DiskValid`), `ViewFollowsDisk` (`ViewIsDisk`), `CoreRunsDisk`
(`RunningMatchesDisk`), `RollbackRestores` (`RolledBackMeansOld`). Requests are
many steps long, and the properties speak of their ends; `HostInv` says what is
the case at each position of the one request under way (`Serving`): where it can
be for its kind and the mode of the GUI (`PathInv`), what the three files hold
(`FileInv`: from the backup to the last possible rollback `.bak` is what the
request read), what the view was read from (`ViewInv`), and whether the core is
stopped or in step with the disk (`CoreInv`). `Resting` is what every answer
leaves, and what a GUI that is started again finds. Each step of a request is a
lemma of its own; the core and the other instance disturb none of it
(`OutsideInv`). `HostInv` says nothing once requests overlap, as the properties.

The same module proves of `CatalogWatch`, for any number of writes and requests,
`ChangesAreNotMissed`: while the catalog shown is not the one in the file, a poll or a
reload that will read it is ahead (`NoChangeIsMissed`, the safety part of
`CatalogConverges`), unless the file changed while `Run` was starting (`raced`). It
needs `LateReload`, beside bounds on the times (`CatalogInv`): a reload about to assign
what the file no longer has is followed by another, since `lastMod` then differs.

`LiveViewProofs`: `RingAccountsForLines` and `RingStrandsNoLine` for a ring of every
capacity, inductive together with the type invariant (`RingInv`): buffered lines
are numbered consecutively after the sent and the dropped ones, and a buffered
line has its writer before the signal, a signal, or a flush on its way.
`ViewStrandsNoLine` carries the latter over to `LiveView`. `ConnectMissesNothing`
(`NothingMissedOnConnect`) and `EventsNeverGoBack` (`EventsKeepOrder`, an action
property), for any number of pages and any capacity of their channels, rest on
`ViewInv`: what the page shows, its first message and its channel are ever newer, up
to the stored State (`Ordered`), and a State being told is the stored one
(`PushInv`). While the answer to its request at load is what a page shows it may be
newer than the events on their way, so `Ordered` leaves it out until an event has
replaced it; the answer itself is at most as new as the stored State.

`LogFilesProofs`: `FolderStaysBounded` (`FolderBounded`), for every limit, line
length, number of days and restarts, on both platforms. The bound on sizes is an
induction over writes. The one on the number of files is a counting argument:
no two names sort alike, so the number of names before it identifies a name, and
those that cleanup keeps have numbers from an interval of `KeepFiles`
(`SurplusLeavesFew`). Rotation numbers have one digit here too (`MaxNum`).
`TailMovesOn` (an action property): the tail never goes back to a name that sorts
before the one it leaves, although clean-up may have removed that file.
`TailIsOneStepAway` (`LatestIsCurrent`, the safety part of `TailReachesDay`): while a
file is open, the name that sorts last is of its day, or of a later one if the clock
was set back over midnight, however often. Both need that clean-up, which
removes in the same order, leaves a name at least as late (`TailInv`).

`WizardProofs`, for any number of runs and every list of steps:
`VerdictsFollowConfirmation` (`ConfirmedFirst`), `RunsEndSettled`
(`FinishedIsSettled`), `BrowserEndsCurrent` (`ViewCurrent`). `WizardInv` says that only
the current run has a goroutine or a watcher (`OneRun`), that the steps before the
current one have a verdict and those after it are pending (`Progress`), that a
confirmation in the slot was given in this run (`SlotInv`) and what the watcher
found came after it (`AfterConfirm`), and that the event a run publishes after its
end shows what the wizard holds (`LateInv`). `PageInv` adds the page, for any capacity of
its channel and any number of requests: beside `ViewCurrent` itself, an answer
since which no event was sent is the wizard as it is (`AnswerInv`), for it is what the
page shows when it has overtaken nothing. `RunsAreNotOrphaned` (`RunIsAlive`, the
safety part of `WizardEnds`): a wizard that says it is running has a goroutine, so no
order of aborts, timeouts and confirmations makes it refuse every later start.
`VerdictsAreNotOverwritten` (`VerdictsStand`, an action property): a verdict stays until
the next run. Both rest on `StepIsOn`: the step a goroutine works on is shown as
running.

Each of these invariants was checked with TLC on the instance of the component's
run before it was proved.

Only model-checked: the nine liveness properties (`EventuallySettled`, `GateSettles`,
`SessionSettles`, `RequestsEnd`, `CatalogConverges`, `TailReachesDay`,
`PageCatchesUp`, `DeadCoreNotGreen`, `WizardEnds`), since fairness and ENABLED are
out of the prover's reach. For `EventuallySettled`, `GateSettles`, `CatalogConverges`,
`TailReachesDay` and `WizardEnds` the safety part is proved as said above: what has
to happen is always still ahead of somebody. Every invariant and every action
property of a passing run is proved.
`OneInstance` and `LinesAccounted`, which are proved, are not spent a run on.

## Abstractions

* A token's fingerprint stands for the token: SHA-256 does not collide here.
* Which of its answers the server gives to a POST is a choice, and so is the
  outcome of a preflight's `attempt`; revocation, error bind and server trouble
  are limited by the fault budget. The texts `Classify` compares are names.
* A row whose reader is not in the configuration cannot be selected, since the
  sender asks for rows of registry readers and the registry is filled from the
  configuration; that branch of `deliver` is left out.
* Preflight back-off and the 60 s refresh period may elapse at any moment.
  Timers follow the monotonic clock, timestamps the wall clock.
* Lines of a reader are their kind and command letter; chunks hold whole lines
  in `ReaderSession`, what `Framer` shows.
* In `CatalogWatch`, except while it starts, the file does not change in the
  instant between a reload's read and its assignment (`Prompt`).
* A session stands for its token in `HostedCore`; `config.json` is its readers
  and tokens. Reads and writes of files succeed except for the Windows sharing
  rules.
* `LiveView`: `status.json` is replaced by rename, hence one step. The gray lamp
  and the yellow of a reader without a session are left out, since they come
  from the configuration and not from the core. Lamp and reported condition of a
  State come from one report in one step, as in `stateLoop`, so that they agree is
  not a result. The key that decides on a push is a changed lamp or
  five seconds. Log lines are finite: a log that keeps the
  channel full for ever is not covered by `PageCatchesUp`.
* `Preflight`: `BoothOf` is never empty. `PreflightMeta` accepts a 200 without a
  booth name if it names an event or a unit.
* `Launch`: the GUIs have a configuration they can load, and so a data folder;
  that `gui.lock` cannot be made there is modelled, a GUI without a data folder,
  which takes no lock at all, is not. How the service is started (automatically
  or by hand) is left to chance.
* `Wizard`: the watcher a run leaves behind is forgotten with the run: it hands
  lines to a channel nobody reads. The log file it follows is one sequence of
  lines; which file that is, is in `LogFiles`. The core that `selftestReplay` runs
  for steps 3b and 4 is taken to end, by its own time limit. The copy `Snapshot`
  returns shares the array of steps with the run, so the handler of GET `api/wizard`
  may encode a step while it is written; the event that follows each write repeats
  it. That the button for another check clears the page by itself is left out.

## Where the code departs from its text

The run RebindLost violates `NoMisdelivery`, which states the comment at
`preflight.go` 77-78. A preflight of the new token that fails in
transport, if only because a stop cancels it, records the new fingerprint in the gate row and leaves the old booth there; the
next, successful attempt compares fingerprints, finds them equal, and opens the
gate, and pending scans of the old booth are POSTed with the new booth's token.

Other disagreements between code and text met while modelling. The behaviour of
each is in the models, and the checked properties except it where they would
otherwise be false; no run is spent on it.

| Where | What the code does |
|---|---|
| `gate.go` 98 | refresh and suspension can reach the database in the order opposite to memory; a restart then forgets a SUSPENDED_TOKEN (`app.go` 120: suspensions outlive a restart) |
| `sender.go` 214 | a 404 is stored with an empty fingerprint, so a restart takes the same token for a new one (`app.go` 132) |
| `admission.go` 32 | a suspension between check and insert leaves a new row for a suspended reader (`admission.go` 31) |
| `sender.go` 197 | the retry time counts from before the POST and may already have passed (`sender.go` 2) |
| `gate.go` 173 | the global halt ends with a restart (`gate.go` 180) |
| `framer.go` 44 | a line of exactly `maxLine` bytes is dropped if the chunk ends between CR and LF (`framer.go` 19) |
| `lock_unix.go` 24 | release removes by name a file that another process may have locked; with `RemoveOpen = TRUE`, `OneInstance` fails (`lock_unix.go` 11) |
| `session.go` 338 | tags arriving before a reply during reconfigure are handed over (`docs/reader-recovery.ko.md` 20: dropped) |
| `run.go` 705 | saving the settings starts a core on standby (`run.go` 121) |
| `run.go` 487 | resume returns without reloading the view if the start fails (`run.go` 44) |
| `cfgwrite.go` 55 | two overlapping requests writing through one `.tmp` can leave an unreadable `config.json` (`cfgwrite.go` 104) |
| `cfgwrite.go` 17 | of two overlapping applySession one is undone, and both report success |
| `run.go` 428 | overlapping requests share `.bak`, so a reported rollback may restore nothing |
| `manager.go` 30 | a file replaced between the first reload and the first Stat is not loaded until it changes again |
| `manager.go` 111 | a download stays on offer after a newer file has been loaded (`manager.go` 91) |
| `observe.go` 76 | after a rotation by size the tail stays with the day's first file, whose name sorts last (`observe.go` 15) |
| `wizard.go` 251 | an unreadable `config.json` fails step 0, and the next step that needs it dereferences a nil configuration and ends the process, hosted core included (GUI design 5.3, row 0: to go on is possible) |
| `wizard.go` 240 | in a GUI that has started without a loadable configuration, step 0 dereferences it for the place of the catalog and ends the process, if `config.json` can be read by then and was not saved through the GUI |
| `app.js` 491 | the answer to the request for the State at load is shown whenever it comes, so it may put an older State back, and an event already on its way may replace a newer answer; for up to five seconds (`run.go` 250) |
| `server.go` 416 | a wizard event dropped at a full channel, or sent while a page connects again, is never repeated: if it was the last, the page goes on showing a running check until it asks (GUI design 5.2: RUNNING ends in SUMMARY) |
| `classifier.go` 150 | a 200 without a booth name is accepted if it names an event or a unit (`classifier.go` 149: a breach of contract) |
| `wizard.go` 316 | a warning of step 2 skips 3a and 3b like a failure does (GUI design 5.3: after a failure) |
| `wizard.go` 256 | the core may be started between the check that it is off and the probe of its reader; nothing locks session changes during a run |
| `wizard_run.go` 104 | the watcher goroutine of a run that ends normally is never cancelled |
| `run.go` 80 | a GUI started before the first has written `gui.url` opens a second window, or an old address; `gui.url` is never removed |
| `run.go` 89 | the arbitration holds app.lock for a moment, in which a starting service fails and another GUI becomes an observer for good |
| `server.go` 408 | a log line dropped at a slow page is not in the count of dropped lines |
| `run.go` 415 | the number of pending rows `applySession` checks comes from a report that may be a heartbeat old |
| `session.go` 146, 174 | after a command timeout the pump may stay blocked on a full channel; a read error may be taken before queued chunks, whose tags are lost |
| `winsvc_windows.go` 43 | a failed app.Run is reported as stopped before its exit code is returned |
| `logging.go` 229 | clean-up by name removes the later files of a day first (`docs/log-management.ko.md` 25) |
| `logging.go` 240 | on Windows clean-up cannot remove the open files, so up to two more than `keepFiles` may remain (`docs/log-management.ko.md` 30: ten files are the limit) |
| `observe.go` 76 | after the clock was set back over midnight the tail stays with the file of the later date; on Unix clean-up may remove the file just opened, whose name sorts before it |

## Not modelled

* Replay harness and `drainWait`: a mode for tests and step 4 of the wizard,
  whose verdict is a choice there.
* EPC decoding, defaults and ranges of the configuration, URL building, error
  sanitising, masking: pure code without a decision another part depends on.
* What a wizard step measures, the dialogue of the reader probe, the wizard's
  report file.
* Alerts, displayed counters, NTP query: they observe and decide nothing.
* Network settings, installation of the service, tray: calls to the operating
  system. `cmd/` beyond the start of a GUI and of the service: argument parsing.
* `spike/`: an experiment.

## Plan

Done, in this order: the delivery core (Domain to Middleware), its runs, its
inductive invariant and proof; Framer; AppLock with proof; ReaderSession;
HostedCore; CatalogWatch; LogFiles; LogRing with proof; `CheckinDelivery`, its
refinement and proof; Wizard; LiveView; death and restart of the GUI in
HostedCore; Launch with proof; Classifier with proof.

After that, proofs of every safety property of a passing run: the rest of the
delivery core, ReaderSession, HostedCore, LiveView, LogFiles, Wizard, Framer; and of
the safety part of five of the liveness properties.

Next, most important first:

1. What `HostedCore` still guarantees when requests overlap; `CatalogWatch`
   without `Prompt`.
2. Replay and `drainWait`: the drain ends, and only when nothing can progress.
