--------------------------- MODULE MiddlewareInv ---------------------------
(***************************************************************************)
(* The inductive invariant of Middleware: what each goroutine may rely on  *)
(* between two of its steps, whatever the others do meanwhile.             *)
(***************************************************************************)
EXTENDS Middleware

\* The sender is working on a row.
Holding == {"expire", "post"} \cup Decisions \cup {"suspend", "persist", "halt"}

\* What the sender remembers is still true of the row, the gate and the halt.
SenderInv ==
  /\ snd.pc \in Holding => /\ snd.id \in 1..(nextId - 1)
                           /\ snd.reader = accepted[snd.id].reader
                           /\ snd.checked = accepted[snd.id].checked
                           /\ global = "RUNNING"
  /\ snd.pc \notin Holding => snd.id = 0
  /\ snd.pc \in Holding \ {"persist"} => Sendable(entry[snd.reader].state)
  /\ snd.pc = "persist" => entry[snd.reader].state = "SUSPENDED_TOKEN"
  /\ snd.pc = "query" => snd.readers \subseteq SendableReaders
  /\ snd.pc \in {"query", "idle"} => global = "RUNNING"
  /\ snd.pc = "expire" => snd.checked + MaxAge < snd.now
  /\ snd.pc \in Terminal => snd.id \in answered
  /\ snd.now <= clockMax

\* Rows are what was accepted, and nothing accepted is missing.
QueueInv ==
  /\ \A i \in DOMAIN queue : /\ queue[i].reader = accepted[i].reader
                             /\ queue[i].epc = accepted[i].epc
                             /\ queue[i].checked = accepted[i].checked
  /\ NoSilentLoss

\* A scan is remembered by a debounce mark, or is old enough to forget.
Remembered(i) ==
  LET k == <<accepted[i].reader, accepted[i].epc>> IN
  \/ k \in DOMAIN debounce /\ debounce[k] >= accepted[i].checked
  \/ accepted[i].checked + Keep < clockMax

DebounceInv ==
  /\ \A i \in 1..(nextId - 1) : Remembered(i)
  /\ DebounceSpacing
  /\ sw.now <= clockMax

Unsettled == {"PREFLIGHT_PENDING", "PREFLIGHT_RETRY"}
Opened    == SendableStates \cup {"SUSPENDED_TOKEN"}
Sticky    == {"SUSPENDED_REBIND", "SUSPENDED_CONFIG"}

\* Only a preflight that has not settled its gate may still change it; a
\* write that is owed agrees with what memory has become.
GateOK(r) ==
  /\ pf[r].pc \in {"attempt", "http", "backoff"} => entry[r].state \in Unsettled
  /\ pf[r].pc = "persist" => \/ pf[r].put.state \in SendableStates /\ entry[r].state \in Opened
                             \/ pf[r].put.state = entry[r].state /\ ~Sendable(entry[r].state)
  /\ mr[r].pc = "persist" => entry[r].state \in Opened /\ mr[r].put.state \in SendableStates
  /\ Sendable(entry[r].state) => /\ entry[r].fp = cfgToken[r]
                                 /\ entry[r].meta.booth = BoothOf[cfgToken[r]]
  /\ Alive /\ gateRow[r].state \in Sticky =>
       /\ entry[r].state = gateRow[r].state
       /\ pf[r].pc = "off"
       /\ mr[r].pc # "persist"

GateInv == \A r \in Readers : GateOK(r)

\* A dead process holds nothing.
DownInv ==
  life = "down" => /\ snd = Idle
                   /\ entry = [r \in Readers |-> FreshEntry]
                   /\ pf = [r \in Readers |-> Task("off")]
                   /\ mr = [r \in Readers |-> Task("sleep")]

IInv == TypeOK /\ SenderInv /\ QueueInv /\ DebounceInv /\ GateInv /\ DownInv

----------------------------------------------------------------------------
(* What single properties rest on beyond IInv *)

\* Without a crash and a failed write, the only answered row still in the table
\* is the one the sender is about to delete.
AnsweredInv ==
  spent["crash"] + spent["db"] = 0 =>
    /\ \A i \in DOMAIN queue \cap answered : snd.pc \in Terminal /\ snd.id = i
    /\ snd.pc = "post" => snd.id \notin answered

\* The preflight of r will still ask, or has yet to write that it must ask again.
Trying(r) == \/ pf[r].pc \in {"attempt", "http", "backoff"}
             \/ pf[r].pc = "persist" /\ pf[r].put.state = "PREFLIGHT_RETRY"

\* An undecided gate has a preflight that goes on trying (Run of the app starts
\* one for every gate it restores as pending; Preflight.Run).
NoGateAbandoned ==
  \A r \in Readers : Alive /\ entry[r].state \in Unsettled => Trying(r)

\* A signal that will wake the sender is in a channel, or about to be.
Signalled == wake = 1 \/ changed = 1 \/ \E r \in Readers : adm[r].pc = "wake"

\* While the process runs and is not halted, every queued row is held back by a
\* suspension, or waits for a preflight that goes on, or for a sender that will
\* look at it by the time it is due: the safety part of EventuallySettled.
RowsAreInHand ==
  Running /\ global = "RUNNING" =>
    \A i \in DOMAIN queue :
      LET gate == entry[queue[i].reader].state IN
      \/ Suspended(gate)
      \/ gate \in Unsettled /\ Trying(queue[i].reader)
      \/ /\ Sendable(gate)
         /\ snd.pc = "wait" => \/ Signalled
                               \/ snd.until <= clock
                               \/ snd.until <= queue[i].next + snd.lag

\* Until a token is edited, every fingerprint recorded, held or owed is that of
\* the configured token.
FingerprintOK(r) ==
  /\ gateRow[r].fp \in {Empty, cfgToken[r]}
  /\ entry[r].fp \in {Empty, cfgToken[r]}
  /\ pf[r].put.fp \in {Empty, cfgToken[r]}
  /\ mr[r].put.fp \in {Empty, cfgToken[r]}

FingerprintInv == spent["token"] = 0 => \A r \in Readers : FingerprintOK(r)

\* A write that opens a gate carries the configured token and its booth.
Opens(put, r) ==
  /\ put.fp = cfgToken[r]
  /\ put.meta # Empty
  /\ put.meta.booth = BoothOf[cfgToken[r]]

\* A gate row, or entry, that keeps the rows of booth b from going elsewhere.
Guards(g, b) == g.fp # Empty /\ BoothOf[g.fp] = b /\ g.meta.booth = b

GateBoothOK(r) ==
  /\ pf[r].pc = "persist" /\ pf[r].put.state \in SendableStates => Opens(pf[r].put, r)
  /\ mr[r].pc = "persist" => Opens(mr[r].put, r)
  /\ Sendable(entry[r].state) /\ pf[r].pc # "persist" => Guards(gateRow[r], BoothOf[cfgToken[r]])

\* A scan taken at booth b and still queued is for b's token, or will be held
\* back: by the entry until the preflight has an answer, by the stored row -
\* once the writes owed are done - over the next start.
RowGuarded(r, b) ==
  /\ Sendable(entry[r].state) => BoothOf[cfgToken[r]] = b
  /\ Alive /\ entry[r].state \in Unsettled => Guards(entry[r], b)
  /\ pf[r].pc = "persist" => \/ Suspended(pf[r].put.state)
                             \/ Sendable(pf[r].put.state) /\ BoothOf[cfgToken[r]] = b
  /\ mr[r].pc = "persist" => BoothOf[cfgToken[r]] = b
  /\ pf[r].pc = "persist" \/ Suspended(gateRow[r].state) \/ Guards(gateRow[r], b)

BoothInv ==
  Undisturbed =>
    /\ \A r \in Readers : GateBoothOK(r)
    /\ \A i \in DOMAIN queue \ released :
         accepted[i].booth # Empty => RowGuarded(accepted[i].reader, accepted[i].booth)
    /\ NoMisdelivery

----------------------------------------------------------------------------
(* The refinement *)

\* A row as the organiser sees it: where, what and when.
ScanOf(row) == [reader |-> row.reader, epc |-> row.epc, checked |-> row.checked]

TakenScans == [i \in DOMAIN accepted |-> ScanOf(accepted[i])]
OwedScans  == [i \in DOMAIN queue |-> ScanOf(queue[i])]

Promise == INSTANCE CheckinDelivery WITH
  Scan      <- [reader : Readers, epc : EPCs, checked : Nat],
  taken     <- TakenScans,
  owed      <- OwedScans,
  answered  <- answered,
  discarded <- discarded,
  now       <- clockMax

\* The delivery core implements CheckinDelivery: crashes, retries, sweeps,
\* suspensions and resumes only ever accept, answer, settle or discard scans
\* as the promise allows, and no row the operator discarded is POSTed again
\* (Admit, deliver, sweeper, QueueResume).
ImplementsDelivery == Promise!Spec

\* What the refinement rests on beyond IInv: a discarded row is neither in the
\* table nor in the sender's hands.
DiscardInv ==
  /\ \A i \in DOMAIN queue : i \notin discarded
  /\ snd.pc \in Holding => snd.id \notin discarded
=============================================================================
