------------------------------- MODULE Store -------------------------------
(***************************************************************************)
(* internal/store/sqlite: the three tables and the statements the program  *)
(* runs on them.  Every method holds the store mutex and is one SQLite     *)
(* transaction under WAL with synchronous=FULL, so each is one step and    *)
(* survives a crash.  Any write may fail instead (OrFail).                 *)
(***************************************************************************)
EXTENDS Runtime

VARIABLES queue,      \* queue_items: row id -> row
          nextId,     \* AUTOINCREMENT
          debounce,   \* debounce_state: <<reader, epc>> -> last accepted time
          gateRow,    \* gate_state: reader -> row, or NoRow
          accepted    \* ghost: what each id was accepted as

storeVars == <<queue, nextId, debounce, gateRow, accepted>>

NoRow == [state |-> "NO_ROW", fp |-> Empty, meta |-> NoMeta]

QueueRow == [reader : Readers, epc : EPCs, checked : Nat, attempts : Nat, next : Nat]
Accepted == [reader : Readers, epc : EPCs, checked : Nat, seen : Nat, booth : Booths \cup {Empty}]

StoreTypeOK ==
  /\ nextId \in Nat \ {0}
  /\ DOMAIN queue \subseteq 1..(nextId - 1)
  /\ \A i \in DOMAIN queue : queue[i] \in QueueRow
  /\ queue = [i \in DOMAIN queue |-> queue[i]]
  /\ DOMAIN debounce \subseteq Readers \X EPCs
  /\ \A k \in DOMAIN debounce : debounce[k] \in Nat
  /\ gateRow \in [Readers -> GateEntry \cup {NoRow}]
  /\ accepted \in [1..(nextId - 1) -> Accepted]

StoreInit ==
  /\ queue = [i \in {} |-> NoRow]
  /\ nextId = 1
  /\ debounce = [k \in {} |-> 0]
  /\ gateRow = [r \in Readers |-> NoRow]
  /\ accepted = [i \in {} |-> NoRow]

\* A write that may fail, leaving the database as it was.
OrFail(Write) ==
  \/ Write /\ UNCHANGED spent
  \/ Spend("db") /\ UNCHANGED storeVars

----------------------------------------------------------------------------
(* Admission and debounce *)

\* Mutant: a clock that moved backward counts as a long time elapsed.
MutElapsedBackward(at, last) == IF at < last THEN Debounce ELSE at - last

\* A clock that moved backward counts as no time elapsed.
Elapsed(at, last) == IF at < last THEN 0 ELSE at - last

DebounceHit(r, e, at) ==
  /\ <<r, e>> \in DOMAIN debounce
  /\ Elapsed(at, debounce[<<r, e>>]) < Debounce

\* The accepting transaction: insert the row and move the debounce mark.
InsertRow(r, e, at, booth) ==
  /\ queue' = [i \in DOMAIN queue \cup {nextId} |->
                 IF i = nextId
                 THEN [reader |-> r, epc |-> e, checked |-> at, attempts |-> 0, next |-> at]
                 ELSE queue[i]]
  /\ debounce' = [k \in DOMAIN debounce \cup {<<r, e>>} |->
                    IF k = <<r, e>> THEN at ELSE debounce[k]]
  /\ nextId' = nextId + 1
  /\ accepted' = [i \in 1..nextId |->
                    IF i = nextId
                    THEN [reader |-> r, epc |-> e, checked |-> at, seen |-> clockMax, booth |-> booth]
                    ELSE accepted[i]]
  /\ UNCHANGED gateRow

\* Old marks go, except those of a scan that is still queued.
CleanupDebounce(before) ==
  /\ debounce' = [k \in {j \in DOMAIN debounce :
                           \/ ~(debounce[j] < before)
                           \/ \E i \in DOMAIN queue : <<queue[i].reader, queue[i].epc>> = j}
                    |-> debounce[k]]
  /\ UNCHANGED <<queue, nextId, gateRow, accepted>>

----------------------------------------------------------------------------
(* The delivery queue *)

Due(now, readers) ==
  {i \in DOMAIN queue : queue[i].next <= now /\ queue[i].reader \in readers}

\* ORDER BY checked_at_unix_ms, id
Before(i, j) == \/ queue[i].checked < queue[j].checked
                \/ queue[i].checked = queue[j].checked /\ i <= j

\* The row NextDue returns, if any is due.
IsNextDue(i, now, readers) ==
  i \in Due(now, readers) /\ \A j \in Due(now, readers) : Before(i, j)

RowsOf(readers) == {i \in DOMAIN queue : queue[i].reader \in readers}

\* A row with the next_attempt time that NextDueAtMS returns, if there is one.
IsEarliest(i, readers) ==
  i \in RowsOf(readers) /\ \A j \in RowsOf(readers) : queue[i].next <= queue[j].next

DeleteRows(ids) ==
  /\ queue' = [i \in DOMAIN queue \ ids |-> queue[i]]
  /\ UNCHANGED <<nextId, debounce, gateRow, accepted>>

CompleteRow(id) == DeleteRows({id})

\* Mutant: the retry also moves the scan time.
MutRetryMovesScan(id, next) ==
  /\ queue' = [i \in DOMAIN queue |->
                 IF i = id THEN [queue[i] EXCEPT !.attempts = @ + 1, !.next = next, !.checked = next]
                 ELSE queue[i]]
  /\ UNCHANGED <<nextId, debounce, gateRow, accepted>>

RetryLater(id, next) ==
  /\ queue' = [i \in DOMAIN queue |->
                 IF i = id THEN [queue[i] EXCEPT !.attempts = @ + 1, !.next = next] ELSE queue[i]]
  /\ UNCHANGED <<nextId, debounce, gateRow, accepted>>

MarkAttemptKeepDue(id) ==
  /\ queue' = [i \in DOMAIN queue |->
                 IF i = id THEN [queue[i] EXCEPT !.attempts = @ + 1] ELSE queue[i]]
  /\ UNCHANGED <<nextId, debounce, gateRow, accepted>>

ExpireBefore(cutoff) == DeleteRows({i \in DOMAIN queue : queue[i].checked < cutoff})

Pending(r) == {i \in DOMAIN queue : queue[i].reader = r}

----------------------------------------------------------------------------
(* Gate rows *)

\* Mutant: a nil meta overwrites the columns.
MutUpsertNil(row, put) == [state |-> put.state, fp |-> put.fp, meta |-> put.meta]

\* The fingerprint is overwritten even by ""; a nil meta keeps the columns.
UpsertGate(row, put) ==
  [state |-> put.state, fp |-> put.fp, meta |-> IF put.meta = Empty THEN row.meta ELSE put.meta]

SetGate(r, put) ==
  /\ gateRow' = [gateRow EXCEPT ![r] = UpsertGate(@, put)]
  /\ UNCHANGED <<queue, nextId, debounce, accepted>>
=============================================================================
