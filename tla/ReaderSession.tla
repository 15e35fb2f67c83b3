---------------------------- MODULE ReaderSession ----------------------------
(***************************************************************************)
(* internal/reader/session/session.go: one reader's TCP session.  Run      *)
(* dials, drains a running inventory, initialises, inventories and         *)
(* reconnects; serve's pump goroutine moves what conn.Read returns into    *)
(* the chunks channel; the reader itself (external) answers its commands   *)
(* in order, ignores settings while it inventories, and streams tags.      *)
(*                                                                         *)
(* A line is what protocol.Parse makes of it: its kind and the command     *)
(* letter it answers.  Chunks hold whole lines, which is what module       *)
(* Framer shows of them.                                                   *)
(***************************************************************************)
EXTENDS Naturals, Sequences, Functions

CONSTANTS CfgPower,     \* config powerGain
          GoodPowers,   \* values CmdSetPower accepts (50..300)
          BadPower,     \* a value it refuses
          NoPower,      \* the reconfig channel is empty
          ChunkCap,     \* capacity of the chunks channel, 64 in the code
          WireCap,      \* bound: lines the network holds
          AttemptCap,   \* bound: reconnectDelay is constant from 2 on
          Budget        \* bound: how often each kind of fault or request occurs

ASSUME SessionConstants ==
    /\ CfgPower \in GoodPowers /\ BadPower \notin GoodPowers
    /\ NoPower \notin GoodPowers \cup {BadPower}
    /\ ChunkCap \in Nat \ {0} /\ WireCap \in Nat \ {0} /\ AttemptCap \in Nat
    /\ Budget \in [{"dial", "cut", "mute", "late", "power", "cancel"} -> Nat]

VARIABLES dev,        \* the reader: inventorying, power, unread commands
          link,       \* the TCP connection
          wire,       \* lines sent by the reader, not yet read
          chunks,     \* the chunks channel
          ses,        \* the session goroutine
          reconfig,   \* the one-slot reconfig channel
          cancelled,  \* ctx
          handed,     \* ghost: were the tags handed over of an inventory of this connection
          budget      \* bound: what is left of Budget

sessionVars == <<dev, link, wire, chunks, ses, reconfig, cancelled, handed, budget>>

Settings == {"v", "b", "p", "i"}
Commands == Settings \cup {"3", "f"}
Line == [kind : {"ack", "setting", "tag"}, code : Commands \cup {"T"}, fresh : BOOLEAN]
SessionPcs == {"dial", "stop", "drain", "issue", "await", "inv", "sleep", "end"}

SessionTypeOK ==
    /\ dev \in [inv : BOOLEAN, power : GoodPowers, began : BOOLEAN,
                cmds : Seq([name : Commands, power : GoodPowers])]
    /\ link \in {"closed", "up", "cut"}
    /\ wire \in Seq(Line) /\ chunks \in Seq(Seq(Line)) /\ Len(chunks) <= ChunkCap
    /\ ses \in [pc : SessionPcs, plan : Seq(Commands), power : GoodPowers,
                inInit : BOOLEAN, attempt : 0..AttemptCap]
    /\ reconfig \in GoodPowers \cup {BadPower, NoPower}
    /\ cancelled \in BOOLEAN
    /\ handed \subseteq BOOLEAN
    /\ budget \in [DOMAIN Budget -> Nat]

\* A reader in Reader Mode x=1 inventories before anyone connects.
SessionInit ==
    /\ dev \in [inv : BOOLEAN, power : GoodPowers, began : {FALSE}, cmds : {<<>>}]
    /\ link = "closed" /\ wire = <<>> /\ chunks = <<>>
    /\ ses = [pc |-> "dial", plan |-> <<>>, power |-> CfgPower, inInit |-> TRUE, attempt |-> 0]
    /\ reconfig = NoPower /\ cancelled = FALSE /\ handed = {} /\ budget = Budget

Use(kind) == budget[kind] > 0 /\ budget' = [budget EXCEPT ![kind] = @ - 1]

-----------------------------------------------------------------------------
(* The reader and the network (external) *)

Ignored(c) == dev.inv /\ c.name \in Settings

Executed(c) == [dev EXCEPT !.cmds = Tail(@),
                           !.inv = IF c.name = "3" THEN FALSE ELSE c.name = "f" \/ @,
                           !.began = @ \/ c.name = "f",
                           !.power = IF c.name = "p" /\ ~Ignored(c) THEN c.power ELSE @]

Reply(c) == [kind |-> IF c.name \in Settings THEN "setting" ELSE "ack",
             code |-> c.name, fresh |-> FALSE]

DeviceHandle ==
    /\ link = "up" /\ dev.cmds # <<>> /\ Len(wire) <= WireCap
    /\ LET c == Head(dev.cmds) IN
       /\ dev' = Executed(c)
       /\ wire' = IF Ignored(c) THEN wire ELSE Append(wire, Reply(c))
    /\ UNCHANGED <<link, chunks, ses, reconfig, cancelled, handed, budget>>

\* A command takes effect without an answer, or is lost altogether.
DeviceMute ==
    /\ link = "up" /\ dev.cmds # <<>> /\ Use("mute")
    /\ \/ dev' = Executed(Head(dev.cmds))
       \/ dev' = [dev EXCEPT !.cmds = Tail(@)]
    /\ UNCHANGED <<link, wire, chunks, ses, reconfig, cancelled, handed>>

DeviceTag ==
    /\ link = "up" /\ dev.inv /\ Len(wire) < WireCap
    /\ wire' = Append(wire, [kind |-> "tag", code |-> "T", fresh |-> dev.began])
    /\ UNCHANGED <<dev, link, chunks, ses, reconfig, cancelled, handed, budget>>

\* The cable is pulled or the reader reboots, into either boot mode.
LinkCut ==
    /\ link = "up" /\ Use("cut")
    /\ link' = "cut" /\ wire' \in {wire, <<>>}
    /\ \E inv \in BOOLEAN, p \in GoodPowers :
         dev' = [dev EXCEPT !.inv = inv, !.power = p, !.cmds = <<>>]
    /\ UNCHANGED <<chunks, ses, reconfig, cancelled, handed>>

-----------------------------------------------------------------------------
(* serve's pump goroutine: any number of lines per Read, blocked while the channel is full *)

Pump ==
    /\ link # "closed" /\ wire # <<>> /\ Len(chunks) < ChunkCap
    /\ \E n \in 1..Len(wire) :
         /\ chunks' = Append(chunks, SubSeq(wire, 1, n))
         /\ wire' = SubSeq(wire, n + 1, Len(wire))
    /\ UNCHANGED <<dev, link, ses, reconfig, cancelled, handed, budget>>

-----------------------------------------------------------------------------
(* Run and serve *)

InitPlan == <<"v", "b", "p", "i", "f">>

\* reconfigure that changes the power under a running inventory.
MutReconfigPlan == <<"p", "f">>

ReconfigPlan == <<"3", "p", "f">>

\* sleep is entered with this attempt.
Asleep(attempt) == [ses EXCEPT !.pc = "sleep", !.plan = <<>>, !.attempt = attempt]

DialOk ==
    /\ ses.pc = "dial" /\ ~cancelled
    /\ link' = "up" /\ dev' = [dev EXCEPT !.cmds = <<>>, !.began = FALSE]
    /\ ses' = [ses EXCEPT !.pc = "stop", !.plan = <<>>, !.power = CfgPower, !.inInit = TRUE]
    /\ UNCHANGED <<wire, chunks, reconfig, cancelled, handed, budget>>

DialFailed ==
    /\ ses.pc = "dial" /\ ~cancelled /\ Use("dial")
    /\ ses' = Asleep(ses.attempt)
    /\ UNCHANGED <<dev, link, wire, chunks, reconfig, cancelled, handed>>

SleepOver ==
    /\ ses.pc = "sleep"
    /\ ses' = [ses EXCEPT !.pc = "dial", !.attempt = IF @ < AttemptCap THEN @ + 1 ELSE @]
    /\ UNCHANGED <<dev, link, wire, chunks, reconfig, cancelled, handed, budget>>

\* serve returns: conn.Close, and attempt restarts if inventory was entered.
CloseConn ==
    /\ link' = "closed" /\ wire' = <<>> /\ chunks' = <<>>
    /\ dev' = [dev EXCEPT !.cmds = <<>>]
    /\ ses' = IF cancelled THEN [ses EXCEPT !.pc = "end"]
              ELSE Asleep(IF ses.inInit THEN ses.attempt ELSE 0)

WriteCmd(name, pc) ==
    /\ ses' = [ses EXCEPT !.pc = pc]
    /\ dev' = IF link = "cut" THEN dev
              ELSE [dev EXCEPT !.cmds = Append(@, [name |-> name, power |-> ses.power])]
    /\ UNCHANGED <<link, wire, chunks>>

\* stopAndDrain's and command's Write.  On a broken connection it may still succeed.
Issue ==
    /\ \/ ses.pc = "stop" /\ WriteCmd("3", "drain")
       \/ ses.pc = "issue" /\ WriteCmd(Head(ses.plan), "await")
       \/ ses.pc \in {"stop", "issue"} /\ link = "cut" /\ CloseConn
    /\ UNCHANGED <<reconfig, cancelled, handed, budget>>

\* A matcher that accepts any reply.
MutMatches(name, line) == line.kind # "tag"

\* MatchAck and MatchSetting: the kind and the letter, not the value.
Matches(name, line) ==
    line.kind = (IF name \in Settings THEN "setting" ELSE "ack") /\ line.code = name

Tags(lines) == {l \in Range(lines) : l.kind = "tag"}

\* dispatch without its inInit check.
MutDispatch(lines) == handed' = handed \cup {l.fresh : l \in Tags(lines)}

\* dispatch: a tag goes to the handler, but not before initialisation is over.
Dispatch(lines) ==
    handed' = IF ses.inInit THEN handed ELSE handed \cup {l.fresh : l \in Tags(lines)}

DrainChunk ==
    /\ ses.pc = "drain" /\ chunks # <<>>
    /\ chunks' = Tail(chunks)
    /\ ses' = IF \E l \in Range(Head(chunks)) : Matches("3", l)
              THEN [ses EXCEPT !.pc = "issue", !.plan = InitPlan] ELSE ses
    /\ UNCHANGED <<dev, link, wire, reconfig, cancelled, handed, budget>>

\* stopSettle passes without the ack.
DrainSettled ==
    /\ ses.pc = "drain"
    /\ ses' = [ses EXCEPT !.pc = "issue", !.plan = InitPlan]
    /\ UNCHANGED <<dev, link, wire, chunks, reconfig, cancelled, handed, budget>>

\* command returned nil: the next step, or inventory, which ends initialisation.
Answered == IF Len(ses.plan) = 1
            THEN [ses EXCEPT !.pc = "inv", !.plan = <<>>, !.inInit = FALSE]
            ELSE [ses EXCEPT !.pc = "issue", !.plan = Tail(@)]

AwaitChunk ==
    /\ ses.pc = "await" /\ chunks # <<>>
    /\ chunks' = Tail(chunks)
    /\ ses' = IF \E l \in Range(Head(chunks)) : Matches(Head(ses.plan), l) THEN Answered ELSE ses
    /\ Dispatch(Head(chunks))
    /\ UNCHANGED <<dev, link, wire, reconfig, cancelled, budget>>

\* Nothing under way can answer the command.
Silent == /\ dev.cmds = <<>>
          /\ \A l \in Range(wire) \cup UNION {Range(c) : c \in Range(chunks)} :
               ~Matches(Head(ses.plan), l)

\* A command that gives up only when the connection breaks.
MutCommandTimeout ==
    /\ ses.pc = "await" /\ link = "cut"
    /\ CloseConn
    /\ UNCHANGED <<reconfig, cancelled, handed, budget>>

\* cmdTimeout: the reader will not answer, or answers too late.
CommandTimeout ==
    /\ ses.pc = "await"
    /\ \/ Silent /\ UNCHANGED budget
       \/ Use("late")
    /\ CloseConn
    /\ UNCHANGED <<reconfig, cancelled, handed>>

\* select may take readErr although chunks are still queued: they are lost.
ReadErr ==
    /\ ses.pc \in {"drain", "await", "inv"} /\ link = "cut" /\ wire = <<>>
    /\ CloseConn
    /\ UNCHANGED <<reconfig, cancelled, handed, budget>>

InvChunk ==
    /\ ses.pc = "inv" /\ chunks # <<>>
    /\ chunks' = Tail(chunks) /\ Dispatch(Head(chunks))
    /\ UNCHANGED <<dev, link, wire, ses, reconfig, cancelled, budget>>

\* reconfigure: an invalid power is refused and inventory goes on.
InvReconfig ==
    /\ ses.pc = "inv" /\ reconfig # NoPower
    /\ reconfig' = NoPower
    /\ ses' = IF reconfig = BadPower THEN ses
              ELSE [ses EXCEPT !.pc = "issue", !.plan = ReconfigPlan, !.power = reconfig]
    /\ UNCHANGED <<dev, link, wire, chunks, cancelled, handed, budget>>

CtxDone ==
    /\ cancelled
    /\ \/ ses.pc \in {"drain", "await", "inv"} /\ CloseConn
       \/ /\ ses.pc \in {"dial", "sleep"}
          /\ ses' = [ses EXCEPT !.pc = "end"] /\ UNCHANGED <<dev, link, wire, chunks>>
    /\ UNCHANGED <<reconfig, cancelled, handed, budget>>

-----------------------------------------------------------------------------
(* The callers *)

RequestPower(v) ==
    /\ Use("power") /\ ses.pc # "end"
    /\ reconfig' = IF reconfig = NoPower THEN v ELSE reconfig
    /\ UNCHANGED <<dev, link, wire, chunks, ses, cancelled, handed>>

\* ctx ends; serve's AfterFunc closes the connection.
CancelCtx ==
    /\ ~cancelled /\ Use("cancel")
    /\ cancelled' = TRUE
    /\ link' = IF link = "up" THEN "cut" ELSE link
    /\ wire' = <<>>
    /\ dev' = [dev EXCEPT !.cmds = <<>>]
    /\ UNCHANGED <<chunks, ses, reconfig, handed>>

-----------------------------------------------------------------------------

SessionStep == \/ DialOk \/ SleepOver \/ Issue \/ DrainChunk \/ DrainSettled
               \/ AwaitChunk \/ CommandTimeout \/ ReadErr \/ InvChunk \/ InvReconfig \/ CtxDone

DeviceStep == DeviceHandle \/ DeviceMute \/ DeviceTag \/ LinkCut

SessionNext == \/ SessionStep \/ DialFailed \/ DeviceStep \/ Pump \/ CancelCtx
               \/ \E v \in GoodPowers \cup {BadPower} : RequestPower(v)

SessionSpec == SessionInit /\ [][SessionNext]_sessionVars

(* The goroutines run, the reader answers what it reads, and a connection *)
(* attempt is answered: the faults are bounded by Budget.                 *)
SessionFairness ==
    /\ WF_sessionVars(DialOk) /\ WF_sessionVars(SleepOver) /\ WF_sessionVars(Issue)
    /\ WF_sessionVars(DrainChunk) /\ WF_sessionVars(DrainSettled)
    /\ WF_sessionVars(AwaitChunk) /\ WF_sessionVars(CommandTimeout) /\ WF_sessionVars(ReadErr)
    /\ WF_sessionVars(InvChunk) /\ WF_sessionVars(InvReconfig) /\ WF_sessionVars(CtxDone)
    /\ WF_sessionVars(DeviceHandle) /\ WF_sessionVars(Pump)

SessionLiveSpec == SessionSpec /\ SessionFairness

-----------------------------------------------------------------------------
(* Properties *)

(***************************************************************************)
(* A tag that reaches admission was read by an inventory this connection   *)
(* started: no tag of an inventory left over from a boot or an earlier     *)
(* session gets through, whatever chunks the lines arrive in (dispatch's   *)
(* inInit check, invariant 9).                                             *)
(***************************************************************************)
OnlyFreshTags == FALSE \notin handed

(***************************************************************************)
(* While the session believes it inventories over a live connection, the   *)
(* reader has executed every command, inventories, and has the power last  *)
(* asked for: a reply of one command is never taken for another's, not     *)
(* even a Stop ack that arrives after stopSettle (command, consumeUntil).  *)
(***************************************************************************)
InventoryMeansRunning ==
    ses.pc = "inv" /\ link = "up" => dev.inv /\ dev.cmds = <<>> /\ dev.power = ses.power

(***************************************************************************)
(* The reader is not sent a setting it would ignore, as it does during     *)
(* inventory, unless it lost the Stop: Stop precedes the settings in both  *)
(* the initialisation and reconfigure, and replies keep them in step.      *)
(***************************************************************************)
SettingsNotIgnored ==
    link = "up" /\ dev.cmds # <<>> /\ Ignored(Head(dev.cmds)) => budget["mute"] < Budget["mute"]

(***************************************************************************)
(* Once the faults are over the session is again and again in inventory    *)
(* until ctx is cancelled, and then it ends: neither a reader found        *)
(* inventorying, nor lost answers, nor a reconnect can hang Run.           *)
(***************************************************************************)
SessionSettles == []<>(ses.pc = (IF cancelled THEN "end" ELSE "inv"))
=============================================================================
