------------------------------- MODULE SeHal -------------------------------
(***************************************************************************)
(* The drivers behind se051_hal.h, one of which a build has: the AT        *)
(* protocol of ternarycore_se_hal.cpp over a UART, and the I2C packets of  *)
(* atecc608_hal_esp.cpp and se051_hal_esp.cpp.  Wallet and PsbtSigner take *)
(* a secure element whose calls succeed, fail, or lose their answer; this  *)
(* module asks which of that each driver keeps, when lines are late or     *)
(* lost, packets are not acknowledged or damaged, and the processor        *)
(* restarts while the element does not.                                    *)
(*                                                                         *)
(* One call stands for those of its shape: STORE for store, delete and     *)
(* self-test, READ for read_object, get_pubkey and get_random, SIGN for    *)
(* both signatures.  What is stored is not kept apart; the counter is.     *)
(***************************************************************************)
EXTENDS Integers, Sequences

CONSTANTS Backends,     \* the drivers looked at
          Retries,      \* TC_SE_INIT_RETRIES
          Tries,        \* SE051_I2C_RETRY_COUNT
          CtrMax,       \* the largest value of the byte the SE051 driver counts in
          MaxCalls,     \* bound: calls in a behaviour
          MaxRestarts   \* bound: restarts of the processor

ASSUME SeHalBounds ==
  /\ Backends \subseteq {"TERNARYCORE", "ATECC", "SE051"}
  /\ {Retries, Tries, CtrMax} \subseteq Nat \ {0} /\ {MaxCalls, MaxRestarts} \subseteq Nat

VARIABLES backend,
          hal,       \* the driver: ready, the call in progress and its step
          tx, rx,    \* UART: commands the element has not taken, lines the driver has not read
          out,       \* I2C: the last answer of the element
          ctr,       \* object 0x05 in the element
          ret,       \* what the last call returned, from: the command its answer was to
          did,       \* observability: numbers of the calls the element carried out
          clean,     \* observability: no command left unanswered since an se051_init had the answer of its own probe
          calls, restarts
vars == <<backend, hal, tx, rx, out, ctr, ret, did, clean, calls, restarts>>
element == <<tx, out, ctr, did>>

Calls == {"STORE", "READ", "SIGN", "GET", "INC", "RESET"}
Kind(op) == CASE op = "READ" -> "DATA" [] op = "SIGN" -> "SIG" [] op = "GET" -> "CTR"
              [] op = "INFO" -> "INFO" [] OTHER -> "OK"

NoReply == [kind |-> "none", id |-> 0, ctr |-> 0]
NoRet == [op |-> "INFO", id |-> 0, ok |-> FALSE, err |-> "SE_ERR_COMM", from |-> 0, value |-> 0]
Idle == [ready |-> FALSE, step |-> "idle", op |-> "INFO", id |-> 0, try |-> 0, part |-> 1, value |-> 0]
Uart == backend = "TERNARYCORE"
I2c == backend \in {"ATECC", "SE051"}

-----------------------------------------------------------------------------
(* The element: external, as the drivers expect it.  It takes commands in  *)
(* order, may refuse any, and is not reset with the processor.             *)

Counted(c, cmd) ==
  CASE cmd.op = "INC" -> IF c < CtrMax THEN c + 1 ELSE c
    [] cmd.op = "RESET" -> 0
    [] cmd.op = "SET" -> cmd.value
    [] OTHER -> c
Reply(c, cmd, carried) ==
  [kind |-> IF carried THEN Kind(cmd.op) ELSE "ERR", id |-> cmd.id, ctr |-> IF carried THEN c ELSE 0]
CarryOut(cmd, carried) ==
  /\ ctr' = IF carried THEN Counted(ctr, cmd) ELSE ctr
  /\ did' = IF carried /\ cmd.id > 0 THEN did \cup {cmd.id} ELSE did

(* What the driver returns, and where a call leaves it: the calls of       *)
(* se051_init in the next attempt, the others ready for the next call.     *)
Return(ok, err, from, value) ==
  ret' = [op |-> hal.op, id |-> hal.id, ok |-> ok, err |-> IF ok THEN "SE_OK" ELSE err,
          from |-> from, value |-> value]
Over(ok) ==
  IF hal.op # "INFO" \/ ok THEN [Idle EXCEPT !.ready = TRUE]
  ELSE IF Uart THEN [hal EXCEPT !.step = "init"] ELSE Idle

-----------------------------------------------------------------------------
(* TernaryCore: lines                                                      *)

Command(op, id, value) == [op |-> op, id |-> id, value |-> value]

\* Observability: each probe has a number of its own, below those of the calls.
ProbeId(try) == 0 - (restarts * Retries + try)
\* An attempt of se051_init: it reads away what has arrived, and asks.
Probe ==
  /\ Uart /\ hal.step = "init" /\ hal.try < Retries
  /\ hal' = [hal EXCEPT !.step = "wait", !.try = @ + 1]
  /\ rx' = <<>> /\ tx' = Append(tx, Command("INFO", ProbeId(hal.try + 1), 0))
  /\ UNCHANGED <<backend, out, ctr, ret, did, clean, calls, restarts>>
GiveUp ==
  /\ Uart /\ hal.step = "init" /\ hal.try = Retries
  /\ hal' = Idle
  /\ UNCHANGED <<backend, tx, rx, out, ctr, ret, did, clean, calls, restarts>>

\* strncmp with the prefix the call expects.
Answers(line, op) == line.kind = Kind(op)

SkipLine ==
  /\ Uart /\ hal.step = "wait" /\ rx # <<>>
  /\ Head(rx).kind # "ERR" /\ ~Answers(Head(rx), hal.op)
  /\ rx' = Tail(rx) /\ UNCHANGED <<backend, hal, ret, clean, calls, restarts>> /\ UNCHANGED element
\* ERR:n is an error; an answer whose hex has another length than asked for too.
TakeLine ==
  /\ Uart /\ hal.step = "wait" /\ rx # <<>>
  /\ LET line == Head(rx)
     IN \E whole \in BOOLEAN :
          LET ok == line.kind # "ERR" /\ whole
          IN /\ line.kind = "ERR" \/ Answers(line, hal.op)
             /\ whole \/ hal.op \in {"READ", "SIGN"}
             /\ Return(ok, "SE_ERR_INTERNAL", line.id, line.ctr)
             /\ hal' = Over(ok)
             /\ clean' = (clean \/ (ok /\ hal.op = "INFO" /\ line.id = ProbeId(hal.try)))
  /\ rx' = Tail(rx) /\ UNCHANGED <<backend, calls, restarts>> /\ UNCHANGED element
\* Mutant of DeadlineOver: the clock is looked at only when a line has come.
DeadlineWithLine == hal.step = "wait" /\ rx # <<>>
\* The deadline is looked at after each millisecond, whatever has come in it.
DeadlineOver == hal.step = "wait"
TimeOut ==
  /\ Uart /\ DeadlineOver
  /\ Return(FALSE, "SE_ERR_NOTFOUND", 0, 0) /\ hal' = Over(FALSE) /\ clean' = FALSE
  /\ UNCHANGED <<backend, rx, calls, restarts>> /\ UNCHANGED element

\* The element takes a line.  The line or its answer may be lost on the way,
\* the command refused (but INFO, which names no object).
TakeCommand ==
  /\ Uart /\ tx # <<>> /\ tx' = Tail(tx)
  /\ \/ \E carried, answered \in BOOLEAN :
          /\ carried \/ Head(tx).op # "INFO"
          /\ CarryOut(Head(tx), carried)
          /\ rx' = IF answered THEN Append(rx, Reply(ctr, Head(tx), carried)) ELSE rx
     \/ UNCHANGED <<rx, ctr, did>>
  /\ UNCHANGED <<backend, hal, out, ret, clean, calls, restarts>>

-----------------------------------------------------------------------------
(* I2C: packets.  The ATECC608B driver asks INFO and then the lock bytes   *)
(* in se051_init; the SE051 driver increments by a GET and a SET.          *)

Parts(op) == IF <<backend, op>> \in {<<"ATECC", "INFO">>, <<"SE051", "INC">>} THEN 2 ELSE 1
Packet ==
  CASE backend = "SE051" /\ hal.op = "INC" /\ hal.part = 1 -> Command("GET", 0, 0)
    [] backend = "SE051" /\ hal.op = "INC" /\ hal.part = 2 -> Command("SET", hal.id, hal.value)
    [] backend = "SE051" /\ hal.op = "RESET" -> Command("SET", hal.id, 0)
    [] OTHER -> Command(hal.op, hal.id, 0)
\* The SE051 driver writes these and reads no status back.
WrittenBlind == backend = "SE051" /\ Packet.op \in {"INFO", "STORE", "SET"}

\* Mutant of AtLimit: the byte is incremented without a look at it.
AtLimitNever(value) == FALSE
\* if (current >= 255) return SE_ERR_MEMORY
AtLimit(value) == value >= CtrMax

\* How the transfer of the current part ends the call or leads to the next part.
Failed(err) == Return(FALSE, err, 0, 0) /\ hal' = Over(FALSE)
Done(from, value) == Return(TRUE, "SE_OK", from, value) /\ hal' = Over(TRUE)
SetNext(value) ==
  IF AtLimit(value) THEN Failed("SE_ERR_MEMORY")
  ELSE hal' = [hal EXCEPT !.part = 2, !.step = "send", !.try = 0, !.value = (value + 1) % (CtrMax + 1)]
       /\ UNCHANGED ret

\* se051_init of the ATECC608B: no answer about the lock is no obstacle, and
\* an unlocked element is reported but used.
LockKnown == \E locked \in BOOLEAN : Return(locked, "SE_ERR_LOCKED", 0, 0) /\ hal' = Over(TRUE)
Unreachable(err) ==
  CASE <<backend, hal.op, hal.part>> = <<"SE051", "INC", 1>> -> SetNext(0)
    [] <<backend, hal.op, hal.part>> = <<"ATECC", "INFO", 2>> -> Done(0, 0)
    [] OTHER -> Failed(err)

\* The ATECC608B driver tells an answer from an error by its length, and
\* looks at the status of a write.
InfoAnswer(err, a) ==
  IF hal.part = 1
  THEN IF err = "SE_OK" /\ a.kind = "INFO"
       THEN hal' = [hal EXCEPT !.part = 2, !.step = "send", !.try = 0] /\ UNCHANGED ret
       ELSE Failed("SE_ERR_COMM")
  ELSE IF err = "SE_OK" /\ a.kind = "INFO" THEN LockKnown ELSE Done(0, 0)
\* Mutant of StoreAnswer: the status of the write is not looked at.
StoreAnswerUnread(err, a) == IF err # "SE_OK" THEN Failed(err) ELSE Done(a.id, 0)
StoreAnswer(err, a) ==
  IF err # "SE_OK" THEN Failed(err)
  ELSE IF a.kind = "ERR" THEN Failed("SE_ERR_LOCKED") ELSE Done(a.id, 0)
ReadAnswer(err, a) ==
  IF err # "SE_OK" THEN Failed(err)
  ELSE IF a.kind = "ERR" THEN Failed("SE_ERR_NOTFOUND") ELSE Done(a.id, 0)
SignAnswer(err, a) ==
  IF err # "SE_OK" THEN Failed(err)
  ELSE IF a.kind = "ERR" THEN Failed("SE_ERR_COMM") ELSE Done(a.id, 0)
\* Whatever came back, the counter has been read, as 0 if need be, or incremented.
CounterAnswer(err, a) ==
  Done(a.id, IF hal.op = "GET" /\ err = "SE_OK" /\ a.kind = "CTR" THEN a.ctr ELSE 0)
AteccAnswer(err, a) ==
  CASE hal.op = "INFO" -> InfoAnswer(err, a)
    [] hal.op = "STORE" -> StoreAnswer(err, a)
    [] hal.op = "READ" -> ReadAnswer(err, a)
    [] hal.op = "SIGN" -> SignAnswer(err, a)
    [] hal.op \in {"GET", "INC"} -> CounterAnswer(err, a)

\* The SE051 driver takes the bytes it reads for the result, whatever they are.
Bytes(a) == IF a.kind = "CTR" THEN {a.ctr} ELSE {0, CtrMax}
Se051Answer(a) ==
  \E byte \in Bytes(a) :
    IF hal.op = "INC" THEN SetNext(byte) ELSE Done(a.id, IF hal.op = "GET" THEN byte ELSE 0)

\* Mutant of Again: one attempt too many.
AgainOnce == hal.try < Tries
Again == hal.try + 1 < Tries
Retry(err) ==
  IF Again THEN hal' = [hal EXCEPT !.try = @ + 1] /\ UNCHANGED ret ELSE Unreachable(err)

\* endTransmission: a packet may arrive although its acknowledgement does not.
SendPacket ==
  /\ I2c /\ hal.step = "send"
  /\ \E acked, arrived, carried \in BOOLEAN :
       /\ acked => arrived
       /\ carried => arrived
       /\ IF arrived THEN CarryOut(Packet, carried) ELSE UNCHANGED <<ctr, did>>
       /\ out' = IF arrived THEN Reply(ctr, Packet, carried) ELSE out
       /\ CASE ~acked -> Retry("SE_ERR_COMM")
            [] acked /\ WrittenBlind -> Done(hal.id, 0)
            [] OTHER -> hal' = [hal EXCEPT !.step = "recv", !.try = 0] /\ UNCHANGED ret
  /\ UNCHANGED <<backend, tx, rx, clean, calls, restarts>>

\* requestFrom: no bytes, or (ATECC608B) a packet whose CRC or length is wrong.
RecvPacket ==
  /\ I2c /\ hal.step = "recv"
  /\ \/ Again /\ Retry("SE_ERR_COMM")
     \/ backend = "ATECC" /\ ~Again /\ AteccAnswer("SE_ERR_COMM", NoReply)
     \/ backend = "SE051" /\ ~Again /\ Unreachable("SE_ERR_COMM")
     \/ backend = "ATECC" /\ AteccAnswer("SE_ERR_PARAM", NoReply)
     \/ backend = "ATECC" /\ AteccAnswer("SE_OK", out)
     \/ backend = "SE051" /\ Se051Answer(out)
  /\ UNCHANGED <<backend, tx, rx, out, ctr, did, clean, calls, restarts>>

-----------------------------------------------------------------------------
(* The calls, and the processor                                            *)

\* What a call returns before anything is sent.
Refusals(op) ==
  IF backend = "ATECC" /\ op = "RESET" THEN {"SE_ERR_NOTFOUND"}
  ELSE IF backend = "ATECC" /\ op = "SIGN"
       THEN {"SE_ERR_NOTFOUND", IF hal.ready THEN "SE_ERR_PARAM" ELSE "SE_ERR_COMM"}
  ELSE IF hal.ready THEN {} ELSE {IF I2c /\ op = "GET" THEN "SE_ERR_PARAM" ELSE "SE_ERR_COMM"}
MustRefuse(op) == ~hal.ready \/ (backend = "ATECC" /\ op = "RESET")

Begin(op, id) ==
  hal' = [Idle EXCEPT !.ready = hal.ready, !.op = op, !.id = id,
                      !.step = IF Uart THEN "wait" ELSE "send"]
Call(op) ==
  /\ hal.step = "idle" /\ calls < MaxCalls /\ calls' = calls + 1
  /\ \/ \E err \in Refusals(op) :
          /\ ret' = [op |-> op, id |-> calls', ok |-> FALSE, err |-> err, from |-> 0, value |-> 0]
          /\ UNCHANGED <<hal, tx>>
     \/ /\ ~MustRefuse(op)
        /\ Begin(op, calls') /\ UNCHANGED ret
        /\ tx' = IF Uart THEN Append(tx, Command(op, calls', 0)) ELSE tx
  /\ UNCHANGED <<backend, rx, out, ctr, did, clean, restarts>>

Booting == [Idle EXCEPT !.step = IF Uart THEN "init" ELSE "send"]
Restart ==
  /\ restarts < MaxRestarts /\ restarts' = restarts + 1
  /\ hal' = Booting /\ rx' = <<>> /\ ret' = NoRet
  /\ clean' = (clean /\ hal.step # "wait")
  /\ UNCHANGED <<backend, tx, out, ctr, did, calls>>

Init ==
  /\ backend \in Backends /\ hal = Booting
  /\ tx = <<>> /\ rx = <<>> /\ out = NoReply /\ ret = NoRet
  /\ ctr \in {0, CtrMax} /\ did = {} /\ clean = TRUE
  /\ calls = 0 /\ restarts = 0

DriverStep ==
  Probe \/ GiveUp \/ SkipLine \/ TakeLine \/ TimeOut \/ SendPacket \/ RecvPacket
Next == DriverStep \/ TakeCommand \/ Restart \/ \E op \in Calls : Call(op)

\* The calls block the one task that makes them: it runs until they return.
Spec == Init /\ [][Next]_vars /\ WF_vars(DriverStep)

-----------------------------------------------------------------------------
(* Properties                                                              *)

\* Types, and the bounds of the retries: an attempt has a number below the
\* count of its loop.
SeHalTypeOK ==
  /\ backend \in Backends /\ ctr \in 0..CtrMax /\ did \subseteq 0..MaxCalls
  /\ hal.step \in {"idle", "init", "wait", "send", "recv"}
  /\ hal.op \in Calls \cup {"INFO"} /\ hal.part \in 1..Parts(hal.op) /\ hal.value \in 0..CtrMax
  /\ hal.try <= IF Uart THEN Retries ELSE Tries - 1
  /\ ret.op \in Calls \cup {"INFO"} /\ ret.value \in 0..CtrMax /\ ret.ok = (ret.err = "SE_OK")
  /\ out.kind \in {"none", "ERR"} \cup {Kind(op) : op \in Calls \cup {"INFO", "SET"}}

\* SE_OK means that the element did what this call asked: over the UART as
\* long as no command has been left unanswered, by a time-out or by a restart
\* of the processor in the middle of a call, since power-up or since an
\* se051_init that was answered by its last probe; over I2C with the
\* ATECC608B, but for its counter.
OkMeansDone ==
  ret.ok /\ ret.op # "INFO" =>
    CASE Uart -> clean => ret.id \in did
      [] backend = "ATECC" -> ret.op \notin {"GET", "INC"} => ret.id \in did
      [] OTHER -> TRUE

\* The SE051 driver counts in a byte it reads, increments and writes: no
\* increment, whatever its read brought, ever writes zero, which would give
\* back all PIN attempts.
CounterNeverWraps ==
  [][backend = "SE051" /\ hal.op = "INC" /\ ctr' # ctr => ctr' > 0]_vars

\* Every call returns, lost lines and unacknowledged packets or not.
CallReturns == hal.step # "idle" ~> hal.step = "idle"
=============================================================================
