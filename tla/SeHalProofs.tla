---------------------------- MODULE SeHalProofs ----------------------------
(***************************************************************************)
(* The properties of SeHal that are not liveness, for any number of calls, *)
(* restarts and attempts and a counter of any width: the type of the state *)
(* with its bounds, an answer that is its own call's, and a counter that   *)
(* no increment takes back to zero.                                        *)
(***************************************************************************)
EXTENDS SeHal, SequenceTheorems, TLAPS

Ops      == Calls \cup {"INFO"}
Commands == [op : Ops \cup {"GET", "SET"}, id : Int, value : 0..CtrMax]
Answered == {"ERR"} \cup {Kind(op) : op \in Ops \cup {"SET"}}
Lines    == [kind : Answered \cup {"none"}, id : Int, ctr : 0..CtrMax]
Steps    == IF Uart THEN {"idle", "init", "wait"} ELSE {"idle", "send", "recv"}
HalStates == [ready : BOOLEAN, step : {"idle", "init", "wait", "send", "recv"}, op : Ops,
              id : Nat, try : Nat, part : {1, 2}, value : 0..CtrMax]

(* The calls and their answers keep their types, the attempts their bounds.   *)
RetInv ==
  /\ ret.op \in Ops /\ ret.ok \in BOOLEAN /\ ret.value \in 0..CtrMax
  /\ ret.ok = (ret.err = "SE_OK")
HalInv ==
  /\ hal \in HalStates /\ hal.step \in Steps
  /\ Uart => hal.try <= Retries
  /\ I2c => hal.try < Tries
  /\ hal.part = 2 => I2c /\ Parts(hal.op) = 2
  /\ hal.step = "idle" => hal.op = "INFO" /\ hal.part = 1 /\ hal.try = 0
  /\ hal.step = "init" => hal.op = "INFO"
  /\ Uart /\ hal.op # "INFO" => hal.step = "wait"
  /\ hal.id = IF hal.op = "INFO" THEN 0 ELSE calls
  /\ hal.op # "INFO" => calls > 0
  /\ backend = "ATECC" => hal.op # "RESET"
ElementInv ==
  /\ backend \in Backends /\ ctr \in 0..CtrMax /\ clean \in BOOLEAN
  /\ calls \in 0..MaxCalls /\ restarts \in Nat /\ did \subseteq 0..MaxCalls
  /\ tx \in Seq(Commands) /\ rx \in Seq(Lines) /\ out \in Lines
TypeInv == ElementInv /\ HalInv /\ RetInv

(* The value that the second packet of an increment writes.                   *)
ByteInv == backend = "SE051" /\ hal.op = "INC" /\ hal.part = 2 => hal.value > 0

(* Over the UART the commands have numbers of their own: each probe is below, *)
(* and each call above, all that are still under way.                         *)
Lowest == IF hal.step \in {"init", "wait"} /\ hal.op = "INFO" THEN ProbeId(hal.try) ELSE ProbeId(Retries)
Own    == IF hal.op = "INFO" THEN ProbeId(hal.try) ELSE hal.id
UnderWay == {tx[i].id : i \in 1..Len(tx)} \cup {rx[i].id : i \in 1..Len(rx)}
IdInv == UnderWay \subseteq Lowest..calls

(* The line is a queue: behind the command of this call nothing is under way. *)
FifoInv ==
  hal.step = "wait" =>
    /\ \A i \in 1..Len(tx) : tx[i].id = Own => i = Len(tx)
    /\ \A i \in 1..Len(rx) : rx[i].id = Own => i = Len(rx) /\ tx = <<>>

(* Nothing but the command of this call is under way as long as none was left *)
(* unanswered.                                                                *)
CleanInv ==
  clean =>
    /\ hal.step \in {"idle", "init"} => tx = <<>> /\ rx = <<>>
    /\ hal.step = "wait" => \/ Len(tx) = 1 /\ rx = <<>> /\ tx[1].id = Own
                            \/ Len(rx) = 1 /\ tx = <<>> /\ rx[1].id = Own
                            \/ tx = <<>> /\ rx = <<>>

(* An answer that is no error was given by an element that had done it.       *)
DoneInv ==
  /\ \A i \in 1..Len(rx) : rx[i].kind # "ERR" /\ rx[i].id > 0 => rx[i].id \in did
  /\ backend = "ATECC" /\ hal.step = "recv" =>
       out.id = hal.id /\ (out.kind # "ERR" /\ out.id > 0 => out.id \in did)

SeHalInv == TypeInv /\ ByteInv /\ (Uart => IdInv /\ FifoInv /\ CleanInv) /\ DoneInv /\ OkMeansDone

-----------------------------------------------------------------------------
LEMMA Bounds ==
  /\ Retries \in Nat /\ Retries > 0 /\ Tries \in Nat /\ Tries > 0 /\ CtrMax \in Nat /\ CtrMax > 0
  /\ MaxCalls \in Nat /\ MaxRestarts \in Nat
  /\ Backends \subseteq {"TERNARYCORE", "ATECC", "SE051"}
BY SeHalBounds

LEMMA Drivers ==
  ASSUME ElementInv
  PROVE  /\ backend \in {"TERNARYCORE", "ATECC", "SE051"}
         /\ Uart <=> ~I2c
         /\ I2c <=> backend \in {"ATECC", "SE051"}
BY Bounds DEF ElementInv, Uart, I2c

LEMMA Kinds ==
  /\ \A op \in Ops \cup {"SET"} : Kind(op) \in Answered /\ Kind(op) # "ERR"
  /\ Ops = {"INFO", "STORE", "READ", "SIGN", "GET", "INC", "RESET"}
BY DEF Kind, Answered, Ops, Calls

(* Numbers of probes: they go down, with the attempts and with the restarts.  *)
LEMMA ProbeIds ==
  ASSUME restarts \in Nat
  PROVE  /\ \A t \in Nat : ProbeId(t) \in Int /\ ProbeId(t) <= 0
         /\ \A t, u \in Nat : t < u => ProbeId(u) < ProbeId(t)
         /\ restarts' = restarts + 1 => ProbeId(0)' = ProbeId(Retries)
<1>1. restarts * Retries \in Nat /\ (restarts + 1) * Retries = restarts * Retries + Retries
  BY Bounds
<1> QED BY <1>1, Bounds DEF ProbeId

LEMMA HalInit == Init => SeHalInv
<1> SUFFICES ASSUME Init PROVE SeHalInv
  OBVIOUS
<1> USE Bounds DEF Init, Booting, Idle, NoRet, NoReply
<1>1. ElementInv
  BY DEF ElementInv, Lines
<1>2. HalInv
  <2>1. hal \in HalStates
    <3>1. hal = [ready |-> FALSE, step |-> hal.step, op |-> "INFO", id |-> 0, try |-> 0, part |-> 1, value |-> 0]
      OBVIOUS
    <3>2. hal.step \in {"init", "send"} /\ "INFO" \in Ops /\ 0 \in 0..CtrMax
      BY DEF Ops
    <3> QED BY <3>1, <3>2 DEF HalStates
  <2>2. hal.step \in Steps
    BY <1>1, Drivers DEF Steps, Ops, Uart, I2c
  <2>3. hal.try = 0 /\ hal.part = 1 /\ hal.op = "INFO" /\ hal.step \in {"init", "send"}
    OBVIOUS
  <2> QED BY <2>1, <2>2, <2>3 DEF HalInv
<1>3. RetInv
  <2>1. ret.op \in Ops /\ ret.value \in 0..CtrMax
    BY DEF Ops
  <2>2. ret.ok = FALSE /\ ret.err # "SE_OK"
    OBVIOUS
  <2> QED BY <2>1, <2>2, Zenon DEF RetInv
<1>4. IdInv
  BY DEF IdInv, UnderWay
<1>5. FifoInv /\ CleanInv
  BY DEF FifoInv, CleanInv
<1>6. DoneInv /\ ByteInv /\ OkMeansDone
  BY DEF DoneInv, ByteInv, OkMeansDone
<1> QED BY <1>1, <1>2, <1>3, <1>4, <1>5, <1>6 DEF SeHalInv, TypeInv

-----------------------------------------------------------------------------
(* Over the UART.  Every step of the driver keeps its place within the loops. *)
LEMMA ProbeKeeps == ASSUME SeHalInv, Probe PROVE SeHalInv'
<1> USE Bounds DEF SeHalInv, TypeInv
<1>0. Uart /\ ~I2c /\ Uart' /\ ~I2c' /\ backend = "TERNARYCORE" /\ backend' = backend
  BY Drivers DEF Probe, Uart, I2c
<1> PICK n : n = hal.try + 1
  OBVIOUS
<1> DEFINE probe == Command("INFO", ProbeId(n), 0)
<1>1. /\ hal \in HalStates /\ hal.step = "init" /\ hal.op = "INFO"
      /\ hal.try \in Nat /\ n \in 1..Retries /\ n \in Nat /\ hal.try < n /\ n # 0
      /\ hal' = [hal EXCEPT !.step = "wait", !.try = n]
  BY <1>0 DEF Probe, HalInv, HalStates
<1>2. /\ tx \in Seq(Commands) /\ tx' = Append(tx, probe) /\ rx' = <<>>
      /\ UNCHANGED <<backend, out, ctr, ret, did, clean, calls, restarts>>
  BY DEF Probe, ElementInv
<1> HIDE DEF probe
<1>3. hal'.step = "wait" /\ hal'.try = n /\ hal'.op = "INFO" /\ hal'.part = hal.part
  BY <1>1 DEF HalStates
<1>4. hal' \in HalStates
  BY <1>1 DEF HalStates
<1>5. probe \in Commands /\ probe.id = ProbeId(n) /\ ProbeId(n) \in Int /\ ProbeId(n) <= 0
  <2>1. ProbeId(n) \in Int /\ ProbeId(n) <= 0
    BY <1>1, ProbeIds DEF ElementInv
  <2> QED BY <2>1 DEF Command, Commands, Ops, probe
<1>6. ElementInv'
  BY <1>2, <1>5 DEF ElementInv
<1>7. HalInv'
  BY <1>0, <1>1, <1>3, <1>4 DEF HalInv, Steps
<1>8. Own' = ProbeId(n) /\ Lowest' = ProbeId(n) /\ ProbeId(n) < Lowest /\ Lowest \in Int
  <2>1. ProbeId(n) < ProbeId(hal.try) /\ ProbeId(hal.try) \in Int
    BY <1>1, ProbeIds DEF ElementInv
  <2>2. Own' = ProbeId(n) /\ Lowest' = ProbeId(n)
    BY <1>2, <1>3 DEF Own, Lowest, ProbeId
  <2>3. Lowest = ProbeId(hal.try)
    BY <1>1 DEF Lowest
  <2> QED BY <2>1, <2>2, <2>3
<1>9. /\ Len(tx') = Len(tx) + 1 /\ Len(tx) \in Nat /\ tx'[Len(tx) + 1] = probe /\ Len(rx') = 0
      /\ \A i \in 1..Len(tx) : tx'[i] = tx[i] /\ tx[i].id \in Lowest..calls
  BY <1>0, <1>2 DEF IdInv, UnderWay
<1>10. IdInv'
  BY <1>2, <1>5, <1>8, <1>9 DEF IdInv, UnderWay, ElementInv
<1>11. FifoInv'
  BY <1>5, <1>8, <1>9 DEF FifoInv
<1>12. CleanInv'
  BY <1>0, <1>1, <1>2, <1>3, <1>5, <1>8, <1>9 DEF CleanInv
<1>13. RetInv' /\ OkMeansDone'
  BY <1>2 DEF RetInv, OkMeansDone, Uart
<1>14. ByteInv' /\ DoneInv'
  BY <1>0, <1>9 DEF ByteInv, DoneInv
<1> QED BY <1>6, <1>7, <1>10, <1>11, <1>12, <1>13, <1>14

LEMMA Idles ==
  /\ Idle \in HalStates /\ [Idle EXCEPT !.ready = TRUE] \in HalStates
  /\ \A h \in {Idle, [Idle EXCEPT !.ready = TRUE]} :
       h.step = "idle" /\ h.op = "INFO" /\ h.id = 0 /\ h.try = 0 /\ h.part = 1
<1>1. "INFO" \in Ops /\ 0 \in 0..CtrMax
  BY Bounds DEF Ops
<1>2. Idle \in HalStates
  BY <1>1 DEF Idle, HalStates
<1>3. [Idle EXCEPT !.ready = TRUE] \in HalStates
  BY <1>2 DEF HalStates
<1> QED BY <1>2, <1>3 DEF Idle

LEMMA CallOver ==
  ASSUME TypeInv, hal.step # "idle", backend' = backend, NEW ok \in BOOLEAN, hal' = Over(ok)
  PROVE  /\ hal'.step \in {"idle", "init"} /\ hal'.op = "INFO" /\ hal'.part = 1
         /\ HalInv' /\ ByteInv'
         /\ I2c => hal'.step = "idle"
         /\ Uart /\ restarts' = restarts => Lowest' <= Lowest /\ Lowest \in Int /\ Lowest' \in Int
<1> USE DEF TypeInv
<1>1. CASE hal' \in {Idle, [Idle EXCEPT !.ready = TRUE]}
  <2>1. /\ hal' \in HalStates /\ hal'.step = "idle" /\ hal'.op = "INFO" /\ hal'.id = 0
        /\ hal'.try = 0 /\ hal'.part = 1
    BY <1>1, Idles
  <2>2. HalInv' /\ ByteInv'
    BY <2>1, Bounds, Drivers DEF HalInv, ByteInv, Steps, Uart, I2c
  <2>3. ASSUME Uart, restarts' = restarts PROVE Lowest' <= Lowest /\ Lowest \in Int /\ Lowest' \in Int
    <3>1. Lowest' = ProbeId(Retries)
      BY <2>1, <2>3 DEF Lowest, ProbeId
    <3>2. hal.try \in Nat /\ hal.try <= Retries
      BY <2>3 DEF HalInv, HalStates
    <3>3. ProbeId(Retries) <= ProbeId(hal.try) /\ ProbeId(Retries) \in Int /\ ProbeId(hal.try) \in Int
      BY <3>2, ProbeIds, Bounds DEF ElementInv
    <3> QED BY <3>1, <3>3 DEF Lowest
  <2> QED BY <2>1, <2>2, <2>3
<1>2. CASE Uart /\ hal' = [hal EXCEPT !.step = "init"] /\ hal.op = "INFO"
  <2>1. /\ hal' \in HalStates /\ hal'.step = "init" /\ hal'.op = hal.op /\ hal'.try = hal.try
        /\ hal'.part = hal.part /\ hal'.id = hal.id
    BY <1>2 DEF HalInv, HalStates
  <2>2. hal.part = 1 /\ ~I2c /\ Uart' /\ ~I2c' /\ hal.step \in {"init", "wait"}
    BY <1>2, Drivers DEF HalInv, HalStates, Steps, Uart, I2c
  <2>3. HalInv' /\ ByteInv'
    BY <1>2, <2>1, <2>2 DEF HalInv, ByteInv, Steps
  <2>4. ASSUME restarts' = restarts PROVE Lowest' <= Lowest /\ Lowest \in Int /\ Lowest' \in Int
    <3>1. ProbeId(hal.try) \in Int
      BY ProbeIds DEF ElementInv, HalInv, HalStates
    <3> QED BY <1>2, <2>1, <2>2, <2>4, <3>1 DEF Lowest, ProbeId
  <2> QED BY <1>2, <2>1, <2>2, <2>3, <2>4
<1> QED BY <1>1, <1>2 DEF Over

LEMMA Returned ==
  ASSUME TypeInv, NEW ok \in BOOLEAN, NEW err, NEW from, NEW value \in 0..CtrMax, err # "SE_OK",
         Return(ok, err, from, value)
  PROVE  RetInv' /\ ret'.op = hal.op /\ ret'.id = hal.id /\ ret'.ok = ok
<1>1. ret'.op = hal.op /\ ret'.id = hal.id /\ ret'.ok = ok /\ ret'.value = value
  BY DEF Return
<1>2. ret'.err = IF ok THEN "SE_OK" ELSE err
  BY DEF Return
<1>3. hal.op \in Ops
  BY DEF TypeInv, HalInv, HalStates
<1>4. ret'.ok = (ret'.err = "SE_OK")
  BY <1>1, <1>2, Zenon
<1> QED BY <1>1, <1>3, <1>4, Zenon DEF RetInv

LEMMA Shorter ==
  ASSUME NEW S, NEW s \in Seq(S), s # <<>>
  PROVE  /\ Tail(s) \in Seq(S) /\ Head(s) = s[1] /\ s[1] \in S
         /\ Len(s) \in Nat /\ Len(s) > 0 /\ Len(Tail(s)) = Len(s) - 1
         /\ Len(s) = 1 => Tail(s) = <<>>
         /\ \A i \in 1..Len(Tail(s)) : Tail(s)[i] = s[i + 1] /\ i + 1 \in 1..Len(s)
<1>1. /\ Tail(s) \in Seq(S) /\ Head(s) = s[1] /\ s[1] \in S
      /\ Len(s) \in Nat /\ Len(s) > 0 /\ Len(Tail(s)) = Len(s) - 1
  OBVIOUS
<1>2. ASSUME NEW i \in 1..Len(Tail(s)) PROVE Tail(s)[i] = s[i + 1] /\ i + 1 \in 1..Len(s)
  BY <1>1
<1>3. Len(s) = 1 => Tail(s) = <<>>
  <2>1. Len(Tail(s)) = 0 => Tail(s) = <<>>
    BY <1>1, EmptySeq, Zenon
  <2> QED BY <1>1, <2>1
<1> QED BY <1>1, <1>2, <1>3

LEMMA OffLine ==
  ASSUME SeHalInv, Uart, rx' = rx \/ (rx # <<>> /\ rx' = Tail(rx)),
         tx' = tx, did' = did, calls' = calls,
         Lowest' <= Lowest, Lowest \in Int, Lowest' \in Int
  PROVE  /\ rx' \in Seq(Lines) /\ IdInv'
         /\ \A i \in 1..Len(rx') : rx'[i].kind # "ERR" /\ rx'[i].id > 0 => rx'[i].id \in did
<1>0. rx \in Seq(Lines) /\ tx \in Seq(Commands) /\ calls \in Int
  BY DEF SeHalInv, TypeInv, ElementInv
<1>1. rx' \in Seq(Lines) /\ Len(rx') \in Nat /\ \A i \in 1..Len(rx') : \E j \in 1..Len(rx) : rx'[i] = rx[j]
  <2>1. CASE rx' = rx
    BY <1>0, <2>1
  <2>2. CASE rx # <<>> /\ rx' = Tail(rx)
    <3>1. rx' \in Seq(Lines) /\ Len(rx') \in Nat /\ \A i \in 1..Len(rx') : rx'[i] = rx[i + 1] /\ i + 1 \in 1..Len(rx)
      BY <1>0, <2>2, Shorter
    <3> QED BY <3>1
  <2> QED BY <2>1, <2>2
<1>2. UnderWay' \subseteq UnderWay
  BY <1>1 DEF UnderWay
<1>3. UnderWay \subseteq Lowest..calls
  BY DEF SeHalInv, IdInv
<1>4. IdInv'
  BY <1>0, <1>2, <1>3 DEF IdInv
<1>5. \A i \in 1..Len(rx) : rx[i].kind # "ERR" /\ rx[i].id > 0 => rx[i].id \in did
  BY DEF SeHalInv, DoneInv
<1> QED BY <1>1, <1>4, <1>5

LEMMA SkipLineKeeps == ASSUME SeHalInv, SkipLine PROVE SeHalInv'
<1>1. /\ Uart /\ hal.step = "wait" /\ rx # <<>> /\ rx' = Tail(rx)
      /\ UNCHANGED <<backend, hal, tx, out, ctr, ret, did, clean, calls, restarts>>
  BY DEF SkipLine, element
<1>2. ElementInv /\ HalInv /\ RetInv /\ IdInv /\ FifoInv /\ CleanInv /\ DoneInv /\ ByteInv /\ OkMeansDone
  BY <1>1 DEF SeHalInv, TypeInv
<1>3. Own' = Own /\ Lowest' = Lowest /\ Lowest \in Int
  <2>1. Own' = Own /\ Lowest' = Lowest
    BY <1>1 DEF Own, Lowest, ProbeId
  <2>2. ProbeId(hal.try) \in Int /\ ProbeId(Retries) \in Int
    BY <1>2, ProbeIds, Bounds DEF ElementInv, HalInv, HalStates
  <2> QED BY <2>1, <2>2 DEF Lowest
<1>4. /\ rx' \in Seq(Lines) /\ IdInv'
      /\ \A i \in 1..Len(rx') : rx'[i].kind # "ERR" /\ rx'[i].id > 0 => rx'[i].id \in did
  <2>1. Uart /\ (rx' = rx \/ (rx # <<>> /\ rx' = Tail(rx))) /\ tx' = tx /\ did' = did /\ calls' = calls
    BY <1>1
  <2>2. Lowest' <= Lowest /\ Lowest' \in Int
    BY <1>3
  <2> QED BY <1>3, <2>1, <2>2, OffLine
<1>5. ElementInv'
  BY <1>1, <1>2, <1>4 DEF ElementInv
<1>6. HalInv' /\ RetInv' /\ ByteInv' /\ OkMeansDone'
  <2>1. HalInv'
    BY <1>1, <1>2 DEF HalInv, Steps, Uart, I2c, Parts
  <2>2. RetInv'
    BY <1>1, <1>2 DEF RetInv
  <2>3. ByteInv' /\ OkMeansDone'
    BY <1>1, <1>2 DEF ByteInv, OkMeansDone, Uart
  <2> QED BY <2>1, <2>2, <2>3
<1>7. DoneInv'
  BY <1>1, <1>2, <1>4 DEF DoneInv
<1>8. /\ Len(rx) \in Nat /\ Len(rx') = Len(rx) - 1 /\ (Len(rx) = 1 => rx' = <<>>)
      /\ \A i \in 1..Len(rx') : rx'[i] = rx[i + 1] /\ i + 1 \in 1..Len(rx)
  BY <1>1, <1>2, Shorter DEF ElementInv
<1>9. FifoInv'
  <2>1. /\ \A i \in 1..Len(tx) : tx[i].id = Own => i = Len(tx)
        /\ \A i \in 1..Len(rx) : rx[i].id = Own => i = Len(rx) /\ tx = <<>>
    BY <1>1, <1>2 DEF FifoInv
  <2>2. ASSUME NEW i \in 1..Len(rx'), rx'[i].id = Own PROVE i = Len(rx') /\ tx = <<>>
    <3>1. i + 1 \in 1..Len(rx) /\ rx[i + 1].id = Own
      BY <1>8, <2>2
    <3>2. i + 1 = Len(rx) /\ tx = <<>>
      BY <2>1, <3>1
    <3> QED BY <1>8, <3>2
  <2> QED BY <1>1, <1>3, <2>1, <2>2, Zenon DEF FifoInv
<1>10. CleanInv'
  BY <1>1, <1>2, <1>3, <1>8 DEF CleanInv
<1> QED BY <1>4, <1>5, <1>6, <1>7, <1>9, <1>10 DEF SeHalInv, TypeInv

LEMMA GiveUpKeeps == ASSUME SeHalInv, GiveUp PROVE SeHalInv'
<1>1. /\ Uart /\ hal.step = "init" /\ hal' = Idle
      /\ UNCHANGED <<backend, tx, rx, out, ctr, ret, did, clean, calls, restarts>>
  BY DEF GiveUp
<1>2. ElementInv /\ HalInv /\ RetInv /\ IdInv /\ FifoInv /\ CleanInv /\ DoneInv /\ ByteInv /\ OkMeansDone
  BY <1>1 DEF SeHalInv, TypeInv
<1>3. hal.op = "INFO" /\ hal.try = Retries
  BY <1>1, <1>2 DEF HalInv, GiveUp
<1>4. hal' \in HalStates /\ hal'.step = "idle" /\ hal'.op = "INFO" /\ hal'.id = 0 /\ hal'.try = 0 /\ hal'.part = 1
  BY <1>1, Idles
<1>5. HalInv' /\ ByteInv'
  BY <1>1, <1>2, <1>4, Bounds, Drivers DEF HalInv, ByteInv, Steps, Uart, I2c
<1>6. Lowest' = Lowest
  BY <1>1, <1>3, <1>4 DEF Lowest, ProbeId
<1>7. ElementInv' /\ RetInv' /\ IdInv' /\ OkMeansDone'
  <2>1. ElementInv' /\ RetInv'
    BY <1>1, <1>2 DEF ElementInv, RetInv
  <2>2. IdInv'
    BY <1>1, <1>2, <1>6 DEF IdInv, UnderWay
  <2>3. OkMeansDone'
    BY <1>1, <1>2 DEF OkMeansDone, Uart
  <2> QED BY <2>1, <2>2, <2>3
<1>8. DoneInv' /\ FifoInv' /\ CleanInv'
  BY <1>1, <1>2, <1>4 DEF DoneInv, FifoInv, CleanInv
<1> QED BY <1>5, <1>7, <1>8 DEF SeHalInv, TypeInv

LEMMA Unshadowed ==
  ASSUME SeHalInv, Uart
  PROVE  ElementInv /\ HalInv /\ RetInv /\ IdInv /\ FifoInv /\ CleanInv /\ DoneInv /\ ByteInv /\ OkMeansDone
BY DEF SeHalInv, TypeInv

LEMMA TimeOutKeeps == ASSUME SeHalInv, TimeOut PROVE SeHalInv'
<1>1. /\ Uart /\ hal.step = "wait" /\ hal' = Over(FALSE) /\ clean' = FALSE
      /\ Return(FALSE, "SE_ERR_NOTFOUND", 0, 0)
      /\ UNCHANGED <<backend, rx, tx, out, ctr, did, calls, restarts>>
  BY DEF TimeOut, DeadlineOver, element
<1>2. ElementInv /\ HalInv /\ RetInv /\ DoneInv /\ TypeInv
  BY <1>1, Unshadowed DEF TypeInv
<1>3. /\ hal'.step \in {"idle", "init"} /\ HalInv' /\ ByteInv'
      /\ Lowest' <= Lowest /\ Lowest \in Int /\ Lowest' \in Int
  BY <1>1, <1>2, CallOver
<1>4. RetInv' /\ ret'.ok = FALSE
  <2>1. "SE_ERR_NOTFOUND" # "SE_OK" /\ 0 \in 0..CtrMax
    BY Bounds
  <2> QED BY <1>1, <1>2, <2>1, Returned
<1>5. IdInv'
  BY <1>1, <1>3, OffLine
<1>6. ElementInv' /\ DoneInv'
  <2>1. ElementInv'
    BY <1>1, <1>2 DEF ElementInv
  <2>2. DoneInv'
    BY <1>1, <1>2, <1>3 DEF DoneInv
  <2> QED BY <2>1, <2>2
<1>7. FifoInv' /\ CleanInv' /\ OkMeansDone'
  BY <1>1, <1>3, <1>4 DEF FifoInv, CleanInv, OkMeansDone
<1> QED BY <1>3, <1>4, <1>5, <1>6, <1>7 DEF SeHalInv, TypeInv

LEMMA TakeLineKeeps == ASSUME SeHalInv, TakeLine PROVE SeHalInv'
<1> DEFINE line == Head(rx)
<1>1. /\ Uart /\ hal.step = "wait" /\ rx # <<>> /\ rx' = Tail(rx)
      /\ UNCHANGED <<backend, tx, out, ctr, did, calls, restarts>>
  BY DEF TakeLine, element
<1>2. ElementInv /\ HalInv /\ RetInv /\ DoneInv /\ TypeInv /\ FifoInv /\ CleanInv /\ IdInv
  BY <1>1, Unshadowed DEF TypeInv
<1>3. PICK ok \in BOOLEAN :
        /\ ok => line.kind # "ERR"
        /\ Return(ok, "SE_ERR_INTERNAL", line.id, line.ctr) /\ hal' = Over(ok)
        /\ clean' = (clean \/ (ok /\ hal.op = "INFO" /\ line.id = ProbeId(hal.try)))
  BY DEF TakeLine
<1>4. /\ line = rx[1] /\ line \in Lines /\ Len(rx) \in Nat /\ Len(rx) > 0
      /\ rx' \in Seq(Lines) /\ (Len(rx) = 1 => rx' = <<>>)
  BY <1>1, <1>2, Shorter DEF ElementInv
<1>5. line.id \in Int /\ line.ctr \in 0..CtrMax
  BY <1>4 DEF Lines
<1>6. /\ hal'.step \in {"idle", "init"} /\ HalInv' /\ ByteInv'
      /\ Lowest' <= Lowest /\ Lowest \in Int /\ Lowest' \in Int
  BY <1>1, <1>2, <1>3, CallOver
<1>7. RetInv' /\ ret'.ok = ok /\ ret'.op = hal.op /\ ret'.id = hal.id
  BY <1>2, <1>3, <1>5, Returned
<1>8. /\ IdInv'
      /\ \A i \in 1..Len(rx') : rx'[i].kind # "ERR" /\ rx'[i].id > 0 => rx'[i].id \in did
  BY <1>1, <1>6, OffLine
<1>9. ElementInv' /\ DoneInv'
  <2>1. ElementInv'
    BY <1>1, <1>2, <1>3, <1>4 DEF ElementInv
  <2>2. DoneInv'
    BY <1>1, <1>6, <1>8 DEF DoneInv
  <2> QED BY <2>1, <2>2
\* Behind the line of this call there is none: once it is taken the queues are
\* empty, and the next call starts with nothing under way.
<1>10. CleanInv'
  <2>1. ASSUME clean PROVE tx = <<>> /\ rx' = <<>>
    BY <1>1, <1>2, <1>4, <2>1 DEF CleanInv
  <2>2. ASSUME hal.op = "INFO", line.id = ProbeId(hal.try) PROVE tx = <<>> /\ rx' = <<>>
    <3>1. rx[1].id = Own /\ 1 \in 1..Len(rx)
      BY <1>4, <2>2 DEF Own
    <3>2. 1 = Len(rx) /\ tx = <<>>
      BY <1>1, <1>2, <3>1 DEF FifoInv
    <3> QED BY <1>4, <3>2
  <2> QED BY <1>1, <1>3, <1>6, <2>1, <2>2 DEF CleanInv
<1>11. FifoInv'
  BY <1>6 DEF FifoInv
<1>12. OkMeansDone'
  <2> SUFFICES ASSUME ok, hal.op # "INFO", clean' PROVE hal.id \in did
    BY <1>1, <1>7 DEF OkMeansDone, Uart
  <2>1. clean /\ line.kind # "ERR"
    BY <1>3
  <2>2. rx[1].id = Own /\ 1 \in 1..Len(rx)
    BY <1>1, <1>2, <1>4, <2>1 DEF CleanInv
  <2>3. Own = hal.id /\ hal.id > 0
    BY <1>2 DEF Own, HalInv
  <2> QED BY <1>2, <1>4, <2>1, <2>2, <2>3 DEF DoneInv
<1> QED BY <1>6, <1>7, <1>8, <1>9, <1>10, <1>11, <1>12 DEF SeHalInv, TypeInv

LEMMA Accounted ==
  ASSUME ElementInv, NEW cmd \in Commands, cmd.id <= MaxCalls, NEW carried \in BOOLEAN,
         CarryOut(cmd, carried)
  PROVE  /\ ctr' \in 0..CtrMax /\ did \subseteq did' /\ did' \subseteq 0..MaxCalls
         /\ Reply(ctr, cmd, carried) \in Lines /\ Reply(ctr, cmd, carried).id = cmd.id
         /\ Reply(ctr, cmd, carried).kind # "ERR" /\ cmd.id > 0 => cmd.id \in did'
<1> USE Bounds
<1>1. cmd.op \in Ops \cup {"SET"} /\ cmd.id \in Int /\ cmd.value \in 0..CtrMax /\ ctr \in 0..CtrMax
  BY DEF Commands, ElementInv, Ops, Calls
<1>2. Counted(ctr, cmd) \in 0..CtrMax
  BY <1>1 DEF Counted
<1>3. ctr' \in 0..CtrMax
  BY <1>1, <1>2 DEF CarryOut
<1>4. did \subseteq did' /\ did' \subseteq 0..MaxCalls
  <2>1. did \subseteq 0..MaxCalls /\ (cmd.id > 0 => cmd.id \in 0..MaxCalls)
    BY <1>1 DEF ElementInv
  <2>2. did' = did \/ (cmd.id > 0 /\ did' = did \cup {cmd.id})
    BY DEF CarryOut
  <2> QED BY <2>1, <2>2, Zenon
<1>5. Reply(ctr, cmd, carried) \in Lines /\ Reply(ctr, cmd, carried).id = cmd.id
  <2>1. (IF carried THEN Kind(cmd.op) ELSE "ERR") \in Answered
    BY <1>1, Kinds DEF Answered
  <2> QED BY <1>1, <2>1 DEF Reply, Lines
<1>6. Reply(ctr, cmd, carried).kind # "ERR" => carried
  BY DEF Reply
<1> QED BY <1>1, <1>3, <1>4, <1>5, <1>6 DEF CarryOut

LEMMA TakeCommandKeeps == ASSUME SeHalInv, TakeCommand PROVE SeHalInv'
<1> DEFINE cmd == Head(tx)
<1>1. /\ Uart /\ tx # <<>> /\ tx' = Tail(tx)
      /\ UNCHANGED <<backend, hal, out, ret, clean, calls, restarts>>
  BY DEF TakeCommand
<1>2. ElementInv /\ HalInv /\ RetInv /\ DoneInv /\ TypeInv /\ FifoInv /\ CleanInv /\ IdInv /\ ByteInv /\ OkMeansDone
  BY <1>1, Unshadowed DEF TypeInv
<1>3. /\ cmd = tx[1] /\ cmd \in Commands /\ Len(tx) \in Nat /\ Len(tx) > 0 /\ Len(tx') = Len(tx) - 1
      /\ tx' \in Seq(Commands) /\ (Len(tx) = 1 => tx' = <<>>) /\ rx \in Seq(Lines) /\ Len(rx) \in Nat
      /\ \A i \in 1..Len(tx') : tx'[i] = tx[i + 1] /\ i + 1 \in 1..Len(tx)
  BY <1>1, <1>2, Shorter DEF ElementInv
<1>4. cmd.op \in Ops \cup {"GET", "SET"} /\ cmd.id \in Int /\ cmd.value \in 0..CtrMax
  BY <1>3 DEF Commands
<1> DEFINE Answer(reply) == /\ reply \in Lines /\ rx' = Append(rx, reply) /\ reply.id = cmd.id
                            /\ reply.kind # "ERR" /\ reply.id > 0 => reply.id \in did'
<1>5. /\ did \subseteq did' /\ ctr' \in 0..CtrMax /\ did' \subseteq 0..MaxCalls
      /\ rx' = rx \/ \E reply : Answer(reply)
  <2>1. cmd.id <= MaxCalls /\ ctr \in 0..CtrMax /\ did \subseteq 0..MaxCalls
    <3>1. 1 \in 1..Len(tx)
      BY <1>3
    <3>2. tx[1].id \in UnderWay
      BY <3>1 DEF UnderWay
    <3>3. UnderWay \subseteq Lowest..calls
      BY <1>2 DEF IdInv
    <3>4. calls \in 0..MaxCalls /\ ctr \in 0..CtrMax /\ did \subseteq 0..MaxCalls
      BY <1>2 DEF ElementInv
    <3>5. cmd.id \in Lowest..calls
      BY <1>3, <3>2, <3>3, Zenon
    <3> QED BY <3>4, <3>5, <1>4, Bounds
  <2>2. CASE UNCHANGED <<rx, ctr, did>>
    BY <2>1, <2>2
  <2>3. ASSUME NEW carried \in BOOLEAN, NEW answered \in BOOLEAN, CarryOut(cmd, carried),
               rx' = IF answered THEN Append(rx, Reply(ctr, cmd, carried)) ELSE rx
        PROVE  /\ did \subseteq did' /\ ctr' \in 0..CtrMax /\ did' \subseteq 0..MaxCalls
               /\ rx' = rx \/ \E reply : Answer(reply)
    <3> DEFINE r == Reply(ctr, cmd, carried)
    <3>1. /\ ctr' \in 0..CtrMax /\ did \subseteq did' /\ did' \subseteq 0..MaxCalls
          /\ r \in Lines /\ r.id = cmd.id
          /\ r.kind # "ERR" /\ cmd.id > 0 => cmd.id \in did'
      BY <1>2, <1>3, <2>1, <2>3, Accounted
    <3>2. rx' = Append(rx, r) \/ rx' = rx
      BY <2>3
    <3> HIDE DEF r
    <3>3. rx' = Append(rx, r) => Answer(r)
      BY <3>1, Zenon
    <3> QED BY <3>1, <3>2, <3>3, Zenon
  <2> QED BY <2>2, <2>3 DEF TakeCommand
<1>6. Own' = Own /\ Lowest' = Lowest
  BY <1>1 DEF Own, Lowest, ProbeId
<1> HIDE DEF cmd
<1>7. ASSUME NEW reply, Answer(reply)
      PROVE  /\ rx' \in Seq(Lines) /\ Len(rx') = Len(rx) + 1 /\ rx'[Len(rx) + 1] = reply
             /\ \A i \in 1..Len(rx) : rx'[i] = rx[i]
  BY <1>3, <1>7
<1>8. ElementInv' /\ HalInv' /\ RetInv' /\ ByteInv'
  <2>1. rx' \in Seq(Lines)
    BY <1>3, <1>5, <1>7
  <2>2. ElementInv'
    BY <1>1, <1>2, <1>3, <1>5, <2>1 DEF ElementInv
  <2>3. HalInv'
    BY <1>1, <1>2 DEF HalInv, Steps, Uart, I2c, Parts
  <2>4. RetInv' /\ ByteInv'
    BY <1>1, <1>2 DEF RetInv, ByteInv
  <2> QED BY <2>2, <2>3, <2>4
<1>9. UnderWay' \subseteq UnderWay
  <2>1. ASSUME NEW i \in 1..Len(tx') PROVE tx'[i].id \in UnderWay
    BY <1>3 DEF UnderWay
  <2>2. ASSUME NEW i \in 1..Len(rx') PROVE rx'[i].id \in UnderWay
    <3>1. CASE rx' = rx
      BY <3>1 DEF UnderWay
    <3>2. CASE \E reply : Answer(reply)
      <4>1. PICK reply : Answer(reply)
        BY <3>2
      <4>2. cmd.id \in UnderWay
        <5>1. 1 \in 1..Len(tx)
          BY <1>3
        <5> QED BY <1>3, <5>1 DEF UnderWay
      <4>3. rx'[i] = reply \/ (i \in 1..Len(rx) /\ rx'[i] = rx[i])
        BY <1>3, <1>7, <4>1
      <4> QED BY <4>1, <4>2, <4>3 DEF UnderWay
    <3> QED BY <1>5, <3>1, <3>2
  <2> QED BY <2>1, <2>2 DEF UnderWay
<1>10. IdInv'
  BY <1>1, <1>2, <1>6, <1>9 DEF IdInv
<1>11. ASSUME hal.step = "wait", NEW i \in 1..Len(rx), rx[i].id = Own PROVE FALSE
  BY <1>1, <1>2, <1>11 DEF FifoInv
<1>12. FifoInv'
  <2> SUFFICES ASSUME hal.step = "wait" PROVE FifoInv'
    BY <1>1 DEF FifoInv
  <2>1. \A i \in 1..Len(tx) : tx[i].id = Own => i = Len(tx)
    BY <1>2 DEF FifoInv
  <2>2. ASSUME NEW i \in 1..Len(tx'), tx'[i].id = Own PROVE i = Len(tx')
    <3>1. i + 1 \in 1..Len(tx) /\ tx[i + 1].id = Own
      BY <1>3, <2>2
    <3> QED BY <1>3, <2>1, <3>1
  <2>3. ASSUME NEW i \in 1..Len(rx'), rx'[i].id = Own PROVE i = Len(rx') /\ tx' = <<>>
    <3>1. rx' # rx
      BY <1>11, <2>3
    <3>2. PICK reply : Answer(reply)
      BY <1>5, <3>1
    <3>3. i = Len(rx) + 1 /\ reply.id = Own
      BY <1>3, <1>7, <1>11, <2>3, <3>2
    <3>4. 1 \in 1..Len(tx) /\ tx[1].id = Own
      BY <1>3, <3>2, <3>3
    <3>5. 1 = Len(tx)
      BY <2>1, <3>4
    <3> QED BY <1>3, <1>7, <3>2, <3>3, <3>5
  <2> QED BY <1>1, <1>6, <2>2, <2>3, Zenon DEF FifoInv
<1>13. CleanInv'
  <2> SUFFICES ASSUME clean PROVE CleanInv'
    BY <1>1 DEF CleanInv
  <2>1. hal.step \notin {"idle", "init"}
    BY <1>1, <1>2 DEF CleanInv
  <2>2. ASSUME hal.step = "wait"
        PROVE  tx' = <<>> /\ (rx' = <<>> \/ (Len(rx') = 1 /\ rx'[1].id = Own))
    <3>1. Len(tx) = 1 /\ rx = <<>> /\ tx[1].id = Own
      BY <1>1, <1>2, <2>2 DEF CleanInv
    <3>2. tx' = <<>> /\ Len(rx) = 0
      BY <1>3, <3>1
    <3> QED BY <1>3, <1>5, <1>7, <3>1, <3>2
  <2> QED BY <1>1, <1>6, <2>1, <2>2 DEF CleanInv
<1>14. DoneInv'
  <2>1. ASSUME NEW i \in 1..Len(rx'), rx'[i].kind # "ERR", rx'[i].id > 0 PROVE rx'[i].id \in did'
    <3>1. (i \in 1..Len(rx) /\ rx'[i] = rx[i]) \/ \E reply : Answer(reply) /\ rx'[i] = reply
      BY <1>3, <1>5, <1>7
    <3> QED BY <1>2, <1>5, <2>1, <3>1 DEF DoneInv
  <2> QED BY <1>1, <2>1, Zenon DEF DoneInv, Uart
<1>15. OkMeansDone'
  BY <1>1, <1>2, <1>5 DEF OkMeansDone, Uart
<1> QED BY <1>8, <1>10, <1>12, <1>13, <1>14, <1>15 DEF SeHalInv, TypeInv

-----------------------------------------------------------------------------
(* Over I2C.  A packet, or what comes back, ends the call or leaves it in one *)
(* of its loops; with the ATECC608B it ends in SE_OK only on an answer that is *)
(* no error.                                                                  *)
Earned ==
  backend = "ATECC" /\ ret'.ok /\ hal.op \notin {"INFO", "GET", "INC"} =>
    hal.step = "recv" /\ out.kind # "ERR"
Ends ==
  /\ hal' \in {Idle, [Idle EXCEPT !.ready = TRUE]}
  /\ RetInv' /\ ret'.op = hal.op /\ ret'.id = hal.id
Continues ==
  /\ ret' = ret /\ hal' \in HalStates
  /\ hal'.op = hal.op /\ hal'.id = hal.id /\ hal'.step \in {"send", "recv"} /\ hal'.try < Tries
  /\ hal'.part = 2 => Parts(hal.op) = 2
  /\ backend = "SE051" /\ hal.op = "INC" /\ hal'.part = 2 => hal'.value > 0

LEMMA Endings ==
  ASSUME TypeInv, I2c, NEW ok \in BOOLEAN, NEW over \in BOOLEAN, NEW err, NEW from, NEW value \in 0..CtrMax,
         err # "SE_OK", Return(ok, err, from, value), hal' = Over(over)
  PROVE  Ends /\ ret'.ok = ok
<1>1. ~Uart
  BY Drivers DEF TypeInv
<1>2. hal' \in {Idle, [Idle EXCEPT !.ready = TRUE]}
  BY <1>1 DEF Over
<1> QED BY <1>2, Returned, Zenon DEF Ends

LEMMA FailedEnds ==
  ASSUME TypeInv, I2c, NEW err, err # "SE_OK", Failed(err)
  PROVE  Ends /\ ret'.ok = FALSE
<1>1. Return(FALSE, err, 0, 0) /\ hal' = Over(FALSE)
  BY DEF Failed
<1>2. 0 \in 0..CtrMax
  BY Bounds
<1> QED BY <1>1, <1>2, Endings

LEMMA DoneEnds ==
  ASSUME TypeInv, I2c, NEW from, NEW value \in 0..CtrMax, Done(from, value)
  PROVE  Ends /\ ret'.ok = TRUE
<1>1. Return(TRUE, "SE_ERR_COMM", from, value) /\ hal' = Over(TRUE) /\ "SE_ERR_COMM" # "SE_OK"
  BY DEF Done, Return
<1> QED BY <1>1, Endings

LEMMA PartFollows ==
  ASSUME TypeInv, Parts(hal.op) = 2, NEW value \in 0..CtrMax, backend = "SE051" /\ hal.op = "INC" => value > 0,
         hal' = [hal EXCEPT !.part = 2, !.step = "send", !.try = 0, !.value = value], ret' = ret
  PROVE  Continues /\ hal'.step = "send"
<1>1. hal \in HalStates /\ 0 < Tries
  BY Bounds DEF TypeInv, HalInv
<1>2. hal' \in HalStates
  BY <1>1 DEF HalStates
<1>3. /\ hal'.op = hal.op /\ hal'.id = hal.id /\ hal'.step = "send" /\ hal'.try = 0
      /\ hal'.part = 2 /\ hal'.value = value
  BY <1>1 DEF HalStates
<1> QED BY <1>1, <1>2, <1>3 DEF Continues

\* The look at the limit: past it the byte would wrap.
LEMMA NextValue ==
  ASSUME NEW value \in 0..CtrMax, ~AtLimit(value)
  PROVE  (value + 1) % (CtrMax + 1) \in 1..CtrMax
<1>1. value + 1 \in 1..CtrMax /\ value + 1 < CtrMax + 1
  BY Bounds DEF AtLimit
<1>2. \A a, b \in Nat : a < b => a % b = a
  OBVIOUS
<1>3. value + 1 \in Nat /\ CtrMax + 1 \in Nat
  BY Bounds
<1> QED BY <1>1, <1>2, <1>3

LEMMA SetNextEnds ==
  ASSUME TypeInv, I2c, Parts(hal.op) = 2, NEW value \in 0..CtrMax, SetNext(value)
  PROVE  (Continues /\ hal'.step = "send") \/ (Ends /\ ret'.ok = FALSE)
<1>1. CASE AtLimit(value)
  <2>1. Failed("SE_ERR_MEMORY") /\ "SE_ERR_MEMORY" # "SE_OK"
    BY <1>1 DEF SetNext
  <2> QED BY <2>1, FailedEnds
<1>2. CASE ~AtLimit(value)
  <2> PICK byte : byte = (value + 1) % (CtrMax + 1)
    OBVIOUS
  <2>1. byte \in 0..CtrMax /\ byte > 0
    BY <1>2, NextValue
  <2>2. hal' = [hal EXCEPT !.part = 2, !.step = "send", !.try = 0, !.value = byte] /\ ret' = ret
    BY <1>2 DEF SetNext
  <2> QED BY <2>1, <2>2, PartFollows
<1> QED BY <1>1, <1>2

LEMMA UnreachableEnds ==
  ASSUME TypeInv, I2c, NEW err, err # "SE_OK", Unreachable(err)
  PROVE  (Continues /\ hal'.step = "send") \/ (Ends /\ Earned)
<1>1. CASE <<backend, hal.op, hal.part>> = <<"SE051", "INC", 1>>
  <2>1. SetNext(0) /\ Parts(hal.op) = 2 /\ 0 \in 0..CtrMax /\ backend # "ATECC"
    BY <1>1, Bounds DEF Unreachable, Parts
  <2> QED BY <2>1, SetNextEnds DEF Earned
<1>2. CASE <<backend, hal.op, hal.part>> = <<"ATECC", "INFO", 2>>
  <2>1. Done(0, 0) /\ 0 \in 0..CtrMax /\ hal.op = "INFO"
    BY <1>2, Bounds DEF Unreachable
  <2> QED BY <2>1, DoneEnds DEF Earned
<1>3. CASE /\ <<backend, hal.op, hal.part>> # <<"SE051", "INC", 1>>
           /\ <<backend, hal.op, hal.part>> # <<"ATECC", "INFO", 2>>
  <2>1. Failed(err)
    BY <1>3 DEF Unreachable
  <2> QED BY <2>1, FailedEnds DEF Earned
<1> QED BY <1>1, <1>2, <1>3

LEMMA RetryEnds ==
  ASSUME TypeInv, I2c, hal.step \in {"send", "recv"}, ByteInv, NEW err, err # "SE_OK", Retry(err)
  PROVE  (Continues /\ hal'.step \in {"send", hal.step}) \/ (Ends /\ Earned)
<1>1. CASE Again
  <2> PICK n : n = hal.try + 1
    OBVIOUS
  <2>1. hal \in HalStates /\ (hal.part = 2 => Parts(hal.op) = 2) /\ hal.try \in Nat
    BY DEF TypeInv, HalInv, HalStates
  <2>2. n \in Nat /\ n < Tries
    BY <1>1, <2>1 DEF Again
  <2>3. hal' = [hal EXCEPT !.try = n] /\ ret' = ret
    BY <1>1 DEF Retry
  <2>4. hal' \in HalStates
    BY <2>1, <2>2, <2>3 DEF HalStates
  <2>5. /\ hal'.op = hal.op /\ hal'.id = hal.id /\ hal'.step = hal.step /\ hal'.try = n
        /\ hal'.part = hal.part /\ hal'.value = hal.value
    BY <2>1, <2>3 DEF HalStates
  <2> QED BY <2>1, <2>2, <2>3, <2>4, <2>5 DEF Continues, ByteInv
<1>2. CASE ~Again
  BY <1>2, UnreachableEnds DEF Retry
<1> QED BY <1>1, <1>2

LEMMA AteccEnds ==
  ASSUME TypeInv, backend = "ATECC", hal.step = "recv", NEW err, NEW a \in Lines,
         err = "SE_OK" => a = out, AteccAnswer(err, a)
  PROVE  Continues \/ (Ends /\ Earned)
<1>0. I2c /\ 0 \in 0..CtrMax /\ a.ctr \in 0..CtrMax
  <2>1. I2c
    BY DEF I2c
  <2>2. 0 \in 0..CtrMax
    BY Bounds
  <2>3. a.ctr \in 0..CtrMax
    BY DEF Lines
  <2> QED BY <2>1, <2>2, <2>3
<1> DEFINE coded == {"SE_ERR_LOCKED", "SE_ERR_NOTFOUND", "SE_ERR_COMM"}
<1>1. ASSUME NEW e, Failed(e), e \in coded \/ (e = err /\ err # "SE_OK") PROVE Ends /\ Earned
  <2>1. e # "SE_OK"
    BY <1>1
  <2> QED BY <1>0, <1>1, <2>1, FailedEnds DEF Earned
<1>2. ASSUME NEW from, NEW value \in 0..CtrMax, Done(from, value),
             hal.op \in {"INFO", "GET", "INC"} \/ (err = "SE_OK" /\ a.kind # "ERR")
      PROVE  Ends /\ Earned
  <2>1. Ends /\ ret'.ok = TRUE
    BY <1>0, <1>2, DoneEnds
  <2> QED BY <1>2, <2>1 DEF Earned
<1>3. CASE hal.op = "INFO" /\ InfoAnswer(err, a)
  <2>1. CASE hal.part = 1 /\ err = "SE_OK" /\ a.kind = "INFO"
    <3>1. hal' = [hal EXCEPT !.part = 2, !.step = "send", !.try = 0] /\ ret' = ret
      BY <1>3, <2>1 DEF InfoAnswer
    <3>2. hal \in HalStates /\ Parts(hal.op) = 2 /\ 0 < Tries
      BY <1>3, Bounds DEF TypeInv, HalInv, Parts
    <3>3. hal' \in HalStates
      BY <3>1, <3>2 DEF HalStates
    <3>4. hal'.op = hal.op /\ hal'.id = hal.id /\ hal'.step = "send" /\ hal'.try = 0 /\ hal'.part = 2
      BY <3>1, <3>2 DEF HalStates
    <3> QED BY <3>1, <3>2, <3>3, <3>4 DEF Continues
  <2>2. CASE hal.part = 1 /\ ~(err = "SE_OK" /\ a.kind = "INFO")
    <3>1. Failed("SE_ERR_COMM")
      BY <1>3, <2>2 DEF InfoAnswer
    <3> QED BY <3>1, <1>1
  <2>3. CASE hal.part # 1 /\ err = "SE_OK" /\ a.kind = "INFO"
    <3>1. PICK locked \in BOOLEAN : Return(locked, "SE_ERR_LOCKED", 0, 0) /\ hal' = Over(TRUE)
      BY <1>3, <2>3 DEF InfoAnswer, LockKnown
    <3>2. "SE_ERR_LOCKED" # "SE_OK"
      OBVIOUS
    <3> QED BY <1>0, <1>3, <3>1, <3>2, Endings DEF Earned
  <2>4. CASE hal.part # 1 /\ ~(err = "SE_OK" /\ a.kind = "INFO")
    <3>1. Done(0, 0)
      BY <1>3, <2>4 DEF InfoAnswer
    <3> QED BY <3>1, <1>0, <1>2, <1>3
  <2> QED BY <2>1, <2>2, <2>3, <2>4
<1>4. CASE StoreAnswer(err, a)
  <2>1. CASE err # "SE_OK"
    BY <1>1, <1>4, <2>1 DEF StoreAnswer
  <2>2. CASE err = "SE_OK" /\ a.kind = "ERR"
    BY <1>1, <1>4, <2>2 DEF StoreAnswer
  <2>3. CASE err = "SE_OK" /\ a.kind # "ERR"
    BY <1>0, <1>2, <1>4, <2>3 DEF StoreAnswer
  <2> QED BY <2>1, <2>2, <2>3
<1>5. CASE ReadAnswer(err, a)
  <2>1. CASE err # "SE_OK"
    BY <1>1, <1>5, <2>1 DEF ReadAnswer
  <2>2. CASE err = "SE_OK" /\ a.kind = "ERR"
    BY <1>1, <1>5, <2>2 DEF ReadAnswer
  <2>3. CASE err = "SE_OK" /\ a.kind # "ERR"
    BY <1>0, <1>2, <1>5, <2>3 DEF ReadAnswer
  <2> QED BY <2>1, <2>2, <2>3
<1>6. CASE SignAnswer(err, a)
  <2>1. CASE err # "SE_OK"
    BY <1>1, <1>6, <2>1 DEF SignAnswer
  <2>2. CASE err = "SE_OK" /\ a.kind = "ERR"
    BY <1>1, <1>6, <2>2 DEF SignAnswer
  <2>3. CASE err = "SE_OK" /\ a.kind # "ERR"
    BY <1>0, <1>2, <1>6, <2>3 DEF SignAnswer
  <2> QED BY <2>1, <2>2, <2>3
<1>7. CASE hal.op \in {"GET", "INC"} /\ CounterAnswer(err, a)
  <2>1. PICK value \in 0..CtrMax : Done(a.id, value)
    BY <1>0, <1>7 DEF CounterAnswer
  <2> QED BY <1>2, <1>7, <2>1
<1>8. hal.op \in {"INFO", "STORE", "READ", "SIGN", "GET", "INC"}
  BY Kinds DEF TypeInv, HalInv, HalStates
<1> QED BY <1>3, <1>4, <1>5, <1>6, <1>7, <1>8 DEF AteccAnswer

LEMMA Se051Ends ==
  ASSUME TypeInv, backend = "SE051", Se051Answer(out)
  PROVE  Continues \/ (Ends /\ Earned)
<1>0. I2c /\ backend # "ATECC"
  BY DEF I2c
<1>1. PICK byte \in Bytes(out) :
        IF hal.op = "INC" THEN SetNext(byte) ELSE Done(out.id, IF hal.op = "GET" THEN byte ELSE 0)
  BY DEF Se051Answer
<1>2. byte \in 0..CtrMax /\ 0 \in 0..CtrMax
  <2>1. out.ctr \in 0..CtrMax
    BY DEF TypeInv, ElementInv, Lines
  <2> QED BY <2>1, Bounds DEF Bytes
<1>3. CASE hal.op = "INC"
  <2>1. Parts(hal.op) = 2 /\ SetNext(byte)
    BY <1>1, <1>3 DEF Parts
  <2> QED BY <1>0, <1>2, <2>1, SetNextEnds DEF Earned
<1>4. CASE hal.op # "INC"
  <2>1. PICK value \in 0..CtrMax : Done(out.id, value)
    BY <1>1, <1>2, <1>4
  <2> QED BY <1>0, <2>1, DoneEnds DEF Earned
<1> QED BY <1>3, <1>4

\* What a packet leaves behind is in the invariant.
LEMMA I2cKeeps ==
  ASSUME SeHalInv, I2c, hal.step \in {"send", "recv"}, Continues \/ (Ends /\ Earned),
         UNCHANGED <<backend, tx, rx, clean, calls, restarts>>, did \subseteq did', ElementInv',
         backend = "ATECC" /\ hal'.step = "recv" =>
           out'.id = hal.id /\ (out'.kind # "ERR" /\ out'.id > 0 => out'.id \in did')
  PROVE  SeHalInv'
<1>1. /\ ElementInv /\ HalInv /\ RetInv /\ ByteInv /\ DoneInv /\ OkMeansDone
      /\ ~Uart /\ ~Uart' /\ I2c' /\ backend' = backend
  BY Drivers DEF SeHalInv, TypeInv, Uart, I2c
<1>2. \A i \in 1..Len(rx') : rx'[i].kind # "ERR" /\ rx'[i].id > 0 => rx'[i].id \in did'
  BY <1>1 DEF DoneInv
<1>3. CASE Continues
  <2>1. HalInv' /\ ByteInv'
    BY <1>1, <1>3 DEF HalInv, ByteInv, Continues, Steps, Parts
  <2>2. RetInv' /\ OkMeansDone'
    BY <1>1, <1>3 DEF RetInv, OkMeansDone, Continues
  <2>3. DoneInv'
    BY <1>1, <1>2, <1>3 DEF DoneInv, Continues
  <2> QED BY <1>1, <2>1, <2>2, <2>3 DEF SeHalInv, TypeInv
<1>4. CASE Ends /\ Earned
  <2>1. /\ hal' \in HalStates /\ hal'.step = "idle" /\ hal'.op = "INFO" /\ hal'.id = 0
        /\ hal'.try = 0 /\ hal'.part = 1
    BY <1>4, Idles DEF Ends
  <2>2. HalInv' /\ ByteInv' /\ RetInv' /\ DoneInv'
    <3>1. HalInv' /\ ByteInv'
      BY <1>1, <2>1, Bounds DEF HalInv, ByteInv, Steps
    <3> QED BY <1>2, <1>4, <2>1, <3>1 DEF DoneInv, Ends
  <2>3. OkMeansDone'
    <3> SUFFICES ASSUME backend = "ATECC", ret'.ok, hal.op \notin {"INFO", "GET", "INC"} PROVE hal.id \in did'
      BY <1>1, <1>4 DEF OkMeansDone, Ends
    <3>1. hal.step = "recv" /\ out.kind # "ERR"
      BY <1>4 DEF Earned
    <3>2. out.id = hal.id /\ hal.id > 0
      BY <1>1, <3>1 DEF DoneInv, HalInv
    <3> QED BY <1>1, <3>1, <3>2 DEF DoneInv
  <2> QED BY <1>1, <2>2, <2>3 DEF SeHalInv, TypeInv
<1> QED BY <1>3, <1>4

LEMMA RecvPacketKeeps == ASSUME SeHalInv, RecvPacket PROVE SeHalInv'
<1>1. /\ I2c /\ hal.step = "recv"
      /\ UNCHANGED <<backend, tx, rx, out, ctr, did, clean, calls, restarts>>
  BY DEF RecvPacket
<1>2. TypeInv /\ ElementInv /\ ByteInv /\ DoneInv /\ hal.step \in {"send", "recv"} /\ out \in Lines
  BY <1>1 DEF SeHalInv, TypeInv, ElementInv
<1>3. NoReply \in Lines /\ "SE_ERR_COMM" # "SE_OK" /\ "SE_ERR_PARAM" # "SE_OK"
  <2>1. 0 \in 0..CtrMax
    BY Bounds
  <2> QED BY <2>1 DEF NoReply, Lines
<1>4. Continues \/ (Ends /\ Earned)
  <2>1. CASE Retry("SE_ERR_COMM")
    BY <1>1, <1>2, <1>3, <2>1, RetryEnds
  <2>2. CASE Unreachable("SE_ERR_COMM")
    BY <1>1, <1>2, <1>3, <2>2, UnreachableEnds
  <2>3. CASE backend = "ATECC" /\ AteccAnswer("SE_ERR_COMM", NoReply)
    BY <1>1, <1>2, <1>3, <2>3, AteccEnds
  <2>4. CASE backend = "ATECC" /\ AteccAnswer("SE_ERR_PARAM", NoReply)
    BY <1>1, <1>2, <1>3, <2>4, AteccEnds
  <2>5. CASE backend = "ATECC" /\ AteccAnswer("SE_OK", out)
    BY <1>1, <1>2, <2>5, AteccEnds
  <2>6. CASE backend = "SE051" /\ Se051Answer(out)
    BY <1>2, <2>6, Se051Ends
  <2> QED BY <2>1, <2>2, <2>3, <2>4, <2>5, <2>6 DEF RecvPacket
<1>5. ElementInv'
  BY <1>1, <1>2 DEF ElementInv
<1>6. backend = "ATECC" => out'.id = hal.id /\ (out'.kind # "ERR" /\ out'.id > 0 => out'.id \in did')
  BY <1>1, <1>2 DEF DoneInv
<1> QED BY <1>1, <1>2, <1>4, <1>5, <1>6, I2cKeeps

LEMMA SendPacketKeeps == ASSUME SeHalInv, SendPacket PROVE SeHalInv'
<1>1. /\ I2c /\ hal.step = "send"
      /\ UNCHANGED <<backend, tx, rx, clean, calls, restarts>>
  BY DEF SendPacket
<1>2. TypeInv /\ ElementInv /\ HalInv /\ ByteInv /\ DoneInv /\ hal.step \in {"send", "recv"}
  BY <1>1 DEF SeHalInv, TypeInv
<1>3. PICK acked \in BOOLEAN, arrived \in BOOLEAN, carried \in BOOLEAN :
        /\ acked => arrived
        /\ IF arrived THEN CarryOut(Packet, carried) ELSE UNCHANGED <<ctr, did>>
        /\ out' = IF arrived THEN Reply(ctr, Packet, carried) ELSE out
        /\ CASE ~acked -> Retry("SE_ERR_COMM")
             [] acked /\ WrittenBlind -> Done(hal.id, 0)
             [] OTHER -> hal' = [hal EXCEPT !.step = "recv", !.try = 0] /\ ret' = ret
  BY DEF SendPacket
<1>4. /\ hal \in HalStates /\ hal.op \in Ops /\ hal.id \in Nat /\ hal.id <= MaxCalls /\ hal.value \in 0..CtrMax
      /\ 0 \in 0..CtrMax /\ hal.part \in {1, 2} /\ (hal.part = 2 => Parts(hal.op) = 2)
  BY <1>2, Bounds DEF HalInv, HalStates, ElementInv
<1>5. /\ Packet \in Commands /\ Packet.id <= MaxCalls
      /\ backend = "ATECC" => Packet.id = hal.id
  <2>1. /\ Command("GET", 0, 0) \in Commands /\ Command("SET", hal.id, hal.value) \in Commands
        /\ Command("SET", hal.id, 0) \in Commands /\ Command(hal.op, hal.id, 0) \in Commands
    BY <1>4 DEF Command, Commands
  <2>2. 0 <= MaxCalls
    BY Bounds
  <2> QED BY <1>4, <2>1, <2>2 DEF Packet, Command
<1> PICK packet : packet = Packet
  OBVIOUS
<1>6. ASSUME arrived
      PROVE  /\ ctr' \in 0..CtrMax /\ did \subseteq did' /\ did' \subseteq 0..MaxCalls
             /\ out' \in Lines /\ out'.id = packet.id
             /\ out'.kind # "ERR" /\ packet.id > 0 => packet.id \in did'
  <2>1. CarryOut(packet, carried) /\ out' = Reply(ctr, packet, carried)
    BY <1>3, <1>6
  <2> QED BY <1>2, <1>5, <2>1, Accounted
<1>7. ASSUME ~arrived PROVE UNCHANGED <<ctr, did, out>>
  BY <1>3, <1>7
<1>8. ElementInv' /\ did \subseteq did'
  <2>1. /\ ctr' \in 0..CtrMax /\ did \subseteq did' /\ did' \subseteq 0..MaxCalls /\ out' \in Lines
    <3>1. ctr \in 0..CtrMax /\ did \subseteq 0..MaxCalls /\ out \in Lines
      BY <1>2 DEF ElementInv
    <3> QED BY <1>6, <1>7, <3>1
  <2> QED BY <1>1, <1>2, <2>1 DEF ElementInv
<1>9. CASE ~acked
  <2>1. Retry("SE_ERR_COMM") /\ "SE_ERR_COMM" # "SE_OK"
    BY <1>3, <1>9
  <2>2. (Continues /\ hal'.step = "send") \/ (Ends /\ Earned)
    BY <1>1, <1>2, <2>1, RetryEnds
  <2>3. hal'.step # "recv"
    BY <2>2, Idles DEF Ends
  <2> QED BY <1>1, <1>2, <1>8, <2>2, <2>3, I2cKeeps
<1>10. CASE acked /\ WrittenBlind
  <2>1. Done(hal.id, 0)
    BY <1>3, <1>10
  <2>2. Ends /\ Earned
    BY <1>1, <1>2, <1>4, <1>10, <2>1, DoneEnds DEF Earned, WrittenBlind
  <2>3. hal'.step # "recv"
    BY <2>2, Idles DEF Ends
  <2> QED BY <1>1, <1>2, <1>8, <2>2, <2>3, I2cKeeps
<1>11. CASE acked /\ ~WrittenBlind
  <2>1. hal' = [hal EXCEPT !.step = "recv", !.try = 0] /\ ret' = ret
    BY <1>3, <1>11
  <2>2. hal' \in HalStates
    BY <1>4, <2>1 DEF HalStates
  <2>3. /\ hal'.op = hal.op /\ hal'.id = hal.id /\ hal'.step = "recv" /\ hal'.try = 0
        /\ hal'.part = hal.part /\ hal'.value = hal.value
    BY <1>4, <2>1 DEF HalStates
  <2>4. Continues
    BY <1>2, <1>4, <2>1, <2>2, <2>3, Bounds DEF Continues, ByteInv
  <2>5. backend = "ATECC" => out'.id = hal.id /\ (out'.kind # "ERR" /\ out'.id > 0 => out'.id \in did')
    BY <1>3, <1>5, <1>6, <1>11
  <2> QED BY <1>1, <1>2, <1>8, <2>4, <2>5, I2cKeeps
<1> QED BY <1>9, <1>10, <1>11

-----------------------------------------------------------------------------
(* The calls and the restarts, of both kinds of drivers.                      *)
LEMMA RefusalsAreErrors == \A op : \A err \in Refusals(op) : err # "SE_OK"
BY DEF Refusals

LEMMA RefusedKeeps ==
  ASSUME SeHalInv, NEW op \in Calls, NEW err, err # "SE_OK", hal.step = "idle", calls < MaxCalls,
         ret' = [op |-> op, id |-> calls + 1, ok |-> FALSE, err |-> err, from |-> 0, value |-> 0],
         calls' = calls + 1, UNCHANGED <<backend, hal, tx, rx, out, ctr, did, clean, restarts>>
  PROVE  SeHalInv'
<1>1. ElementInv /\ HalInv /\ DoneInv /\ ByteInv
  BY DEF SeHalInv, TypeInv
<1>2. ElementInv' /\ HalInv' /\ ByteInv' /\ DoneInv'
  <2>1. ElementInv'
    BY <1>1, Bounds DEF ElementInv
  <2>2. HalInv' /\ ByteInv' /\ DoneInv'
    BY <1>1 DEF HalInv, ByteInv, DoneInv, Steps, Uart, I2c, Parts
  <2> QED BY <2>1, <2>2
<1>3. RetInv' /\ ret'.ok = FALSE
  <2>1. ret'.op = op /\ ret'.ok = FALSE /\ ret'.err = err /\ ret'.value = 0 /\ 0 \in 0..CtrMax
    BY Bounds
  <2>2. op \in Ops
    BY DEF Ops
  <2>3. ret'.ok = (ret'.err = "SE_OK")
    BY <2>1, Zenon
  <2> QED BY <2>1, <2>2, <2>3, Zenon DEF RetInv
<1>4. OkMeansDone'
  BY <1>3 DEF OkMeansDone
<1>5. Uart => IdInv' /\ FifoInv' /\ CleanInv'
  <2> SUFFICES ASSUME Uart PROVE IdInv' /\ FifoInv' /\ CleanInv'
    OBVIOUS
  <2>1. IdInv /\ CleanInv /\ calls \in Int
    BY <1>1 DEF SeHalInv, ElementInv
  <2>2. Lowest' = Lowest /\ UnderWay' = UnderWay
    BY DEF Lowest, UnderWay, ProbeId
  <2>3. IdInv'
    BY <2>1, <2>2 DEF IdInv
  <2> QED BY <2>1, <2>3 DEF FifoInv, CleanInv
<1> QED BY <1>2, <1>3, <1>4, <1>5 DEF SeHalInv, TypeInv, Uart

LEMMA BeginKeeps ==
  ASSUME SeHalInv, NEW op \in Calls, hal.step = "idle", calls < MaxCalls, ~MustRefuse(op),
         Begin(op, calls + 1), tx' = IF Uart THEN Append(tx, Command(op, calls + 1, 0)) ELSE tx,
         calls' = calls + 1, UNCHANGED <<backend, rx, out, ctr, ret, did, clean, restarts>>
  PROVE  SeHalInv'
<1> DEFINE n == calls + 1
<1> DEFINE cmd == Command(op, n, 0)
<1>1. /\ ElementInv /\ HalInv /\ RetInv /\ DoneInv /\ OkMeansDone
      /\ calls \in Nat /\ n \in Nat /\ n > 0 /\ n \in 0..MaxCalls /\ hal.ready \in BOOLEAN
  BY Bounds DEF SeHalInv, TypeInv, ElementInv, HalInv, HalStates
<1>2. op \in Ops /\ op # "INFO" /\ 0 \in 0..CtrMax /\ (backend = "ATECC" => op # "RESET")
  BY Bounds DEF Ops, Calls, MustRefuse
<1>3. cmd \in Commands /\ cmd.id = n
  BY <1>1, <1>2 DEF Command, Commands
<1> HIDE DEF cmd
<1>4. hal' = [ready |-> hal.ready, step |-> IF Uart THEN "wait" ELSE "send", op |-> op, id |-> n,
              try |-> 0, part |-> 1, value |-> 0]
  BY DEF Begin, Idle
<1>5. hal' \in HalStates
  BY <1>1, <1>2, <1>4 DEF HalStates
<1>6. /\ hal'.step = (IF Uart THEN "wait" ELSE "send") /\ hal'.op = op /\ hal'.id = n /\ hal'.try = 0
      /\ hal'.part = 1
  BY <1>4
<1>7. HalInv' /\ ByteInv'
  <2>1. hal'.step \in Steps'
    BY <1>6 DEF Steps, Uart
  <2> QED BY <1>1, <1>2, <1>5, <1>6, <2>1, Bounds, Drivers DEF HalInv, ByteInv, Uart, I2c
<1>8. ElementInv' /\ RetInv' /\ OkMeansDone' /\ DoneInv'
  <2>1. tx' \in Seq(Commands)
    <3>1. tx' = IF Uart THEN Append(tx, cmd) ELSE tx
      BY DEF cmd
    <3> QED BY <1>1, <1>3, <3>1 DEF ElementInv
  <2>2. ElementInv'
    BY <1>1, <2>1 DEF ElementInv
  <2>3. RetInv' /\ OkMeansDone'
    BY <1>1 DEF RetInv, OkMeansDone, Uart
  <2>4. DoneInv'
    BY <1>1, <1>6, Drivers DEF DoneInv, Uart
  <2> QED BY <2>2, <2>3, <2>4
<1>9. ASSUME Uart PROVE IdInv' /\ FifoInv' /\ CleanInv'
  <2>1. /\ IdInv /\ CleanInv /\ tx' = Append(tx, cmd) /\ tx \in Seq(Commands)
        /\ hal'.step = "wait" /\ Own' = n
    BY <1>1, <1>2, <1>6, <1>9 DEF SeHalInv, ElementInv, Own, cmd
  <2>2. Lowest' = ProbeId(Retries) /\ Lowest = ProbeId(Retries) /\ Lowest \in Int /\ Lowest <= 0
    <3>1. ProbeId(Retries) \in Int /\ ProbeId(Retries) <= 0
      BY <1>1, ProbeIds, Bounds DEF ElementInv
    <3> QED BY <1>2, <1>6, <3>1 DEF Lowest, ProbeId
  <2>3. /\ Len(tx') = Len(tx) + 1 /\ Len(tx) \in Nat /\ tx'[Len(tx) + 1] = cmd
        /\ \A i \in 1..Len(tx) : tx'[i] = tx[i] /\ tx[i].id \in Lowest..calls
        /\ \A i \in 1..Len(rx) : rx[i].id \in Lowest..calls
    BY <2>1 DEF IdInv, UnderWay
  <2>4. IdInv'
    BY <1>1, <1>3, <2>2, <2>3 DEF IdInv, UnderWay
  <2>5. FifoInv'
    BY <1>1, <1>3, <2>1, <2>2, <2>3 DEF FifoInv
  <2>6. CleanInv'
    <3>1. clean => tx = <<>> /\ rx = <<>>
      BY <2>1 DEF CleanInv
    <3>2. clean => Len(tx') = 1 /\ tx'[1].id = n
      BY <1>3, <2>3, <3>1
    <3> QED BY <2>1, <3>1, <3>2 DEF CleanInv
  <2> QED BY <2>4, <2>5, <2>6
<1> QED BY <1>7, <1>8, <1>9 DEF SeHalInv, TypeInv, Uart

LEMMA CallKeeps == ASSUME SeHalInv, NEW op \in Calls, Call(op) PROVE SeHalInv'
<1>1. CASE \E err \in Refusals(op) :
             /\ ret' = [op |-> op, id |-> calls', ok |-> FALSE, err |-> err, from |-> 0, value |-> 0]
             /\ UNCHANGED <<hal, tx>>
  BY <1>1, RefusalsAreErrors, RefusedKeeps DEF Call
<1>2. CASE ~MustRefuse(op) /\ Begin(op, calls') /\ UNCHANGED ret
           /\ tx' = IF Uart THEN Append(tx, Command(op, calls', 0)) ELSE tx
  BY <1>2, BeginKeeps DEF Call
<1> QED BY <1>1, <1>2 DEF Call

LEMMA RestartKeeps == ASSUME SeHalInv, Restart PROVE SeHalInv'
<1>1. /\ restarts' = restarts + 1 /\ hal' = Booting /\ rx' = <<>> /\ ret' = NoRet
      /\ clean' = (clean /\ hal.step # "wait") /\ UNCHANGED <<backend, tx, out, ctr, did, calls>>
  BY DEF Restart
<1>2. ElementInv /\ HalInv /\ DoneInv
  BY DEF SeHalInv, TypeInv
<1>3. hal' = [ready |-> FALSE, step |-> IF Uart THEN "init" ELSE "send", op |-> "INFO", id |-> 0,
              try |-> 0, part |-> 1, value |-> 0]
  BY <1>1 DEF Booting, Idle
<1>4. "INFO" \in Ops /\ 0 \in 0..CtrMax
  BY Bounds DEF Ops
<1>5. hal' \in HalStates
  BY <1>3, <1>4 DEF HalStates
<1>6. /\ hal'.step = (IF Uart THEN "init" ELSE "send") /\ hal'.op = "INFO" /\ hal'.id = 0
      /\ hal'.try = 0 /\ hal'.part = 1
  BY <1>3
<1>7. HalInv' /\ ByteInv'
  <2>1. hal'.step \in Steps'
    BY <1>1, <1>6 DEF Steps, Uart
  <2> QED BY <1>1, <1>2, <1>5, <1>6, <2>1, Bounds, Drivers DEF HalInv, ByteInv, Uart, I2c
<1>8. ElementInv'
  BY <1>1, <1>2, <1>4 DEF ElementInv
<1>9. RetInv' /\ ret'.ok = FALSE
  <2>1. ret'.op = "INFO" /\ ret'.ok = FALSE /\ ret'.err = "SE_ERR_COMM" /\ ret'.value = 0
    BY <1>1 DEF NoRet
  <2>2. ret'.ok = (ret'.err = "SE_OK")
    BY <2>1, Zenon
  <2> QED BY <1>4, <2>1, <2>2, Zenon DEF RetInv
<1>10. DoneInv' /\ OkMeansDone'
  BY <1>1, <1>2, <1>6, <1>9, Drivers DEF DoneInv, OkMeansDone, Uart
<1>11. ASSUME Uart PROVE IdInv' /\ FifoInv' /\ CleanInv'
  <2>1. IdInv /\ CleanInv /\ hal'.step = "init" /\ hal.step \in {"idle", "init", "wait"}
    BY <1>2, <1>6, <1>11 DEF SeHalInv, HalInv, Steps
  <2>2. Lowest' <= Lowest /\ Lowest' \in Int /\ Lowest \in Int
    <3>1. hal.try \in Nat /\ hal.try <= Retries /\ restarts \in Nat
      BY <1>2, <1>11 DEF HalInv, HalStates, ElementInv
    <3>2. /\ ProbeId(Retries) <= ProbeId(hal.try) /\ ProbeId(Retries) \in Int /\ ProbeId(hal.try) \in Int
          /\ ProbeId(0)' = ProbeId(Retries)
      BY <1>1, <3>1, ProbeIds, Bounds
    <3>3. Lowest' = ProbeId(0)'
      BY <1>6, <2>1 DEF Lowest, ProbeId
    <3> QED BY <3>2, <3>3 DEF Lowest
  <2>3. UnderWay' \subseteq UnderWay
    BY <1>1 DEF UnderWay
  <2>4. IdInv'
    BY <1>1, <1>2, <2>1, <2>2, <2>3 DEF IdInv, ElementInv
  <2> QED BY <1>1, <2>1, <2>4 DEF FifoInv, CleanInv
<1> QED BY <1>1, <1>7, <1>8, <1>9, <1>10, <1>11 DEF SeHalInv, TypeInv, Uart

LEMMA HalSteps == SeHalInv /\ [Next]_vars => SeHalInv'
<1> SUFFICES ASSUME SeHalInv, [Next]_vars PROVE SeHalInv'
  OBVIOUS
<1>1. CASE UNCHANGED vars
  <2>1. TypeInv' /\ ByteInv' /\ DoneInv' /\ OkMeansDone'
    <3>1. ElementInv' /\ RetInv'
      BY <1>1 DEF SeHalInv, TypeInv, vars, ElementInv, RetInv
    <3>2. HalInv'
      BY <1>1 DEF SeHalInv, TypeInv, vars, HalInv, Steps, Uart, I2c, Parts
    <3>3. ByteInv' /\ DoneInv' /\ OkMeansDone'
      BY <1>1 DEF SeHalInv, vars, ByteInv, DoneInv, OkMeansDone, Uart
    <3> QED BY <3>1, <3>2, <3>3 DEF TypeInv
  <2>2. Uart' => IdInv' /\ FifoInv' /\ CleanInv'
    BY <1>1 DEF SeHalInv, vars, IdInv, FifoInv, CleanInv, Lowest, Own, UnderWay, ProbeId, Uart
  <2> QED BY <2>1, <2>2 DEF SeHalInv
<1>2. CASE Probe
  BY <1>2, ProbeKeeps
<1>3. CASE GiveUp
  BY <1>3, GiveUpKeeps
<1>4. CASE SkipLine
  BY <1>4, SkipLineKeeps
<1>5. CASE TakeLine
  BY <1>5, TakeLineKeeps
<1>6. CASE TimeOut
  BY <1>6, TimeOutKeeps
<1>7. CASE SendPacket
  BY <1>7, SendPacketKeeps
<1>8. CASE RecvPacket
  BY <1>8, RecvPacketKeeps
<1>9. CASE TakeCommand
  BY <1>9, TakeCommandKeeps
<1>10. CASE Restart
  BY <1>10, RestartKeeps
<1>11. CASE \E op \in Calls : Call(op)
  BY <1>11, CallKeeps
<1> QED BY <1>1, <1>2, <1>3, <1>4, <1>5, <1>6, <1>7, <1>8, <1>9, <1>10, <1>11 DEF Next, DriverStep

-----------------------------------------------------------------------------
(* The state of the driver that a build has is always of its type, its        *)
(* attempts below the counts of their loops, and an error code other than     *)
(* SE_OK is returned exactly by a call that failed.                           *)
THEOREM AlwaysSeHalTypeOK == Spec => []SeHalTypeOK
<1>1. SeHalInv => SeHalTypeOK
  <2> SUFFICES ASSUME SeHalInv PROVE SeHalTypeOK
    OBVIOUS
  <2>1. ElementInv /\ HalInv /\ RetInv
    BY DEF SeHalInv, TypeInv
  <2>2. hal \in HalStates /\ (hal.part = 2 => Parts(hal.op) = 2)
    BY <2>1 DEF HalInv
  <2>3. hal.part \in 1..Parts(hal.op)
    BY <2>2 DEF HalStates, Parts
  <2>4. hal.try <= IF Uart THEN Retries ELSE Tries - 1
    BY <2>1, <2>2, Bounds, Drivers DEF HalInv, HalStates
  <2>5. out.kind \in {"none", "ERR"} \cup {Kind(op) : op \in Calls \cup {"INFO", "SET"}}
    BY <2>1 DEF ElementInv, Lines, Answered, Ops
  <2>6. hal.step \in {"idle", "init", "wait", "send", "recv"} /\ hal.op \in Calls \cup {"INFO"} /\ hal.value \in 0..CtrMax
    BY <2>2 DEF HalStates, Ops
  <2>7. backend \in Backends /\ ctr \in 0..CtrMax /\ did \subseteq 0..MaxCalls
    BY <2>1 DEF ElementInv
  <2>8. ret.op \in Calls \cup {"INFO"} /\ ret.value \in 0..CtrMax /\ ret.ok = (ret.err = "SE_OK")
    BY <2>1, Zenon DEF RetInv, Ops
  <2> QED BY <2>3, <2>4, <2>5, <2>6, <2>7, <2>8, Zenon DEF SeHalTypeOK
<1> QED BY <1>1, HalInit, HalSteps, PTL DEF Spec

(* SE_OK means that the element did what this very call asked: over the UART  *)
(* as long as no command has been left unanswered, with the ATECC608B for all *)
(* calls but those of its counter, however many calls are made, lines or      *)
(* packets lost or late, and restarts in the middle of them.                  *)
THEOREM AlwaysOkMeansDone == Spec => []OkMeansDone
<1>1. SeHalInv => OkMeansDone
  BY DEF SeHalInv
<1> QED BY <1>1, HalInit, HalSteps, PTL DEF Spec

(* Whatever byte its read brought, the SE051 driver never writes zero for an  *)
(* increment, in a counter of any width.                                      *)
THEOREM AlwaysCounterNeverWraps == Spec => CounterNeverWraps
<1>1. ASSUME SeHalInv, [Next]_vars
      PROVE  [backend = "SE051" /\ hal.op = "INC" /\ ctr' # ctr => ctr' > 0]_vars
  <2> SUFFICES ASSUME backend = "SE051", hal.op = "INC", ctr' # ctr, Next PROVE ctr' > 0
    BY <1>1 DEF vars
  <2>1. ~Uart
    BY DEF Uart
  <2>2. ElementInv /\ HalInv /\ ByteInv
    BY <1>1 DEF SeHalInv, TypeInv
  <2>3. SendPacket
    BY <2>1 DEF Next, DriverStep, Probe, GiveUp, SkipLine, TakeLine, TimeOut, RecvPacket, TakeCommand, Restart, Call, element
  <2>4. PICK carried \in BOOLEAN : CarryOut(Packet, carried)
    BY <2>3 DEF SendPacket
  <2>5. ctr' = Counted(ctr, Packet) /\ ctr' # ctr
    BY <2>4 DEF CarryOut
  <2>6. hal.part \in {1, 2}
    BY <2>2 DEF HalInv, HalStates
  <2>7. CASE hal.part = 1
    <3>1. Packet.op = "GET"
      BY <2>7 DEF Packet, Command
    <3> QED BY <2>5, <3>1 DEF Counted
  <2>8. CASE hal.part = 2
    BY <2>2, <2>5, <2>8 DEF Packet, Command, Counted, ByteInv
  <2> QED BY <2>6, <2>7, <2>8
<1>2. SeHalInv /\ [Next]_vars => [backend = "SE051" /\ hal.op = "INC" /\ ctr' # ctr => ctr' > 0]_vars
  BY <1>1
<1> QED BY <1>2, HalInit, HalSteps, PTL DEF Spec, CounterNeverWraps
=============================================================================
