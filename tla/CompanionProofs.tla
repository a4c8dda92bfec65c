-------------------------- MODULE CompanionProofs --------------------------
(***************************************************************************)
(* Proofs about module Companion, for all values of its constants: any     *)
(* number of accounts, transactions, history entries and power losses.     *)
(*                                                                         *)
(* NVS first: what a sequence of writes leaves under each key, and so what *)
(* adding a transaction does to the history when all of its writes are     *)
(* made and when power fails between two of them.                          *)
(***************************************************************************)
EXTENDS Companion, FiniteSetTheorems, WellFoundedInduction, SequenceTheorems, TLAPS

-----------------------------------------------------------------------------
(* The greatest member of a set of positions.                                 *)

LEMMA Least == ASSUME NEW T, T \subseteq Nat, T # {} PROVE \E x \in T : \A y \in T : x <= y
<1> DEFINE U == {1..n : n \in T}
<1>1. U \subseteq FiniteSubsetsOf(Nat) /\ U # {}
  <2>1. ASSUME NEW n \in T PROVE 1..n \in SUBSET Nat /\ IsFiniteSet(1..n)
    BY FS_Interval
  <2> QED BY <2>1 DEF FiniteSubsetsOf
<1>2. \E u \in U : \A v \in U : ~(<<v, u>> \in StrictSubsetOrdering(Nat))
  <2> HIDE DEF U
  <2> QED BY <1>1, FS_StrictSubsetOrderingWellFounded, WFMin, Zenon
<1>3. PICK n \in T : \A m \in T : ~(<<1..m, 1..n>> \in StrictSubsetOrdering(Nat))
  BY <1>2
<1>4. ASSUME NEW m \in T, m < n PROVE FALSE
  <2>1. n \in Nat /\ m \in Nat
    OBVIOUS
  <2>2. 1..m \subseteq 1..n /\ 1..n \subseteq Nat /\ n \in 1..n /\ n \notin 1..m
    BY <2>1, <1>4
  <2>3. 1..m # 1..n /\ 1..m \in SUBSET Nat /\ 1..n \in SUBSET Nat
    BY <2>2, Zenon
  <2>4. <<1..m, 1..n>> \in StrictSubsetOrdering(Nat)
    BY <2>2, <2>3, Zenon DEF StrictSubsetOrdering
  <2> QED BY <2>4, <1>3
<1> QED BY <1>4

LEMMA MaxIsMember ==
  ASSUME NEW n \in Nat, NEW S, S \subseteq 1..n, S # {}
  PROVE  Max(S) \in S /\ \A y \in S : Max(S) >= y
<1> DEFINE T == {n - y : y \in S}
<1>1. T \subseteq Nat /\ T # {}
  OBVIOUS
<1>2. PICK x \in T : \A y \in T : x <= y
  BY <1>1, Least
<1>3. PICK m \in S : x = n - m
  BY <1>2
<1>4. ASSUME NEW y \in S PROVE m >= y
  BY <1>2, <1>3
<1>5. \E z \in S : \A y \in S : z >= y
  BY <1>4
<1> QED BY <1>5 DEF Max

-----------------------------------------------------------------------------
(* What the writes leave under a key.                                         *)

LEMMA HeldElsewhere ==
  ASSUME NEW writes, NEW at, NEW old, \A k \in DOMAIN writes : writes[k].at # at
  PROVE  Held(writes, at, old) = old
BY DEF Held

LEMMA HeldOnce ==
  ASSUME NEW writes, NEW at, NEW old, NEW k \in DOMAIN writes, k \in Int, writes[k].at = at,
         \A j \in DOMAIN writes : writes[j].at = at => j = k
  PROVE  Held(writes, at, old) = writes[k].value
<1> DEFINE mine == {j \in DOMAIN writes : writes[j].at = at}
<1>1. mine = {k}
  OBVIOUS
<1>2. Max({k}) = k
  BY DEF Max
<1>3. Held(writes, at, old) = writes[Max(mine)].value
  BY <1>1 DEF Held
<1> QED BY <1>1, <1>2, <1>3

LEMMA HeldIsWritten ==
  ASSUME NEW S, NEW writes \in Seq(S), NEW at, NEW old, NEW V, old \in V,
         \A k \in DOMAIN writes : writes[k].at = at => writes[k].value \in V
  PROVE  Held(writes, at, old) \in V
<1> DEFINE mine == {j \in DOMAIN writes : writes[j].at = at}
<1>1. CASE mine = {}
  BY <1>1 DEF Held
<1>2. CASE mine # {}
  <2>1. Len(writes) \in Nat /\ mine \subseteq 1..Len(writes)
    BY LenProperties
  <2>2. Max(mine) \in mine
    BY <1>2, <2>1, MaxIsMember
  <2>3. Held(writes, at, old) = writes[Max(mine)].value
    BY <1>2 DEF Held
  <2> QED BY <2>2, <2>3
<1> QED BY <1>1, <1>2

-----------------------------------------------------------------------------
(* The writes of an entry.                                                    *)

LEMMA Constants ==
  /\ Accounts \in Nat \ {0} /\ Types \in Nat \ {0} /\ MaxEntries \in Nat \ {0}
  /\ Window \in Nat /\ MaxIndex \in Nat /\ MaxCrashes \in Nat /\ Room \in Nat /\ Room >= 2
  /\ MaxWant \in Nat /\ 0 \in AccountIds /\ 0 \in 0..MaxIndex /\ 0 \in 0..MaxWant
<1>1. /\ Accounts \in Nat \ {0} /\ Types \in Nat \ {0} /\ MaxEntries \in Nat \ {0}
      /\ Window \in Nat /\ MaxIndex \in Nat /\ MaxCrashes \in Nat /\ Room \in Nat /\ Room >= 2
  BY CompanionBounds
<1>2. MaxWant \in Nat
  BY <1>1 DEF MaxWant
<1> QED BY <1>1, <1>2 DEF AccountIds

LEMMA FieldsOnce ==
  /\ \A k \in 1..4 : Fields[k] \in FieldNames
  /\ \A f \in FieldNames : \E k \in 1..4 : Fields[k] = f /\ \A j \in 1..4 : Fields[j] = f => j = k
<1>1. Fields[1] = "txid" /\ Fields[2] = "dir" /\ Fields[3] = "amount" /\ Fields[4] = "conf"
  BY DEF Fields
<1>2. \A k \in 1..4 : k = 1 \/ k = 2 \/ k = 3 \/ k = 4
  OBVIOUS
<1> QED BY <1>1, <1>2 DEF FieldNames

(* A transaction fills the slots from i to j with the entries of e, and then  *)
(* the count is c.                                                            *)
SlotWrite(i, e, k) ==
  Put(<<"slot", i + (k - 1) \div 4, Fields[1 + ((k - 1) % 4)]>>,
      e[i + (k - 1) \div 4][Fields[1 + ((k - 1) % 4)]])
Entries == [FieldNames -> Txs \cup {None}]
SlotWrites == [at : {"slot"} \X Slots \X FieldNames, value : Txs \cup {None}]
Writes == SlotWrites \cup [at : {<<"count">>}, value : 0..MaxEntries]
                     \cup [at : {<<"conf_sats">>, <<"unconf_sats">>}, value : Int]
Fills(writes, i, j, e, c) ==
  /\ writes \in Seq(Writes) /\ Len(writes) = 4 * (j - i + 1) + 1
  /\ \A k \in 1..(4 * (j - i + 1)) : writes[k] = SlotWrite(i, e, k)
  /\ writes[4 * (j - i + 1) + 1] = Put(<<"count">>, c)

LEMMA Places ==
  ASSUME NEW i \in Nat, NEW j \in Nat, i <= j, NEW k \in 1..(4 * (j - i + 1))
  PROVE  (k - 1) \div 4 \in Nat /\ i + (k - 1) \div 4 \in i..j /\ 1 + ((k - 1) % 4) \in 1..4
OBVIOUS

LEMMA Filling ==
  ASSUME NEW i \in Slots, NEW j \in Slots, i <= j,
         NEW e \in [Slots -> Entries], NEW c \in 0..MaxEntries
  PROVE  Fills(PutEntries(i, j, e) \o <<Put(<<"count">>, c)>>, i, j, e, c)
<1> DEFINE P == PutEntries(i, j, e)
           N == 4 * (j - i + 1)
<1>0. i \in Nat /\ j \in Nat /\ N \in Nat /\ i..j \subseteq Slots
  BY Constants DEF Slots
<1>1. P = [k \in 1..N |-> SlotWrite(i, e, k)]
  BY DEF PutEntries, SlotWrite
<1>2. ASSUME NEW k \in 1..N PROVE SlotWrite(i, e, k) \in Writes
  <2>1. i + (k - 1) \div 4 \in Slots /\ 1 + ((k - 1) % 4) \in 1..4
    BY <1>0, Places
  <2>2. PICK s \in Slots, m \in 1..4 : s = i + (k - 1) \div 4 /\ m = 1 + ((k - 1) % 4)
    BY <2>1
  <2>3. Fields[m] \in FieldNames
    BY FieldsOnce
  <2>4. e[s][Fields[m]] \in Txs \cup {None}
    BY <2>3 DEF Entries
  <2>5. SlotWrite(i, e, k) = [at |-> <<"slot", s, Fields[m]>>, value |-> e[s][Fields[m]]]
    BY <2>2 DEF SlotWrite, Put
  <2>6. <<"slot", s, Fields[m]>> \in {"slot"} \X Slots \X FieldNames
    BY <2>3
  <2> QED BY <2>4, <2>5, <2>6 DEF Writes, SlotWrites
<1>3. P \in Seq(Writes) /\ Len(P) = N
  <2>1. P \in [1..N -> Writes]
    BY <1>1, <1>2
  <2> HIDE DEF P
  <2> QED BY <1>0, <2>1
<1>4. <<Put(<<"count">>, c)>> \in Seq(Writes)
  BY DEF Put, Writes
<1> HIDE DEF P, N
<1>5. /\ P \o <<Put(<<"count">>, c)>> \in Seq(Writes) /\ Len(P \o <<Put(<<"count">>, c)>>) = N + 1
      /\ \A k \in 1..N : (P \o <<Put(<<"count">>, c)>>)[k] = P[k]
      /\ (P \o <<Put(<<"count">>, c)>>)[N + 1] = Put(<<"count">>, c)
  BY <1>0, <1>3, <1>4, ConcatProperties
<1> QED BY <1>1, <1>5 DEF Fills, P, N

Begun(done, writes, m) ==
  /\ m \in 0..Len(writes) /\ done \in Seq(Writes) /\ Len(done) = m
  /\ \A k \in 1..m : done[k] = writes[k]

LEMMA Slot4 ==
  ASSUME NEW i \in Nat, NEW s \in Nat, i <= s, NEW p \in 1..4
  PROVE  LET k == 4 * (s - i) + p
         IN /\ k \in Nat /\ i + (k - 1) \div 4 = s /\ 1 + ((k - 1) % 4) = p
            /\ \A l \in Nat \ {0} : i + (l - 1) \div 4 = s /\ 1 + ((l - 1) % 4) = p => l = k
OBVIOUS

LEMMA Kinds ==
  ASSUME NEW s, NEW f
  PROVE  /\ <<"slot", s, f>> # <<"count">> /\ <<"slot", s, f>> # <<"conf_sats">>
         /\ <<"slot", s, f>> # <<"unconf_sats">>
OBVIOUS

(* Where the keys of the writes done so far are.                              *)
LEMMA BegunKeys ==
  ASSUME NEW i \in Slots, NEW j \in Slots, i <= j, NEW e, NEW c,
         NEW writes, Fills(writes, i, j, e, c), NEW m, NEW done, Begun(done, writes, m)
  PROVE  /\ DOMAIN done = 1..m /\ m \in Nat /\ 4 * (j - i + 1) \in Nat /\ m <= 4 * (j - i + 1) + 1
         /\ \A k \in 1..m : k <= 4 * (j - i + 1) =>
              done[k].at = <<"slot", i + (k - 1) \div 4, Fields[1 + ((k - 1) % 4)]>>
         /\ \A k \in 1..m : k > 4 * (j - i + 1) => k = 4 * (j - i + 1) + 1 /\ done[k].at = <<"count">>
<1>0. i \in Nat /\ j \in Nat /\ 4 * (j - i + 1) \in Nat
  BY Constants DEF Slots
<1>1. Len(writes) = 4 * (j - i + 1) + 1 /\ m \in Nat /\ m <= 4 * (j - i + 1) + 1
  BY <1>0 DEF Fills, Begun
<1>2. DOMAIN done = 1..m
  BY LenProperties DEF Begun
<1>3. ASSUME NEW k \in 1..m, k <= 4 * (j - i + 1)
      PROVE  done[k].at = <<"slot", i + (k - 1) \div 4, Fields[1 + ((k - 1) % 4)]>>
  <2>1. done[k] = SlotWrite(i, e, k)
    BY <1>0, <1>1, <1>3 DEF Fills, Begun
  <2> QED BY <2>1 DEF SlotWrite, Put
<1>4. ASSUME NEW k \in 1..m, k > 4 * (j - i + 1)
      PROVE  k = 4 * (j - i + 1) + 1 /\ done[k].at = <<"count">>
  <2>1. k = 4 * (j - i + 1) + 1
    BY <1>0, <1>1, <1>4
  <2>2. done[k] = Put(<<"count">>, c)
    BY <2>1 DEF Fills, Begun
  <2> QED BY <2>1, <2>2 DEF Put
<1> QED BY <1>0, <1>1, <1>2, <1>3, <1>4

(* The other slots and the cache are never written, the count last.           *)
LEMMA BegunKeeps ==
  ASSUME NEW i \in Slots, NEW j \in Slots, i <= j, NEW e, NEW c,
         NEW writes, Fills(writes, i, j, e, c), NEW m, NEW done, Begun(done, writes, m), NEW old
  PROVE  /\ \A s \in Slots, f \in FieldNames : s \notin i..j => Held(done, <<"slot", s, f>>, old) = old
         /\ Held(done, <<"conf_sats">>, old) = old /\ Held(done, <<"unconf_sats">>, old) = old
         /\ m < Len(writes) => Held(done, <<"count">>, old) = old
<1>0. i \in Nat /\ j \in Nat /\ Len(writes) = 4 * (j - i + 1) + 1
  BY Constants DEF Slots, Fills
<1>k. /\ \A k \in 1..m : k <= 4 * (j - i + 1) =>
           done[k].at = <<"slot", i + (k - 1) \div 4, Fields[1 + ((k - 1) % 4)]>>
      /\ DOMAIN done = 1..m
  BY BegunKeys
<1>1. ASSUME NEW s \in Slots, NEW f \in FieldNames, s \notin i..j, NEW k \in DOMAIN done
      PROVE  done[k].at # <<"slot", s, f>>
  <2>1. k \in 1..m /\ m \in Nat
    BY BegunKeys
  <2>2. CASE k <= 4 * (j - i + 1)
    <3>1. i + (k - 1) \div 4 \in i..j
      BY <1>0, <2>1, <2>2, Places
    <3>2. done[k].at = <<"slot", i + (k - 1) \div 4, Fields[1 + ((k - 1) % 4)]>>
      BY <1>k, <2>1, <2>2
    <3> QED BY <1>1, <3>1, <3>2
  <2>3. CASE k > 4 * (j - i + 1)
    BY <2>1, <2>3, BegunKeys, Kinds
  <2> QED BY <1>0, <2>1, <2>2, <2>3
<1>2. ASSUME NEW k \in DOMAIN done, NEW at \in {<<"conf_sats">>, <<"unconf_sats">>}
      PROVE  done[k].at # at
  <2>1. k \in 1..m /\ m \in Nat
    BY BegunKeys
  <2>2. CASE k <= 4 * (j - i + 1)
    BY <2>1, <2>2, BegunKeys, Kinds
  <2>3. CASE k > 4 * (j - i + 1)
    BY <2>1, <2>3, BegunKeys
  <2> QED BY <1>0, <2>1, <2>2, <2>3
<1>3. ASSUME m < Len(writes), NEW k \in DOMAIN done
      PROVE  done[k].at # <<"count">>
  <2>1. k \in 1..m /\ m \in Nat /\ k <= 4 * (j - i + 1)
    BY <1>0, <1>3, BegunKeys
  <2> QED BY <2>1, BegunKeys, Kinds
<1>4. ASSUME NEW s \in Slots, NEW f \in FieldNames, s \notin i..j PROVE Held(done, <<"slot", s, f>>, old) = old
  BY <1>1, <1>4, HeldElsewhere
<1>5. Held(done, <<"conf_sats">>, old) = old /\ Held(done, <<"unconf_sats">>, old) = old
  BY <1>2, HeldElsewhere
<1>6. ASSUME m < Len(writes) PROVE Held(done, <<"count">>, old) = old
  BY <1>3, <1>6, HeldElsewhere
<1> QED BY <1>4, <1>5, <1>6

LEMMA SlotKept ==
  ASSUME NEW i \in Slots, NEW j \in Slots, i <= j, NEW e, NEW c,
         NEW writes, Fills(writes, i, j, e, c), NEW m, NEW done, Begun(done, writes, m), NEW old,
         NEW s \in Slots, NEW f \in FieldNames, s \notin i..j
  PROVE  Held(done, <<"slot", s, f>>, old) = old
BY BegunKeeps

(* When all writes are done, the slots hold the entries and the count is c.   *)
LEMMA FilledHolds ==
  ASSUME NEW i \in Slots, NEW j \in Slots, i <= j, NEW e, NEW c,
         NEW writes, Fills(writes, i, j, e, c), NEW old
  PROVE  /\ \A s \in Slots, f \in FieldNames : s \in i..j => Held(writes, <<"slot", s, f>>, old) = e[s][f]
         /\ Held(writes, <<"count">>, old) = c
<1> DEFINE N == 4 * (j - i + 1)
<1>0. i \in Nat /\ j \in Nat /\ N \in Nat /\ Len(writes) = N + 1
  BY Constants DEF Slots, Fills
<1>1. Begun(writes, writes, N + 1)
  BY <1>0 DEF Begun, Fills
<1>2. /\ DOMAIN writes = 1..(N + 1)
      /\ \A k \in 1..(N + 1) : k <= N =>
           writes[k].at = <<"slot", i + (k - 1) \div 4, Fields[1 + ((k - 1) % 4)]>>
  BY <1>1, BegunKeys
<1>3. ASSUME NEW s \in i..j, NEW f \in FieldNames PROVE Held(writes, <<"slot", s, f>>, old) = e[s][f]
  <2>1. PICK p \in 1..4 : Fields[p] = f /\ \A q \in 1..4 : Fields[q] = f => q = p
    BY FieldsOnce
  <2>2. s \in Nat /\ i <= s /\ s <= j
    BY <1>0
  <2>3. PICK k \in Nat : /\ k = 4 * (s - i) + p /\ i + (k - 1) \div 4 = s /\ 1 + ((k - 1) % 4) = p
                         /\ \A l \in Nat \ {0} : i + (l - 1) \div 4 = s /\ 1 + ((l - 1) % 4) = p => l = k
    BY <1>0, <2>2, Slot4
  <2>4. k \in 1..N /\ k \in DOMAIN writes
    BY <1>0, <1>2, <2>2, <2>3
  <2>5. writes[k] = Put(<<"slot", s, f>>, e[s][f])
    BY <2>1, <2>3, <2>4 DEF Fills, SlotWrite
  <2>6. ASSUME NEW l \in DOMAIN writes, writes[l].at = <<"slot", s, f>> PROVE l = k
    <3>1. l \in 1..(N + 1) /\ l \in Nat \ {0}
      BY <1>0, <1>2
    <3>2. l <= N
      BY <1>0, <1>1, <2>6, <3>1, BegunKeys, Kinds
    <3>3. writes[l].at = <<"slot", i + (l - 1) \div 4, Fields[1 + ((l - 1) % 4)]>>
      BY <1>2, <3>1, <3>2
    <3>4. i + (l - 1) \div 4 = s /\ Fields[1 + ((l - 1) % 4)] = f
      BY <2>6, <3>3
    <3>5. 1 + ((l - 1) % 4) \in 1..4
      BY <3>1
    <3>6. 1 + ((l - 1) % 4) = p
      BY <2>1, <3>4, <3>5
    <3> QED BY <2>3, <3>1, <3>4, <3>6
  <2>7. Held(writes, <<"slot", s, f>>, old) = writes[k].value
    <3>1. writes[k].at = <<"slot", s, f>> /\ k \in Int
      BY <2>3, <2>5 DEF Put
    <3> QED BY <2>4, <2>6, <3>1, HeldOnce
  <2> QED BY <2>5, <2>7 DEF Put
<1>4. Held(writes, <<"count">>, old) = c
  <2>1. N + 1 \in DOMAIN writes /\ writes[N + 1] = Put(<<"count">>, c)
    BY <1>0, <1>2 DEF Fills
  <2>2. ASSUME NEW l \in DOMAIN writes, writes[l].at = <<"count">> PROVE l = N + 1
    <3>1. l \in 1..(N + 1) /\ l \in Int
      BY <1>0, <1>2
    <3>2. CASE l <= N
      BY <1>1, <2>2, <3>1, <3>2, BegunKeys, Kinds
    <3> QED BY <1>0, <3>1, <3>2
  <2>3. Held(writes, <<"count">>, old) = writes[N + 1].value
    <3>1. writes[N + 1].at = <<"count">> /\ N + 1 \in Int
      BY <1>0, <2>1 DEF Put
    <3> HIDE DEF N
    <3> QED BY <2>1, <2>2, <3>1, HeldOnce
  <2> QED BY <2>1, <2>3 DEF Put
<1> QED BY <1>3, <1>4

-----------------------------------------------------------------------------
(* What a pass leaves in NVS, whole or cut short by a power loss.             *)

Nv == [active : AccountIds, index : [AccountIds -> 0..MaxIndex], conf_sats : Int, unconf_sats : Int,
       count : 0..MaxEntries, slot : [Slots -> Entries]]

LEMMA WriteTypes ==
  ASSUME NEW w \in Writes
  PROVE  /\ w.at = <<"count">> => w.value \in 0..MaxEntries
         /\ w.at \in {<<"conf_sats">>, <<"unconf_sats">>} => w.value \in Int
         /\ \A s, f : w.at = <<"slot", s, f>> => w.value \in Txs \cup {None}
<1>1. CASE w \in SlotWrites
  <2>1. PICK s \in Slots, f \in FieldNames : w.at = <<"slot", s, f>>
    BY <1>1 DEF SlotWrites
  <2>2. w.value \in Txs \cup {None}
    BY <1>1 DEF SlotWrites
  <2> QED BY <2>1, <2>2, Kinds
<1>2. CASE w \in [at : {<<"count">>}, value : 0..MaxEntries]
  BY <1>2, Kinds
<1>3. CASE w \in [at : {<<"conf_sats">>, <<"unconf_sats">>}, value : Int]
  BY <1>3, Kinds
<1> QED BY <1>1, <1>2, <1>3 DEF Writes

LEMMA AfterWrites ==
  ASSUME NEW n \in Nv, NEW done \in Seq(Writes)
  PROVE  LET x == After(n, done)
         IN /\ x \in Nv /\ x.active = n.active /\ x.index = n.index
            /\ x.count = Held(done, <<"count">>, n.count)
            /\ \A s \in Slots, f \in FieldNames :
                 x.slot[s][f] = Held(done, <<"slot", s, f>>, n.slot[s][f])
<1> DEFINE count == Held(done, <<"count">>, n.count)
           conf == Held(done, <<"conf_sats">>, n.conf_sats)
           unconf == Held(done, <<"unconf_sats">>, n.unconf_sats)
           slot == [s \in Slots |-> [f \in FieldNames |-> Held(done, <<"slot", s, f>>, n.slot[s][f])]]
           x == [n EXCEPT !.count = count, !.conf_sats = conf, !.unconf_sats = unconf, !.slot = slot]
<1>0. n.count \in 0..MaxEntries /\ n.conf_sats \in Int /\ n.unconf_sats \in Int /\ n.slot \in [Slots -> Entries]
  BY DEF Nv
<1>d. \A k \in DOMAIN done : done[k] \in Writes
  BY LenProperties, ElementOfSeq
<1>1. count \in 0..MaxEntries
  BY <1>0, <1>d, WriteTypes, HeldIsWritten
<1>2. conf \in Int /\ unconf \in Int
  BY <1>0, <1>d, WriteTypes, HeldIsWritten
<1>3. slot \in [Slots -> Entries]
  <2>1. ASSUME NEW s \in Slots, NEW f \in FieldNames
        PROVE  Held(done, <<"slot", s, f>>, n.slot[s][f]) \in Txs \cup {None}
    <3>1. n.slot[s][f] \in Txs \cup {None}
      BY <1>0 DEF Entries
    <3>2. \A k \in DOMAIN done : done[k].at = <<"slot", s, f>> => done[k].value \in Txs \cup {None}
      BY <1>d, WriteTypes
    <3> QED BY <3>1, <3>2, HeldIsWritten
  <2> QED BY <2>1 DEF Entries
<1>4. After(n, done) = x
  <2>1. CASE done = <<>>
    <3>1. \A at, old : Held(<<>>, at, old) = old
      BY HeldElsewhere
    <3>2. count = n.count /\ conf = n.conf_sats /\ unconf = n.unconf_sats
      BY <2>1, <3>1
    <3>3. slot = n.slot
      BY <1>0, <2>1, <3>1 DEF Entries
    <3> HIDE DEF count, conf, unconf, slot
    <3>4. x = n
      BY <3>2, <3>3 DEF Nv
    <3> QED BY <2>1, <3>4 DEF After
  <2>2. CASE done # <<>>
    BY <2>2 DEF After
  <2> QED BY <2>1, <2>2
<1>5. \A s \in Slots, f \in FieldNames : slot[s][f] = Held(done, <<"slot", s, f>>, n.slot[s][f])
  OBVIOUS
<1> HIDE DEF count, conf, unconf, slot
<1>6. x \in Nv /\ x.active = n.active /\ x.index = n.index /\ x.count = count /\ x.slot = slot
  BY <1>1, <1>2, <1>3 DEF Nv
<1> HIDE DEF x
<1> QED BY <1>4, <1>5, <1>6 DEF count

(* What no pass takes back: the accounts stay, entries are only added.        *)
Grown(n, x) == x \in Nv /\ x.active = n.active /\ x.index = n.index /\ x.count >= n.count

LEMMA CachedWrites ==
  ASSUME NEW n \in Nv, NEW r, r.conf \in Int, r.unconf \in Int, NEW m, NEW done, Begun(done, SetCached(r), m)
  PROVE  Grown(n, After(n, done)) /\ After(n, done).count = n.count /\ After(n, done).slot = n.slot
<1> DEFINE x == After(n, done)
<1>0. /\ done \in Seq(Writes) /\ DOMAIN done = 1..m
      /\ \A k \in 1..m : done[k].at \in {<<"conf_sats">>, <<"unconf_sats">>}
  <2>1. SetCached(r) = <<Put(<<"conf_sats">>, r.conf), Put(<<"unconf_sats">>, r.unconf)>>
    BY DEF SetCached
  <2>2. Len(SetCached(r)) = 2 /\ SetCached(r)[1].at = <<"conf_sats">> /\ SetCached(r)[2].at = <<"unconf_sats">>
    BY <2>1 DEF Put
  <2>3. m \in 0..2 /\ done \in Seq(Writes) /\ DOMAIN done = 1..m /\ \A k \in 1..m : done[k] = SetCached(r)[k]
    BY <2>2, LenProperties DEF Begun
  <2>4. \A k \in 1..m : k = 1 \/ k = 2
    BY <2>3
  <2> QED BY <2>2, <2>3, <2>4
<1>1. /\ x \in Nv /\ x.active = n.active /\ x.index = n.index
      /\ x.count = Held(done, <<"count">>, n.count)
      /\ \A s \in Slots, f \in FieldNames : x.slot[s][f] = Held(done, <<"slot", s, f>>, n.slot[s][f])
  BY <1>0, AfterWrites
<1>2. x.count = n.count
  <2>1. \A k \in DOMAIN done : done[k].at # <<"count">>
    BY <1>0
  <2> QED BY <1>1, <2>1, HeldElsewhere
<1>3. ASSUME NEW s \in Slots, NEW f \in FieldNames PROVE x.slot[s][f] = n.slot[s][f]
  <2>1. \A k \in DOMAIN done : done[k].at # <<"slot", s, f>>
    BY <1>0, Kinds
  <2>2. Held(done, <<"slot", s, f>>, n.slot[s][f]) = n.slot[s][f]
    BY <2>1, HeldElsewhere
  <2> HIDE DEF x
  <2> QED BY <1>1, <2>2
<1> HIDE DEF x
<1>4. x.slot = n.slot
  BY <1>1, <1>3 DEF Nv, Entries
<1>5. n.count \in Int /\ x.count >= n.count
  BY <1>2 DEF Nv
<1> QED BY <1>1, <1>2, <1>4, <1>5 DEF Grown, x

Single(t) == [s \in Slots |-> Whole(t)]

LEMMA EntryNext ==
  ASSUME NEW n \in Nv, NEW t \in Txs, n.count < MaxEntries
  PROVE  /\ n.count \in Slots /\ n.count <= n.count
         /\ Fills(AddEntry(n, t), n.count, n.count, Single(t), n.count + 1)
<1>0. n.count \in 0..MaxEntries /\ MaxEntries \in Nat \ {0}
  BY Constants DEF Nv
<1>1. n.count \in Slots /\ n.count + 1 \in 0..MaxEntries /\ n.count <= n.count
  BY <1>0 DEF Slots
<1>2. Single(t) \in [Slots -> Entries]
  BY DEF Single, Whole, Entries
<1>3. AddEntry(n, t) = PutEntries(n.count, n.count, Single(t)) \o <<Put(<<"count">>, n.count + 1)>>
  BY DEF AddEntry, NewEntry, Single
<1> QED BY <1>1, <1>2, <1>3, Filling

LEMMA EntryLast ==
  ASSUME NEW n \in Nv, NEW t \in Txs, ~(n.count < MaxEntries)
  PROVE  /\ 0 \in Slots /\ MaxEntries - 1 \in Slots /\ 0 <= MaxEntries - 1
         /\ Moved(n, t) \in [Slots -> Entries]
         /\ Fills(AddEntry(n, t), 0, MaxEntries - 1, Moved(n, t), n.count)
<1>0. n.count \in 0..MaxEntries /\ n.slot \in [Slots -> Entries] /\ MaxEntries \in Nat \ {0}
  BY Constants DEF Nv
<1>1. 0 \in Slots /\ MaxEntries - 1 \in Slots /\ 0 <= MaxEntries - 1
  BY <1>0 DEF Slots
<1>2. Moved(n, t) \in [Slots -> Entries]
  <2>1. \A s \in Slots : s < MaxEntries - 1 => s + 1 \in Slots
    BY <1>0 DEF Slots
  <2>2. Whole(t) \in Entries
    BY DEF Whole, Entries
  <2> QED BY <1>0, <2>1, <2>2 DEF Moved
<1>3. AddEntry(n, t) = PutEntries(0, MaxEntries - 1, Moved(n, t)) \o <<Put(<<"count">>, n.count)>>
  BY DEF AddEntry
<1> QED BY <1>0, <1>1, <1>2, <1>3, Filling

LEMMA EntryGrows ==
  ASSUME NEW n \in Nv, NEW t \in Txs, NEW m, NEW done, Begun(done, AddEntry(n, t), m)
  PROVE  Grown(n, After(n, done))
<1> DEFINE x == After(n, done)
<1>0. n.count \in 0..MaxEntries /\ MaxEntries \in Nat \ {0} /\ done \in Seq(Writes)
  BY Constants DEF Nv, Begun
<1>1. x \in Nv /\ x.active = n.active /\ x.index = n.index /\ x.count = Held(done, <<"count">>, n.count)
  BY <1>0, AfterWrites
<1>2. ASSUME NEW i \in Slots, NEW j \in Slots, i <= j, NEW e, NEW c \in {n.count, n.count + 1},
             Fills(AddEntry(n, t), i, j, e, c)
      PROVE  Held(done, <<"count">>, n.count) \in {n.count, n.count + 1}
  <2>0. Len(AddEntry(n, t)) \in Nat /\ DOMAIN AddEntry(n, t) = 1..Len(AddEntry(n, t))
        /\ AddEntry(n, t) \in Seq(Writes)
    BY <1>2, LenProperties DEF Fills
  <2>1. CASE m < Len(AddEntry(n, t))
    <3>1. Held(done, <<"count">>, n.count) = n.count
      BY <1>2, <2>1, BegunKeeps
    <3> QED BY <3>1
  <2>2. CASE m = Len(AddEntry(n, t))
    <3>1. done = AddEntry(n, t)
      BY <1>0, <2>0, <2>2, SeqEqual DEF Begun
    <3>2. Held(AddEntry(n, t), <<"count">>, n.count) = c
      BY <1>2, FilledHolds
    <3> QED BY <3>1, <3>2
  <2>3. m = Len(AddEntry(n, t)) \/ m < Len(AddEntry(n, t))
    <3>1. PICK l \in Nat : l = Len(AddEntry(n, t))
      BY <2>0
    <3>2. m \in 0..l
      BY <3>1 DEF Begun
    <3> QED BY <3>1, <3>2
  <2> QED BY <2>1, <2>2, <2>3
<1>3. Held(done, <<"count">>, n.count) \in {n.count, n.count + 1}
  <2>1. CASE n.count < MaxEntries
    <3>1. n.count \in Slots /\ n.count <= n.count
          /\ Fills(AddEntry(n, t), n.count, n.count, Single(t), n.count + 1)
      BY <2>1, EntryNext
    <3> QED BY <1>2, <3>1
  <2>2. CASE ~(n.count < MaxEntries)
    <3>1. 0 \in Slots /\ MaxEntries - 1 \in Slots /\ 0 <= MaxEntries - 1
          /\ Fills(AddEntry(n, t), 0, MaxEntries - 1, Moved(n, t), n.count)
      BY <2>2, EntryLast
    <3> QED BY <1>2, <3>1
  <2> QED BY <2>1, <2>2
<1>4. x.count >= n.count
  BY <1>0, <1>1, <1>3
<1> QED BY <1>1, <1>4 DEF Grown

(* A transaction that is written whole is the newest entry of the history,    *)
(* and the oldest is lost when there is no free slot.                         *)
LEMMA EntryAdded ==
  ASSUME NEW n \in Nv, NEW t \in Txs
  PROVE  History(After(n, AddEntry(n, t))) = Kept(Append(History(n), Whole(t)))
<1> DEFINE x == After(n, AddEntry(n, t))
           H == History(n)
           A == Append(H, Whole(t))
<1>c. PICK i \in Nat : i = n.count /\ i <= MaxEntries
  BY Constants DEF Nv
<1>0. n.slot \in [Slots -> Entries] /\ MaxEntries \in Nat \ {0} /\ i <= MaxEntries
  BY <1>c, Constants DEF Nv
<1>s. \A s \in Int : s \in Slots <=> 0 <= s /\ s < MaxEntries
  BY <1>0 DEF Slots
<1>w. AddEntry(n, t) \in Seq(Writes)
  BY EntryNext, EntryLast DEF Fills
<1>1. /\ x \in Nv /\ x.count = Held(AddEntry(n, t), <<"count">>, n.count)
      /\ \A s \in Slots, f \in FieldNames : x.slot[s][f] = Held(AddEntry(n, t), <<"slot", s, f>>, n.slot[s][f])
  BY <1>w, AfterWrites
<1>x. x.slot \in [Slots -> Entries]
  BY <1>1 DEF Nv
<1>2. H \in Seq(Entries) /\ Len(H) = i /\ \A k \in 1..i : H[k] = n.slot[k - 1]
  <2>1. H = [k \in 1..i |-> n.slot[k - 1]]
    BY <1>c DEF History
  <2>2. ASSUME NEW k \in 1..i PROVE n.slot[k - 1] \in Entries
    BY <1>0, <1>s
  <2> HIDE DEF H
  <2>3. H \in [1..i -> Entries] /\ DOMAIN H = 1..i
    BY <2>1, <2>2
  <2>4. H \in Seq(Entries)
    BY <1>0, <2>3, SeqDef
  <2>5. Len(H) = i
    BY <1>0, <2>3, <2>4, LenProperties
  <2> QED BY <2>1, <2>4, <2>5
<1>3. Whole(t) \in Entries
  BY DEF Whole, Entries
<1>4. /\ A \in Seq(Entries) /\ Len(A) = i + 1
      /\ \A k \in 1..i : A[k] = n.slot[k - 1]
      /\ A[i + 1] = Whole(t)
  <2> HIDE DEF H
  <2> QED BY <1>0, <1>2, <1>3
<1> HIDE DEF x, H, A
<1>5. CASE i < MaxEntries
  <2>1. i \in Slots /\ i <= i /\ Fills(AddEntry(n, t), i, i, Single(t), i + 1)
    BY <1>c, <1>5, EntryNext
  <2>2. x.count = i + 1
    BY <1>1, <1>c, <2>1, FilledHolds
  <2>3. ASSUME NEW s \in Slots, NEW f \in FieldNames
        PROVE  x.slot[s][f] = IF s = i THEN Whole(t)[f] ELSE n.slot[s][f]
    <3>1. CASE s = i
      <4>1. s \in i..i
        BY <3>1
      <4>2. \A q \in Slots, g \in FieldNames : q \in i..i =>
              Held(AddEntry(n, t), <<"slot", q, g>>, n.slot[s][f]) = Single(t)[q][g]
        BY <2>1, FilledHolds
      <4> QED BY <1>1, <3>1, <4>1, <4>2 DEF Single
    <3>2. CASE s # i
      <4>0. PICK m \in Nat : m = Len(AddEntry(n, t))
        BY <1>w, LenProperties
      <4>1. Begun(AddEntry(n, t), AddEntry(n, t), m) /\ s \notin i..i
        BY <1>w, <3>2, <4>0 DEF Begun, Slots
      <4>2. Held(AddEntry(n, t), <<"slot", s, f>>, n.slot[s][f]) = n.slot[s][f]
        BY <2>1, <4>1, SlotKept
      <4> QED BY <1>1, <3>2, <4>1, <4>2
    <3> QED BY <3>1, <3>2
  <2>4. ASSUME NEW s \in Slots PROVE x.slot[s] = IF s = i THEN Whole(t) ELSE n.slot[s]
    <3>1. x.slot[s] \in Entries /\ n.slot[s] \in Entries
      BY <1>0, <1>x
    <3> QED BY <1>3, <2>3, <3>1 DEF Entries
  <2>5. History(x) = [k \in 1..(i + 1) |-> x.slot[k - 1]]
    BY <2>2 DEF History
  <2>6. ASSUME NEW k \in 1..(i + 1) PROVE x.slot[k - 1] = A[k]
    <3>1. k - 1 \in Slots /\ (k = i + 1 \/ k \in 1..i)
      BY <1>0, <1>5, <1>s
    <3>2. x.slot[k - 1] = IF k - 1 = i THEN Whole(t) ELSE n.slot[k - 1]
      BY <2>4, <3>1
    <3>3. CASE k = i + 1
      <4>1. k - 1 = i
        BY <3>3
      <4>2. A[k] = Whole(t)
        BY <1>4, <3>3
      <4> QED BY <3>2, <4>1, <4>2
    <3>4. CASE k \in 1..i
      <4>1. k - 1 # i
        BY <1>0, <3>4
      <4> QED BY <1>4, <3>2, <3>4, <4>1
    <3> QED BY <3>1, <3>3, <3>4
  <2>7. A = [k \in 1..(i + 1) |-> A[k]]
    BY <1>0, <1>4
  <2>8. Kept(A) = A
    BY <1>0, <1>4, <1>5 DEF Kept
  <2>9. History(x) = A
    BY <2>5, <2>6, <2>7
  <2> QED BY <2>8, <2>9 DEF x, A, H
<1>6. CASE i = MaxEntries
  <2>0. ~(n.count < MaxEntries)
    BY <1>0, <1>c, <1>6
  <2>1. 0 \in Slots /\ MaxEntries - 1 \in Slots /\ 0 <= MaxEntries - 1
        /\ Moved(n, t) \in [Slots -> Entries]
        /\ Fills(AddEntry(n, t), 0, MaxEntries - 1, Moved(n, t), i)
    BY <1>c, <2>0, EntryLast
  <2>2. x.count = MaxEntries
    BY <1>1, <1>c, <1>6, <2>1, FilledHolds
  <2>3. ASSUME NEW s \in Slots PROVE x.slot[s] = Moved(n, t)[s]
    <3>1. s \in 0..(MaxEntries - 1)
      BY DEF Slots
    <3>2. ASSUME NEW f \in FieldNames PROVE x.slot[s][f] = Moved(n, t)[s][f]
      <4>1. \A q \in Slots, g \in FieldNames : q \in 0..(MaxEntries - 1) =>
              Held(AddEntry(n, t), <<"slot", q, g>>, n.slot[s][f]) = Moved(n, t)[q][g]
        BY <1>0, <2>1, FilledHolds
      <4> QED BY <1>1, <3>1, <4>1
    <3>3. x.slot[s] \in Entries /\ Moved(n, t)[s] \in Entries
      BY <1>x, <2>1
    <3> QED BY <3>2, <3>3 DEF Entries
  <2>4. History(x) = [k \in 1..MaxEntries |-> x.slot[k - 1]]
    BY <2>2 DEF History
  <2>5. ASSUME NEW k \in 1..MaxEntries PROVE x.slot[k - 1] = A[k + 1]
    <3>1. k - 1 \in Slots /\ x.slot[k - 1] = Moved(n, t)[k - 1]
      BY <1>0, <1>s, <2>3
    <3>2. Moved(n, t)[k - 1] = IF k < MaxEntries THEN n.slot[k] ELSE Whole(t)
      BY <1>0, <3>1 DEF Moved
    <3> QED BY <1>0, <1>4, <1>6, <3>1, <3>2
  <2>6. Kept(A) = SubSeq(A, 2, MaxEntries + 1)
    BY <1>0, <1>4, <1>6 DEF Kept
  <2>7. SubSeq(A, 2, MaxEntries + 1) = [k \in 1..MaxEntries |-> A[k + 1]]
    <3>1. /\ SubSeq(A, 2, MaxEntries + 1) \in Seq(Entries) /\ Len(SubSeq(A, 2, MaxEntries + 1)) = MaxEntries
          /\ \A k \in 1..MaxEntries : SubSeq(A, 2, MaxEntries + 1)[k] = A[k + 1]
      <4>1. \A k \in 2..(MaxEntries + 1) : A[k] \in Entries
        BY <1>0, <1>4, <1>6, ElementOfSeq
      <4>2. 2 \in Int /\ MaxEntries + 1 \in Int /\ 2 <= MaxEntries + 1 /\ (MaxEntries + 1) - 2 + 1 = MaxEntries
        BY <1>0
      <4>3. \A k \in 1..MaxEntries : 2 + k - 1 = k + 1
        BY <1>0
      <4> QED BY <4>1, <4>2, <4>3, SubSeqProperties
    <3> QED BY <3>1, LenProperties
  <2>8. History(x) = SubSeq(A, 2, MaxEntries + 1)
    BY <2>4, <2>5, <2>7
  <2> QED BY <2>6, <2>8 DEF x, A, H
<1> QED BY <1>0, <1>5, <1>6

(* A transaction for a free slot is not seen before its last write.           *)
LEMMA EntryHidden ==
  ASSUME NEW n \in Nv, NEW t \in Txs, n.count < MaxEntries,
         NEW m \in Nat, NEW done, Begun(done, AddEntry(n, t), m), m < Len(AddEntry(n, t))
  PROVE  History(After(n, done)) = History(n)
<1> DEFINE x == After(n, done)
<1>c. PICK i \in Nat : i = n.count /\ i <= MaxEntries
  BY Constants DEF Nv
<1>w. PICK w : w = AddEntry(n, t)
  OBVIOUS
<1>1. i \in Slots /\ i <= i /\ Fills(w, i, i, Single(t), i + 1) /\ Begun(done, w, m) /\ m < Len(w)
  BY <1>c, <1>w, EntryNext
<1>2. /\ x \in Nv /\ x.count = Held(done, <<"count">>, n.count)
      /\ \A s \in Slots, f \in FieldNames : x.slot[s][f] = Held(done, <<"slot", s, f>>, n.slot[s][f])
  BY <1>1, AfterWrites DEF Begun
<1> HIDE DEF x
<1>3. ASSUME NEW o
      PROVE  /\ Held(done, <<"count">>, o) = o
             /\ \A s \in Slots, f \in FieldNames : s \notin i..i => Held(done, <<"slot", s, f>>, o) = o
  <2>1. \A s \in Slots, f \in FieldNames : s \notin i..i => Held(done, <<"slot", s, f>>, o) = o
    <3>1. ASSUME NEW s \in Slots, NEW f \in FieldNames, s \notin i..i PROVE Held(done, <<"slot", s, f>>, o) = o
      BY <1>1, <3>1, SlotKept
    <3> QED BY <3>1
  <2>2. m < Len(w) => Held(done, <<"count">>, o) = o
    BY <1>1, BegunKeeps
  <2> QED BY <1>1, <2>1, <2>2
<1>4. x.count = n.count
  BY <1>2, <1>3
<1>5. ASSUME NEW s \in Slots, s # i PROVE x.slot[s] = n.slot[s]
  <2>1. \A f \in FieldNames : x.slot[s][f] = n.slot[s][f]
    <3>1. s \notin i..i
      BY <1>5, <1>c DEF Slots
    <3>2. ASSUME NEW f \in FieldNames, NEW o, o = n.slot[s][f] PROVE Held(done, <<"slot", s, f>>, o) = o
      BY <1>3, <3>1
    <3> QED BY <1>2, <3>2
  <2>2. x.slot[s] \in Entries /\ n.slot[s] \in Entries
    BY <1>2 DEF Nv
  <2> QED BY <2>1, <2>2 DEF Entries
<1>6. ASSUME NEW k \in 1..i PROVE x.slot[k - 1] = n.slot[k - 1]
  <2>1. k - 1 \in Slots /\ k - 1 # i
    BY <1>c, Constants DEF Slots
  <2> QED BY <1>5, <2>1
<1>7. History(x) = [k \in 1..i |-> x.slot[k - 1]] /\ History(n) = [k \in 1..i |-> n.slot[k - 1]]
  BY <1>4, <1>c DEF History
<1>8. History(x) = History(n)
  BY <1>6, <1>7
<1> QED BY <1>8 DEF x

-----------------------------------------------------------------------------
(* The inductive invariant: types, and                                        *)
(*   - a fetch that waits has not got the replies it asked for;               *)
(*   - the entry of the history on the display is counted;                    *)
(*   - the address on the display is the next one of the active account, and  *)
(*     the used ones lie below the index of theirs.                           *)

Lines == Replies \cup {"GET_INFO", None}
Rams == [screen : Screens, done : BOOLEAN, late : BOOLEAN, got : 0..(MaxWant + 1), want : 0..MaxWant,
         conf : Int, unconf : Int, addr : 0..MaxIndex, shown : AccountIds \X (0..MaxIndex),
         cursor : AccountIds, scroll : Nat]

TypeInv ==
  /\ ram \in Rams /\ nv \in Nv
  /\ wire \in Seq(Lines \cup {End})
  /\ recv \in [len : 0..Room, text : Lines]
FetchInv == Waiting(ram) => ram.got < ram.want \/ ram.got = 0
ScrollInv == ram.screen = "TX_HISTORY" => ram.scroll = 0 \/ ram.scroll < nv.count
AddressInv == ram.screen \in {"SHOW_ADDRESS", "QR_DISPLAY"} => ram.shown = <<nv.active, nv.index[nv.active]>>
UsedInv == \A u \in used : u \in AccountIds \X (0..MaxIndex) /\ u[2] < nv.index[u[1]]

RamInv == FetchInv /\ ScrollInv /\ AddressInv
CompanionInv == TypeInv /\ RamInv /\ UsedInv

LEMMA BootRam == Boot \in Rams /\ Boot.screen = "LOCKED"
<1>1. <<0, 0>> \in AccountIds \X (0..MaxIndex)
  BY Constants
<1>2. 0 \in 0..(MaxWant + 1)
  BY Constants
<1> QED BY <1>1, <1>2, Constants DEF Boot, Rams, Screens

LEMMA LeftRam ==
  ASSUME NEW r \in Rams, NEW screen \in Screens
  PROVE  Left(r, screen) \in Rams /\ Left(r, screen).screen = screen /\ Left(r, screen).done
<1>1. Boot \in Rams /\ Boot.done
  BY BootRam DEF Boot
<1> QED BY <1>1 DEF Left, Rams

(* Screens on which nothing is shown that NVS may contradict.                 *)
LEMMA PlainRam ==
  ASSUME ram'.screen \notin {"SHOW_ADDRESS", "QR_DISPLAY", "TX_HISTORY", "SHOW_BALANCE"}
  PROVE  RamInv'
BY DEF RamInv, FetchInv, ScrollInv, AddressInv, Waiting, Fetching

LEMMA CompanionStart == Init => CompanionInv
<1> SUFFICES ASSUME Init PROVE CompanionInv
  OBVIOUS
<1>1. nv \in Nv
  <2>1. [a \in AccountIds |-> 0] \in [AccountIds -> 0..MaxIndex] /\ 0 \in 0..MaxEntries
    BY Constants
  <2>2. [i \in Slots |-> Whole(None)] \in [Slots -> Entries]
    BY DEF Whole, Entries
  <2> QED BY <2>1, <2>2, Constants DEF Init, Nv
<1>2. wire \in Seq(Lines \cup {End})
  BY DEF Init
<1>3. recv \in [len : 0..Room, text : Lines]
  BY Constants DEF Init, Empty, Lines
<1> QED BY <1>1, <1>2, <1>3, BootRam
     DEF Init, CompanionInv, TypeInv, RamInv, FetchInv, ScrollInv, AddressInv, UsedInv, Waiting, Fetching

-----------------------------------------------------------------------------
(* A pass that takes a line, or none.                                         *)

(* What a pass has written when m of its writes are done.                     *)
LEMMA PassWrites ==
  ASSUME NEW n \in Nv, NEW r \in Rams, NEW cmd, NEW m, NEW done, Begun(done, Stored(n, r, cmd), m)
  PROVE  Grown(n, After(n, done))
<1>1. CASE r.screen = "SHOW_BALANCE" /\ ~r.done /\ Over(r) /\ r.got > 0
  <2>1. Stored(n, r, cmd) = SetCached(r) /\ r.conf \in Int /\ r.unconf \in Int
    BY <1>1 DEF Stored, Rams
  <2> QED BY <2>1, CachedWrites
<1>2. CASE r.screen = "TX_HISTORY" /\ ~r.done /\ cmd \in Txs
  <2>1. Stored(n, r, cmd) = AddEntry(n, cmd)
    BY <1>2 DEF Stored
  <2> QED BY <1>2, <2>1, EntryGrows
<1>3. CASE Stored(n, r, cmd) = <<>>
  <2>1. done = <<>>
    <3>1. done \in Seq(Writes) /\ Len(done) = 0
      BY <1>3 DEF Begun
    <3> QED BY <3>1, EmptySeq
  <2>2. After(n, done) = n /\ n.count >= n.count
    BY <2>1 DEF After, Nv
  <2> QED BY <2>2 DEF Grown
<1> QED BY <1>1, <1>2, <1>3 DEF Stored

LEMMA AllBegun ==
  ASSUME NEW n \in Nv, NEW r \in Rams, NEW cmd
  PROVE  /\ Stored(n, r, cmd) \in Seq(Writes)
         /\ Begun(Stored(n, r, cmd), Stored(n, r, cmd), Len(Stored(n, r, cmd)))
<1>1. Stored(n, r, cmd) \in Seq(Writes)
  <2>1. ASSUME cmd \in Txs PROVE AddEntry(n, cmd) \in Seq(Writes)
    BY <2>1, EntryNext, EntryLast DEF Fills
  <2>2. SetCached(r) \in Seq(Writes)
    <3>1. r.conf \in Int /\ r.unconf \in Int
      BY DEF Rams
    <3>2. Put(<<"conf_sats">>, r.conf) \in Writes /\ Put(<<"unconf_sats">>, r.unconf) \in Writes
      BY <3>1 DEF Put, Writes
    <3> QED BY <3>2 DEF SetCached
  <2>3. <<>> \in Seq(Writes)
    BY EmptySeq
  <2> QED BY <2>1, <2>2, <2>3 DEF Stored
<1>2. PICK m \in Nat : m = Len(Stored(n, r, cmd))
  BY <1>1, LenProperties
<1> QED BY <1>1, <1>2 DEF Begun

(* A reply is counted at most until there is one for every request.           *)
LEMMA CountedRam ==
  ASSUME NEW r \in Rams, Waiting(r) => r.got < r.want \/ r.got = 0, NEW cmd
  PROVE  LET c == Counted(r, cmd)
         IN c \in Rams /\ c.screen = r.screen /\ c.done = r.done /\ c.scroll = r.scroll /\ c.shown = r.shown
<1>0. r.got \in Nat /\ r.want \in 0..MaxWant /\ r.conf \in Int /\ r.unconf \in Int /\ MaxWant \in Nat
  BY Constants DEF Rams
<1>1. Waiting(r) => r.got + 1 \in 0..(MaxWant + 1)
  BY <1>0
<1>2. CASE r.screen = "SHOW_BALANCE" /\ ~r.done /\ cmd = "BALANCE"
  <2>1. PICK g \in 0..(MaxWant + 1), u \in Int, v \in Int : g = r.got + 1 /\ u = r.conf + 1 /\ v = r.unconf + 1
    BY <1>0, <1>1, <1>2 DEF Waiting, Fetching
  <2>2. Counted(r, cmd) = [r EXCEPT !.got = g, !.conf = u, !.unconf = v]
    BY <1>2, <2>1 DEF Counted
  <2> QED BY <2>2 DEF Rams
<1>3. CASE r.screen = "TX_HISTORY" /\ ~r.done /\ cmd \in Txs
  <2>1. PICK g \in 0..(MaxWant + 1) : g = r.got + 1
    BY <1>0, <1>1, <1>3 DEF Waiting, Fetching
  <2>2. Counted(r, cmd) = [r EXCEPT !.got = g]
    BY <1>3, <2>1 DEF Counted
  <2> QED BY <2>2 DEF Rams
<1>4. CASE Counted(r, cmd) = r
  BY <1>4
<1> QED BY <1>2, <1>3, <1>4 DEF Counted

LEMMA SettledRam ==
  ASSUME NEW n \in Nv, NEW r \in Rams
  PROVE  LET s == Settled(n, r)
         IN /\ s \in Rams /\ s.screen = r.screen /\ s.scroll = r.scroll /\ s.shown = r.shown
            /\ Waiting(s) => s.got = r.got /\ s.want = r.want /\ r.got < r.want
<1>0. r.got \in Nat /\ r.want \in Nat /\ r.done \in BOOLEAN /\ n.conf_sats \in Int /\ n.unconf_sats \in Int
  BY Constants DEF Rams, Nv
<1>1. CASE ~(Waiting(r) /\ Over(r))
  <2>1. Settled(n, r) = r
    BY <1>1 DEF Settled
  <2> QED BY <1>0, <1>1, <2>1 DEF Over
<1>2. CASE Waiting(r) /\ Over(r)
  <2>1. CASE Settled(n, r) = [r EXCEPT !.done = TRUE, !.conf = n.conf_sats, !.unconf = n.unconf_sats]
    BY <1>0, <2>1 DEF Rams, Waiting
  <2>2. CASE Settled(n, r) = [r EXCEPT !.done = TRUE]
    BY <1>0, <2>2 DEF Rams, Waiting
  <2> QED BY <1>2, <2>1, <2>2 DEF Settled
<1> QED BY <1>1, <1>2

LEMMA ComparedRam ==
  ASSUME NEW n \in Nv, NEW r \in Rams, NEW cmd
  PROVE  Compared(n, r, cmd) \in Rams /\ (Compared(n, r, cmd) = r \/ Compared(n, r, cmd).screen = "VERIFY_RESULT")
<1> DEFINE p == [r EXCEPT !.screen = "VERIFY_RESULT", !.shown = <<n.active, r.addr>>]
<1>1. "VERIFY_RESULT" \in Screens
  BY DEF Screens
<1>2. <<n.active, r.addr>> \in AccountIds \X (0..MaxIndex)
  BY DEF Nv, Rams
<1>3. p \in Rams /\ p.screen = "VERIFY_RESULT"
  BY <1>1, <1>2 DEF Rams
<1> HIDE DEF p
<1>4. Compared(n, r, cmd) = r \/ Compared(n, r, cmd) = p
  BY DEF Compared, p
<1> QED BY <1>3, <1>4

LEMMA TakeKeeps ==
  ASSUME CompanionInv, NEW cmd \in Lines, Take(cmd)
  PROVE  /\ ram' \in Rams /\ nv' \in Nv /\ RamInv' /\ UsedInv'
<1> DEFINE p == Compared(nv, ram, cmd)
           r == Counted(p, cmd)
<1>0. ram \in Rams /\ nv \in Nv
  BY DEF CompanionInv, TypeInv
<1>1. p \in Rams /\ (p = ram \/ p.screen = "VERIFY_RESULT")
  BY <1>0, ComparedRam
<1>2. Waiting(p) => p.got < p.want \/ p.got = 0
  BY <1>1 DEF CompanionInv, RamInv, FetchInv, Waiting, Fetching
<1> HIDE DEF p
<1>3. r \in Rams /\ r.screen = p.screen /\ r.scroll = p.scroll /\ r.shown = p.shown
  BY <1>1, <1>2, CountedRam
<1> HIDE DEF r
<1>4. nv' = After(nv, Stored(nv, r, cmd)) /\ ram' = Settled(nv', r) /\ used' = used
  BY DEF Take, r, p
<1>5. Grown(nv, nv')
  BY <1>0, <1>3, <1>4, AllBegun, PassWrites
<1>6. PICK n \in Nv : n = nv'
  BY <1>5 DEF Grown
<1>7. /\ ram' \in Rams /\ ram'.screen = r.screen /\ ram'.scroll = r.scroll /\ ram'.shown = r.shown
      /\ Waiting(ram') => ram'.got = r.got /\ ram'.want = r.want /\ r.got < r.want
  BY <1>3, <1>4, <1>6, SettledRam
<1>8. FetchInv'
  BY <1>7 DEF FetchInv, Waiting
<1>9. ScrollInv'
  <2> SUFFICES ASSUME ram'.screen = "TX_HISTORY" PROVE ram'.scroll = 0 \/ ram'.scroll < nv'.count
    BY DEF ScrollInv
  <2>1. p = ram /\ ram.screen = "TX_HISTORY" /\ ram'.scroll = ram.scroll
    BY <1>1, <1>3, <1>7
  <2>2. nv.count \in Int /\ nv'.count \in Int /\ nv'.count >= nv.count /\ ram.scroll \in Nat
    BY <1>0, <1>5 DEF Grown, Nv, Rams
  <2> QED BY <2>1, <2>2 DEF CompanionInv, RamInv, ScrollInv
<1>10. AddressInv'
  <2> SUFFICES ASSUME ram'.screen \in {"SHOW_ADDRESS", "QR_DISPLAY"}
               PROVE  ram'.shown = <<nv'.active, nv'.index[nv'.active]>>
    BY DEF AddressInv
  <2>1. p = ram /\ ram'.screen = ram.screen /\ ram'.shown = ram.shown
    BY <1>1, <1>3, <1>7
  <2> QED BY <1>5, <2>1 DEF CompanionInv, RamInv, AddressInv, Grown
<1>11. UsedInv'
  BY <1>4, <1>5 DEF CompanionInv, UsedInv, Grown
<1> QED BY <1>5, <1>7, <1>8, <1>9, <1>10, <1>11 DEF RamInv, Grown

(* The line buffer.                                                           *)
LEMMA ReadKeeps == ASSUME CompanionInv, ReadUnit \/ ReadLine \/ Quiet PROVE CompanionInv'
<1>0. /\ ram \in Rams /\ nv \in Nv /\ wire \in Seq(Lines \cup {End})
      /\ recv \in [len : 0..Room, text : Lines] /\ Room \in Nat
  BY Constants DEF CompanionInv, TypeInv
<1>w. wire # <<>> => Head(wire) \in Lines \cup {End} /\ Tail(wire) \in Seq(Lines \cup {End})
  BY <1>0, HeadTailProperties
<1>n. None \in Lines
  BY DEF Lines
<1>1. CASE ReadUnit
  <2>1. wire' \in Seq(Lines \cup {End}) /\ ram' = ram /\ nv' = nv /\ used' = used
    BY <1>1, <1>w DEF ReadUnit
  <2>2. recv' \in [len : 0..Room, text : Lines]
    <3>1. recv.len + 1 \in 0..Room /\ (IF recv.len = 0 THEN Head(wire) ELSE None) \in Lines
      BY <1>0, <1>1, <1>w, <1>n DEF ReadUnit
    <3> QED BY <1>1, <3>1 DEF ReadUnit
  <2> QED BY <1>0, <2>1, <2>2
       DEF CompanionInv, TypeInv, RamInv, FetchInv, ScrollInv, AddressInv, UsedInv
<1>2. CASE ReadLine
  <2>1. recv.text \in Lines /\ wire' \in Seq(Lines \cup {End})
    BY <1>0, <1>2, <1>w DEF ReadLine
  <2>2. recv' \in [len : 0..Room, text : Lines]
    BY <1>0, <1>2, <1>n DEF ReadLine, Empty
  <2>3. Take(recv.text)
    BY <1>2 DEF ReadLine
  <2> QED BY <2>1, <2>2, <2>3, TakeKeeps DEF CompanionInv, TypeInv
<1>3. CASE Quiet
  <2>1. Take(None) /\ wire' = wire /\ recv' = recv
    BY <1>3 DEF Quiet
  <2> QED BY <1>0, <1>n, <2>1, TakeKeeps DEF CompanionInv, TypeInv
<1> QED BY <1>1, <1>2, <1>3

LEMMA TickKeeps == ASSUME CompanionInv, Tick PROVE CompanionInv'
<1>1. ram' = [ram EXCEPT !.late = TRUE] /\ ram \in Rams /\ UNCHANGED <<wire, recv, nv, used>>
  BY DEF Tick, CompanionInv, TypeInv
<1>2. /\ ram' \in Rams /\ ram'.screen = ram.screen /\ ram'.done = ram.done /\ ram'.got = ram.got
      /\ ram'.want = ram.want /\ ram'.scroll = ram.scroll /\ ram'.shown = ram.shown
  BY <1>1 DEF Rams
<1> QED BY <1>1, <1>2
     DEF CompanionInv, TypeInv, RamInv, FetchInv, ScrollInv, AddressInv, UsedInv, Waiting

-----------------------------------------------------------------------------
(* The keys.                                                                  *)

LEMMA Product ==
  ASSUME NEW a \in Nat, NEW b \in Nat, a <= b, NEW k \in Nat
  PROVE  k * a <= k * b /\ k * a \in Nat /\ k * b \in Nat
<1>1. k * (b - a) \in Nat /\ k * b = k * a + k * (b - a) /\ k * a \in Nat /\ k * b \in Nat
  OBVIOUS
<1> QED BY <1>1

LEMMA RequestsBound == ASSUME NEW n \in Nv, NEW want \in Requests(n) PROVE want \in 0..MaxWant
<1>0. Window \in Nat /\ Types \in Nat /\ n.index[n.active] \in Nat
  BY Constants DEF Nv
<1>1. PICK a \in Nat : a = Smaller(n.index[n.active], Window) + 1 /\ a <= Window + 1
  BY <1>0 DEF Smaller
<1>2. PICK b \in Nat : b = Window + 1
  BY <1>0
<1>3. Types * a <= Types * b /\ Types * a \in Nat /\ Types * b \in Nat
  BY <1>0, <1>1, <1>2, Product
<1>4. want \in 0..(Types * a)
  BY <1>1 DEF Requests
<1> QED BY <1>2, <1>3, <1>4 DEF MaxWant

(* A key that leaves NVS alone.                                               *)
LEMMA KeyKeeps ==
  ASSUME CompanionInv, NEW r \in Rams, Key(r), RamInv'
  PROVE  CompanionInv'
BY DEF Key, CompanionInv, TypeInv, UsedInv

LEMMA ToKeeps ==
  ASSUME CompanionInv, NEW screen \in {"MAIN_MENU", "LOCKED"}, To(screen)
  PROVE  CompanionInv'
<1>1. ram \in Rams /\ screen \in Screens
  BY DEF CompanionInv, TypeInv, Screens
<1>2. PICK r \in Rams : r = Left(ram, screen) /\ r.screen = screen
  BY <1>1, LeftRam
<1>3. Key(r) /\ ram'.screen = screen
  BY <1>2 DEF To, Key
<1>4. RamInv'
  BY <1>3, PlainRam
<1> QED BY <1>3, <1>4, KeyKeeps

LEMMA FetchKeys ==
  ASSUME CompanionInv, ShowBalance \/ ShowHistory \/ LeaveFetch \/ ScrollHistory
  PROVE  CompanionInv'
<1>0. ram \in Rams /\ nv \in Nv /\ 0 \in 0..(MaxWant + 1)
  BY Constants DEF CompanionInv, TypeInv
<1>1. ASSUME NEW screen \in Fetching, StartFetch(screen) PROVE CompanionInv'
  <2>1. PICK want \in Requests(nv) :
          Key([ram EXCEPT !.screen = screen, !.want = want, !.got = 0, !.conf = 0, !.unconf = 0,
                          !.done = FALSE, !.late = FALSE, !.scroll = 0])
    BY <1>1 DEF StartFetch
  <2> DEFINE r == [ram EXCEPT !.screen = screen, !.want = want, !.got = 0, !.conf = 0, !.unconf = 0,
                              !.done = FALSE, !.late = FALSE, !.scroll = 0]
  <2>2. want \in 0..MaxWant /\ screen \in Screens
    BY <1>0, RequestsBound DEF Screens
  <2>3. r \in Rams /\ r.screen = screen /\ r.got = 0 /\ r.scroll = 0
    <3>1. PICK z \in 0..(MaxWant + 1) : z = 0
      BY <1>0
    <3>2. r = [ram EXCEPT !.screen = screen, !.want = want, !.got = z, !.conf = 0, !.unconf = 0,
                          !.done = FALSE, !.late = FALSE, !.scroll = 0]
      BY <3>1
    <3> HIDE DEF r
    <3>3. PICK a : a = [ram EXCEPT !.screen = screen, !.want = want, !.got = z, !.done = FALSE,
                                   !.late = FALSE]
      OBVIOUS
    <3>4. a \in Rams /\ a.screen = screen /\ a.got = z
      BY <1>0, <2>2, <3>3 DEF Rams
    <3>v. PICK v \in Int : v = 0
      OBVIOUS
    <3>5. PICK b : b = [a EXCEPT !.conf = v, !.unconf = v]
      OBVIOUS
    <3>6. b \in Rams /\ b.screen = screen /\ b.got = z
      BY <3>4, <3>5 DEF Rams
    <3>7. PICK y \in Nat : y = 0
      OBVIOUS
    <3>8. r = [b EXCEPT !.scroll = y]
      BY <1>0, <3>2, <3>3, <3>v, <3>5, <3>7 DEF Rams
    <3>9. r \in Rams /\ r.screen = screen /\ r.got = z /\ r.scroll = 0
      BY <3>6, <3>7, <3>8 DEF Rams
    <3> QED BY <3>1, <3>9
  <2> HIDE DEF r
  <2>4. ram' = r
    BY <2>1 DEF Key, r
  <2>5. RamInv'
    BY <2>3, <2>4 DEF RamInv, FetchInv, ScrollInv, AddressInv, Fetching
  <2> QED BY <2>1, <2>3, <2>5, KeyKeeps DEF r
<1>2. CASE LeaveFetch
  BY <1>2, ToKeeps DEF LeaveFetch
<1>3. CASE ScrollHistory
  <2>1. nv.count \in Nat /\ nv.count > 1 /\ ram.scroll \in Nat
    BY <1>0, <1>3, Constants DEF ScrollHistory, Nv, Rams
  <2>2. PICK i \in Nat : i = NextEntry(nv, ram.scroll) /\ i < nv.count
    BY <2>1 DEF NextEntry
  <2>3. PICK r : r = [ram EXCEPT !.scroll = i]
    OBVIOUS
  <2>4. r \in Rams /\ r.screen = "TX_HISTORY" /\ r.scroll = i /\ r.done
    BY <1>0, <1>3, <2>3 DEF Rams, ScrollHistory
  <2>5. Key(r) /\ ram' = r /\ nv' = nv
    BY <1>0, <1>3, <2>2, <2>3 DEF ScrollHistory, Key
  <2>6. RamInv'
    BY <2>2, <2>4, <2>5 DEF RamInv, FetchInv, ScrollInv, AddressInv, Waiting
  <2> QED BY <2>4, <2>5, <2>6, KeyKeeps
<1> QED BY <1>1, <1>2, <1>3 DEF ShowBalance, ShowHistory, Fetching

LEMMA AddressKeys ==
  ASSUME CompanionInv, ShowAddress \/ ShowQr \/ BackToAddress \/ VerifyAddress \/ LeaveVerify
  PROVE  CompanionInv'
<1>0. ram \in Rams /\ nv \in Nv
  BY DEF CompanionInv, TypeInv
<1>1. CASE ShowAddress
  <2>1. PICK i \in 0..MaxIndex : i = nv.index[nv.active]
    BY <1>0 DEF Nv
  <2>2. PICK u \in AccountIds \X (0..MaxIndex) : u = <<nv.active, i>>
    BY <1>0 DEF Nv
  <2>3. PICK r : r = [ram EXCEPT !.screen = "SHOW_ADDRESS", !.addr = i, !.shown = u]
    OBVIOUS
  <2>4. r \in Rams /\ r.screen = "SHOW_ADDRESS" /\ r.shown = u
    BY <1>0, <2>3 DEF Rams, Screens
  <2>5. Key(r) /\ ram' = r /\ nv' = nv
    BY <1>1, <2>1, <2>2, <2>3 DEF ShowAddress, Key
  <2>6. RamInv'
    BY <2>1, <2>2, <2>4, <2>5 DEF RamInv, FetchInv, ScrollInv, AddressInv, Waiting, Fetching
  <2> QED BY <2>4, <2>5, <2>6, KeyKeeps
<1>2. CASE ShowQr \/ BackToAddress
  <2>1. PICK screen \in {"SHOW_ADDRESS", "QR_DISPLAY"} :
          Key([ram EXCEPT !.screen = screen]) /\ ram.screen \in {"SHOW_ADDRESS", "QR_DISPLAY"}
    BY <1>2 DEF ShowQr, BackToAddress
  <2>2. PICK r : r = [ram EXCEPT !.screen = screen]
    OBVIOUS
  <2>3. r \in Rams /\ r.screen = screen /\ r.shown = ram.shown
    BY <1>0, <2>2 DEF Rams, Screens
  <2>4. Key(r) /\ ram' = r /\ nv' = nv
    BY <2>1, <2>2 DEF Key
  <2>5. RamInv'
    BY <2>1, <2>3, <2>4 DEF CompanionInv, RamInv, FetchInv, ScrollInv, AddressInv, Waiting, Fetching
  <2> QED BY <2>3, <2>4, <2>5, KeyKeeps
<1>3. CASE VerifyAddress
  <2>1. PICK u \in AccountIds \X (0..MaxIndex) : u = <<nv.active, ram.addr>>
    BY <1>0 DEF Nv, Rams
  <2>2. PICK r : r = [ram EXCEPT !.screen = "VERIFY_ADDRESS", !.shown = u]
    OBVIOUS
  <2>3. r \in Rams /\ r.screen = "VERIFY_ADDRESS"
    BY <1>0, <2>2 DEF Rams, Screens
  <2>4. Key(r) /\ ram' = r
    BY <1>3, <2>1, <2>2 DEF VerifyAddress, Key
  <2> QED BY <2>3, <2>4, PlainRam, KeyKeeps
<1>4. CASE LeaveVerify
  BY <1>4, ToKeeps DEF LeaveVerify
<1> QED BY <1>1, <1>2, <1>3, <1>4

LEMMA AccountKeys ==
  ASSUME CompanionInv, SelectAccount \/ NextAccount \/ SetActive \/ Lock \/ Unlock
  PROVE  CompanionInv'
<1>0. ram \in Rams /\ nv \in Nv
  BY DEF CompanionInv, TypeInv
<1>1. CASE SelectAccount
  <2>1. PICK r : r = [ram EXCEPT !.screen = "ACCOUNT_SELECT", !.cursor = nv.active]
    OBVIOUS
  <2>2. r \in Rams /\ r.screen = "ACCOUNT_SELECT"
    BY <1>0, <2>1 DEF Rams, Nv, Screens
  <2>3. Key(r) /\ ram' = r
    BY <1>1, <2>1 DEF SelectAccount, Key
  <2> QED BY <2>2, <2>3, PlainRam, KeyKeeps
<1>2. CASE NextAccount
  <2>1. ram.cursor \in Nat /\ Accounts \in Nat \ {0}
    BY <1>0, Constants DEF Rams, AccountIds
  <2>2. PICK c \in AccountIds : c = (ram.cursor + 1) % Accounts
    BY <2>1 DEF AccountIds
  <2>3. PICK r : r = [ram EXCEPT !.cursor = c]
    OBVIOUS
  <2>4. r \in Rams /\ r.screen = "ACCOUNT_SELECT"
    BY <1>0, <1>2, <2>3 DEF Rams, NextAccount
  <2>5. Key(r) /\ ram' = r
    BY <1>0, <1>2, <2>2, <2>3 DEF NextAccount, Key
  <2> QED BY <2>4, <2>5, PlainRam, KeyKeeps
<1>3. CASE SetActive
  <2>1. /\ nv' = [nv EXCEPT !.active = ram.cursor] /\ ram' = Left(ram, "MAIN_MENU")
        /\ UNCHANGED <<wire, recv, used>>
    BY <1>3 DEF SetActive
  <2>2. nv' \in Nv /\ nv'.index = nv.index
    BY <1>0, <2>1 DEF Nv, Rams
  <2>3. ram' \in Rams /\ ram'.screen = "MAIN_MENU"
    BY <1>0, <2>1, LeftRam DEF Screens
  <2> QED BY <2>1, <2>2, <2>3, PlainRam DEF CompanionInv, TypeInv, UsedInv
<1>4. CASE Lock \/ Unlock
  BY <1>4, ToKeeps DEF Lock, Unlock
<1> QED BY <1>1, <1>2, <1>3, <1>4

(* The address on the QR code is the next of the active account: after it is  *)
(* confirmed the index is past it.                                            *)
LEMMA UseKeeps == ASSUME CompanionInv, UseAddress PROVE CompanionInv'
<1>0. /\ ram \in Rams /\ nv \in Nv /\ nv.active \in AccountIds /\ nv.index \in [AccountIds -> 0..MaxIndex]
      /\ MaxIndex \in Nat
  BY Constants DEF CompanionInv, TypeInv, Nv
<1>1. /\ nv' = [nv EXCEPT !.index[nv.active] = @ + 1] /\ ram' = Left(ram, "MAIN_MENU")
      /\ used' = used \cup {ram.shown} /\ wire' = wire /\ recv' = recv
      /\ ram.screen = "QR_DISPLAY" /\ nv.index[nv.active] < MaxIndex
  BY DEF UseAddress, UsedBy
<1>2. PICK v \in 0..MaxIndex : v = nv.index[nv.active]
  BY <1>0
<1>3. v + 1 \in 0..MaxIndex
  BY <1>0, <1>1, <1>2
<1>4. /\ nv' \in Nv
      /\ \A a \in AccountIds : nv'.index[a] = IF a = nv.active THEN v + 1 ELSE nv.index[a]
  BY <1>0, <1>1, <1>2, <1>3 DEF Nv
<1>5. ram' \in Rams /\ ram'.screen = "MAIN_MENU"
  BY <1>0, <1>1, LeftRam DEF Screens
<1>6. ram.shown = <<nv.active, v>> /\ ram.shown \in AccountIds \X (0..MaxIndex)
  BY <1>0, <1>1, <1>2 DEF CompanionInv, RamInv, AddressInv, Rams
<1>7. ASSUME NEW u \in used' PROVE u \in AccountIds \X (0..MaxIndex) /\ u[2] < nv'.index[u[1]]
  <2>1. CASE u \in used
    <3>1. u \in AccountIds \X (0..MaxIndex) /\ u[2] < nv.index[u[1]]
      BY <2>1 DEF CompanionInv, UsedInv
    <3>2. u[1] \in AccountIds /\ u[2] \in Nat
      BY <3>1, <1>0
    <3>3. PICK w \in 0..MaxIndex : w = nv.index[u[1]]
      BY <1>0, <3>2
    <3> QED BY <1>2, <1>4, <3>1, <3>2, <3>3
  <2>2. CASE u = ram.shown
    <3>1. u[1] = nv.active /\ u[2] = v
      BY <1>6, <2>2
    <3> QED BY <1>0, <1>2, <1>4, <1>6, <2>2, <3>1
  <2> QED BY <1>1, <2>1, <2>2
<1> QED BY <1>1, <1>4, <1>5, <1>7, PlainRam DEF CompanionInv, TypeInv, UsedInv

-----------------------------------------------------------------------------
(* The host and the power.                                                    *)

LEMMA SendKeeps == ASSUME CompanionInv, SendReply \/ SendGetInfo \/ SendCut PROVE CompanionInv'
<1>1. PICK units : Send(units) /\ units \in Seq(Lines \cup {End})
  <2>1. ASSUME NEW c \in Lines PROVE <<c, End>> \in Seq(Lines \cup {End}) /\ <<c>> \in Seq(Lines \cup {End})
    OBVIOUS
  <2>2. Replies \subseteq Lines /\ "GET_INFO" \in Lines /\ None \in Lines
    BY DEF Lines
  <2> QED BY <2>1, <2>2 DEF SendReply, SendGetInfo, SendCut
<1> QED BY <1>1 DEF Send, CompanionInv, TypeInv, RamInv, FetchInv, ScrollInv, AddressInv, UsedInv, Waiting

LEMMA RestartKeeps ==
  ASSUME CompanionInv, NEW n \in Nv, n.index = nv.index, Restart(n)
  PROVE  CompanionInv'
<1>1. wire' \in Seq(Lines \cup {End})
  <2>1. wire \in Seq(Lines \cup {End})
    BY DEF CompanionInv, TypeInv
  <2>2. wire' = wire \/ wire' = <<>> \/ (wire # <<>> /\ wire' = Tail(wire))
    BY DEF Restart
  <2>3. CASE wire # <<>> /\ wire' = Tail(wire)
    BY <2>1, <2>3, HeadTailProperties
  <2>4. CASE wire' = <<>>
    BY <2>4
  <2> QED BY <2>1, <2>2, <2>3, <2>4
<1>2. recv' \in [len : 0..Room, text : Lines]
  BY Constants DEF Restart, Empty, Lines
<1>3. ram' \in Rams /\ ram'.screen = "LOCKED" /\ nv' = n /\ used' = used
  BY BootRam DEF Restart
<1> QED BY <1>1, <1>2, <1>3, PlainRam DEF CompanionInv, TypeInv, UsedInv

(* The writes of a pass before the power fails.                               *)
LEMMA CutWrites ==
  ASSUME NEW n \in Nv, NEW r \in Rams, NEW cmd, NEW k \in 1..(Len(Stored(n, r, cmd)) - 1)
  PROVE  /\ k \in Nat /\ k < Len(Stored(n, r, cmd))
         /\ Begun(SubSeq(Stored(n, r, cmd), 1, k), Stored(n, r, cmd), k)
<1>1. PICK w \in Seq(Writes) : w = Stored(n, r, cmd)
  BY AllBegun
<1>2. PICK l \in Nat : l = Len(w)
  BY LenProperties
<1>3. k \in 1..l /\ k < l
  BY <1>1, <1>2
<1>4. \A i \in 1..k : w[i] \in Writes
  BY <1>2, <1>3, ElementOfSeq
<1>5. /\ SubSeq(w, 1, k) \in Seq(Writes) /\ Len(SubSeq(w, 1, k)) = k
      /\ \A i \in 1..k : SubSeq(w, 1, k)[i] = w[i]
  <2>1. 1 \in Int /\ k \in Int /\ 1 <= k /\ k - 1 + 1 = k /\ \A i \in 1..k : 1 + i - 1 = i
    BY <1>3
  <2> QED BY <1>4, <2>1, SubSeqProperties
<1> QED BY <1>1, <1>2, <1>3, <1>5 DEF Begun

LEMMA PowerKeeps == ASSUME CompanionInv, PowerLoss PROVE CompanionInv'
<1>0. ram \in Rams /\ nv \in Nv
  BY DEF CompanionInv, TypeInv
<1>1. CASE Restart(nv)
  BY <1>0, <1>1, RestartKeeps
<1>2. ASSUME NEW cmd, NEW k \in 1..(Len(Stored(nv, Counted(ram, cmd), cmd)) - 1),
             Restart(After(nv, SubSeq(Stored(nv, Counted(ram, cmd), cmd), 1, k)))
      PROVE  CompanionInv'
  <2>1. Counted(ram, cmd) \in Rams
    BY <1>0, CountedRam DEF CompanionInv, RamInv, FetchInv
  <2>2. Grown(nv, After(nv, SubSeq(Stored(nv, Counted(ram, cmd), cmd), 1, k)))
    BY <1>0, <2>1, CutWrites, PassWrites
  <2> QED BY <1>2, <2>2, RestartKeeps DEF Grown
<1> QED BY <1>1, <1>2 DEF PowerLoss

LEMMA CompanionStep == CompanionInv /\ [Next]_vars => CompanionInv'
<1> SUFFICES ASSUME CompanionInv, [Next]_vars PROVE CompanionInv'
  OBVIOUS
<1>1. CASE Loop \/ Tick
  BY <1>1, ReadKeeps, TickKeeps DEF Loop
<1>2. CASE Keys
  BY <1>2, FetchKeys, AddressKeys, AccountKeys, UseKeeps DEF Keys
<1>3. CASE SendReply \/ SendGetInfo \/ SendCut
  BY <1>3, SendKeeps
<1>4. CASE PowerLoss
  BY <1>4, PowerKeeps
<1>5. CASE UNCHANGED vars
  BY <1>5 DEF vars, CompanionInv, TypeInv, RamInv, FetchInv, ScrollInv, AddressInv, UsedInv, Waiting
<1> QED BY <1>1, <1>2, <1>3, <1>4, <1>5 DEF Next

(* The inductive invariant holds in every reachable state.                    *)
THEOREM AlwaysCompanionInv == Spec => []CompanionInv
BY CompanionStart, CompanionStep, PTL DEF Spec

-----------------------------------------------------------------------------
(* The properties.                                                            *)

(* The state always has its type: what the host sends, whole, cut or across   *)
(* a restart, never overruns the line buffer nor the indices of the accounts, *)
(* and the entry of the history on the display is counted.                    *)
THEOREM AlwaysCompanionTypeOK == Spec => []CompanionTypeOK
<1>1. CompanionInv /\ asked \in 0..2 => CompanionTypeOK
  <2> SUFFICES ASSUME CompanionInv, asked \in 0..2 PROVE CompanionTypeOK
    OBVIOUS
  <2>1. recv.len \in 0..Room /\ recv.text \in Replies \cup {"GET_INFO", None}
    BY DEF CompanionInv, TypeInv, Lines
  <2>2. /\ ram.screen \in Screens /\ ram.got \in 0..(MaxWant + 1) /\ ram.want \in 0..MaxWant
        /\ ram.shown \in AccountIds \X (0..MaxIndex) /\ ram.cursor \in AccountIds
    BY DEF CompanionInv, TypeInv, Rams
  <2>3. /\ nv.active \in AccountIds /\ nv.index \in [AccountIds -> 0..MaxIndex]
        /\ nv.count \in 0..MaxEntries
    BY DEF CompanionInv, TypeInv, Nv
  <2> QED BY <2>1, <2>2, <2>3 DEF CompanionTypeOK, CompanionInv, RamInv, ScrollInv
<1> DEFINE AskedInv == asked \in 0..2
<1>2. Init => AskedInv
  BY DEF Init
<1>3. AskedInv /\ [Next]_vars => AskedInv'
  <2> SUFFICES ASSUME asked \in 0..2, [Next]_vars PROVE asked' \in 0..2
    OBVIOUS
  <2>1. CASE UNCHANGED vars
    BY <2>1 DEF vars
  <2>2. CASE ReadUnit \/ Tick \/ UseAddress \/ SetActive \/ \E r : Key(r)
    BY <2>2 DEF ReadUnit, Tick, UseAddress, SetActive, Key
  <2>3. CASE \E cmd : Take(cmd)
    BY <2>3 DEF Take
  <2>4. CASE SendReply \/ SendCut \/ (\E n : Restart(n))
    <3>1. (\E n : Restart(n)) => asked' = 0
      BY Zenon DEF Restart
    <3>2. SendReply => asked' = asked
      BY Zenon DEF SendReply
    <3>3. SendCut => asked' = 0
      BY DEF SendCut
    <3> QED BY <2>4, <3>1, <3>2, <3>3
  <2>5. CASE SendGetInfo
    BY <2>5 DEF SendGetInfo, Smaller
  <2>6. PowerLoss => \E n : Restart(n)
    BY DEF PowerLoss
  <2>7. Keys => UseAddress \/ SetActive \/ \E r : Key(r)
    BY Zenon DEF Keys, ShowBalance, ShowHistory, StartFetch, LeaveFetch, ScrollHistory, ShowAddress, ShowQr,
       BackToAddress, VerifyAddress, LeaveVerify, SelectAccount, NextAccount, Lock, Unlock, To
  <2>8. ReadLine \/ Quiet => \E cmd : Take(cmd)
    BY DEF ReadLine, Quiet
  <2> QED BY <2>1, <2>2, <2>3, <2>4, <2>5, <2>6, <2>7, <2>8 DEF Next, Loop
<1>4. Spec => []AskedInv
  <2> HIDE DEF AskedInv
  <2> QED BY <1>2, <1>3, PTL DEF Spec
<1> QED BY <1>1, <1>4, AlwaysCompanionInv, PTL

(* An address confirmed on its QR code is never shown again: the address on   *)
(* the display is the next one of the active account, whatever was selected,  *)
(* verified or interrupted since, and the used ones lie below that.           *)
THEOREM AlwaysUsedNeverShownAgain == Spec => []UsedNeverShownAgain
<1>1. CompanionInv => UsedNeverShownAgain
  <2> SUFFICES ASSUME CompanionInv, ram.screen \in {"SHOW_ADDRESS", "QR_DISPLAY"}, ram.shown \in used
               PROVE  FALSE
    BY DEF UsedNeverShownAgain
  <2>1. PICK u \in used : u = ram.shown
    OBVIOUS
  <2>2. u = <<nv.active, nv.index[nv.active]>>
    BY <2>1 DEF CompanionInv, RamInv, AddressInv
  <2>3. nv.active \in AccountIds /\ nv.index \in [AccountIds -> 0..MaxIndex]
    BY DEF CompanionInv, TypeInv, Nv
  <2>4. PICK i \in Nat : i = nv.index[nv.active]
    BY <2>3
  <2>5. u[2] < nv.index[u[1]]
    BY DEF CompanionInv, UsedInv
  <2> QED BY <2>2, <2>4, <2>5
<1> QED BY <1>1, AlwaysCompanionInv, PTL

(* What a pass writes before the power fails, or in full, adds a transaction  *)
(* to the history or leaves it alone.                                         *)
Added(n, x) == \E t \in Txs : History(x) = Kept(Append(History(n), Whole(t)))

LEMMA PassAdds ==
  ASSUME NEW n \in Nv, NEW r \in Rams, NEW cmd
  PROVE  LET x == After(n, Stored(n, r, cmd)) IN History(x) = History(n) \/ Added(n, x)
<1> DEFINE x == After(n, Stored(n, r, cmd))
<1>1. CASE r.screen = "SHOW_BALANCE" /\ ~r.done /\ Over(r) /\ r.got > 0
  <2>1. Stored(n, r, cmd) = SetCached(r) /\ r.conf \in Int /\ r.unconf \in Int
    BY <1>1 DEF Stored, Rams
  <2>2. Begun(SetCached(r), SetCached(r), Len(SetCached(r)))
    BY <2>1, AllBegun
  <2>3. x.count = n.count /\ x.slot = n.slot
    BY <2>1, <2>2, CachedWrites
  <2> QED BY <2>3 DEF History
<1>2. CASE r.screen = "TX_HISTORY" /\ ~r.done /\ cmd \in Txs
  <2>1. Stored(n, r, cmd) = AddEntry(n, cmd)
    BY <1>2 DEF Stored
  <2>2. History(x) = Kept(Append(History(n), Whole(cmd)))
    BY <1>2, <2>1, EntryAdded
  <2> QED BY <1>2, <2>2 DEF Added
<1>3. CASE Stored(n, r, cmd) = <<>>
  BY <1>3 DEF After
<1> QED BY <1>1, <1>2, <1>3 DEF Stored

LEMMA CutAddsNothing ==
  ASSUME NEW n \in Nv, n.count < MaxEntries, NEW r \in Rams, NEW cmd,
         NEW k \in 1..(Len(Stored(n, r, cmd)) - 1)
  PROVE  History(After(n, SubSeq(Stored(n, r, cmd), 1, k))) = History(n)
<1> DEFINE x == After(n, SubSeq(Stored(n, r, cmd), 1, k))
<1>0. /\ k \in Nat /\ k < Len(Stored(n, r, cmd))
      /\ Begun(SubSeq(Stored(n, r, cmd), 1, k), Stored(n, r, cmd), k)
  BY CutWrites
<1>1. CASE r.screen = "SHOW_BALANCE" /\ ~r.done /\ Over(r) /\ r.got > 0
  <2>1. Stored(n, r, cmd) = SetCached(r) /\ r.conf \in Int /\ r.unconf \in Int
    BY <1>1 DEF Stored, Rams
  <2>2. x.count = n.count /\ x.slot = n.slot
    BY <1>0, <2>1, CachedWrites
  <2> QED BY <2>2 DEF History
<1>2. CASE r.screen = "TX_HISTORY" /\ ~r.done /\ cmd \in Txs
  <2>1. Stored(n, r, cmd) = AddEntry(n, cmd)
    BY <1>2 DEF Stored
  <2> QED BY <1>0, <1>2, <2>1, EntryHidden
<1>3. CASE Stored(n, r, cmd) = <<>>
  BY <1>0, <1>3
<1> QED BY <1>1, <1>2, <1>3 DEF Stored

(* The same for a step: keys, ticks and the host leave the history alone.     *)
LEMMA TakeAdds ==
  ASSUME CompanionInv, NEW cmd, Take(cmd)
  PROVE  History(nv') = History(nv) \/ Added(nv, nv')
<1> DEFINE p == Compared(nv, ram, cmd)
<1>0. ram \in Rams /\ nv \in Nv
  BY DEF CompanionInv, TypeInv
<1>1. p \in Rams /\ (p = ram \/ p.screen = "VERIFY_RESULT")
  BY <1>0, ComparedRam
<1>2. Waiting(p) => p.got < p.want \/ p.got = 0
  BY <1>1 DEF CompanionInv, RamInv, FetchInv, Waiting, Fetching
<1> HIDE DEF p
<1>3. Counted(p, cmd) \in Rams
  BY <1>1, <1>2, CountedRam
<1>4. nv' = After(nv, Stored(nv, Counted(p, cmd), cmd))
  BY DEF Take, p
<1> QED BY <1>0, <1>3, <1>4, PassAdds

LEMMA KeysAddNothing == ASSUME CompanionInv, Keys PROVE History(nv') = History(nv)
<1>0. nv \in Nv
  BY DEF CompanionInv, TypeInv
<1>1. CASE UseAddress \/ SetActive
  <2>1. nv'.count = nv.count /\ nv'.slot = nv.slot
    BY <1>0, <1>1 DEF UseAddress, SetActive, Nv
  <2> QED BY <2>1 DEF History
<1>2. CASE nv' = nv
  BY <1>2
<1> QED BY <1>1, <1>2
     DEF Keys, Key, To, ShowBalance, ShowHistory, StartFetch, LeaveFetch, ScrollHistory, ShowAddress, ShowQr,
         BackToAddress, VerifyAddress, LeaveVerify, SelectAccount, NextAccount, Lock, Unlock

LEMMA PowerAddsNothing ==
  ASSUME CompanionInv, PowerLoss, nv.count < MaxEntries
  PROVE  History(nv') = History(nv)
<1>0. ram \in Rams /\ nv \in Nv
  BY DEF CompanionInv, TypeInv
<1>1. CASE Restart(nv)
  BY <1>1 DEF Restart
<1>2. ASSUME NEW cmd, NEW k \in 1..(Len(Stored(nv, Counted(ram, cmd), cmd)) - 1),
             Restart(After(nv, SubSeq(Stored(nv, Counted(ram, cmd), cmd), 1, k)))
      PROVE  History(nv') = History(nv)
  <2>1. Counted(ram, cmd) \in Rams
    BY <1>0, CountedRam DEF CompanionInv, RamInv, FetchInv
  <2>2. nv' = After(nv, SubSeq(Stored(nv, Counted(ram, cmd), cmd), 1, k))
    BY <1>2 DEF Restart
  <2> QED BY <1>0, <2>1, <2>2, CutAddsNothing
<1> QED BY <1>1, <1>2 DEF PowerLoss

(* The history changes in one way: a transaction, with all its fields, is its *)
(* newest entry and the oldest is lost when it is full; a power loss leaves   *)
(* it as it is while there is a free slot.  Each key of NVS holds its last    *)
(* write, and the count is the last one.                                      *)
THEOREM HistoryIsKept == Spec => HistoryKeepsLast
<1> DEFINE Keeps == History(nv') # History(nv) /\ (crashes' = crashes \/ nv.count < MaxEntries)
                      => \E t \in Txs : History(nv') = Kept(Append(History(nv), Whole(t)))
           Count == crashes \in Nat
<1>1. ASSUME CompanionInv, crashes \in Nat, [Next]_vars PROVE Keeps
  <2>1. CASE Loop
    <3>1. CASE ReadUnit
      BY <3>1 DEF ReadUnit
    <3>2. CASE ReadLine
      BY <1>1, <3>2, TakeAdds DEF ReadLine, Added
    <3>3. CASE Quiet
      BY <1>1, <3>3, TakeAdds DEF Quiet, Added
    <3> QED BY <2>1, <3>1, <3>2, <3>3 DEF Loop
  <2>2. CASE Keys
    BY <1>1, <2>2, KeysAddNothing
  <2>3. CASE PowerLoss
    <3>1. crashes' # crashes
      BY <1>1, <2>3 DEF PowerLoss, Restart
    <3> QED BY <1>1, <2>3, <3>1, PowerAddsNothing
  <2>4. CASE UNCHANGED nv
    BY <2>4
  <2> QED BY <1>1, <2>1, <2>2, <2>3, <2>4 DEF Next, Tick, SendReply, SendGetInfo, SendCut, Send, vars
<1>2. Init => Count
  BY DEF Init
<1>3. Count /\ [Next]_vars => Count'
  <2> SUFFICES ASSUME crashes \in Nat, [Next]_vars PROVE crashes' \in Nat
    OBVIOUS
  <2>1. CASE UNCHANGED crashes
    BY <2>1
  <2>2. CASE PowerLoss
    BY <2>2 DEF PowerLoss, Restart
  <2> QED BY <2>1, <2>2
       DEF Next, Loop, ReadUnit, ReadLine, Quiet, Take, Tick, Keys, Key, To, ShowBalance, ShowHistory,
           StartFetch, LeaveFetch, ScrollHistory, ShowAddress, ShowQr, BackToAddress, UseAddress, VerifyAddress,
           LeaveVerify, SelectAccount, NextAccount, SetActive, Lock, Unlock, SendReply, SendGetInfo, SendCut,
           Send, vars
<1>4. CompanionInv /\ Count /\ [Next]_vars => Keeps
  BY <1>1
<1> HIDE DEF Keeps, Count
<1>5. Spec => [][Keeps]_vars
  BY <1>2, <1>3, <1>4, AlwaysCompanionInv, PTL DEF Spec
<1> QED BY <1>5 DEF HistoryKeepsLast, Keeps
=============================================================================
