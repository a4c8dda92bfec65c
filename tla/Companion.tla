----------------------------- MODULE Companion -----------------------------
(***************************************************************************)
(* The device and the companion application on the other end of the USB    *)
(* line: serial_transport.cpp takes the lines, loop() looks at them in the *)
(* screens that wait for one, and balance.cpp, tx_history.cpp and          *)
(* account_manager.cpp keep what comes of it in NVS, one key at a time.    *)
(* Signing is in TxReview; here are the balance, the history, the receive  *)
(* addresses, their verification, and the questions answered on any screen.*)
(*                                                                         *)
(* A line is one unit of text and its end; a line cut by the host is a     *)
(* unit without the end, and Room units fill the buffer.  An address is an *)
(* account and an index: the three types of an address share the index.    *)
(***************************************************************************)
EXTENDS Integers, Sequences, FiniteSetsExt

CONSTANTS Accounts,     \* MAX_ACCOUNTS
          Types,        \* address types asked for in a fetch
          Window,       \* indices asked for in a fetch, after the first
          Txs,          \* transactions the host can report
          MaxEntries,   \* TX_HISTORY_MAX_ENTRIES
          Room,         \* SERIAL_RECV_BUF_SIZE - 1
          Menus,        \* bound: the sets of menu items, one of which a user visits
          MaxIndex,     \* bound: addresses used per account
          MaxCrashes    \* bound: power losses

ASSUME CompanionBounds ==
  /\ {Accounts, Types, MaxEntries} \subseteq Nat \ {0}
  /\ {Window, MaxIndex, MaxCrashes} \subseteq Nat /\ Room \in Nat /\ Room >= 2

VARIABLES menu,
          wire,      \* what the host has sent and the device has not read
          recv,      \* recv_buf: recv_pos and the text, if it is that of one command
          ram,       \* see CompanionTypeOK
          nv,        \* the NVS namespaces accounts, balance and txhistory
          used,      \* observability: addresses confirmed on the QR screen
          asked,     \* observability: whole GET_INFOs since the last answer, cut line or start
          crashes
vars == <<menu, wire, recv, ram, nv, used, asked, crashes>>

None == "none"
End == "\n"
Replies == {"BALANCE", "VERIFY"} \cup Txs
Fetching == {"SHOW_BALANCE", "TX_HISTORY"}
Screens == Fetching \cup {"LOCKED", "MAIN_MENU", "SHOW_ADDRESS", "QR_DISPLAY", "VERIFY_ADDRESS",
                          "VERIFY_RESULT", "ACCOUNT_SELECT"}
AccountIds == 0..(Accounts - 1)
Slots == 0..(MaxEntries - 1)
Fields == <<"txid", "dir", "amount", "conf">>
FieldNames == {"txid", "dir", "amount", "conf"}
MaxWant == Types * (Window + 1)

-----------------------------------------------------------------------------
(* NVS: a function makes a sequence of writes, and power may fail between  *)
(* any two.                                                                *)

Put(at, v) == [at |-> at, value |-> v]
\* A key holds the value of the last write to it.
Held(writes, at, old) ==
  LET mine == {k \in DOMAIN writes : writes[k].at = at}
  IN IF mine = {} THEN old ELSE writes[Max(mine)].value
After(n, writes) ==
  IF writes = <<>> THEN n ELSE
  [n EXCEPT !.count = Held(writes, <<"count">>, @),
            !.conf_sats = Held(writes, <<"conf_sats">>, @),
            !.unconf_sats = Held(writes, <<"unconf_sats">>, @),
            !.slot = [i \in Slots |-> [f \in FieldNames |-> Held(writes, <<"slot", i, f>>, n.slot[i][f])]]]

\* The four keys of each entry from slot i to slot j, in the order of the code.
PutEntries(i, j, entry) ==
  [k \in 1..(4 * (j - i + 1)) |->
     LET s == i + (k - 1) \div 4
         f == Fields[1 + ((k - 1) % 4)]
     IN Put(<<"slot", s, f>>, entry[s][f])]
Whole(t) == [f \in FieldNames |-> t]

\* Mutant of NewEntry: the count is written before the entry it counts.
NewEntryCounted(n, t) ==
  <<Put(<<"count">>, n.count + 1)>> \o PutEntries(n.count, n.count, [i \in Slots |-> Whole(t)])
NewEntry(n, t) ==
  PutEntries(n.count, n.count, [i \in Slots |-> Whole(t)]) \o <<Put(<<"count">>, n.count + 1)>>
\* The entries of a full history after the oldest has gone.
Moved(n, t) == [i \in Slots |-> IF i < MaxEntries - 1 THEN n.slot[i + 1] ELSE Whole(t)]
\* tx_history_add_entry: the next free slot, or the last one after the others have moved down.
AddEntry(n, t) ==
  IF n.count < MaxEntries THEN NewEntry(n, t)
  ELSE PutEntries(0, MaxEntries - 1, Moved(n, t)) \o <<Put(<<"count">>, n.count)>>

\* balance_set_cached without the time of it; balance_has_cached looks at conf_sats only.
SetCached(r) == <<Put(<<"conf_sats">>, r.conf), Put(<<"unconf_sats">>, r.unconf)>>
HasCached(n) == n.conf_sats # -1

-----------------------------------------------------------------------------
(* A line is taken                                                         *)

\* The variables of wallet1.ino at a start, before the PIN.
Boot == [screen |-> "LOCKED", done |-> TRUE, late |-> FALSE, got |-> 0, want |-> 0, conf |-> 0,
         unconf |-> 0, addr |-> 0, shown |-> <<0, 0>>, cursor |-> 0, scroll |-> 0]
Waiting(r) == r.screen \in Fetching /\ ~r.done
\* What a reply adds while its screen waits for it; every BALANCE brings 1 of each amount.
Counted(r, cmd) ==
  CASE r.screen = "SHOW_BALANCE" /\ ~r.done /\ cmd = "BALANCE" ->
         [r EXCEPT !.got = @ + 1, !.conf = @ + 1, !.unconf = @ + 1]
    [] r.screen = "TX_HISTORY" /\ ~r.done /\ cmd \in Txs -> [r EXCEPT !.got = @ + 1]
    [] OTHER -> r

\* Mutant of Over: a fetch waits for all its replies.
OverWhenComplete(r) == r.got >= r.want
\* 2000 ms are over, or there are as many replies as requests.
Over(r) == r.late \/ r.got >= r.want

\* The writes of the pass, r being what Counted leaves.
Stored(n, r, cmd) ==
  CASE r.screen = "SHOW_BALANCE" /\ ~r.done /\ Over(r) /\ r.got > 0 -> SetCached(r)
    [] r.screen = "TX_HISTORY" /\ ~r.done /\ cmd \in Txs -> AddEntry(n, cmd)
    [] OTHER -> <<>>

\* The end of a fetch: without a reply the balance is the stored one.
Settled(n, r) ==
  IF ~(Waiting(r) /\ Over(r)) THEN r
  ELSE IF r.screen = "SHOW_BALANCE" /\ r.got = 0 /\ HasCached(n)
       THEN [r EXCEPT !.done = TRUE, !.conf = n.conf_sats, !.unconf = n.unconf_sats]
       ELSE [r EXCEPT !.done = TRUE]

\* Both outcomes of the comparison are VERIFY_RESULT: VERIFY_MATCH and VERIFY_MISMATCH differ
\* in the words sent by the key that leaves them.
Compared(n, r, cmd) ==
  IF r.screen = "VERIFY_ADDRESS" /\ cmd = "VERIFY"
  THEN [r EXCEPT !.screen = "VERIFY_RESULT", !.shown = <<n.active, r.addr>>] ELSE r

\* GET_INFO gets READY on any screen.
Answered(r, cmd) == cmd = "GET_INFO"

\* The part of a pass before the keys.
Take(cmd) ==
  LET r == Counted(Compared(nv, ram, cmd), cmd)
  IN /\ nv' = After(nv, Stored(nv, r, cmd))
     /\ ram' = Settled(nv', r)
     /\ asked' = IF Answered(ram, cmd) THEN 0 ELSE asked
     /\ UNCHANGED <<menu, used, crashes>>

Empty == [len |-> 0, text |-> None]
\* serial_poll_into takes what has arrived, up to the end of a line or the end of the buffer; a
\* unit after another is no command of parse_line_into.
ReadUnit ==
  /\ wire # <<>> /\ Head(wire) # End /\ recv.len < Room
  /\ recv' = [len |-> recv.len + 1, text |-> IF recv.len = 0 THEN Head(wire) ELSE None]
  /\ wire' = Tail(wire) /\ UNCHANGED <<menu, ram, nv, used, asked, crashes>>
\* Mutant of ReadLine: a line that is no command stays in the buffer.
ReadLineKeepsUnknown ==
  /\ wire # <<>> /\ Head(wire) = End /\ recv.len < Room
  /\ recv' = IF recv.text = None THEN recv ELSE Empty
  /\ wire' = Tail(wire) /\ Take(recv.text)
ReadLine ==
  /\ wire # <<>> /\ Head(wire) = End /\ recv.len < Room
  /\ recv' = Empty /\ wire' = Tail(wire) /\ Take(recv.text)
\* A pass that completes no line.
Quiet == Waiting(ram) /\ UNCHANGED <<menu, wire, recv>> /\ Take(None)
Tick == Waiting(ram) /\ ~ram.late /\ ram' = [ram EXCEPT !.late = TRUE]
        /\ UNCHANGED <<menu, wire, recv, nv, used, asked, crashes>>

-----------------------------------------------------------------------------
(* The keys.  A key acts after the part above in the same pass; here it is *)
(* a pass of its own, which differs in nothing, as its guard asks for what *)
(* that part would have done.                                              *)

Key(r) == ram' = r /\ UNCHANGED <<menu, wire, recv, nv, used, asked, crashes>>
\* What the next visit sets again is not kept apart.
Left(r, screen) == [Boot EXCEPT !.screen = screen, !.addr = r.addr, !.cursor = r.cursor]
To(screen) == Key(Left(ram, screen))

Smaller(a, b) == IF a < b THEN a ELSE b
\* One request per address that address_generate could derive.
Requests(n) == 0..(Types * (Smaller(n.index[n.active], Window) + 1))
Chosen(item) == ram.screen = "MAIN_MENU" /\ item \in menu
StartFetch(screen) ==
  /\ Chosen(screen)
  /\ \E want \in Requests(nv) :
       Key([ram EXCEPT !.screen = screen, !.want = want, !.got = 0, !.conf = 0, !.unconf = 0,
                       !.done = FALSE, !.late = FALSE, !.scroll = 0])
ShowBalance == StartFetch("SHOW_BALANCE")
ShowHistory == StartFetch("TX_HISTORY")
LeaveFetch == ram.screen \in Fetching /\ ram.done /\ To("MAIN_MENU")
\* Mutant of NextEntry: one step past the end.
NextEntryPast(n, i) == (i + 1) % (n.count + 1)
NextEntry(n, i) == (i + 1) % n.count
ScrollHistory ==
  /\ ram.screen = "TX_HISTORY" /\ ram.done /\ nv.count > 1
  /\ Key([ram EXCEPT !.scroll = NextEntry(nv, @)])

ShowAddress ==
  /\ Chosen("SHOW_ADDRESS")
  /\ LET i == nv.index[nv.active]
     IN Key([ram EXCEPT !.screen = "SHOW_ADDRESS", !.addr = i, !.shown = <<nv.active, i>>])
ShowQr == ram.screen = "SHOW_ADDRESS" /\ Key([ram EXCEPT !.screen = "QR_DISPLAY"])
BackToAddress == ram.screen = "QR_DISPLAY" /\ Key([ram EXCEPT !.screen = "SHOW_ADDRESS"])
\* Mutant of UsedBy: the account under the cursor of ACCOUNT_SELECT.
UsedByCursor(n, r) == r.cursor
UsedBy(n, r) == n.active
\* CONFIRM on the QR code: account_increment_address_index.
UseAddress ==
  /\ ram.screen = "QR_DISPLAY" /\ nv.index[UsedBy(nv, ram)] < MaxIndex
  /\ nv' = [nv EXCEPT !.index[UsedBy(nv, ram)] = @ + 1]
  /\ used' = used \cup {ram.shown}
  /\ ram' = Left(ram, "MAIN_MENU") /\ UNCHANGED <<menu, wire, recv, asked, crashes>>

\* The index is still that of the last SHOW_ADDRESS.
VerifyAddress ==
  /\ Chosen("VERIFY_ADDRESS")
  /\ Key([ram EXCEPT !.screen = "VERIFY_ADDRESS", !.shown = <<nv.active, ram.addr>>])
LeaveVerify == ram.screen \in {"VERIFY_ADDRESS", "VERIFY_RESULT"} /\ To("MAIN_MENU")

SelectAccount ==
  /\ Chosen("ACCOUNT_SELECT")
  /\ Key([ram EXCEPT !.screen = "ACCOUNT_SELECT", !.cursor = nv.active])
\* CANCEL moves the cursor over the accounts; the entry that renames one is left out.
NextAccount == ram.screen = "ACCOUNT_SELECT" /\ Key([ram EXCEPT !.cursor = (@ + 1) % Accounts])
SetActive ==
  /\ ram.screen = "ACCOUNT_SELECT"
  /\ nv' = [nv EXCEPT !.active = ram.cursor]
  /\ ram' = Left(ram, "MAIN_MENU") /\ UNCHANGED <<menu, wire, recv, used, asked, crashes>>

\* The auto-lock, on the screens it knows, and the way back by PIN.
Lock == ram.screen \in {"MAIN_MENU", "SHOW_ADDRESS", "QR_DISPLAY"} \cup Fetching
        /\ ~Waiting(ram) /\ To("LOCKED")
Unlock == ram.screen = "LOCKED" /\ To("MAIN_MENU")
Keys == \/ ShowBalance \/ ShowHistory \/ LeaveFetch \/ ScrollHistory \/ ShowAddress \/ ShowQr
        \/ BackToAddress \/ UseAddress \/ VerifyAddress \/ LeaveVerify \/ SelectAccount
        \/ NextAccount \/ SetActive \/ Lock \/ Unlock

-----------------------------------------------------------------------------
(* The host and the power                                                  *)

\* One line is under way at a time: a longer queue is a host that sends its next line later.
Send(units) == wire = <<>> /\ wire' = units /\ UNCHANGED <<menu, recv, ram, nv, used, crashes>>
SendReply == \E c \in Replies : Send(<<c, End>>) /\ asked' = asked
\* One question, or more than one (bound: more are not counted).
SendGetInfo == Send(<<"GET_INFO", End>>) /\ asked' = Smaller(asked + 1, 2)
\* A line cut by an unplugged cable or a closed port.
SendCut == Send(<<None>>) /\ asked' = 0

\* Power fails after the first k writes of a pass that takes cmd; what is still on the wire is
\* read after the restart, in part or as a whole.
Restart(n) ==
  /\ crashes < MaxCrashes /\ crashes' = crashes + 1
  /\ nv' = n /\ ram' = Boot /\ recv' = Empty /\ asked' = 0 /\ UNCHANGED <<menu, used>>
  /\ wire' \in {wire, <<>>} \cup (IF wire = <<>> THEN {} ELSE {Tail(wire)})
PowerLoss ==
  \/ Restart(nv)
  \/ \E cmd \in {None} \cup (IF wire # <<>> /\ Head(wire) = End THEN {recv.text} ELSE {}) :
       LET writes == Stored(nv, Counted(ram, cmd), cmd)
       IN \E k \in 1..(Len(writes) - 1) : Restart(After(nv, SubSeq(writes, 1, k)))

-----------------------------------------------------------------------------
Init ==
  /\ menu \in Menus /\ wire = <<>> /\ recv = Empty /\ ram = Boot /\ used = {} /\ asked = 0 /\ crashes = 0
  /\ nv = [active |-> 0, index |-> [a \in AccountIds |-> 0], conf_sats |-> -1, unconf_sats |-> 0,
           count |-> 0, slot |-> [i \in Slots |-> Whole(None)]]
Loop == ReadUnit \/ ReadLine \/ Quiet
Next == Loop \/ Tick \/ Keys \/ SendReply \/ SendGetInfo \/ SendCut \/ PowerLoss
\* loop() runs again and again and reads what is there, and time passes.
Spec == Init /\ [][Next]_vars /\ WF_vars(ReadUnit \/ ReadLine) /\ WF_vars(Quiet) /\ WF_vars(Tick)

-----------------------------------------------------------------------------
(* Properties                                                              *)

\* The state has its type: the buffer is never overrun, and the entry of the history on the
\* display is one that is counted.
CompanionTypeOK ==
  /\ recv.len \in 0..Room /\ recv.text \in Replies \cup {"GET_INFO", None}
  /\ ram.screen \in Screens /\ ram.got \in 0..(MaxWant + 1) /\ ram.want \in 0..MaxWant
  /\ ram.shown \in AccountIds \X (0..MaxIndex) /\ ram.cursor \in AccountIds
  /\ nv.active \in AccountIds /\ nv.index \in [AccountIds -> 0..MaxIndex]
  /\ nv.count \in 0..MaxEntries /\ asked \in 0..2
  /\ ram.screen = "TX_HISTORY" => ram.scroll = 0 \/ ram.scroll < nv.count

\* The counted entries, oldest first.
History(n) == [i \in 1..n.count |-> n.slot[i - 1]]
\* The last MaxEntries of a sequence.
Kept(s) == IF Len(s) <= MaxEntries THEN s ELSE SubSeq(s, Len(s) - MaxEntries + 1, Len(s))
\* The history changes in one way: a transaction becomes its newest entry, with all fields, and
\* the oldest is lost when it is full.  That holds although an entry is four keys and the count
\* a fifth, and power may fail between any two, as long as no entries are moved.
HistoryKeepsLast ==
  [][History(nv') # History(nv) /\ (crashes' = crashes \/ nv.count < MaxEntries)
       => \E t \in Txs : History(nv') = Kept(Append(History(nv), Whole(t)))]_vars

\* A receive address confirmed on its QR code is never offered again, in any account, whatever
\* was selected, verified or interrupted since.
UsedNeverShownAgain == ram.screen \in {"SHOW_ADDRESS", "QR_DISPLAY"} => ram.shown \notin used

\* A fetch ends, answered or not, so that a key can leave its screen; a jammed line buffer does
\* not hold it up.
FetchEnds == Waiting(ram) ~> ~Waiting(ram)

\* A question that runs into a line the host has cut is lost with it, but not the next one: a
\* GET_INFO that is repeated is answered, on whatever screen the device is and whatever lines of
\* other text came before.  (Of a buffer that lines without an end have filled it says nothing: the
\* code never empties it, although prd.json:302 asks for ERROR:OVERFLOW, and the host's next line
\* is then never read; two whole questions do not come to be under way.)
InfoAnswered == asked = 2 ~> asked = 0
=============================================================================
