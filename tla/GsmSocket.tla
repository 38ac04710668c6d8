----------------------------- MODULE GsmSocket ------------------------------
(***************************************************************************)
(* GsmClient of TinyGsmClientSIM800.h: one TCP socket of the modem, read    *)
(* by cci_task through AT commands.  The modem keeps received bytes until   *)
(* they are asked for; it may say unasked that there are some ("notice",    *)
(* +CIPRXGET: 1,0) or that the peer has closed ("closed"), also in front of *)
(* an answer, and it may answer after the driver has given up.              *)
(*                                                                         *)
(* What comes up the serial line is a sequence of tokens; the parts of an   *)
(* answer the driver reads apart are tokens of their own.  A token of text  *)
(* that is read as data counts as one byte, numbered 0; the bytes the       *)
(* server sends are numbered 1, 2, 3, ...                                   *)
(***************************************************************************)
EXTENDS Naturals, Sequences

CONSTANTS
  Cap,       (* bytes rx can hold: TINY_GSM_RX_BUFFER - 1                  *)
  MaxBytes,  (* bound: bytes the server sends                              *)
  MaxLate    (* bound: answers that come after the driver's time-out       *)

ASSUME CapAssumption == Cap \in Nat \ {0}
ASSUME BoundAssumption == MaxBytes \in Nat /\ MaxLate \in Nat

VARIABLES
  connected,  (* sock_connected                                            *)
  available,  (* sock_available                                            *)
  gotData,    (* got_data                                                  *)
  rx,         (* the ring, as RingFifo shows it to behave                  *)
  pc,         (* where cci_task is in the driver                           *)
  ret,        (* where it goes when maintain() or stop() is done           *)
  left,       (* modemRead: bytes still to be copied                       *)
  cmds,       (* commands the modem has not answered                       *)
  wire,       (* tokens sent by the modem and not yet read                 *)
  open,       (* the modem's connection                                    *)
  unread,     (* bytes the modem holds                                     *)
  sent,       (* bytes the server has sent                                 *)
  got,        (* history: what read() has returned                         *)
  late,       (* history: commands given up before their answer came       *)
  crossed,    (* history: modemRead took a notice for its answer           *)
  refused,    (* history: rx.put returned false                            *)
  missed      (* history: the line that told of the close was cut and lost *)

sockVars == <<connected, available, gotData>>
taskVars == <<pc, ret, left>>
modemVars == <<open, unread, sent>>
histVars == <<late, crossed, refused, missed>>
vars == <<sockVars, rx, taskVars, cmds, wire, modemVars, got, histVars>>

Kinds == {"notice", "closed", "ok", "error", "closeOk", "opened", "openFailed",
          "prompt", "accept", "avail", "status", "read", "byte"}
Token == [k : Kinds, n : Nat, m : Nat]
T(k, n, m) == [k |-> k, n |-> n, m |-> m]
Text(k) == T(k, 0, 0)

(* Tokens with a comma, for which streamSkipUntil and readStringUntil look. *)
HasComma(t) == t.k \in {"notice", "closed", "avail", "read", "status"}

(* What the waitResponse of each place looks for; every other token is      *)
(* skipped.  A notice is an answer where "+CIPRXGET:" is looked for: that   *)
(* test comes before the one for the notice.                                *)
Awaited ==
  [closing    |-> {"ok", "error", "closeOk"},
   ssl        |-> {"ok", "error"},
   starting   |-> {"opened", "openFailed", "error", "closeOk"},
   prompt     |-> {"prompt", "error"},
   accept     |-> {"accept", "error"},
   availWait  |-> {"avail", "read", "notice", "error"},
   availOk    |-> {"ok", "error"},
   statusWait |-> {"status"},
   statusOk   |-> {"ok", "error"},
   readWait   |-> {"avail", "read", "notice", "error"},
   readOk     |-> {"ok", "error"},
   drain      |-> {}]

Hit(p) == pc = p /\ wire # <<>> /\ Head(wire).k \in Awaited[p]
Take == wire' = Tail(wire)
Command(c) == cmds' = Append(cmds, c)

Init ==
  /\ connected = FALSE /\ available = 0 /\ gotData = FALSE /\ rx = <<>>
  /\ pc = "idle" /\ ret = "idle" /\ left = 0
  /\ cmds = <<>> /\ wire = <<>>
  /\ open = FALSE /\ unread = <<>> /\ sent = 0
  /\ got = <<>> /\ late = 0 /\ crossed = FALSE /\ refused = FALSE
  /\ missed = FALSE

-----------------------------------------------------------------------------
(* The modem and the server.                                                *)

Says(t) == wire' = Append(wire, t)
SaysOk(t) == wire' = Append(Append(wire, t), Text("ok"))

Arrive ==
  /\ open /\ sent < MaxBytes
  /\ sent' = sent + 1
  /\ unread' = Append(unread, sent + 1)
  /\ UNCHANGED wire \/ Says(Text("notice"))
  /\ UNCHANGED <<sockVars, rx, taskVars, cmds, open, got, histVars>>

RemoteClose ==
  /\ open
  /\ open' = FALSE
  /\ Says(Text("closed"))
  /\ UNCHANGED <<sockVars, rx, taskVars, cmds, unread, sent, got, histVars>>

(* The answers to a command that change nothing in the modem.  A closed     *)
(* connection may refuse to be read once it holds nothing.                  *)
Answer ==
  /\ cmds # <<>> /\ cmds' = Tail(cmds)
  /\ \/ Head(cmds) = "ssl" /\ \E k \in {"ok", "error"} : Says(Text(k))
     \/ Head(cmds) = "send" /\ Says(Text(IF open THEN "prompt" ELSE "error"))
     \/ Head(cmds) = "data" /\ Says(Text("accept"))
     \/ Head(cmds) = "avail" /\ SaysOk(T("avail", Len(unread), 0))
     \/ Head(cmds) = "status" /\ SaysOk(T("status", IF open THEN 1 ELSE 0, 0))
     \/ /\ Head(cmds) \in {"avail", "read"} /\ ~open /\ unread = <<>>
        /\ Says(Text("error"))
  /\ UNCHANGED <<sockVars, rx, taskVars, modemVars, got, histVars>>

AnswerRead ==
  /\ cmds # <<>> /\ Head(cmds) = "read"
  /\ LET n == IF Len(unread) < Cap THEN Len(unread) ELSE Cap
     IN /\ wire' = wire \o <<T("read", n, Len(unread) - n)>>
                        \o [i \in 1 .. n |-> T("byte", unread[i], 0)]
                        \o <<Text("ok")>>
        /\ unread' = SubSeq(unread, n + 1, Len(unread))
  /\ cmds' = Tail(cmds)
  /\ UNCHANGED <<sockVars, rx, taskVars, open, sent, got, histVars>>

AnswerClose ==
  /\ cmds # <<>> /\ Head(cmds) = "close"
  /\ open' = FALSE /\ unread' = <<>>
  /\ \E k \in {"closeOk", "error"} : Says(Text(k))
  /\ cmds' = Tail(cmds)
  /\ UNCHANGED <<sockVars, rx, taskVars, sent, got, histVars>>

AnswerStart ==
  /\ cmds # <<>> /\ Head(cmds) = "start"
  /\ open' \in BOOLEAN
  /\ wire' = Append(Append(wire, Text("ok")),
                    Text(IF open' THEN "opened" ELSE "openFailed"))
  /\ cmds' = Tail(cmds)
  /\ UNCHANGED <<sockVars, rx, taskVars, unread, sent, got, histVars>>

Modem == Answer \/ AnswerRead \/ AnswerClose \/ AnswerStart

-----------------------------------------------------------------------------
(* waitResponse, for what is not its answer.                                *)

SkipToken ==
  /\ pc \in DOMAIN Awaited /\ wire # <<>> /\ Head(wire).k \notin Awaited[pc]
  /\ Take
  /\ gotData' = (gotData \/ Head(wire).k = "notice")
  /\ connected' = (connected /\ Head(wire).k # "closed")
  /\ UNCHANGED <<available, rx, taskVars, cmds, modemVars, got, histVars>>

(* maintain() waits 10 ms at a time: a line cut in two by that is lost.     *)
DrainCut ==
  /\ pc = "drain" /\ wire # <<>>
  /\ Take
  /\ missed' = (missed \/ Head(wire).k = "closed")
  /\ UNCHANGED <<sockVars, rx, taskVars, cmds, modemVars, got, late, crossed,
                 refused>>

-----------------------------------------------------------------------------
(* connect(), stop() and write().                                           *)

Stop(next) ==
  /\ Command("close")
  /\ connected' = FALSE
  /\ pc' = "closing" /\ ret' = next
  /\ UNCHANGED <<available, gotData, rx, left, wire, modemVars, got, histVars>>

Connect == pc = "idle" /\ Stop("ssl")

GiveUp == pc = "app" /\ Stop("gone")

Stopped ==
  /\ Hit("closing") /\ Take
  /\ rx' = <<>> /\ pc' = ret
  /\ IF ret = "ssl" THEN Command("ssl") ELSE UNCHANGED cmds
  /\ UNCHANGED <<sockVars, ret, left, modemVars, got, histVars>>

ConnectStart ==
  /\ Hit("ssl") /\ Take
  /\ Command("start") /\ pc' = "starting"
  /\ UNCHANGED <<sockVars, rx, ret, left, modemVars, got, histVars>>

Connected ==
  /\ Hit("starting") /\ Take
  /\ connected' = (Head(wire).k = "opened")
  /\ pc' = IF connected' THEN "write" ELSE "gone"
  /\ UNCHANGED <<available, gotData, rx, ret, left, cmds, modemVars, got, histVars>>

Send ==
  /\ pc = "send" /\ Command("send") /\ pc' = "prompt"
  /\ UNCHANGED <<sockVars, rx, ret, left, wire, modemVars, got, histVars>>

Prompted ==
  /\ Hit("prompt") /\ Take
  /\ IF Head(wire).k = "prompt" THEN Command("data") /\ pc' = "accept"
                                ELSE UNCHANGED cmds /\ pc' = "app"
  /\ UNCHANGED <<sockVars, rx, ret, left, modemVars, got, histVars>>

Accepted ==
  /\ Hit("accept") /\ Take
  /\ pc' = "app"
  /\ UNCHANGED <<sockVars, rx, ret, left, cmds, modemVars, got, histVars>>

-----------------------------------------------------------------------------
(* maintain(): ask how much there is, then read whatever is on the line.    *)

Maintain(next, data) ==
  /\ ret' = next
  /\ gotData' = FALSE
  /\ IF data THEN Command("avail") /\ pc' = "availWait"
             ELSE UNCHANGED cmds /\ pc' = "drain"
  /\ UNCHANGED <<connected, available, rx, left, wire, modemVars, got, histVars>>

(* The count of bytes is what follows the second comma.  Behind a notice    *)
(* that was taken for the answer it is the socket's number, 0; of a late    *)
(* answer to a read it is the length of its data.                           *)
AvailAnswer ==
  /\ Hit("availWait") /\ Take
  /\ available' = IF Head(wire).k \in {"avail", "read"} THEN Head(wire).n ELSE 0
  /\ pc' = CASE Head(wire).k = "notice" -> "availSkip"
             [] Head(wire).k = "error"  -> "status"
             [] OTHER                   -> "availOk"
  /\ UNCHANGED <<connected, gotData, rx, ret, left, cmds, modemVars, got, histVars>>

AvailSkip ==
  /\ pc = "availSkip" /\ wire # <<>> /\ Take
  /\ pc' = IF HasComma(Head(wire)) THEN "availOk" ELSE pc
  /\ UNCHANGED <<sockVars, rx, ret, left, cmds, modemVars, got, histVars>>

AvailDone ==
  /\ Hit("availOk") /\ Take
  /\ pc' = IF available = 0 THEN "status" ELSE "drain"
  /\ UNCHANGED <<sockVars, rx, ret, left, cmds, modemVars, got, histVars>>

AskStatus ==
  /\ pc = "status" /\ Command("status") /\ pc' = "statusWait"
  /\ UNCHANGED <<sockVars, rx, ret, left, wire, modemVars, got, histVars>>

(* Slip: what +CIPSTATUS says is not looked at.                             *)
StatusAnswerAny ==
  /\ Hit("statusWait") /\ Take
  /\ pc' = "statusOk"
  /\ UNCHANGED <<sockVars, rx, ret, left, cmds, modemVars, got, histVars>>

StatusAnswer ==
  /\ Hit("statusWait") /\ Take
  /\ connected' = (Head(wire).n = 1)
  /\ pc' = "statusOk"
  /\ UNCHANGED <<available, gotData, rx, ret, left, cmds, modemVars, got, histVars>>

StatusDone ==
  /\ Hit("statusOk") /\ Take
  /\ pc' = "drain"
  /\ UNCHANGED <<sockVars, rx, ret, left, cmds, modemVars, got, histVars>>

Maintained ==
  /\ pc = "drain" /\ wire = <<>>
  /\ pc' = ret
  /\ UNCHANGED <<sockVars, rx, ret, left, cmds, wire, modemVars, got, histVars>>

Write == pc = "write" /\ Maintain("send", gotData)

-----------------------------------------------------------------------------
(* available() and read() of one byte.                                      *)

(* Slip: no question unless a notice has come.                              *)
AvailablePollsNoticed ==
  /\ pc = "app" /\ rx = <<>> /\ connected
  /\ Maintain("asked", gotData)

(* available() asks the modem when it has heard nothing for two seconds.    *)
AvailablePolls ==
  /\ pc = "app" /\ rx = <<>> /\ connected
  /\ Maintain("asked", TRUE)

Available ==
  /\ pc = "app" /\ rx = <<>> /\ connected
  /\ Maintain("asked", gotData)

AvailableAtOnce ==
  /\ pc = "app" /\ ~(rx = <<>> /\ connected)
  /\ pc' = "asked"
  /\ UNCHANGED <<sockVars, rx, ret, left, cmds, wire, modemVars, got, histVars>>

Nothing ==
  /\ pc = "asked" /\ Len(rx) + available = 0
  /\ pc' = "app"
  /\ UNCHANGED <<sockVars, rx, ret, left, cmds, wire, modemVars, got, histVars>>

Read ==
  /\ pc = "asked" /\ Len(rx) + available > 0
  /\ Maintain("test", gotData)

ReadClosed ==
  /\ pc = "test" /\ ~connected
  /\ pc' = "app"
  /\ UNCHANGED <<sockVars, rx, ret, left, cmds, wire, modemVars, got, histVars>>

(* Slip: the byte stays in a full ring.                                     *)
DeliverCopy ==
  /\ pc = "test" /\ connected /\ rx # <<>>
  /\ got' = Append(got, Head(rx))
  /\ rx' = IF Len(rx) = Cap THEN rx ELSE Tail(rx)
  /\ pc' = "app"
  /\ UNCHANGED <<sockVars, ret, left, cmds, wire, modemVars, histVars>>

Deliver ==
  /\ pc = "test" /\ connected /\ rx # <<>>
  /\ got' = Append(got, Head(rx)) /\ rx' = Tail(rx)
  /\ pc' = "app"
  /\ UNCHANGED <<sockVars, ret, left, cmds, wire, modemVars, histVars>>

Refill ==
  /\ pc = "test" /\ connected /\ rx = <<>>
  /\ Maintain("fetch", gotData)

(* modemRead asks for rx.free() bytes: all of Cap, since rx is empty here.  *)
Fetch ==
  /\ pc = "fetch"
  /\ IF available > 0 THEN Command("read") /\ pc' = "readWait"
                      ELSE UNCHANGED cmds /\ pc' = "app"
  /\ UNCHANGED <<sockVars, rx, ret, left, wire, modemVars, got, histVars>>

(* Slip: the bytes that stay behind are counted too.                        *)
ReadAnswerRest ==
  /\ Hit("readWait") /\ Take
  /\ LET t == Head(wire)
     IN /\ available' = IF t.k = "read" THEN t.m ELSE available
        /\ left' = IF t.k \in {"read", "avail"} THEN t.n + t.m ELSE 0
        /\ pc' = CASE t.k = "read"   -> "readBytes"
                   [] t.k = "avail"  -> "readSkip"
                   [] t.k = "notice" -> "readNotice"
                   [] OTHER          -> "test"
        /\ crossed' = (crossed \/ t.k = "notice")
  /\ UNCHANGED <<connected, gotData, rx, ret, cmds, modemVars, got, late, refused,
                 missed>>

(* Slip: i <= len.                                                          *)
ReadAnswerOneMore ==
  /\ Hit("readWait") /\ Take
  /\ LET t == Head(wire)
     IN /\ available' = IF t.k = "read" THEN t.m ELSE available
        /\ left' = IF t.k \in {"read", "avail"} THEN t.n + 1 ELSE 0
        /\ pc' = CASE t.k = "read"   -> "readBytes"
                   [] t.k = "avail"  -> "readSkip"
                   [] t.k = "notice" -> "readNotice"
                   [] OTHER          -> "test"
        /\ crossed' = (crossed \/ t.k = "notice")
  /\ UNCHANGED <<connected, gotData, rx, ret, cmds, modemVars, got, late, refused,
                 missed>>

(* The answer is "read", the bytes and how many stay behind.  A late answer *)
(* to +CIPRXGET=4 gives its count as the length; for the count of the rest, *)
(* the line up to the next comma is lost.                                   *)
ReadAnswer ==
  /\ Hit("readWait") /\ Take
  /\ LET t == Head(wire)
     IN /\ available' = IF t.k = "read" THEN t.m ELSE available
        /\ left' = IF t.k \in {"read", "avail"} THEN t.n ELSE 0
        /\ pc' = CASE t.k = "read"   -> "readBytes"
                   [] t.k = "avail"  -> "readSkip"
                   [] t.k = "notice" -> "readNotice"
                   [] OTHER          -> "test"
        /\ crossed' = (crossed \/ t.k = "notice")
  /\ UNCHANGED <<connected, gotData, rx, ret, cmds, modemVars, got, late, refused,
                 missed>>

(* Behind a notice taken for the answer the fields are one off: the length  *)
(* is the socket's number, 0, and the count of the rest is the length.      *)
ReadNotice ==
  /\ pc = "readNotice" /\ wire # <<>> /\ Take
  /\ LET t == Head(wire)
     IN /\ available' = CASE t.k \in {"read", "avail"} -> t.n
                          [] t.k = "status"            -> 0
                          [] OTHER                     -> available
        /\ pc' = CASE t.k \in {"read", "avail", "status"} -> "readBytes"
                   [] t.k \in {"notice", "closed"}        -> "readSkip"
                   [] OTHER                               -> pc
  /\ UNCHANGED <<connected, gotData, rx, ret, left, cmds, modemVars, got, histVars>>

ReadSkip ==
  /\ pc = "readSkip" /\ wire # <<>> /\ Take
  /\ IF HasComma(Head(wire)) THEN available' = 0 /\ pc' = "readBytes"
                             ELSE UNCHANGED <<available, pc>>
  /\ UNCHANGED <<connected, gotData, rx, ret, left, cmds, modemVars, got, histVars>>

(* Slip: put does not look for room.                                        *)
ReadByteUnchecked ==
  /\ pc = "readBytes" /\ left > 0 /\ wire # <<>> /\ Take
  /\ left' = left - 1
  /\ rx' = Append(rx, IF Head(wire).k = "byte" THEN Head(wire).n ELSE 0)
  /\ UNCHANGED <<sockVars, pc, ret, cmds, modemVars, got, histVars>>

(* The result of rx.put is not looked at.                                   *)
ReadByte ==
  /\ pc = "readBytes" /\ left > 0 /\ wire # <<>> /\ Take
  /\ left' = left - 1
  /\ LET c == IF Head(wire).k = "byte" THEN Head(wire).n ELSE 0
     IN rx' = IF Len(rx) < Cap THEN Append(rx, c) ELSE rx
  /\ refused' = (refused \/ Len(rx) = Cap)
  /\ UNCHANGED <<sockVars, pc, ret, cmds, modemVars, got, late, crossed,
                 missed>>

(* Slip: one byte too few.                                                  *)
ReadAllOffByOne ==
  /\ pc = "readBytes" /\ left <= 1
  /\ pc' = "readOk" /\ left' = 0
  /\ UNCHANGED <<sockVars, rx, ret, cmds, wire, modemVars, got, histVars>>

ReadAll ==
  /\ pc = "readBytes" /\ left = 0
  /\ pc' = "readOk"
  /\ UNCHANGED <<sockVars, rx, ret, left, cmds, wire, modemVars, got, histVars>>

ReadDone ==
  /\ Hit("readOk") /\ Take
  /\ pc' = "test"
  /\ UNCHANGED <<sockVars, rx, ret, left, cmds, modemVars, got, histVars>>

-----------------------------------------------------------------------------
(* Time-outs of the commands that read.  After one of them the driver goes  *)
(* on as if the answer had been "none"; the answer is still to come.        *)

(* Where each wait goes on.                                                 *)
AfterTimeout ==
  [availWait |-> "status", availOk |-> "drain", statusWait |-> "statusOk",
   statusOk |-> "drain", readWait |-> "test", readSkip |-> "readBytes",
   readOk |-> "test"]

Timeout ==
  /\ pc \in DOMAIN AfterTimeout /\ wire = <<>>
  /\ pc' = IF pc = "availOk" /\ available = 0 THEN "status" ELSE AfterTimeout[pc]
  /\ available' = IF pc \in {"availWait", "readSkip"} THEN 0 ELSE available
  /\ connected' = (connected /\ pc # "statusWait")
  /\ UNCHANGED <<gotData, rx, ret, left, cmds, wire, modemVars, got,
                 crossed, refused, missed>>

(* The modem has answered everything: nothing more would come.              *)
TimeoutFinal == cmds = <<>> /\ Timeout /\ UNCHANGED late

TimeoutLate == cmds # <<>> /\ late < MaxLate /\ Timeout /\ late' = late + 1

-----------------------------------------------------------------------------
Wait == SkipToken \/ DrainCut \/ Maintained \/ TimeoutFinal

Open == \/ Connect \/ Stopped \/ ConnectStart \/ Connected
        \/ Write \/ Send \/ Prompted \/ Accepted

Ask == \/ AvailAnswer \/ AvailSkip \/ AvailDone
       \/ AskStatus \/ StatusAnswer \/ StatusDone

Consume == \/ Available \/ AvailableAtOnce \/ Nothing \/ Read \/ ReadClosed
           \/ Deliver \/ Refill \/ Fetch \/ ReadAnswer \/ ReadNotice \/ ReadSkip
           \/ ReadByte \/ ReadAll \/ ReadDone

Task == Wait \/ Open \/ Ask \/ Consume

Next == Task \/ AvailablePolls \/ Modem \/ Arrive \/ RemoteClose \/ GiveUp \/ TimeoutLate

Spec == Init /\ [][Next]_vars

-----------------------------------------------------------------------------
Pcs == DOMAIN Awaited \union
       {"idle", "write", "send", "app", "gone", "asked", "test", "fetch", "status",
        "availSkip", "readNotice", "readSkip", "readBytes"}
Rets == {"idle", "ssl", "gone", "send", "asked", "test", "fetch"}
Cmds == {"close", "ssl", "start", "send", "data", "avail", "status", "read"}

TypeOK ==
  /\ connected \in BOOLEAN /\ available \in Nat /\ gotData \in BOOLEAN
  /\ rx \in Seq(Nat) /\ Len(rx) <= Cap
  /\ pc \in Pcs /\ ret \in Rets /\ left \in Nat
  /\ cmds \in Seq(Cmds) /\ wire \in Seq(Token)
  /\ open \in BOOLEAN /\ unread \in Seq(1 .. MaxBytes) /\ sent \in 0 .. MaxBytes
  /\ got \in Seq(Nat)
  /\ late \in 0 .. MaxLate
  /\ crossed \in BOOLEAN /\ refused \in BOOLEAN /\ missed \in BOOLEAN

(* Bytes of the server are handed out in the order it sent them and never   *)
(* twice, whatever is lost and however late answers come (read, modemRead). *)
InOrder ==
  \A i, j \in 1 .. Len(got) : i < j /\ got[i] # 0 /\ got[j] # 0 => got[i] < got[j]

(* As long as no answer is late, modemRead takes exactly the bytes of its   *)
(* answer: no text of the modem passes for data, and rx.put, whose result   *)
(* it ignores, never meets a full ring (it asks for rx.free() bytes).       *)
ExactAnswer == late = 0 => ~refused /\ \A i \in 1 .. Len(rx) : rx[i] # 0

(* While no answer is late and none is preceded by a notice, every byte is  *)
(* handed out, in the ring, on the line - where the bytes stand together,   *)
(* behind p other tokens - or in the modem, each once and in order.         *)
NothingLost ==
  (late = 0 /\ ~crossed /\ ret # "gone") =>
    \E p, n \in 0 .. Len(wire) :
      /\ p + n <= Len(wire)
      /\ \A i \in 1 .. Len(wire) : wire[i].k = "byte" <=> i \in p + 1 .. p + n
      /\ got \o rx \o [i \in 1 .. n |-> wire[p + i].n] \o unread = [i \in 1 .. sent |-> i]

(* No answer was late, and not both of these happened: a notice was taken   *)
(* for an answer, which leaves a wrong count in sock_available, and the     *)
(* line that tells of the close was lost.  After both, read() repeats a     *)
(* refused +CIPRXGET=2 for ever: it asks for neither count nor status.      *)
Heard == late = 0 /\ ~(crossed /\ missed)

(* A socket that stays connected is read to its end again and again, even   *)
(* if the modem forgets every notice (available's workaround).              *)
Fetched ==
  <>[](Heard /\ connected) => []<>(unread = <<>> /\ rx = <<>>)

(* No call of the client hangs: streamSkipUntil finds its comma, modemRead  *)
(* its bytes, and read() stops asking a modem that refuses.                 *)
CallsReturn == <>[]Heard => []<>(pc \in {"idle", "app", "gone"})

(* The client finds out that the peer has closed, and for good, also when   *)
(* the line that says so was taken for part of an answer.                   *)
CloseSeen == <>[](Heard /\ ~open) => <>[]~connected
=============================================================================
