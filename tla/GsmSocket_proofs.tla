-------------------------- MODULE GsmSocket_proofs --------------------------
(***************************************************************************)
(* Proofs about GsmSocket, for every size of the ring, any number of bytes  *)
(* and any number of late answers.                                          *)
(***************************************************************************)
EXTENDS GsmSocket, TLAPS

USE CapAssumption, BoundAssumption

LEMMA PlaceSet ==
  /\ Rets \subseteq Pcs
  /\ DOMAIN Awaited \subseteq Pcs
  /\ DOMAIN AfterTimeout \subseteq Pcs
  /\ \A p \in DOMAIN AfterTimeout : AfterTimeout[p] \in Pcs
  /\ {"closing", "ssl", "starting", "prompt", "accept", "availWait", "availOk",
      "statusWait", "statusOk", "readWait", "readOk", "drain"} \subseteq Pcs
  /\ {"idle", "write", "send", "app", "gone", "asked", "test", "fetch", "status",
      "availSkip", "readNotice", "readSkip", "readBytes"} \subseteq Pcs
  BY DEF Pcs, Awaited, AfterTimeout, Rets

(* Every step ends at a place of the driver.                                *)
LEMMA PlaceStep ==
  ASSUME pc \in Pcs, ret \in Rets, [Next]_vars
  PROVE  pc' \in Pcs /\ ret' \in Rets
<1> USE PlaceSet DEF sockVars, taskVars, modemVars, histVars
<1>1. {"idle", "ssl", "gone", "send", "asked", "test", "fetch"} \subseteq Rets
  BY DEF Rets
<1>2. CASE UNCHANGED taskVars
  BY <1>2
<1>3. CASE GiveUp \/ Connect
  BY <1>1, <1>3 DEF GiveUp, Connect, Stop
<1>4. CASE AvailablePolls \/ Available \/ Read \/ Refill \/ Write
  BY <1>1, <1>4 DEF AvailablePolls, Available, Read, Refill, Write, Maintain
<1>5. CASE TimeoutLate \/ TimeoutFinal
  BY <1>5 DEF TimeoutLate, TimeoutFinal, Timeout
<1>6. CASE Maintained \/ Stopped
  BY <1>6 DEF Maintained, Stopped
<1>7. CASE ConnectStart \/ Connected \/ Send \/ Prompted \/ Accepted
  BY <1>7 DEF ConnectStart, Connected, Send, Prompted, Accepted
<1>8. CASE Ask
  BY <1>8 DEF Ask, AvailAnswer, AvailSkip, AvailDone, AskStatus, StatusAnswer, StatusDone
<1>9. CASE AvailableAtOnce \/ Nothing \/ ReadClosed \/ Deliver \/ Fetch
  BY <1>9 DEF AvailableAtOnce, Nothing, ReadClosed, Deliver, Fetch
<1>10. CASE ReadAnswer \/ ReadNotice \/ ReadSkip \/ ReadByte \/ ReadAll \/ ReadDone
  BY <1>10 DEF ReadAnswer, ReadNotice, ReadSkip, ReadByte, ReadAll, ReadDone
<1>11. CASE SkipToken \/ DrainCut \/ Arrive \/ RemoteClose \/ Modem \/ UNCHANGED vars
  BY <1>2, <1>11 DEF SkipToken, DrainCut, Arrive, RemoteClose, Modem, Answer,
     AnswerRead, AnswerClose, AnswerStart, vars
<1>. QED
  BY <1>3, <1>4, <1>5, <1>6, <1>7, <1>8, <1>9, <1>10, <1>11
  DEF Next, Task, Wait, Open, Consume

(* The Boolean variables, apart from the rest.                              *)
Flags == /\ connected \in BOOLEAN /\ gotData \in BOOLEAN /\ open \in BOOLEAN
         /\ crossed \in BOOLEAN /\ refused \in BOOLEAN /\ missed \in BOOLEAN

LEMMA FlagStep == Flags /\ [Next]_vars => Flags'
<1> SUFFICES ASSUME Flags, [Next]_vars PROVE Flags'
  OBVIOUS
<1> USE DEF Flags, sockVars, taskVars, modemVars, histVars
<1>1. CASE Arrive \/ RemoteClose \/ Modem
  BY <1>1 DEF Arrive, RemoteClose, Modem, Answer, AnswerRead, AnswerClose, AnswerStart
<1>2. CASE AvailablePolls \/ Available \/ Read \/ Refill \/ Write
  BY <1>2 DEF AvailablePolls, Available, Read, Refill, Write, Maintain
<1>3. CASE SkipToken \/ DrainCut \/ TimeoutLate \/ TimeoutFinal
  BY <1>3 DEF SkipToken, DrainCut, TimeoutLate, TimeoutFinal, Timeout
<1>4. CASE Connected \/ StatusAnswer \/ ReadAnswer \/ ReadByte
  BY <1>4 DEF Connected, StatusAnswer, ReadAnswer, ReadByte
<1>5. CASE GiveUp \/ Connect \/ Stopped \/ ConnectStart \/ Send \/ Prompted \/ Accepted
  BY <1>5 DEF GiveUp, Connect, Stop, Stopped, ConnectStart, Send, Prompted, Accepted
<1>6. CASE AvailAnswer \/ AvailSkip \/ AvailDone \/ AskStatus \/ StatusDone
  BY <1>6 DEF AvailAnswer, AvailSkip, AvailDone, AskStatus, StatusDone
<1>7. CASE \/ Maintained \/ AvailableAtOnce \/ Nothing \/ ReadClosed \/ Deliver \/ Fetch
           \/ ReadNotice \/ ReadSkip \/ ReadAll \/ ReadDone
  BY <1>7 DEF Maintained, AvailableAtOnce, Nothing, ReadClosed, Deliver, Fetch,
     ReadNotice, ReadSkip, ReadAll, ReadDone
<1>8. CASE UNCHANGED vars
  BY <1>8 DEF vars
<1>. QED
  BY <1>1, <1>2, <1>3, <1>4, <1>5, <1>6, <1>7, <1>8
  DEF Next, Task, Wait, Open, Ask, Consume

(* Taking a token leaves the tokens behind it.                              *)
LEMMA Taken ==
  ASSUME wire \in Seq(Token), wire # <<>>, wire' = Tail(wire)
  PROVE  /\ wire' \in Seq(Token) /\ Head(wire) \in Token /\ Head(wire) = wire[1]
         /\ Len(wire') = Len(wire) - 1 /\ Len(wire) >= 1
         /\ \A i \in 1 .. Len(wire') : wire'[i] = wire[i + 1]
  OBVIOUS

LEMMA Appended ==
  ASSUME NEW S, NEW s \in Seq(S), NEW e \in S
  PROVE  /\ Append(s, e) \in Seq(S) /\ Len(Append(s, e)) = Len(s) + 1
         /\ Append(s, e)[Len(s) + 1] = e
         /\ \A i \in 1 .. Len(s) : Append(s, e)[i] = s[i]
  OBVIOUS

LEMMA TokenFields ==
  /\ \A k \in Kinds : Text(k) \in Token /\ Text(k).k = k
  /\ \A k \in Kinds, n, m \in Nat :
       T(k, n, m) \in Token /\ T(k, n, m).k = k /\ T(k, n, m).n = n /\ T(k, n, m).m = m
  /\ \A t \in Token : t.k \in Kinds /\ t.n \in Nat /\ t.m \in Nat
  BY DEF Text, T, Token

(* The kinds and commands, without their sets.                              *)
LEMMA Names ==
  /\ {"notice", "closed", "ok", "error", "closeOk", "opened", "openFailed",
      "prompt", "accept", "avail", "status", "read", "byte"} \subseteq Kinds
  /\ {"close", "ssl", "start", "send", "data", "avail", "status", "read"} \subseteq Cmds
  BY DEF Kinds, Cmds

(* The answer to a read, in its parts.                                      *)
LEMMA ReadReply ==
  ASSUME TypeOK, AnswerRead
  PROVE  \E n \in 0 .. Cap :
           /\ n <= Len(unread) /\ (n < Cap => n = Len(unread))
           /\ wire' \in Seq(Token) /\ Len(wire') = Len(wire) + n + 2
           /\ \A i \in 1 .. Len(wire) : wire'[i] = wire[i]
           /\ wire'[Len(wire) + 1] = T("read", n, Len(unread) - n)
           /\ \A i \in 1 .. n : wire'[Len(wire) + 1 + i] = T("byte", unread[i], 0)
           /\ wire'[Len(wire) + n + 2] = Text("ok")
           /\ unread' \in Seq(1 .. MaxBytes) /\ Len(unread') = Len(unread) - n
           /\ \A i \in 1 .. Len(unread') : unread'[i] = unread[n + i]
<1> DEFINE n == IF Len(unread) < Cap THEN Len(unread) ELSE Cap
           h == <<T("read", n, Len(unread) - n)>>
           b == [i \in 1 .. n |-> T("byte", unread[i], 0)]
           e == <<Text("ok")>>
<1>1. n \in 0 .. Cap /\ n <= Len(unread) /\ (n < Cap => n = Len(unread))
  BY DEF TypeOK
<1>2. wire' = wire \o h \o b \o e /\ unread' = SubSeq(unread, n + 1, Len(unread))
  BY DEF AnswerRead
<1> HIDE DEF n
<1>3. h \in Seq(Token) /\ Len(h) = 1 /\ h[1] = T("read", n, Len(unread) - n)
  <2>1. n \in Nat /\ Len(unread) - n \in Nat
    BY <1>1 DEF TypeOK
  <2>2. T("read", n, Len(unread) - n) \in Token
    BY <2>1, Names, TokenFields
  <2>. QED BY <2>2
<1>4. b \in Seq(Token) /\ Len(b) = n /\ \A i \in 1 .. n : b[i] = T("byte", unread[i], 0)
  <2>1. \A i \in 1 .. n : T("byte", unread[i], 0) \in Token
    <3>1. \A i \in 1 .. n : unread[i] \in Nat
      BY <1>1 DEF TypeOK
    <3>. QED BY <3>1, Names, TokenFields
  <2>2. b \in [1 .. n -> Token]
    BY <2>1
  <2>3. n \in Nat
    BY <1>1
  <2>. QED BY <2>2, <2>3
<1>5. e \in Seq(Token) /\ Len(e) = 1 /\ e[1] = Text("ok")
  BY Names, TokenFields
<1>6. wire \in Seq(Token) /\ n \in Nat
  BY <1>1 DEF TypeOK
<1> HIDE DEF h, b, e
<1>9. h \in Seq(Token) /\ b \in Seq(Token) /\ e \in Seq(Token) /\ wire \in Seq(Token)
  BY <1>3, <1>4, <1>5, <1>6
<1>7. /\ wire' \in Seq(Token) /\ Len(wire') = Len(wire) + n + 2
      /\ \A i \in 1 .. Len(wire) : wire'[i] = wire[i]
      /\ wire'[Len(wire) + 1] = h[1]
      /\ \A i \in 1 .. n : wire'[Len(wire) + 1 + i] = b[i]
      /\ wire'[Len(wire) + n + 2] = e[1]
  <2> DEFINE wh == wire \o h
             whb == wh \o b
  <2>1. /\ wh \in Seq(Token) /\ Len(wh) = Len(wire) + Len(h)
        /\ \A i \in 1 .. Len(wire) : wh[i] = wire[i]
        /\ \A i \in 1 .. Len(h) : wh[Len(wire) + i] = h[i]
    <3>1. wh \in Seq(Token)
      BY <1>9
    <3>2. Len(wh) = Len(wire) + Len(h)
      BY <1>9
    <3>3. \A i \in 1 .. Len(wire) : wh[i] = wire[i]
      BY <1>9
    <3>4. \A i \in 1 .. Len(h) : wh[Len(wire) + i] = h[i]
      BY <1>9
    <3>. QED BY <3>1, <3>2, <3>3, <3>4
  <2> HIDE DEF wh
  <2>13. wh \in Seq(Token)
    BY <2>1
  <2>2. /\ whb \in Seq(Token) /\ Len(whb) = Len(wh) + Len(b)
        /\ \A i \in 1 .. Len(wh) : whb[i] = wh[i]
        /\ \A i \in 1 .. Len(b) : whb[Len(wh) + i] = b[i]
    <3>1. whb \in Seq(Token)
      BY <1>9, <2>13
    <3>2. Len(whb) = Len(wh) + Len(b)
      BY <1>9, <2>13
    <3>3. \A i \in 1 .. Len(wh) : whb[i] = wh[i]
      BY <1>9, <2>13
    <3>4. \A i \in 1 .. Len(b) : whb[Len(wh) + i] = b[i]
      BY <1>9, <2>13
    <3>. QED BY <3>1, <3>2, <3>3, <3>4
  <2>3. wire' = whb \o e
    BY <1>2 DEF wh
  <2> HIDE DEF whb
  <2>14. whb \in Seq(Token)
    BY <2>2
  <2>4. /\ wire' \in Seq(Token) /\ Len(wire') = Len(whb) + Len(e)
        /\ \A i \in 1 .. Len(whb) : wire'[i] = whb[i]
        /\ \A i \in 1 .. Len(e) : wire'[Len(whb) + i] = e[i]
    <3>1. wire' \in Seq(Token)
      BY <1>9, <2>14, <2>3
    <3>2. Len(wire') = Len(whb) + Len(e)
      BY <1>9, <2>14, <2>3
    <3>3. \A i \in 1 .. Len(whb) : wire'[i] = whb[i]
      BY <1>9, <2>14, <2>3
    <3>4. \A i \in 1 .. Len(e) : wire'[Len(whb) + i] = e[i]
      BY <1>9, <2>14, <2>3
    <3>. QED BY <3>1, <3>2, <3>3, <3>4
  <2>5. Len(wire) \in Nat
    BY <1>6
  <2>6. Len(h) = 1 /\ Len(b) = n /\ Len(e) = 1 /\ n \in Nat
    BY <1>3, <1>4, <1>5, <1>6
  <2>7. Len(wh) = Len(wire) + 1 /\ Len(whb) = Len(wire) + 1 + n
    BY <2>1, <2>2, <2>5, <2>6
  <2>8. Len(wire') = Len(wire) + n + 2
    BY <2>4, <2>5, <2>6, <2>7
  <2>9. \A i \in 1 .. Len(wire) : wire'[i] = wire[i]
    BY <2>1, <2>2, <2>4, <2>5, <2>6, <2>7
  <2>10. wire'[Len(wire) + 1] = h[1]
    BY <2>1, <2>2, <2>4, <2>5, <2>6, <2>7
  <2>11. \A i \in 1 .. n : wire'[Len(wire) + 1 + i] = b[i]
    BY <2>2, <2>4, <2>5, <2>6, <2>7
  <2>12. wire'[Len(wire) + n + 2] = e[1]
    <3>1. wire'[Len(whb) + 1] = e[1]
      BY <2>4, <2>6
    <3>2. Len(whb) + 1 = Len(wire) + n + 2
      BY <2>5, <2>6, <2>7
    <3>. QED BY <3>1, <3>2
  <2>. QED BY <2>4, <2>8, <2>9, <2>10, <2>11, <2>12
<1>8. /\ unread' \in Seq(1 .. MaxBytes) /\ Len(unread') = Len(unread) - n
      /\ \A i \in 1 .. Len(unread') : unread'[i] = unread[n + i]
  <2>1. unread \in Seq(1 .. MaxBytes) /\ n \in Nat /\ n <= Len(unread)
    BY <1>1, <1>6 DEF TypeOK
  <2>2. unread' = SubSeq(unread, n + 1, Len(unread))
    BY <1>2
  <2>3. unread' \in Seq(1 .. MaxBytes)
    BY <2>1, <2>2
  <2>4. Len(unread') = Len(unread) - n
    BY <2>1, <2>2
  <2>5. \A i \in 1 .. Len(unread') : unread'[i] = unread[n + i]
    BY <2>1, <2>2, <2>4
  <2>. QED BY <2>3, <2>4, <2>5
<1>. QED BY <1>1, <1>3, <1>4, <1>5, <1>7, <1>8

(* What a step does to the line.  Only the answer to a read brings bytes,   *)
(* or a token that announces them.                                          *)
Texts == {t \in Token : t.k \notin {"byte", "read"}}
LineShape ==
  /\ \/ UNCHANGED wire
     \/ wire # <<>> /\ wire' = Tail(wire)
     \/ \E t \in Texts : wire' = Append(wire, t)
     \/ \E t, u \in Texts : wire' = Append(Append(wire, t), u)
     \/ AnswerRead
  /\ \/ UNCHANGED cmds
     \/ cmds # <<>> /\ cmds' = Tail(cmds)
     \/ \E c \in Cmds : cmds' = Append(cmds, c)

LEMMA LineShapes == TypeOK /\ [Next]_vars => LineShape
<1> SUFFICES ASSUME TypeOK, [Next]_vars PROVE LineShape
  OBVIOUS
<1>0. \A k \in Kinds \ {"byte", "read"} : Text(k) \in Texts /\ \A n, m \in Nat : T(k, n, m) \in Texts
  BY TokenFields DEF Texts
<1> USE Names DEF LineShape, sockVars, taskVars, modemVars, histVars, Take, Command, Hit
<1>1. CASE Answer
  <2>1. \A k \in {"ok", "error", "prompt", "accept"} : Text(k) \in Texts
    BY <1>0
  <2>2. Len(unread) \in Nat /\ (IF open THEN 1 ELSE 0) \in Nat
    BY DEF TypeOK
  <2>3. T("avail", Len(unread), 0) \in Texts /\ T("status", IF open THEN 1 ELSE 0, 0) \in Texts
    BY <2>2, <1>0
  <2>. QED BY <1>1, <2>1, <2>3 DEF Answer, Says, SaysOk
<1>2. CASE AnswerRead
  BY <1>2 DEF AnswerRead
<1>3. CASE AnswerClose
  BY <1>3, <1>0 DEF AnswerClose, Says
<1>4. CASE AnswerStart
  <2>1. Text("ok") \in Texts /\ Text(IF open' THEN "opened" ELSE "openFailed") \in Texts
    BY <1>0
  <2>. QED BY <1>4, <2>1 DEF AnswerStart
<1>5. CASE Arrive \/ RemoteClose
  BY <1>5, <1>0 DEF Arrive, RemoteClose, Says
<1>6. CASE GiveUp \/ Connect \/ Send \/ AskStatus \/ Fetch
  BY <1>6 DEF GiveUp, Connect, Stop, Send, AskStatus, Fetch
<1>7. CASE AvailablePolls \/ Available \/ Read \/ Refill \/ Write
  BY <1>7 DEF AvailablePolls, Available, Read, Refill, Write, Maintain
<1>8. CASE SkipToken \/ DrainCut \/ Stopped \/ ConnectStart \/ Connected \/ Prompted \/ Accepted
  BY <1>8 DEF SkipToken, DrainCut, Stopped, ConnectStart, Connected, Prompted, Accepted
<1>9. CASE AvailAnswer \/ AvailSkip \/ AvailDone \/ StatusAnswer \/ StatusDone
  BY <1>9 DEF AvailAnswer, AvailSkip, AvailDone, StatusAnswer, StatusDone
<1>10. CASE ReadAnswer \/ ReadNotice \/ ReadSkip \/ ReadByte \/ ReadDone
  BY <1>10 DEF ReadAnswer, ReadNotice, ReadSkip, ReadByte, ReadDone
<1>11. CASE \/ Maintained \/ AvailableAtOnce \/ Nothing \/ ReadClosed \/ Deliver \/ ReadAll
           \/ TimeoutLate \/ TimeoutFinal \/ UNCHANGED vars
  BY <1>11 DEF Maintained, AvailableAtOnce, Nothing, ReadClosed, Deliver, ReadAll,
     TimeoutLate, TimeoutFinal, Timeout, vars
<1>. QED
  BY <1>1, <1>2, <1>3, <1>4, <1>5, <1>6, <1>7, <1>8, <1>9, <1>10, <1>11
  DEF Next, Task, Wait, Open, Ask, Consume, Modem

LEMMA LineType == TypeOK /\ LineShape => wire' \in Seq(Token) /\ cmds' \in Seq(Cmds)
<1> SUFFICES ASSUME TypeOK, LineShape PROVE wire' \in Seq(Token) /\ cmds' \in Seq(Cmds)
  OBVIOUS
<1>1. wire \in Seq(Token) /\ cmds \in Seq(Cmds)
  BY DEF TypeOK
<1>2. cmds' \in Seq(Cmds)
  BY <1>1 DEF LineShape
<1>3. CASE AnswerRead
  BY <1>2, <1>3, ReadReply
<1>4. CASE ~AnswerRead
  <2>1. \A t \in Token : Append(wire, t) \in Seq(Token)
    BY <1>1, Appended
  <2>2. \A t, u \in Token : Append(Append(wire, t), u) \in Seq(Token)
    BY <2>1, Appended
  <2>3. wire # <<>> => Tail(wire) \in Seq(Token)
    BY <1>1
  <2>4. Texts \subseteq Token
    BY DEF Texts
  <2>. QED BY <1>1, <1>2, <1>4, <2>1, <2>2, <2>3, <2>4 DEF LineShape
<1>. QED BY <1>3, <1>4

(* What a step does to the bytes.                                           *)
Lossy == /\ UNCHANGED <<got, sent>>
         /\ UNCHANGED rx \/ (Stopped /\ rx' = <<>>)
         /\ UNCHANGED unread \/ (AnswerClose /\ unread' = <<>>)
DataShape == Lossy \/ Arrive \/ AnswerRead \/ ReadByte \/ Deliver

LEMMA DataShapes == [Next]_vars => DataShape
<1> SUFFICES ASSUME [Next]_vars PROVE DataShape
  OBVIOUS
<1> USE DEF DataShape, Lossy, sockVars, taskVars, modemVars, histVars
<1>1. CASE Answer \/ AnswerClose \/ AnswerStart \/ RemoteClose
  BY <1>1 DEF Answer, AnswerClose, AnswerStart, RemoteClose
<1>2. CASE GiveUp \/ Connect \/ Send \/ AskStatus \/ Fetch
  BY <1>2 DEF GiveUp, Connect, Stop, Send, AskStatus, Fetch
<1>3. CASE AvailablePolls \/ Available \/ Read \/ Refill \/ Write
  BY <1>3 DEF AvailablePolls, Available, Read, Refill, Write, Maintain
<1>4. CASE SkipToken \/ DrainCut \/ Stopped \/ ConnectStart \/ Connected \/ Prompted \/ Accepted
  BY <1>4 DEF SkipToken, DrainCut, Stopped, ConnectStart, Connected, Prompted, Accepted
<1>5. CASE AvailAnswer \/ AvailSkip \/ AvailDone \/ StatusAnswer \/ StatusDone
  BY <1>5 DEF AvailAnswer, AvailSkip, AvailDone, StatusAnswer, StatusDone
<1>6. CASE ReadAnswer \/ ReadNotice \/ ReadSkip \/ ReadDone
  BY <1>6 DEF ReadAnswer, ReadNotice, ReadSkip, ReadDone
<1>7. CASE \/ Maintained \/ AvailableAtOnce \/ Nothing \/ ReadClosed \/ ReadAll
           \/ TimeoutLate \/ TimeoutFinal \/ UNCHANGED vars
  BY <1>7 DEF Maintained, AvailableAtOnce, Nothing, ReadClosed, ReadAll,
     TimeoutLate, TimeoutFinal, Timeout, vars
<1>. QED
  BY <1>1, <1>2, <1>3, <1>4, <1>5, <1>6, <1>7
  DEF Next, Task, Wait, Open, Ask, Consume, Modem

(* The byte modemRead takes off the line.                                   *)
Byte == IF Head(wire).k = "byte" THEN Head(wire).n ELSE 0

LEMMA ByteTaken ==
  ASSUME TypeOK, ReadByte
  PROVE  /\ wire # <<>> /\ wire' = Tail(wire) /\ Byte \in Nat
         /\ (rx' = Append(rx, Byte) /\ Len(rx) < Cap) \/ rx' = rx
         /\ UNCHANGED <<got, unread, sent>>
<1>1. Head(wire) \in Token
  BY DEF ReadByte, TypeOK
<1>. QED BY <1>1, TokenFields DEF ReadByte, Take, Byte, modemVars

LEMMA DataType ==
  ASSUME TypeOK, DataShape
  PROVE  /\ rx' \in Seq(Nat) /\ Len(rx') <= Cap /\ got' \in Seq(Nat)
         /\ unread' \in Seq(1 .. MaxBytes) /\ sent' \in 0 .. MaxBytes
<1>1. rx \in Seq(Nat) /\ got \in Seq(Nat) /\ unread \in Seq(1 .. MaxBytes)
  BY DEF TypeOK
<1>2. Len(rx) <= Cap /\ sent \in 0 .. MaxBytes
  BY DEF TypeOK
<1>3. CASE Lossy
  <2>1. <<>> \in Seq(Nat) /\ <<>> \in Seq(1 .. MaxBytes) /\ Len(<<>>) = 0
    OBVIOUS
  <2>2. rx' \in Seq(Nat) /\ Len(rx') <= Cap
    <3>1. CASE rx' = rx
      BY <1>1, <1>2, <3>1
    <3>2. CASE rx' = <<>>
      BY <2>1, <3>2
    <3>. QED BY <1>3, <3>1, <3>2 DEF Lossy
  <2>3. unread' \in Seq(1 .. MaxBytes)
    BY <1>1, <1>3, <2>1 DEF Lossy
  <2>. QED BY <1>1, <1>2, <1>3, <2>2, <2>3 DEF Lossy
<1>4. CASE Arrive
  <2>1. sent + 1 \in 1 .. MaxBytes /\ UNCHANGED <<rx, got>>
    BY <1>2, <1>4 DEF Arrive
  <2>2. unread' = Append(unread, sent + 1) /\ sent' = sent + 1
    BY <1>4 DEF Arrive
  <2>3. unread' \in Seq(1 .. MaxBytes)
    BY <1>1, <2>1, <2>2
  <2>. QED BY <1>1, <1>2, <2>1, <2>2, <2>3
<1>5. CASE AnswerRead
  BY <1>1, <1>2, <1>5, ReadReply DEF AnswerRead
<1>6. CASE ReadByte
  <2>1. rx' \in Seq(Nat)
    <3>1. Append(rx, Byte) \in Seq(Nat)
      BY <1>1, <1>6, ByteTaken
    <3>. QED BY <1>1, <1>6, <3>1, ByteTaken
  <2>2. Len(rx') <= Cap
    BY <1>1, <1>2, <1>6, ByteTaken
  <2>. QED BY <1>1, <1>2, <1>6, <2>1, <2>2, ByteTaken
<1>7. CASE Deliver
  <2>1. rx # <<>> /\ got' = Append(got, Head(rx)) /\ rx' = Tail(rx)
        /\ UNCHANGED <<unread, sent>>
    BY <1>7 DEF Deliver, modemVars
  <2>2. rx' \in Seq(Nat) /\ Head(rx) \in Nat
    BY <1>1, <2>1
  <2>3. got' \in Seq(Nat)
    BY <1>1, <2>1, <2>2
  <2>4. Len(rx') <= Cap
    BY <1>1, <1>2, <2>1
  <2>. QED BY <1>1, <1>2, <2>1, <2>2, <2>3, <2>4
<1>. QED BY <1>3, <1>4, <1>5, <1>6, <1>7 DEF DataShape

(* The counts read from the answers, and the late ones.                     *)
LEMMA CountStep ==
  TypeOK /\ [Next]_vars => available' \in Nat /\ left' \in Nat /\ late' \in 0 .. MaxLate
<1> SUFFICES ASSUME TypeOK, [Next]_vars
             PROVE  available' \in Nat /\ left' \in Nat /\ late' \in 0 .. MaxLate
  OBVIOUS
<1>1. available \in Nat /\ left \in Nat /\ late \in 0 .. MaxLate
  BY DEF TypeOK
<1>2. wire # <<>> => Head(wire).n \in Nat /\ Head(wire).m \in Nat
  <2>1. wire # <<>> => Head(wire) \in Token
    BY DEF TypeOK
  <2>. QED BY <2>1, TokenFields
<1> USE <1>1 DEF sockVars, taskVars, histVars
<1>3. CASE Arrive \/ RemoteClose \/ Modem
  BY <1>3 DEF Arrive, RemoteClose, Modem, Answer, AnswerRead, AnswerClose, AnswerStart
<1>4. CASE AvailablePolls \/ Available \/ Read \/ Refill \/ Write
  BY <1>4 DEF AvailablePolls, Available, Read, Refill, Write, Maintain
<1>5. CASE SkipToken \/ DrainCut \/ TimeoutLate \/ TimeoutFinal
  BY <1>5 DEF SkipToken, DrainCut, TimeoutLate, TimeoutFinal, Timeout
<1>6. CASE GiveUp \/ Connect \/ Stopped \/ ConnectStart \/ Connected \/ Send \/ Prompted \/ Accepted
  BY <1>6 DEF GiveUp, Connect, Stop, Stopped, ConnectStart, Connected, Send, Prompted, Accepted
<1>7. CASE AvailAnswer \/ AvailSkip \/ AvailDone \/ AskStatus \/ StatusAnswer \/ StatusDone
  BY <1>2, <1>7 DEF AvailAnswer, AvailSkip, AvailDone, AskStatus, StatusAnswer, StatusDone, Hit
<1>8. CASE ReadAnswer
  BY <1>2, <1>8 DEF ReadAnswer, Hit
<1>9. CASE ReadNotice \/ ReadSkip
  BY <1>2, <1>9 DEF ReadNotice, ReadSkip
<1>10. CASE ReadByte \/ ReadAll \/ ReadDone \/ Deliver \/ Fetch
  BY <1>10 DEF ReadByte, ReadAll, ReadDone, Deliver, Fetch
<1>11. CASE Maintained \/ AvailableAtOnce \/ Nothing \/ ReadClosed \/ UNCHANGED vars
  BY <1>11 DEF Maintained, AvailableAtOnce, Nothing, ReadClosed, vars
<1>. QED
  BY <1>3, <1>4, <1>5, <1>6, <1>7, <1>8, <1>9, <1>10, <1>11
  DEF Next, Task, Wait, Open, Ask, Consume

LEMMA TypeStep == TypeOK /\ [Next]_vars => TypeOK'
<1> SUFFICES ASSUME TypeOK, [Next]_vars PROVE TypeOK'
  OBVIOUS
<1>1. pc' \in Pcs /\ ret' \in Rets
  BY PlaceStep DEF TypeOK
<1>2. Flags'
  BY FlagStep DEF Flags, TypeOK
<1>. QED
  BY <1>1, <1>2, LineShapes, LineType, DataShapes, DataType, CountStep DEF TypeOK, Flags

(* Types, for every size of the ring.                                       *)
THEOREM TypeCorrect == Spec => []TypeOK
<1>1. Init => TypeOK
  <2> SUFFICES ASSUME Init PROVE TypeOK
    OBVIOUS
  <2>1. pc \in Pcs /\ ret \in Rets
    BY PlaceSet DEF Init, Rets
  <2>2. /\ rx \in Seq(Nat) /\ got \in Seq(Nat) /\ cmds \in Seq(Cmds)
        /\ wire \in Seq(Token) /\ unread \in Seq(1 .. MaxBytes)
    BY DEF Init
  <2>3. Len(rx) <= Cap /\ late \in 0 .. MaxLate /\ sent \in 0 .. MaxBytes
    BY DEF Init
  <2>. QED BY <2>1, <2>2, <2>3 DEF Init, TypeOK
<1>. QED BY <1>1, TypeStep, PTL DEF Spec

-----------------------------------------------------------------------------
(* The order of the bytes: what read() has returned comes before what is in *)
(* the ring, that before what is on the line, that before what the modem    *)
(* holds, and each of the four is in order.  Number 0 is text.              *)
Items(s) == {s[i] : i \in 1 .. Len(s)} \ {0}
Bytes(w) == {w[i].n : i \in {j \in 1 .. Len(w) : w[j].k = "byte"}} \ {0}
Before(A, B) == \A a \in A, b \in B : a < b
Up(s) == \A i, j \in 1 .. Len(s) : i < j /\ s[i] # 0 /\ s[j] # 0 => s[i] < s[j]
UpLine == \A i, j \in 1 .. Len(wire) :
            /\ i < j /\ wire[i].k = "byte" /\ wire[j].k = "byte"
            /\ wire[i].n # 0 /\ wire[j].n # 0
            => wire[i].n < wire[j].n

Each == Up(got) /\ Up(rx) /\ UpLine /\ Up(unread)
Across ==
  /\ Before(Items(got), Items(rx)) /\ Before(Items(got), Bytes(wire))
  /\ Before(Items(got), Items(unread))
  /\ Before(Items(rx), Bytes(wire)) /\ Before(Items(rx), Items(unread))
  /\ Before(Bytes(wire), Items(unread))
  /\ \A a \in Items(got) \union Items(rx) \union Bytes(wire) \union Items(unread) : a <= sent

Order == Each /\ Across

(* Sequences that lose their head or grow at their end.                     *)
LEMMA ItemsTail ==
  ASSUME NEW s \in Seq(Nat), s # <<>>
  PROVE  /\ Items(Tail(s)) \subseteq Items(s)
         /\ Head(s) # 0 => Head(s) \in Items(s)
         /\ Up(s) => Up(Tail(s))
         /\ Up(s) /\ Head(s) # 0 => \A a \in Items(Tail(s)) : Head(s) < a
<1>1. /\ Tail(s) \in Seq(Nat) /\ Len(Tail(s)) = Len(s) - 1 /\ Head(s) = s[1]
      /\ Len(s) \in Nat /\ Len(s) >= 1
  OBVIOUS
<1>2. \A i \in 1 .. Len(s) - 1 : Tail(s)[i] = s[i + 1] /\ i + 1 \in 1 .. Len(s)
  OBVIOUS
<1>3. Items(Tail(s)) \subseteq Items(s)
  <2> SUFFICES ASSUME NEW j \in 1 .. Len(s) - 1 PROVE Tail(s)[j] \in {s[m] : m \in 1 .. Len(s)}
    BY <1>1 DEF Items
  <2>. QED BY <1>2
<1>4. Head(s) # 0 => Head(s) \in Items(s)
  BY <1>1 DEF Items
<1>5. Up(s) => Up(Tail(s))
  BY <1>1, <1>2 DEF Up
<1>6. ASSUME Up(s), Head(s) # 0, NEW a \in Items(Tail(s)) PROVE Head(s) < a
  <2>1. PICK j \in 1 .. Len(s) - 1 : a = Tail(s)[j] /\ a # 0
    BY <1>1 DEF Items
  <2>2. a = s[j + 1] /\ j + 1 \in 1 .. Len(s) /\ 1 < j + 1 /\ 1 \in 1 .. Len(s)
    BY <1>1, <1>2, <2>1
  <2>. QED BY <1>1, <1>6, <2>1, <2>2 DEF Up
<1>. QED BY <1>3, <1>4, <1>5, <1>6

LEMMA ItemsAppend ==
  ASSUME NEW s \in Seq(Nat), NEW e \in Nat
  PROVE  /\ Items(Append(s, e)) \subseteq Items(s) \union ({e} \ {0})
         /\ Up(s) /\ (e # 0 => \A a \in Items(s) : a < e) => Up(Append(s, e))
<1>1. Append(s, e) \in Seq(Nat) /\ Len(Append(s, e)) = Len(s) + 1 /\ Len(s) \in Nat
  OBVIOUS
<1>2. Append(s, e)[Len(s) + 1] = e
  OBVIOUS
<1>3. \A i \in 1 .. Len(s) : Append(s, e)[i] = s[i]
  OBVIOUS
<1>. QED BY <1>1, <1>2, <1>3 DEF Items, Up

LEMMA BytesTail ==
  ASSUME wire \in Seq(Token), wire # <<>>, wire' = Tail(wire)
  PROVE  /\ Bytes(wire') \subseteq Bytes(wire)
         /\ UpLine => UpLine'
         /\ Head(wire).k = "byte" /\ Head(wire).n # 0 =>
              /\ Head(wire).n \in Bytes(wire)
              /\ UpLine => \A b \in Bytes(wire') : Head(wire).n < b
<1>1. /\ Len(wire') = Len(wire) - 1 /\ Head(wire) = wire[1]
      /\ Len(wire) \in Nat /\ Len(wire) >= 1
  OBVIOUS
<1>2. \A i \in 1 .. Len(wire) - 1 : wire'[i] = wire[i + 1] /\ i + 1 \in 1 .. Len(wire)
  OBVIOUS
<1>. QED BY <1>1, <1>2 DEF Bytes, UpLine

LEMMA BytesAppend ==
  ASSUME NEW w \in Seq(Token), NEW t \in Token, t.k # "byte"
  PROVE  /\ Bytes(Append(w, t)) = Bytes(w)
         /\ Len(Append(w, t)) = Len(w) + 1
         /\ \A i \in 1 .. Len(w) : Append(w, t)[i] = w[i]
         /\ Append(w, t)[Len(w) + 1] = t
<1>1. Append(w, t) \in Seq(Token) /\ Len(Append(w, t)) = Len(w) + 1 /\ Len(w) \in Nat
  OBVIOUS
<1>2. Append(w, t)[Len(w) + 1] = t
  OBVIOUS
<1>3. \A i \in 1 .. Len(w) : Append(w, t)[i] = w[i]
  OBVIOUS
<1>. QED BY <1>1, <1>2, <1>3 DEF Bytes

(* What a step other than AnswerRead leaves of the bytes on the line.       *)
LEMMA LineBytes ==
  ASSUME TypeOK, LineShape, ~AnswerRead
  PROVE  Bytes(wire') \subseteq Bytes(wire) /\ (UpLine => UpLine')
<1>1. wire \in Seq(Token)
  BY DEF TypeOK
<1>2. CASE UNCHANGED wire
  BY <1>2 DEF Bytes, UpLine
<1>3. CASE wire # <<>> /\ wire' = Tail(wire)
  BY <1>1, <1>3, BytesTail
<1>4. ASSUME NEW t \in Texts, NEW w \in Seq(Token)
      PROVE  /\ Append(w, t) \in Seq(Token) /\ Bytes(Append(w, t)) = Bytes(w)
             /\ Len(Append(w, t)) = Len(w) + 1
             /\ \A i \in 1 .. Len(w) : Append(w, t)[i] = w[i]
             /\ Append(w, t)[Len(w) + 1].k # "byte"
  <2>1. t \in Token /\ t.k # "byte"
    BY DEF Texts
  <2>2. Append(w, t) \in Seq(Token)
    BY <2>1
  <2>. QED BY <2>1, <2>2, BytesAppend
<1>5. CASE \E t \in Texts : wire' = Append(wire, t)
  <2>1. PICK t \in Texts : wire' = Append(wire, t)
    BY <1>5
  <2>2. /\ Len(wire') = Len(wire) + 1 /\ Bytes(wire') = Bytes(wire)
        /\ \A i \in 1 .. Len(wire) : wire'[i] = wire[i]
        /\ wire'[Len(wire) + 1].k # "byte" /\ Len(wire) \in Nat
    BY <1>1, <1>4, <2>1
  <2>. QED BY <2>2 DEF UpLine
<1>6. CASE \E t, u \in Texts : wire' = Append(Append(wire, t), u)
  <2>1. PICK t \in Texts, u \in Texts : wire' = Append(Append(wire, t), u)
    BY <1>6
  <2> DEFINE v == Append(wire, t)
  <2>2. /\ v \in Seq(Token) /\ Len(v) = Len(wire) + 1 /\ Bytes(v) = Bytes(wire)
        /\ \A i \in 1 .. Len(wire) : v[i] = wire[i]
        /\ v[Len(wire) + 1].k # "byte" /\ Len(wire) \in Nat
    BY <1>1, <1>4, <2>1
  <2>3. wire' = Append(v, u)
    BY <2>1
  <2> HIDE DEF v
  <2>4. /\ Len(wire') = Len(v) + 1 /\ Bytes(wire') = Bytes(v)
        /\ \A i \in 1 .. Len(v) : wire'[i] = v[i]
        /\ wire'[Len(v) + 1].k # "byte"
    BY <1>4, <2>2, <2>3
  <2>. QED BY <2>2, <2>4 DEF UpLine
<1>. QED BY <1>2, <1>3, <1>5, <1>6 DEF LineShape

(* The answer to a read moves the oldest bytes of the modem to the line.    *)
LEMMA ReadBytesMoved ==
  ASSUME TypeOK, AnswerRead, Order
  PROVE  /\ Bytes(wire') \subseteq Bytes(wire) \union Items(unread)
         /\ Items(unread') \subseteq Items(unread)
         /\ Before(Bytes(wire'), Items(unread'))
         /\ UpLine' /\ Up(unread')
<1>1. PICK n \in 0 .. Cap :
        /\ n <= Len(unread)
        /\ wire' \in Seq(Token) /\ Len(wire') = Len(wire) + n + 2
        /\ \A i \in 1 .. Len(wire) : wire'[i] = wire[i]
        /\ wire'[Len(wire) + 1] = T("read", n, Len(unread) - n)
        /\ \A i \in 1 .. n : wire'[Len(wire) + 1 + i] = T("byte", unread[i], 0)
        /\ wire'[Len(wire) + n + 2] = Text("ok")
        /\ unread' \in Seq(1 .. MaxBytes) /\ Len(unread') = Len(unread) - n
        /\ \A i \in 1 .. Len(unread') : unread'[i] = unread[n + i]
  BY ReadReply
<1>2. /\ Len(wire) \in Nat /\ Len(unread) \in Nat /\ n \in Nat
      /\ \A i \in 1 .. Len(unread) : unread[i] \in Nat
  BY DEF TypeOK
<1>3. \A i \in 1 .. Len(wire') :
        \/ i <= Len(wire) /\ wire'[i] = wire[i]
        \/ i > Len(wire) /\ wire'[i].k # "byte"
        \/ /\ i - Len(wire) - 1 \in 1 .. n
           /\ wire'[i].k = "byte" /\ wire'[i].n = unread[i - Len(wire) - 1]
  <2> TAKE i \in 1 .. Len(wire')
  <2>1. CASE i <= Len(wire)
    <3>1. i \in 1 .. Len(wire)
      BY <1>2, <2>1
    <3>2. wire'[i] = wire[i]
      BY <1>1, <3>1
    <3>. QED BY <2>1, <3>2
  <2>2. CASE i = Len(wire) + 1 \/ i = Len(wire) + n + 2
    BY <1>1, <1>2, <2>2 DEF T, Text
  <2>3. CASE i > Len(wire) + 1 /\ i < Len(wire) + n + 2
    <3>1. i - Len(wire) - 1 \in 1 .. n /\ i = Len(wire) + 1 + (i - Len(wire) - 1)
      BY <1>2, <2>3
    <3>2. wire'[i] = T("byte", unread[i - Len(wire) - 1], 0)
      BY <1>1, <3>1
    <3>. QED BY <3>1, <3>2 DEF T
  <2>4. i <= Len(wire) \/ i = Len(wire) + 1 \/ i = Len(wire) + n + 2
        \/ (i > Len(wire) + 1 /\ i < Len(wire) + n + 2)
    <3>1. Len(wire') = Len(wire) + n + 2
      BY <1>1
    <3>. QED BY <1>2, <3>1
  <2>. QED BY <2>1, <2>2, <2>3, <2>4
<1> DEFINE Moved == {unread[i] : i \in 1 .. n} \ {0}
<1>4. Bytes(wire') \subseteq Bytes(wire) \union Moved
  <2> SUFFICES ASSUME NEW i \in 1 .. Len(wire'), wire'[i].k = "byte", wire'[i].n # 0
               PROVE  wire'[i].n \in Bytes(wire) \union Moved
    BY DEF Bytes
  <2>1. CASE i <= Len(wire) /\ wire'[i] = wire[i]
    <3>1. i \in 1 .. Len(wire)
      BY <1>2, <2>1
    <3>. QED BY <2>1, <3>1 DEF Bytes
  <2>2. CASE i - Len(wire) - 1 \in 1 .. n /\ wire'[i].n = unread[i - Len(wire) - 1]
    BY <2>2
  <2>. QED BY <1>3, <2>1, <2>2
<1>5. Bytes(wire') \subseteq Bytes(wire) \union Items(unread)
  <2>1. n <= Len(unread)
    BY <1>1
  <2>2. \A i \in 1 .. n : i \in 1 .. Len(unread)
    BY <1>2, <2>1
  <2>. QED BY <1>4, <2>2 DEF Items
<1>6. Items(unread') \subseteq Items(unread) /\ Up(unread')
  <2>1. \A i \in 1 .. Len(unread') : unread'[i] = unread[n + i] /\ n + i \in 1 .. Len(unread)
    <3> TAKE i \in 1 .. Len(unread')
    <3>1. Len(unread') = Len(unread) - n /\ n <= Len(unread)
      BY <1>1
    <3>2. n + i \in 1 .. Len(unread)
      BY <1>2, <3>1
    <3>3. unread'[i] = unread[n + i]
      BY <1>1
    <3>. QED BY <3>2, <3>3
  <2>2. Up(unread')
    <3> SUFFICES ASSUME NEW i \in 1 .. Len(unread'), NEW j \in 1 .. Len(unread'), i < j,
                        unread'[i] # 0, unread'[j] # 0
                 PROVE  unread'[i] < unread'[j]
      BY DEF Up
    <3>1. /\ n + i \in 1 .. Len(unread) /\ n + j \in 1 .. Len(unread) /\ n + i < n + j
          /\ unread'[i] = unread[n + i] /\ unread'[j] = unread[n + j]
      BY <1>1, <1>2, <2>1
    <3>. QED BY <3>1 DEF Up, Order, Each
  <2>. QED BY <2>1, <2>2 DEF Items
<1>7. Before(Bytes(wire'), Items(unread'))
  <2>1. Before(Moved, Items(unread'))
    <3>1. \A i \in 1 .. n, j \in 1 .. Len(unread') :
            /\ unread'[j] = unread[n + j] /\ i < n + j
            /\ i \in 1 .. Len(unread) /\ n + j \in 1 .. Len(unread)
      <4> TAKE i \in 1 .. n, j \in 1 .. Len(unread')
      <4>1. Len(unread') = Len(unread) - n /\ n <= Len(unread)
        BY <1>1
      <4>2. i < n + j /\ i \in 1 .. Len(unread) /\ n + j \in 1 .. Len(unread)
        BY <1>2, <4>1
      <4>3. unread'[j] = unread[n + j]
        BY <1>1
      <4>. QED BY <4>2, <4>3
    <3>. QED BY <3>1 DEF Items, Up, Order, Each, Before
  <2>2. Before(Bytes(wire), Items(unread'))
    BY <1>6 DEF Order, Across, Before
  <2>. QED BY <1>4, <2>1, <2>2 DEF Before
<1>8. UpLine'
  <2>1. \A i \in 1 .. Len(wire), j \in 1 .. n :
          wire[i].k = "byte" /\ wire[i].n # 0 /\ unread[j] # 0 => wire[i].n < unread[j]
    <3>1. \A j \in 1 .. n : j \in 1 .. Len(unread)
      <4>1. n <= Len(unread)
        BY <1>1
      <4>. QED BY <1>2, <4>1
    <3>2. Before(Bytes(wire), Items(unread))
      BY DEF Order, Across
    <3>. QED BY <3>1, <3>2 DEF Before, Bytes, Items
  <2>2. \A i, j \in 1 .. n : i < j /\ unread[i] # 0 /\ unread[j] # 0 => unread[i] < unread[j]
    <3>1. \A i \in 1 .. n : i \in 1 .. Len(unread)
      <4>1. n <= Len(unread)
        BY <1>1
      <4>. QED BY <1>2, <4>1
    <3>2. Up(unread)
      BY DEF Order, Each
    <3>. QED BY <3>1, <3>2 DEF Up
  <2> SUFFICES ASSUME NEW i \in 1 .. Len(wire'), NEW j \in 1 .. Len(wire'), i < j,
                      wire'[i].k = "byte", wire'[j].k = "byte",
                      wire'[i].n # 0, wire'[j].n # 0
               PROVE  wire'[i].n < wire'[j].n
    BY DEF UpLine
  <2>3. i \in Nat /\ j \in Nat
    <3>1. Len(wire') = Len(wire) + n + 2
      BY <1>1
    <3>. QED BY <1>2, <3>1
  <2>4. CASE i <= Len(wire) /\ j <= Len(wire)
    BY <1>2, <1>3, <2>3, <2>4 DEF Order, Each, UpLine
  <2>5. CASE i <= Len(wire) /\ j > Len(wire)
    <3>1. i \in 1 .. Len(wire) /\ wire'[i] = wire[i]
      BY <1>2, <1>3, <2>3, <2>5
    <3>2. j - Len(wire) - 1 \in 1 .. n /\ wire'[j].n = unread[j - Len(wire) - 1]
      BY <1>2, <1>3, <2>3, <2>5
    <3>. QED BY <2>1, <3>1, <3>2
  <2>6. CASE i > Len(wire) /\ j > Len(wire)
    <3>1. i - Len(wire) - 1 \in 1 .. n /\ wire'[i].n = unread[i - Len(wire) - 1]
      BY <1>2, <1>3, <2>3, <2>6
    <3>2. j - Len(wire) - 1 \in 1 .. n /\ wire'[j].n = unread[j - Len(wire) - 1]
      BY <1>2, <1>3, <2>3, <2>6
    <3>. QED BY <1>2, <2>2, <2>3, <3>1, <3>2
  <2>. QED BY <1>2, <2>3, <2>4, <2>5, <2>6
<1>. QED BY <1>5, <1>6, <1>7, <1>8

(* Every step keeps the order: cases by what it does to the bytes.          *)
LEMMA OrderStep ==
  ASSUME TypeOK, Order, [Next]_vars
  PROVE  Order'
<1>1. DataShape /\ LineShape
  BY DataShapes, LineShapes
<1>2. /\ rx \in Seq(Nat) /\ got \in Seq(Nat) /\ unread \in Seq(Nat) /\ sent \in Nat
      /\ wire \in Seq(Token)
  <2>1. unread \in Seq(1 .. MaxBytes) /\ 1 .. MaxBytes \subseteq Nat
    BY DEF TypeOK
  <2>2. unread \in Seq(Nat)
    BY <2>1
  <2>. QED BY <2>2 DEF TypeOK
<1> USE DEF Order
<1>3. CASE AnswerRead
  <2>1. UNCHANGED <<got, rx, sent>>
    BY <1>3 DEF AnswerRead
  <2>2. Each'
    BY <1>3, <2>1, ReadBytesMoved DEF Each, Up
  <2>3. /\ Items(got') = Items(got) /\ Items(rx') = Items(rx) /\ sent' = sent
    BY <2>1
  <2>. QED BY <1>3, <2>2, <2>3, ReadBytesMoved DEF Across, Before
<1>4. CASE ~AnswerRead
  <2>1. Bytes(wire') \subseteq Bytes(wire) /\ UpLine'
    BY <1>1, <1>4, LineBytes DEF Each
  <2>2. CASE Lossy
    <3>1. Items(<<>>) = {} /\ Up(<<>>)
      BY DEF Items, Up
    <3>2. Items(rx') \subseteq Items(rx) /\ Up(rx')
      BY <2>2, <3>1 DEF Lossy, Each
    <3>3. Items(unread') \subseteq Items(unread) /\ Up(unread')
      BY <2>2, <3>1 DEF Lossy, Each
    <3>4. Items(got') = Items(got) /\ Up(got') /\ sent' = sent
      BY <2>2 DEF Lossy, Each
    <3>5. Each'
      BY <2>1, <3>2, <3>3, <3>4 DEF Each
    <3>. QED BY <2>1, <3>2, <3>3, <3>4, <3>5 DEF Across, Before
  <2>3. CASE Arrive
    <3>1. /\ UNCHANGED <<got, rx>> /\ sent' = sent + 1
          /\ unread' = Append(unread, sent + 1)
      BY <2>3 DEF Arrive
    <3>2. \A a \in Items(unread) : a < sent + 1
      <4>1. \A a \in Items(unread) : a <= sent /\ a \in Nat
        BY <1>2 DEF Across, Items
      <4>. QED BY <1>2, <4>1
    <3>3. Items(unread') \subseteq Items(unread) \union {sent + 1} /\ Up(unread')
      BY <1>2, <3>1, <3>2, ItemsAppend DEF Each
    <3>4. Each'
      BY <2>1, <3>1, <3>3 DEF Each, Up
    <3>5. Items(got') = Items(got) /\ Items(rx') = Items(rx)
      BY <3>1
    <3>6. \A a \in Items(got) \union Items(rx) \union Bytes(wire) : a <= sent /\ a \in Nat
      <4>1. \A a \in Items(got) \union Items(rx) : a \in Nat
        BY <1>2 DEF Items
      <4>2. \A a \in Bytes(wire) : a \in Nat
        BY <1>2, TokenFields DEF Bytes
      <4>. QED BY <4>1, <4>2 DEF Across
    <3>7. \A a \in Items(got) \union Items(rx) \union Bytes(wire) : a < sent + 1 /\ a <= sent + 1
      BY <1>2, <3>6
    <3>8. /\ Before(Items(got), Items(unread')) /\ Before(Items(rx), Items(unread'))
          /\ Before(Bytes(wire'), Items(unread'))
      BY <2>1, <3>3, <3>7 DEF Across, Before
    <3>9. \A a \in Items(unread') : a <= sent + 1
      <4>1. \A a \in Items(unread) : a \in Nat
        BY <1>2 DEF Items
      <4>. QED BY <1>2, <3>2, <3>3, <4>1
    <3>10. \A a \in Items(got') \union Items(rx') \union Bytes(wire') \union Items(unread') :
             a <= sent'
      BY <2>1, <3>1, <3>5, <3>7, <3>9
    <3>. QED BY <2>1, <3>4, <3>5, <3>8, <3>10 DEF Across, Before
  <2>4. CASE ReadByte
    <3>1. /\ wire # <<>> /\ wire' = Tail(wire) /\ Byte \in Nat
          /\ (rx' = Append(rx, Byte) /\ Len(rx) < Cap) \/ rx' = rx
          /\ UNCHANGED <<got, unread, sent>>
      BY <2>4, ByteTaken
    <3>2. Byte # 0 => Byte \in Bytes(wire) /\ \A b \in Bytes(wire') : Byte < b
      BY <1>2, <3>1, BytesTail DEF Byte, Each
    <3>3. Byte # 0 => \A a \in Items(rx) : a < Byte
      BY <3>2 DEF Across, Before
    <3>4. Items(rx') \subseteq Items(rx) \union ({Byte} \ {0}) /\ Up(rx')
      <4>1. CASE rx' = rx
        BY <4>1 DEF Each
      <4>2. CASE rx' = Append(rx, Byte)
        BY <1>2, <3>1, <3>3, <4>2, ItemsAppend DEF Each
      <4>. QED BY <3>1, <4>1, <4>2
    <3>5. Each'
      BY <2>1, <3>1, <3>4 DEF Each, Up
    <3>6. Items(got') = Items(got) /\ Items(unread') = Items(unread) /\ sent' = sent
      BY <3>1
    <3>7. Items(rx') \subseteq Items(rx) \union Bytes(wire)
      BY <3>2, <3>4
    <3>8. Before(Items(rx'), Bytes(wire'))
      BY <2>1, <3>2, <3>4 DEF Across, Before
    <3>. QED BY <2>1, <3>5, <3>6, <3>7, <3>8 DEF Across, Before
  <2>5. CASE Deliver
    <3>1. /\ rx # <<>> /\ rx' = Tail(rx) /\ got' = Append(got, Head(rx))
          /\ UNCHANGED <<unread, sent>>
      BY <2>5 DEF Deliver, modemVars
    <3>2. Head(rx) \in Nat
      BY <1>2, <3>1
    <3>3. /\ Items(rx') \subseteq Items(rx) /\ Up(rx')
          /\ Head(rx) # 0 => Head(rx) \in Items(rx) /\ \A a \in Items(rx') : Head(rx) < a
      BY <1>2, <3>1, ItemsTail DEF Each
    <3>4. Head(rx) # 0 => \A a \in Items(got) : a < Head(rx)
      BY <3>3 DEF Across, Before
    <3>5. Items(got') \subseteq Items(got) \union ({Head(rx)} \ {0}) /\ Up(got')
      BY <1>2, <3>1, <3>2, <3>4, ItemsAppend DEF Each
    <3>6. Each'
      BY <2>1, <3>1, <3>3, <3>5 DEF Each, Up
    <3>7. Items(unread') = Items(unread) /\ sent' = sent
      BY <3>1
    <3>8. Items(got') \subseteq Items(got) \union Items(rx)
      BY <3>3, <3>5
    <3>9. Before(Items(got'), Items(rx'))
      BY <3>3, <3>5 DEF Across, Before
    <3>. QED BY <2>1, <3>3, <3>6, <3>7, <3>8, <3>9 DEF Across, Before
  <2>. QED BY <1>1, <1>4, <2>2, <2>3, <2>4, <2>5 DEF DataShape
<1>. QED BY <1>3, <1>4

(* The bytes read() returns are in the order they were sent, none twice,    *)
(* whatever is lost and however many answers are late.                      *)
THEOREM ReadInOrder == Spec => []InOrder
<1>1. Init => Order
  BY DEF Init, Order, Each, Across, Up, UpLine, Items, Bytes, Before
<1>2. TypeOK /\ Order /\ [Next]_vars => Order'
  BY OrderStep
<1>3. Order => InOrder
  BY DEF Order, Each, Up, InOrder
<1>. QED BY <1>1, <1>2, <1>3, TypeCorrect, PTL DEF Spec

-----------------------------------------------------------------------------
(* One command at a time: which command each wait is about, what the modem  *)
(* may say to it, and what ends its answer.                                 *)
CommandOf ==
  [closing |-> "close", ssl |-> "ssl", starting |-> "start", prompt |-> "send",
   accept |-> "data", availWait |-> "avail", availSkip |-> "avail", availOk |-> "avail",
   statusWait |-> "status", statusOk |-> "status", readWait |-> "read",
   readNotice |-> "read", readSkip |-> "read", readBytes |-> "read", readOk |-> "read"]
Awaiting == DOMAIN CommandOf

Unasked == {"notice", "closed"}
Reply ==
  [close |-> {"closeOk", "error"}, ssl |-> {"ok", "error"},
   start |-> {"ok", "opened", "openFailed"}, send |-> {"prompt", "error"},
   data |-> {"accept"}, avail |-> {"avail", "ok", "error"}, status |-> {"status", "ok"},
   read |-> {"read", "byte", "ok", "error"}]
Final ==
  [close |-> {"ok", "error", "closeOk"}, ssl |-> {"ok", "error"},
   start |-> {"opened", "openFailed", "error", "closeOk"}, send |-> {"prompt", "error"},
   data |-> {"accept", "error"}, avail |-> {"ok", "error"}, status |-> {"ok", "error"},
   read |-> {"ok", "error"}]

Notices(w) == \A i \in 1 .. Len(w) : w[i].k \in Unasked

(* Nothing is under way where the driver waits for nothing.  Where it waits, *)
(* either its command is unanswered, or the line holds the rest of the       *)
(* answer: behind the token that ends it there are only notices.             *)
WireInv ==
  /\ pc \notin Awaiting => cmds = <<>> /\ Notices(wire)
  /\ pc \in Awaiting =>
       /\ cmds = <<>> \/ (cmds = <<CommandOf[pc]>> /\ Notices(wire))
       /\ \A i \in 1 .. Len(wire) : wire[i].k \in Unasked \union Reply[CommandOf[pc]]
       /\ \A i, j \in 1 .. Len(wire) :
            i < j /\ wire[i].k \in Final[CommandOf[pc]] => wire[j].k \in Unasked

LEMMA TalkTables ==
  /\ Awaiting = {"closing", "ssl", "starting", "prompt", "accept", "availWait",
                  "availSkip", "availOk", "statusWait", "statusOk", "readWait",
                  "readNotice", "readSkip", "readBytes", "readOk"}
  /\ \A p \in Awaiting : CommandOf[p] \in Cmds
  /\ \A c \in Cmds : Unasked \intersect Final[c] = {}
  BY DEF Awaiting, CommandOf, Cmds, Unasked, Final

(* The steps that are taken in time: all but the one that gives up a command *)
(* while its answer is still to come.                                        *)
InTime == Task \/ AvailablePolls \/ Modem \/ Arrive \/ RemoteClose \/ GiveUp \/ UNCHANGED vars

LEMMA NoneLate ==
  ASSUME TypeOK, [Next]_vars, late' = 0
  PROVE  late = 0 /\ InTime
<1>1. late \in Nat
  BY DEF TypeOK
<1>2. ~TimeoutLate
  BY <1>1 DEF TimeoutLate
<1>3. InTime
  BY <1>2 DEF Next, InTime
<1> SUFFICES ASSUME InTime PROVE late' = late
  BY <1>3
<1> USE DEF histVars
<1>4. CASE Modem \/ Arrive \/ RemoteClose \/ UNCHANGED vars
  BY <1>4 DEF Modem, Answer, AnswerRead, AnswerClose, AnswerStart, Arrive, RemoteClose, vars
<1>5. CASE AvailablePolls \/ Available \/ Read \/ Refill \/ Write \/ GiveUp
  BY <1>5 DEF AvailablePolls, Available, Read, Refill, Write, Maintain, GiveUp, Stop
<1>6. CASE Wait
  BY <1>6 DEF Wait, SkipToken, DrainCut, Maintained, TimeoutFinal
<1>7. CASE Connect \/ Stopped \/ ConnectStart \/ Connected \/ Send \/ Prompted \/ Accepted
  BY <1>7 DEF Connect, Stop, Stopped, ConnectStart, Connected, Send, Prompted, Accepted
<1>8. CASE Ask
  BY <1>8 DEF Ask, AvailAnswer, AvailSkip, AvailDone, AskStatus, StatusAnswer, StatusDone
<1>9. CASE AvailableAtOnce \/ Nothing \/ ReadClosed \/ Deliver \/ Fetch
  BY <1>9 DEF AvailableAtOnce, Nothing, ReadClosed, Deliver, Fetch
<1>10. CASE ReadAnswer \/ ReadNotice \/ ReadSkip \/ ReadByte \/ ReadAll \/ ReadDone
  BY <1>10 DEF ReadAnswer, ReadNotice, ReadSkip, ReadByte, ReadAll, ReadDone
<1>. QED
  BY <1>4, <1>5, <1>6, <1>7, <1>8, <1>9, <1>10 DEF InTime, Task, Open, Consume

(* What a step does to the talk with the modem.                             *)
TakesOne == wire # <<>> /\ wire' = Tail(wire)

Overheard ==
  /\ UNCHANGED <<pc, cmds>>
  /\ \/ UNCHANGED wire
     \/ \E t \in Token : t.k \in Unasked /\ wire' = Append(wire, t)

Replied ==
  /\ UNCHANGED pc /\ cmds # <<>> /\ cmds' = Tail(cmds)
  /\ Len(wire') > Len(wire)
  /\ \A i \in 1 .. Len(wire) : wire'[i] = wire[i]
  /\ \A i \in 1 .. Len(wire') : i > Len(wire) =>
       /\ wire'[i].k \in Reply[Head(cmds)]
       /\ i < Len(wire') => wire'[i].k \notin Final[Head(cmds)]

GoingOn ==
  /\ pc \in Awaiting /\ pc' \in Awaiting /\ CommandOf[pc'] = CommandOf[pc]
  /\ UNCHANGED cmds /\ (UNCHANGED wire \/ TakesOne)

Finished ==
  \/ pc \notin Awaiting /\ (UNCHANGED wire \/ TakesOne)
  \/ cmds = <<>> /\ wire = <<>> /\ UNCHANGED wire
  \/ pc \in Awaiting /\ TakesOne /\ Head(wire).k \in Final[CommandOf[pc]]

MovesOn ==
  /\ Finished
  /\ UNCHANGED cmds \/ (pc' \in Awaiting /\ cmds' = Append(cmds, CommandOf[pc']))

TalkShape == Overheard \/ Replied \/ GoingOn \/ MovesOn

LEMMA OneSaid ==
  ASSUME wire \in Seq(Token), NEW t \in Token, Says(t), UNCHANGED pc,
         cmds # <<>>, cmds' = Tail(cmds), t.k \in Reply[Head(cmds)]
  PROVE  Replied
<1>1. /\ wire' \in Seq(Token) /\ Len(wire') = Len(wire) + 1 /\ wire'[Len(wire) + 1] = t
      /\ \A i \in 1 .. Len(wire) : wire'[i] = wire[i]
  BY Appended DEF Says
<1>2. Len(wire) \in Nat
  OBVIOUS
<1>3. \A i \in 1 .. Len(wire') : i > Len(wire) => i = Len(wire) + 1
  BY <1>1, <1>2
<1>. QED BY <1>1, <1>2, <1>3 DEF Replied

LEMMA TwoSaid ==
  ASSUME wire \in Seq(Token), NEW t \in Token, NEW u \in Token,
         wire' = Append(Append(wire, t), u), UNCHANGED pc,
         cmds # <<>>, cmds' = Tail(cmds), t.k \in Reply[Head(cmds)],
         t.k \notin Final[Head(cmds)], u.k \in Reply[Head(cmds)]
  PROVE  Replied
<1> DEFINE v == Append(wire, t)
<1>1. /\ v \in Seq(Token) /\ Len(v) = Len(wire) + 1 /\ v[Len(wire) + 1] = t
      /\ \A i \in 1 .. Len(wire) : v[i] = wire[i]
  BY Appended
<1>2. wire' = Append(v, u)
  OBVIOUS
<1> HIDE DEF v
<1>3. /\ wire' \in Seq(Token) /\ Len(wire') = Len(v) + 1 /\ wire'[Len(v) + 1] = u
      /\ \A i \in 1 .. Len(v) : wire'[i] = v[i]
  BY <1>1, <1>2, Appended
<1>4. Len(wire) \in Nat
  OBVIOUS
<1>5. Len(wire') = Len(wire) + 2 /\ wire'[Len(wire) + 2] = u /\ wire'[Len(wire) + 1] = t
  BY <1>1, <1>3, <1>4
<1>6. \A i \in 1 .. Len(wire) : wire'[i] = wire[i]
  BY <1>1, <1>3, <1>4
<1>7. Len(wire') = Len(wire) + 2
  BY <1>5
<1>8. \A i \in 1 .. Len(wire') : i > Len(wire) => i = Len(wire) + 1 \/ i = Len(wire')
  <2>1. \A n \in Nat : \A i \in 1 .. n + 2 : i > n => i = n + 1 \/ i = n + 2
    OBVIOUS
  <2>. QED BY <1>4, <1>7, <2>1
<1>9. Len(wire') > Len(wire) /\ Len(wire) + 1 < Len(wire')
  <2>1. \A n \in Nat : n + 2 > n /\ n + 1 < n + 2
    OBVIOUS
  <2>. QED BY <1>4, <1>7, <2>1
<1>. QED BY <1>5, <1>6, <1>8, <1>9 DEF Replied

LEMMA ModemTalks ==
  ASSUME TypeOK, Modem \/ Arrive \/ RemoteClose
  PROVE  Overheard \/ Replied
<1>0. wire \in Seq(Token) /\ cmds \in Seq(Cmds)
  BY DEF TypeOK
<1> USE TalkTables DEF sockVars, taskVars, modemVars, histVars
<1>1. CASE Arrive \/ RemoteClose
  BY <1>1, TokenFields, Names DEF Arrive, RemoteClose, Says, Overheard, Unasked
<1>2. CASE Answer
  <2>0. UNCHANGED pc /\ cmds # <<>> /\ cmds' = Tail(cmds)
    BY <1>2 DEF Answer
  <2>1. ASSUME NEW k \in Kinds, Says(Text(k)), k \in Reply[Head(cmds)] PROVE Replied
    <3>1. Text(k) \in Token /\ Text(k).k = k
      BY TokenFields
    <3>2. Text(k).k \in Reply[Head(cmds)]
      BY <2>1, <3>1
    <3>. QED BY <1>0, <2>0, <2>1, <3>1, <3>2, OneSaid
  <2>2. ASSUME NEW t \in Token, SaysOk(t), t.k \in Reply[Head(cmds)],
               t.k \notin Final[Head(cmds)], "ok" \in Reply[Head(cmds)]
        PROVE  Replied
    <3>1. Text("ok") \in Token /\ Text("ok").k = "ok"
      BY TokenFields, Names
    <3>2. Text("ok").k \in Reply[Head(cmds)]
      BY <2>2, <3>1
    <3>3. wire' = Append(Append(wire, t), Text("ok"))
      BY <2>2 DEF SaysOk
    <3>. QED BY <1>0, <2>0, <2>2, <3>1, <3>2, <3>3, TwoSaid
  <2>3. CASE Head(cmds) = "ssl" /\ \E k \in {"ok", "error"} : Says(Text(k))
    BY <2>1, <2>3, Names DEF Reply
  <2>4. CASE Head(cmds) = "send" /\ Says(Text(IF open THEN "prompt" ELSE "error"))
    BY <2>1, <2>4, Names DEF Reply
  <2>5. CASE Head(cmds) = "data" /\ Says(Text("accept"))
    BY <2>1, <2>5, Names DEF Reply
  <2>6. CASE Head(cmds) = "avail" /\ SaysOk(T("avail", Len(unread), 0))
    <3>1. Len(unread) \in Nat
      BY DEF TypeOK
    <3>2. "avail" \in Kinds /\ 0 \in Nat
      BY Names
    <3>3. T("avail", Len(unread), 0) \in Token /\ T("avail", Len(unread), 0).k = "avail"
      BY <3>1, <3>2, TokenFields
    <3>. QED BY <2>2, <2>6, <3>3 DEF Reply, Final
  <2>7. CASE Head(cmds) = "status" /\ SaysOk(T("status", IF open THEN 1 ELSE 0, 0))
    <3>1. (IF open THEN 1 ELSE 0) \in Nat
      OBVIOUS
    <3>2. /\ T("status", IF open THEN 1 ELSE 0, 0) \in Token
          /\ T("status", IF open THEN 1 ELSE 0, 0).k = "status"
      BY <3>1, TokenFields, Names
    <3>. QED BY <2>2, <2>7, <3>2 DEF Reply, Final
  <2>8. CASE Head(cmds) \in {"avail", "read"} /\ Says(Text("error"))
    BY <2>1, <2>8, Names DEF Reply
  <2>. QED BY <1>2, <2>3, <2>4, <2>5, <2>6, <2>7, <2>8 DEF Answer
<1>3. CASE AnswerClose
  <2>1. PICK k \in {"closeOk", "error"} : Says(Text(k))
    BY <1>3 DEF AnswerClose
  <2>2. Text(k) \in Token /\ Text(k).k = k
    BY TokenFields, Names
  <2>. QED BY <1>0, <1>3, <2>1, <2>2, OneSaid DEF AnswerClose, Reply
<1>4. CASE AnswerStart
  <2>0. UNCHANGED pc /\ cmds # <<>> /\ cmds' = Tail(cmds) /\ Head(cmds) = "start"
    BY <1>4 DEF AnswerStart
  <2>1. Text("ok") \in Token /\ Text("ok").k = "ok"
    BY TokenFields, Names
  <2>2. PICK k \in {"opened", "openFailed"} : wire' = Append(Append(wire, Text("ok")), Text(k))
    BY <1>4 DEF AnswerStart
  <2>3. Text(k) \in Token /\ Text(k).k = k
    BY TokenFields, Names
  <2>4. /\ Text("ok").k \in Reply[Head(cmds)] /\ Text("ok").k \notin Final[Head(cmds)]
        /\ Text(k).k \in Reply[Head(cmds)]
    <3>1. /\ "ok" \in Reply["start"] /\ "ok" \notin Final["start"]
          /\ {"opened", "openFailed"} \subseteq Reply["start"]
      BY DEF Reply, Final
    <3>. QED BY <2>0, <2>1, <2>2, <2>3, <3>1
  <2>. QED BY <1>0, <2>0, <2>1, <2>2, <2>3, <2>4, TwoSaid
<1>5. CASE AnswerRead
  <2>1. PICK n \in 0 .. Cap :
           /\ Len(wire') = Len(wire) + n + 2
           /\ \A i \in 1 .. Len(wire) : wire'[i] = wire[i]
           /\ wire'[Len(wire) + 1] = T("read", n, Len(unread) - n)
           /\ \A i \in 1 .. n : wire'[Len(wire) + 1 + i] = T("byte", unread[i], 0)
           /\ wire'[Len(wire) + n + 2] = Text("ok")
    BY <1>5, ReadReply
  <2>2. Len(wire) \in Nat /\ n \in Nat
    BY <1>0
  <2>3. /\ wire'[Len(wire) + 1].k = "read" /\ wire'[Len(wire) + n + 2].k = "ok"
        /\ \A i \in 1 .. n : wire'[Len(wire) + 1 + i].k = "byte"
    <3>1. wire'[Len(wire) + 1].k = "read"
      BY <2>1 DEF T
    <3>2. wire'[Len(wire) + n + 2].k = "ok"
      BY <2>1 DEF T, Text
    <3>3. ASSUME NEW i \in 1 .. n PROVE wire'[Len(wire) + 1 + i].k = "byte"
      <4>1. wire'[Len(wire) + 1 + i] = T("byte", unread[i], 0)
        BY <2>1
      <4>. QED BY <4>1 DEF T
    <3>. QED BY <3>1, <3>2, <3>3
  <2>4. ASSUME NEW i \in 1 .. Len(wire'), i > Len(wire)
        PROVE  wire'[i].k \in {"read", "byte"} \/ (i = Len(wire') /\ wire'[i].k = "ok")
    <3>1. CASE i = Len(wire) + 1 \/ i = Len(wire) + n + 2
      BY <2>1, <2>3, <3>1
    <3>2. CASE i > Len(wire) + 1 /\ i < Len(wire) + n + 2
      <4>1. i - Len(wire) - 1 \in 1 .. n /\ i = Len(wire) + 1 + (i - Len(wire) - 1)
        BY <2>2, <3>2
      <4>. QED BY <2>3, <4>1
    <3>3. Len(wire') = Len(wire) + n + 2
      BY <2>1
    <3>4. \/ i = Len(wire) + 1
          \/ i = Len(wire) + n + 2
          \/ i > Len(wire) + 1 /\ i < Len(wire) + n + 2
      BY <2>2, <2>4, <3>3
    <3>. QED BY <3>1, <3>2, <3>3, <3>4
  <2>5. Len(wire') > Len(wire)
    BY <2>1, <2>2
  <2>6. UNCHANGED pc /\ cmds # <<>> /\ cmds' = Tail(cmds) /\ Head(cmds) = "read"
    BY <1>5 DEF AnswerRead
  <2>7. \A i \in 1 .. Len(wire') : i > Len(wire) =>
          /\ wire'[i].k \in Reply["read"]
          /\ i < Len(wire') => wire'[i].k \notin Final["read"]
    BY <2>4 DEF Reply, Final
  <2>. QED BY <2>1, <2>5, <2>6, <2>7 DEF Replied
<1>. QED BY <1>1, <1>2, <1>3, <1>4, <1>5 DEF Modem

LEMMA TalkShapes ==
  ASSUME TypeOK, InTime
  PROVE  TalkShape
<1> USE TalkTables DEF sockVars, taskVars, modemVars, histVars
<1>1. CASE Modem \/ Arrive \/ RemoteClose
  BY <1>1, ModemTalks DEF TalkShape
<1>2. CASE SkipToken
  BY <1>2 DEF SkipToken, Take, TakesOne, TalkShape, GoingOn, MovesOn, Finished
<1>3. CASE DrainCut \/ Maintained
  BY <1>3 DEF DrainCut, Maintained, Take, TakesOne, TalkShape, MovesOn, Finished
<1>4. CASE TimeoutFinal
  BY <1>4 DEF TimeoutFinal, Timeout, TalkShape, MovesOn, Finished
<1>5. CASE GiveUp \/ Connect \/ Send \/ AskStatus \/ Fetch
  BY <1>5 DEF GiveUp, Connect, Stop, Send, AskStatus, Fetch, Command, TalkShape, MovesOn,
     Finished, CommandOf
<1>6. CASE AvailablePolls \/ Available \/ Read \/ Refill \/ Write
  BY <1>6 DEF AvailablePolls, Available, Read, Refill, Write, Maintain, Command, TalkShape,
     MovesOn, Finished, CommandOf
<1>7. CASE Stopped
  BY <1>7 DEF Stopped, Hit, Take, TakesOne, Command, TalkShape, MovesOn, Finished,
     CommandOf, Final, Awaited
<1>8. CASE ConnectStart \/ Connected
  BY <1>8 DEF ConnectStart, Connected, Hit, Take, TakesOne, Command, TalkShape, MovesOn,
     Finished, CommandOf, Final, Awaited
<1>9. CASE Prompted \/ Accepted
  BY <1>9 DEF Prompted, Accepted, Hit, Take, TakesOne, Command, TalkShape, MovesOn,
     Finished, CommandOf, Final, Awaited
<1>10. CASE AvailAnswer \/ AvailSkip \/ AvailDone
  BY <1>10 DEF AvailAnswer, AvailSkip, AvailDone, Hit, Take, TakesOne, TalkShape, MovesOn,
     Finished, GoingOn, CommandOf, Final, Awaited
<1>11. CASE StatusAnswer \/ StatusDone
  BY <1>11 DEF StatusAnswer, StatusDone, Hit, Take, TakesOne, TalkShape, MovesOn,
     Finished, GoingOn, CommandOf, Final, Awaited
<1>12. CASE ReadAnswer \/ ReadDone
  BY <1>12 DEF ReadAnswer, ReadDone, Hit, Take, TakesOne, TalkShape, MovesOn,
     Finished, GoingOn, CommandOf, Final, Awaited
<1>13. CASE ReadNotice \/ ReadSkip \/ ReadByte \/ ReadAll
  BY <1>13 DEF ReadNotice, ReadSkip, ReadByte, ReadAll, Take, TakesOne, TalkShape,
     GoingOn, CommandOf
<1>14. CASE AvailableAtOnce \/ Nothing \/ ReadClosed \/ Deliver
  BY <1>14 DEF AvailableAtOnce, Nothing, ReadClosed, Deliver, TalkShape, MovesOn, Finished
<1>15. CASE UNCHANGED vars
  BY <1>15 DEF vars, TalkShape, Overheard
<1>. QED
  BY <1>1, <1>2, <1>3, <1>4, <1>5, <1>6, <1>7, <1>8, <1>9, <1>10, <1>11, <1>12, <1>13,
     <1>14, <1>15
  DEF InTime, Task, Wait, Open, Ask, Consume

LEMMA WireStep ==
  ASSUME TypeOK, WireInv, InTime
  PROVE  WireInv'
<1>0. wire \in Seq(Token) /\ Len(wire) \in Nat /\ cmds \in Seq(Cmds) /\ TalkShape
  BY TalkShapes DEF TypeOK
<1>1. TakesOne => /\ Len(wire') = Len(wire) - 1 /\ Head(wire) = wire[1]
                  /\ \A i \in 1 .. Len(wire') : wire'[i] = wire[i + 1] /\ i + 1 \in 1 .. Len(wire)
  BY <1>0, Taken DEF TakesOne
<1>2. CASE Overheard
  <2>1. CASE UNCHANGED wire
    BY <1>2, <2>1 DEF Overheard, WireInv, Notices
  <2>2. CASE \E t \in Token : t.k \in Unasked /\ wire' = Append(wire, t)
    <3>1. PICK t \in Token : t.k \in Unasked /\ wire' = Append(wire, t)
      BY <2>2
    <3>2. /\ Len(wire') = Len(wire) + 1 /\ wire'[Len(wire) + 1] = t
          /\ \A i \in 1 .. Len(wire) : wire'[i] = wire[i]
      BY <1>0, <3>1, Appended
    <3>3. \A i \in 1 .. Len(wire') :
            \/ i = Len(wire) + 1 /\ wire'[i].k \in Unasked
            \/ i \in 1 .. Len(wire) /\ wire'[i] = wire[i]
      BY <1>0, <3>1, <3>2
    <3>4. Notices(wire) => Notices(wire')
      BY <3>3 DEF Notices
    <3>5. ASSUME pc \in Awaiting
          PROVE  /\ \A i \in 1 .. Len(wire') : wire'[i].k \in Unasked \union Reply[CommandOf[pc]]
                 /\ \A i, j \in 1 .. Len(wire') :
                      i < j /\ wire'[i].k \in Final[CommandOf[pc]] => wire'[j].k \in Unasked
      <4>1. \A i, j \in 1 .. Len(wire') : i < j => i # Len(wire) + 1
        BY <1>0, <3>2
      <4>. QED BY <3>3, <3>5, <4>1 DEF WireInv
    <3>. QED BY <1>2, <3>4, <3>5 DEF Overheard, WireInv
  <2>. QED BY <1>2, <2>1, <2>2 DEF Overheard
<1>3. CASE Replied
  <2>1. pc \in Awaiting /\ cmds = <<CommandOf[pc]>> /\ Notices(wire)
    BY <1>3 DEF Replied, WireInv
  <2>2. Head(cmds) = CommandOf[pc] /\ cmds' = <<>> /\ pc' = pc
    BY <1>3, <2>1 DEF Replied
  <2>3. \A i \in 1 .. Len(wire') : i > Len(wire) \/ wire'[i].k \in Unasked
    <3>1. \A i \in 1 .. Len(wire') : i > Len(wire) \/ i \in 1 .. Len(wire)
      BY <1>0
    <3>. QED BY <1>3, <2>1, <3>1 DEF Replied, Notices
  <2>4. \A i \in 1 .. Len(wire') : wire'[i].k \in Unasked \union Reply[CommandOf[pc]]
    BY <1>3, <2>2, <2>3 DEF Replied
  <2>5. ASSUME NEW i \in 1 .. Len(wire'), NEW j \in 1 .. Len(wire'), i < j,
               wire'[i].k \in Final[CommandOf[pc]]
        PROVE  FALSE
    <3>1. wire'[i].k \notin Unasked
      BY <2>1, <2>5, TalkTables
    <3>2. Len(wire') \in Nat
      BY LineShapes, LineType, <1>3, TalkTables DEF TypeOK, InTime, Next
    <3>3. i < Len(wire')
      BY <2>5, <3>2
    <3>. QED BY <1>3, <2>2, <2>3, <2>5, <3>1, <3>3 DEF Replied
  <2>. QED BY <2>1, <2>2, <2>4, <2>5 DEF WireInv
<1>4. CASE GoingOn
  <2>1. CASE UNCHANGED wire
    BY <1>4, <2>1 DEF GoingOn, WireInv, Notices
  <2>2. CASE TakesOne
    <3>1. Notices(wire) => Notices(wire')
      BY <1>1, <2>2 DEF Notices
    <3>2. \A i \in 1 .. Len(wire') : wire'[i].k \in Unasked \union Reply[CommandOf[pc]]
      BY <1>1, <1>4, <2>2 DEF WireInv, GoingOn
    <3>3. \A i, j \in 1 .. Len(wire') :
            i < j /\ wire'[i].k \in Final[CommandOf[pc]] => wire'[j].k \in Unasked
      <4>1. \A i, j \in 1 .. Len(wire') : i < j => i + 1 < j + 1
        BY <1>0, <1>1, <2>2
      <4>. QED BY <1>1, <1>4, <2>2, <4>1 DEF WireInv, GoingOn
    <3>. QED BY <1>4, <3>1, <3>2, <3>3 DEF WireInv, GoingOn
  <2>. QED BY <1>4, <2>1, <2>2 DEF GoingOn
<1>5. CASE MovesOn
  <2>1. cmds = <<>> /\ Notices(wire')
    <3>1. CASE pc \notin Awaiting /\ (UNCHANGED wire \/ TakesOne)
      BY <1>1, <3>1 DEF WireInv, Notices
    <3>2. CASE cmds = <<>> /\ wire = <<>> /\ UNCHANGED wire
      BY <3>2 DEF Notices
    <3>3. CASE pc \in Awaiting /\ TakesOne /\ Head(wire).k \in Final[CommandOf[pc]]
      <4>1. wire[1].k \in Final[CommandOf[pc]] /\ wire[1].k \notin Unasked
        BY <1>1, <3>3, TalkTables
      <4>2. 1 \in 1 .. Len(wire)
        BY <1>0, <3>3 DEF TakesOne
      <4>3. cmds = <<>>
        BY <3>3, <4>1, <4>2 DEF WireInv, Notices
      <4>4. \A i \in 1 .. Len(wire') : 1 < i + 1
        OBVIOUS
      <4>. QED BY <1>1, <3>3, <4>1, <4>2, <4>3, <4>4 DEF WireInv, Notices
    <3>. QED BY <1>5, <3>1, <3>2, <3>3 DEF MovesOn, Finished
  <2>2. \A i \in 1 .. Len(wire') : wire'[i].k \in Unasked
    BY <2>1 DEF Notices
  <2>3. cmds' = <<>> \/ (pc' \in Awaiting /\ cmds' = <<CommandOf[pc']>>)
    BY <1>5, <2>1 DEF MovesOn
  <2>4. pc' \notin Awaiting => cmds' = <<>>
    BY <2>3
  <2>. QED BY <2>1, <2>2, <2>3 DEF WireInv
<1>. QED BY <1>0, <1>2, <1>3, <1>4, <1>5 DEF TalkShape

-----------------------------------------------------------------------------
(* Every byte on the line is a byte of the server, and a token that          *)
(* announces bytes is followed by so many.                                   *)
Announced(w) ==
  \A i \in 1 .. Len(w) :
    /\ w[i].k = "byte" => w[i].n # 0
    /\ w[i].k = "read" =>
         w[i].n <= Cap /\ \A j \in 1 .. w[i].n : i + j <= Len(w) /\ w[i + j].k = "byte"

LEMMA AnnouncedTail ==
  ASSUME NEW w \in Seq(Token), w # <<>>, Announced(w)
  PROVE  Announced(Tail(w))
<1>1. Len(Tail(w)) = Len(w) - 1 /\ Len(w) \in Nat /\ Len(w) >= 1
  OBVIOUS
<1>2. \A i \in 1 .. Len(w) - 1 : Tail(w)[i] = w[i + 1] /\ i + 1 \in 1 .. Len(w)
  OBVIOUS
<1>3. \A i \in 1 .. Len(w) : w[i].n \in Nat
  BY TokenFields
<1> SUFFICES ASSUME NEW i \in 1 .. Len(w) - 1
             PROVE  /\ Tail(w)[i].k = "byte" => Tail(w)[i].n # 0
                    /\ Tail(w)[i].k = "read" =>
                         /\ Tail(w)[i].n <= Cap
                         /\ \A j \in 1 .. Tail(w)[i].n :
                              i + j <= Len(w) - 1 /\ Tail(w)[i + j].k = "byte"
  BY <1>1 DEF Announced
<1>4. Tail(w)[i] = w[i + 1] /\ i + 1 \in 1 .. Len(w)
  BY <1>2
<1>5. Tail(w)[i].k = "byte" => Tail(w)[i].n # 0
  BY <1>4 DEF Announced
<1>6. ASSUME Tail(w)[i].k = "read"
      PROVE  /\ Tail(w)[i].n <= Cap
             /\ \A j \in 1 .. Tail(w)[i].n : i + j <= Len(w) - 1 /\ Tail(w)[i + j].k = "byte"
  <2>1. /\ w[i + 1].n <= Cap
        /\ \A j \in 1 .. w[i + 1].n : (i + 1) + j <= Len(w) /\ w[(i + 1) + j].k = "byte"
    BY <1>4, <1>6 DEF Announced
  <2>2. ASSUME NEW j \in 1 .. w[i + 1].n
        PROVE  i + j <= Len(w) - 1 /\ Tail(w)[i + j].k = "byte"
    <3>1. j \in Nat /\ j >= 1 /\ i \in Nat /\ i >= 1
      BY <1>1, <1>3, <1>4
    <3>2. (i + 1) + j <= Len(w) /\ w[(i + 1) + j].k = "byte"
      BY <2>1
    <3>3. i + j \in 1 .. Len(w) - 1 /\ (i + 1) + j = (i + j) + 1
      BY <1>1, <3>1, <3>2
    <3>. QED BY <1>1, <1>2, <3>2, <3>3
  <2>. QED BY <1>4, <2>1, <2>2
<1>. QED BY <1>5, <1>6

LEMMA AnnouncedAppend ==
  ASSUME NEW w \in Seq(Token), NEW t \in Texts, Announced(w)
  PROVE  Append(w, t) \in Seq(Token) /\ Announced(Append(w, t))
<1>1. t \in Token /\ t.k # "byte" /\ t.k # "read"
  BY DEF Texts
<1>2. /\ Append(w, t) \in Seq(Token) /\ Len(Append(w, t)) = Len(w) + 1 /\ Len(w) \in Nat
      /\ Append(w, t)[Len(w) + 1] = t
      /\ \A i \in 1 .. Len(w) : Append(w, t)[i] = w[i]
  BY <1>1, Appended
<1>3. \A i \in 1 .. Len(w) : w[i].n \in Nat
  BY TokenFields
<1> DEFINE v == Append(w, t)
<1> HIDE DEF v
<1>4. /\ v \in Seq(Token) /\ Len(v) = Len(w) + 1 /\ v[Len(w) + 1] = t
      /\ \A i \in 1 .. Len(w) : v[i] = w[i]
  BY <1>2 DEF v
<1>5. ASSUME NEW i \in 1 .. Len(v)
      PROVE  /\ v[i].k = "byte" => v[i].n # 0
             /\ v[i].k = "read" =>
                  v[i].n <= Cap /\ \A j \in 1 .. v[i].n : i + j <= Len(v) /\ v[i + j].k = "byte"
  <2>1. CASE i = Len(w) + 1
    BY <1>1, <1>4, <2>1
  <2>2. CASE i # Len(w) + 1
    <3>1. i \in 1 .. Len(w) /\ v[i] = w[i]
      BY <1>2, <1>4, <2>2
    <3>2. ASSUME w[i].k = "read", NEW j \in 1 .. w[i].n
          PROVE  i + j <= Len(v) /\ v[i + j].k = "byte"
      <4>1. i + j <= Len(w) /\ w[i + j].k = "byte"
        BY <3>1, <3>2 DEF Announced
      <4>2. i + j \in 1 .. Len(w)
        BY <1>2, <1>3, <3>1, <4>1
      <4>. QED BY <1>2, <1>4, <4>1, <4>2
    <3>. QED BY <3>1, <3>2 DEF Announced
  <2>. QED BY <2>1, <2>2
<1>6. Announced(v)
  BY <1>5 DEF Announced
<1>. QED BY <1>2, <1>6 DEF v

LEMMA AnnouncedRead ==
  ASSUME TypeOK, AnswerRead, Announced(wire)
  PROVE  Announced(wire')
<1>1. PICK n \in 0 .. Cap :
        /\ n <= Len(unread)
        /\ wire' \in Seq(Token) /\ Len(wire') = Len(wire) + n + 2
        /\ \A i \in 1 .. Len(wire) : wire'[i] = wire[i]
        /\ wire'[Len(wire) + 1] = T("read", n, Len(unread) - n)
        /\ \A i \in 1 .. n : wire'[Len(wire) + 1 + i] = T("byte", unread[i], 0)
        /\ wire'[Len(wire) + n + 2] = Text("ok")
  BY ReadReply
<1>2. /\ Len(wire) \in Nat /\ n \in Nat /\ Len(unread) \in Nat
      /\ \A i \in 1 .. Len(unread) : unread[i] # 0
      /\ \A i \in 1 .. Len(wire) : wire[i].n \in Nat
  <2>1. Len(wire) \in Nat /\ \A i \in 1 .. Len(wire) : wire[i].n \in Nat
    BY TokenFields DEF TypeOK
  <2>2. Len(unread) \in Nat /\ \A i \in 1 .. Len(unread) : unread[i] # 0
    BY DEF TypeOK
  <2>. QED BY <2>1, <2>2
<1>3. wire'[Len(wire) + 1].k = "read" /\ wire'[Len(wire) + 1].n = n
  BY <1>1 DEF T
<1>4. wire'[Len(wire) + n + 2].k = "ok"
  BY <1>1 DEF T, Text
<1>5. ASSUME NEW i \in 1 .. n
      PROVE  wire'[Len(wire) + 1 + i].k = "byte" /\ wire'[Len(wire) + 1 + i].n # 0
  <2>1. wire'[Len(wire) + 1 + i] = T("byte", unread[i], 0)
    BY <1>1
  <2>2. n <= Len(unread)
    BY <1>1
  <2>3. i \in 1 .. Len(unread)
    BY <1>2, <2>2
  <2>4. unread[i] # 0
    BY <1>2, <2>3
  <2>. QED BY <2>1, <2>4 DEF T
<1>6. Len(wire') = Len(wire) + n + 2
  BY <1>1
<1> SUFFICES ASSUME NEW i \in 1 .. Len(wire')
             PROVE  /\ wire'[i].k = "byte" => wire'[i].n # 0
                    /\ wire'[i].k = "read" =>
                         /\ wire'[i].n <= Cap
                         /\ \A j \in 1 .. wire'[i].n :
                              i + j <= Len(wire') /\ wire'[i + j].k = "byte"
  BY DEF Announced
<1>7. CASE i \in 1 .. Len(wire)
  <2>1. wire'[i] = wire[i]
    BY <1>1, <1>7
  <2>2. ASSUME wire[i].k = "read", NEW j \in 1 .. wire[i].n
        PROVE  i + j <= Len(wire') /\ wire'[i + j].k = "byte"
    <3>1. i + j <= Len(wire) /\ wire[i + j].k = "byte"
      BY <1>7, <2>2 DEF Announced
    <3>2. i + j \in 1 .. Len(wire)
      BY <1>2, <1>7, <3>1
    <3>3. wire'[i + j] = wire[i + j]
      BY <1>1, <3>2
    <3>. QED BY <1>2, <1>6, <3>1, <3>2, <3>3
  <2>. QED BY <1>7, <2>1, <2>2 DEF Announced
<1>8. CASE i = Len(wire) + 1
  <2>1. \A j \in 1 .. n : i + j = Len(wire) + 1 + j /\ i + j <= Len(wire')
    BY <1>2, <1>6, <1>8
  <2>2. \A j \in 1 .. n : wire'[i + j].k = "byte"
    BY <1>5, <2>1
  <2>3. n <= Cap
    OBVIOUS
  <2>. QED BY <1>3, <1>8, <2>1, <2>2, <2>3
<1>9. CASE i = Len(wire) + n + 2
  BY <1>4, <1>9
<1>10. CASE i > Len(wire) + 1 /\ i < Len(wire) + n + 2
  <2>1. i - Len(wire) - 1 \in 1 .. n /\ i = Len(wire) + 1 + (i - Len(wire) - 1)
    BY <1>2, <1>10
  <2>. QED BY <1>5, <2>1
<1>11. \/ i \in 1 .. Len(wire)
       \/ i = Len(wire) + 1
       \/ i = Len(wire) + n + 2
       \/ i > Len(wire) + 1 /\ i < Len(wire) + n + 2
  BY <1>2, <1>6
<1>. QED BY <1>7, <1>8, <1>9, <1>10, <1>11

LEMMA AnnouncedStep ==
  ASSUME TypeOK, LineShape, Announced(wire)
  PROVE  Announced(wire')
<1>1. wire \in Seq(Token)
  BY DEF TypeOK
<1>2. CASE \E t, u \in Texts : wire' = Append(Append(wire, t), u)
  <2>1. PICK t \in Texts, u \in Texts : wire' = Append(Append(wire, t), u)
    BY <1>2
  <2>2. Append(wire, t) \in Seq(Token) /\ Announced(Append(wire, t))
    BY <1>1, AnnouncedAppend
  <2>. QED BY <2>1, <2>2, AnnouncedAppend
<1>. QED BY <1>1, <1>2, AnnouncedTail, AnnouncedAppend, AnnouncedRead DEF LineShape

-----------------------------------------------------------------------------
MaintainPlaces ==
  {"availWait", "availSkip", "availOk", "status", "statusWait", "statusOk", "drain"}

(* The ring is empty when modemRead asks for as many bytes as fit, so what   *)
(* it still has to copy fits, and is on the line.  Behind a notice it copies *)
(* nothing.                                                                  *)
RingInv ==
  /\ pc \in {"fetch", "readWait"} \/ (ret = "fetch" /\ pc \in MaintainPlaces) => rx = <<>>
  /\ pc = "readBytes" =>
       Len(rx) + left <= Cap /\ \A j \in 1 .. left : j <= Len(wire) /\ wire[j].k = "byte"
  /\ pc \in {"readNotice", "readSkip"} => left = 0 /\ crossed
  /\ ~refused /\ \A i \in 1 .. Len(rx) : rx[i] # 0

(* What the modem adds leaves what is on the line.                           *)
LEMMA LineKept ==
  ASSUME TypeOK, Modem \/ Arrive \/ RemoteClose
  PROVE  /\ \A i \in 1 .. Len(wire) : wire'[i] = wire[i]
         /\ Len(wire) \in Nat /\ Len(wire') \in Nat /\ Len(wire') >= Len(wire)
         /\ UNCHANGED <<pc, ret, left, rx, got, crossed, refused, late>>
<1>1. wire \in Seq(Token) /\ Len(wire) \in Nat
  BY DEF TypeOK
<1>2. Len(wire') \in Nat
  BY LineShapes, LineType DEF Next
<1>3. UNCHANGED <<pc, ret, left, rx, got, crossed, refused, late>>
  BY DEF Modem, Answer, AnswerRead, AnswerClose, AnswerStart, Arrive, RemoteClose, taskVars, histVars
<1>4. CASE Overheard
  <2>1. CASE UNCHANGED wire
    BY <1>1, <1>3, <2>1
  <2>2. CASE \E t \in Token : wire' = Append(wire, t)
    <3>1. PICK t \in Token : wire' = Append(wire, t)
      BY <2>2
    <3>2. Len(wire') = Len(wire) + 1 /\ \A i \in 1 .. Len(wire) : wire'[i] = wire[i]
      BY <1>1, <3>1, Appended
    <3>. QED BY <1>1, <1>3, <3>2
  <2>. QED BY <1>2, <1>3, <1>4, <2>1, <2>2 DEF Overheard
<1>5. CASE Replied
  BY <1>1, <1>2, <1>3, <1>5 DEF Replied
<1>. QED BY <1>4, <1>5, ModemTalks

(* The ring is asked for only as much as fits.                               *)
LEMMA RingStep ==
  ASSUME TypeOK, WireInv, Announced(wire), RingInv, InTime
  PROVE  RingInv'
<1>0. /\ wire \in Seq(Token) /\ Len(wire) \in Nat /\ Len(rx) \in Nat /\ Len(rx) <= Cap
      /\ left \in Nat /\ rx \in Seq(Nat)
  BY DEF TypeOK
<1>1. TakesOne => /\ Len(wire') = Len(wire) - 1 /\ Head(wire) = wire[1] /\ Len(wire) >= 1
                  /\ Head(wire) \in Token
                  /\ \A i \in 1 .. Len(wire') : wire'[i] = wire[i + 1]
  BY <1>0, Taken DEF TakesOne
<1> USE DEF RingInv, sockVars, taskVars, modemVars, histVars
<1>2. CASE Modem \/ Arrive \/ RemoteClose
  <2>1. \A j \in 1 .. left : j <= Len(wire) => j \in 1 .. Len(wire)
    BY <1>0
  <2>2. \A j \in Nat : j <= Len(wire) => j <= Len(wire')
    BY <1>0, <1>2, LineKept
  <2>3. \A j \in 1 .. left : j \in Nat
    BY <1>0
  <2>. QED BY <1>2, <2>1, <2>2, <2>3, LineKept
<1>3. CASE UNCHANGED vars
  BY <1>3 DEF vars
(* Away from modemRead.                                                      *)
<1>4. CASE GiveUp \/ Connect \/ Send \/ Deliver \/ AvailableAtOnce \/ Nothing \/ ReadClosed
  <2>1. CASE GiveUp \/ Connect \/ Send
    BY <2>1 DEF GiveUp, Connect, Stop, Send, MaintainPlaces
  <2>2. CASE AvailableAtOnce \/ Nothing \/ ReadClosed
    BY <2>2 DEF AvailableAtOnce, Nothing, ReadClosed, MaintainPlaces
  <2>3. CASE Deliver
    <3>1. Len(rx') = Len(rx) - 1 /\ \A i \in 1 .. Len(rx') : rx'[i] = rx[i + 1] /\ i + 1 \in 1 .. Len(rx)
      BY <1>0, <2>3 DEF Deliver
    <3>2. pc' = "app" /\ UNCHANGED refused
      BY <2>3 DEF Deliver
    <3>. QED BY <3>1, <3>2 DEF MaintainPlaces
  <2>. QED BY <1>4, <2>1, <2>2, <2>3
<1>5. CASE AvailablePolls \/ Available \/ Read \/ Refill \/ Write
  BY <1>5 DEF AvailablePolls, Available, Read, Refill, Write, Maintain, MaintainPlaces
<1>6. CASE SkipToken \/ DrainCut \/ Maintained
  <2>1. CASE SkipToken \/ DrainCut
    BY <2>1 DEF SkipToken, DrainCut, Awaited, MaintainPlaces
  <2>2. CASE Maintained
    <3>1. /\ pc = "drain" /\ pc' = ret /\ UNCHANGED <<ret, left, rx, crossed, refused, wire>>
      BY <2>2 DEF Maintained
    <3>2. ret \notin {"readWait", "readBytes", "readNotice", "readSkip"} /\ ret \notin MaintainPlaces
      BY DEF TypeOK, Rets, MaintainPlaces
    <3>. QED BY <3>1, <3>2 DEF MaintainPlaces
  <2>. QED BY <1>6, <2>1, <2>2
<1>7. CASE Stopped
  <2>1. rx' = <<>> /\ Len(rx') = 0 /\ pc' = ret /\ UNCHANGED refused
    BY <1>7 DEF Stopped
  <2>2. pc' \notin {"readBytes", "readNotice", "readSkip"}
    BY <2>1 DEF TypeOK, Rets
  <2>. QED BY <2>1, <2>2
<1>8. CASE ConnectStart \/ Connected \/ Prompted \/ Accepted
  BY <1>8 DEF ConnectStart, Connected, Prompted, Accepted, MaintainPlaces
<1>9. CASE Ask
  BY <1>9 DEF Ask, AvailAnswer, AvailSkip, AvailDone, AskStatus, StatusAnswer, StatusDone,
     Hit, MaintainPlaces
<1>10. CASE Fetch
  BY <1>10 DEF Fetch, MaintainPlaces
(* A time-out comes only where nothing is on the line.                       *)
<1>11. CASE TimeoutFinal
  <2>1. /\ pc \in DOMAIN AfterTimeout
        /\ pc' = IF pc = "availOk" /\ available = 0 THEN "status" ELSE AfterTimeout[pc]
        /\ UNCHANGED <<ret, left, rx, crossed, refused, wire>>
    BY <1>11 DEF TimeoutFinal, Timeout
  <2>2. pc' = "readBytes" => pc = "readSkip"
    BY <2>1 DEF AfterTimeout
  <2>3. pc' \notin {"fetch", "readWait", "readNotice", "readSkip"}
    BY <2>1 DEF AfterTimeout
  <2>4. pc' \in MaintainPlaces => pc \in MaintainPlaces
    BY <2>1 DEF AfterTimeout, MaintainPlaces
  <2>5. pc' = "readBytes" => left' = 0
    BY <2>1, <2>2
  <2>6. pc' = "readBytes" => Len(rx') + left' <= Cap /\ 1 .. left' = {}
    BY <1>0, <2>1, <2>5
  <2>. QED BY <2>1, <2>3, <2>4, <2>6
(* modemRead.  Its answer is not a late one to the question for the count.   *)
<1>12. CASE ReadAnswer
  <2>1. /\ pc = "readWait" /\ TakesOne /\ Head(wire).k \in {"avail", "read", "notice", "error"}
        /\ left' = IF Head(wire).k \in {"read", "avail"} THEN Head(wire).n ELSE 0
        /\ pc' = CASE Head(wire).k = "read"   -> "readBytes"
                   [] Head(wire).k = "avail"  -> "readSkip"
                   [] Head(wire).k = "notice" -> "readNotice"
                   [] OTHER          -> "test"
        /\ crossed' = (crossed \/ Head(wire).k = "notice")
        /\ UNCHANGED <<ret, rx, refused>>
    BY <1>12 DEF ReadAnswer, Hit, Take, TakesOne, Awaited
  <2>2. 1 \in 1 .. Len(wire) /\ Head(wire) = wire[1]
    BY <1>0, <1>1, <2>1
  <2>3. Head(wire).k # "avail"
    BY <2>1, <2>2 DEF WireInv, Awaiting, CommandOf, Reply, Unasked
  <2>4. rx = <<>> /\ Len(rx) = 0
    BY <2>1
  <2>5. CASE Head(wire).k = "read"
    <3>1. pc' = "readBytes" /\ left' = wire[1].n /\ wire[1].n \in Nat
      BY <1>1, <2>1, <2>2, <2>5, TokenFields
    <3>2. wire[1].n <= Cap /\ \A j \in 1 .. wire[1].n : 1 + j <= Len(wire) /\ wire[1 + j].k = "byte"
      BY <2>2, <2>5 DEF Announced
    <3>3. ASSUME NEW j \in 1 .. left' PROVE j <= Len(wire') /\ wire'[j].k = "byte"
      <4>1. 1 + j <= Len(wire) /\ wire[1 + j].k = "byte" /\ j \in Nat /\ j >= 1
        BY <3>1, <3>2
      <4>2. j \in 1 .. Len(wire') /\ 1 + j = j + 1
        BY <1>0, <1>1, <2>1, <4>1
      <4>. QED BY <1>1, <2>1, <4>1, <4>2
    <3>4. Len(rx') + left' <= Cap
      BY <2>1, <2>4, <3>1, <3>2
    <3>5. pc' \notin MaintainPlaces
      BY <3>1 DEF MaintainPlaces
    <3>. QED BY <2>1, <3>1, <3>3, <3>4, <3>5
  <2>6. CASE Head(wire).k = "notice" \/ Head(wire).k = "error"
    BY <2>1, <2>6 DEF MaintainPlaces
  <2>. QED BY <2>1, <2>3, <2>5, <2>6
<1>13. CASE ReadNotice \/ ReadSkip
  <2>1. /\ left = 0 /\ crossed /\ UNCHANGED <<ret, left, rx, crossed, refused>>
        /\ pc' \in {"readBytes", "readNotice", "readSkip"}
    BY <1>13 DEF ReadNotice, ReadSkip
  <2>2. Len(rx') + left' <= Cap /\ 1 .. left' = {}
    BY <1>0, <2>1
  <2>. QED BY <2>1, <2>2 DEF MaintainPlaces
<1>14. CASE ReadByte
  <2>1. /\ pc = "readBytes" /\ left > 0 /\ TakesOne /\ left' = left - 1
        /\ UNCHANGED <<pc, ret, crossed>> /\ refused' = (refused \/ Len(rx) = Cap)
        /\ rx' = IF Len(rx) < Cap THEN Append(rx, Byte) ELSE rx
    BY <1>14 DEF ReadByte, Take, TakesOne, Byte
  <2>2. 1 \in 1 .. left /\ Len(rx) < Cap
    BY <1>0, <2>1
  <2>3. wire[1].k = "byte" /\ 1 \in 1 .. Len(wire)
    BY <1>0, <2>1, <2>2
  <2>4. Byte = wire[1].n /\ Byte # 0 /\ Byte \in Nat
    BY <1>1, <2>1, <2>3, TokenFields DEF Byte, Announced
  <2>5. /\ Len(rx') = Len(rx) + 1 /\ rx'[Len(rx) + 1] = Byte
        /\ \A i \in 1 .. Len(rx) : rx'[i] = rx[i]
    BY <1>0, <2>1, <2>2, <2>4, Appended
  <2>6. \A i \in 1 .. Len(rx') : rx'[i] # 0
    <3>1. \A i \in 1 .. Len(rx') : i = Len(rx) + 1 \/ i \in 1 .. Len(rx)
      BY <1>0, <2>5
    <3>. QED BY <2>4, <2>5, <3>1
  <2>7. Len(rx') + left' <= Cap /\ ~refused'
    <3>1. Len(rx) + left <= Cap /\ ~refused
      BY <2>1
    <3>2. Len(rx') = Len(rx) + 1 /\ left' = left - 1
      BY <2>1, <2>5
    <3>3. Len(rx') + left' = Len(rx) + left
      BY <1>0, <3>2
    <3>4. Len(rx) # Cap
      BY <1>0, <2>2
    <3>5. ~refused'
      BY <2>1, <3>1, <3>4
    <3>6. Len(rx') + left' <= Cap
      BY <3>1, <3>3
    <3>. QED BY <3>5, <3>6
  <2>8. ASSUME NEW j \in 1 .. left' PROVE j <= Len(wire') /\ wire'[j].k = "byte"
    <3>1. j + 1 \in 1 .. left /\ j \in Nat /\ j >= 1
      BY <1>0, <2>1
    <3>2. j + 1 <= Len(wire) /\ wire[j + 1].k = "byte"
      BY <2>1, <3>1
    <3>3. j \in 1 .. Len(wire')
      BY <1>0, <1>1, <2>1, <3>1, <3>2
    <3>. QED BY <1>1, <2>1, <3>2, <3>3
  <2>9. pc' = "readBytes" /\ pc' \notin MaintainPlaces
    BY <2>1 DEF MaintainPlaces
  <2>. QED BY <2>6, <2>7, <2>8, <2>9
<1>15. CASE ReadAll \/ ReadDone
  BY <1>15 DEF ReadAll, ReadDone, MaintainPlaces
<1>. QED
  BY <1>2, <1>3, <1>4, <1>5, <1>6, <1>7, <1>8, <1>9, <1>10, <1>11, <1>12, <1>13, <1>14, <1>15
  DEF InTime, Task, Wait, Open, Consume

AnswerInv == late = 0 => WireInv /\ Announced(wire) /\ RingInv

LEMMA AnswerInit == Init => AnswerInv
<1> SUFFICES ASSUME Init PROVE WireInv /\ Announced(wire) /\ RingInv
  BY DEF AnswerInv
<1>1. WireInv /\ Announced(wire)
  BY TalkTables DEF Init, WireInv, Announced, Notices
<1>2. RingInv
  BY DEF Init, RingInv, MaintainPlaces
<1>. QED BY <1>1, <1>2

LEMMA AnswerStep ==
  ASSUME TypeOK, AnswerInv, [Next]_vars
  PROVE  AnswerInv'
<1> SUFFICES ASSUME late' = 0 PROVE WireInv' /\ Announced(wire)' /\ RingInv'
  BY DEF AnswerInv
<1>1. InTime /\ WireInv /\ Announced(wire) /\ RingInv
  BY NoneLate DEF AnswerInv
<1>2. Announced(wire')
  BY <1>1, AnnouncedStep, LineShapes
<1>3. Announced(wire)'
  BY <1>2 DEF Announced
<1>. QED BY <1>1, <1>3, WireStep, RingStep

(* As long as no answer is late, modemRead takes exactly the bytes of its    *)
(* answer and the ring never refuses one.                                    *)
THEOREM AnswerTakenExactly == Spec => []ExactAnswer
<1>1. AnswerInv => ExactAnswer
  BY DEF AnswerInv, RingInv, ExactAnswer
<1>. QED BY <1>1, AnswerInit, AnswerStep, TypeCorrect, PTL DEF Spec

-----------------------------------------------------------------------------
(* Before the modem has opened the connection there is nothing to lose, and  *)
(* stop() is the end.                                                        *)
Unopened == \/ pc \in {"idle", "ssl"}
            \/ pc = "closing" /\ ret = "ssl"
            \/ pc = "starting" /\ cmds # <<>>
ClosedInv ==
  /\ ret = "gone" => pc \in {"closing", "gone"}
  /\ pc = "closing" => ret \in {"ssl", "gone"}
  /\ pc \in MaintainPlaces => ret \in {"send", "asked", "test", "fetch"}
  /\ Unopened => ~open /\ unread = <<>> /\ rx = <<>>

LEMMA ClosedStep ==
  ASSUME TypeOK, WireInv, ClosedInv, InTime
  PROVE  ClosedInv' /\ (ret = "gone" => ret' = "gone") /\ (crossed => crossed')
<1> USE DEF ClosedInv, Unopened, sockVars, taskVars, modemVars, histVars
<1>0. cmds \in Seq(Cmds)
  BY DEF TypeOK
<1>1. cmds # <<>> => pc \in Awaiting /\ Head(cmds) = CommandOf[pc] /\ Tail(cmds) = <<>>
  <2>1. cmds # <<>> => pc \in Awaiting /\ cmds = <<CommandOf[pc]>>
    BY DEF WireInv
  <2>2. \A c : Head(<<c>>) = c /\ Tail(<<c>>) = <<>>
    OBVIOUS
  <2>. QED BY <2>1, <2>2
<1>2. CASE Modem \/ Arrive \/ RemoteClose
  <2>1. UNCHANGED <<pc, ret, rx, crossed>>
    BY <1>2, LineKept
  <2>2. CASE Arrive \/ RemoteClose
    BY <2>1, <2>2 DEF Arrive, RemoteClose
  <2>3. CASE Answer
    BY <1>1, <2>1, <2>3 DEF Answer
  <2>4. CASE AnswerRead
    <3>1. pc \notin {"idle", "ssl", "closing", "starting"}
      BY <1>1, <2>4 DEF AnswerRead, CommandOf, Awaiting
    <3>. QED BY <2>1, <3>1
  <2>5. CASE AnswerClose
    BY <2>1, <2>5 DEF AnswerClose
  <2>6. CASE AnswerStart
    <3>1. pc = "starting" /\ cmds' = <<>>
      BY <1>1, <2>6 DEF AnswerStart, CommandOf, Awaiting
    <3>. QED BY <2>1, <3>1 DEF MaintainPlaces
  <2>. QED BY <1>2, <2>2, <2>3, <2>4, <2>5, <2>6 DEF Modem
<1>3. CASE UNCHANGED vars
  BY <1>3 DEF vars
<1>4. CASE GiveUp \/ Connect
  BY <1>4 DEF GiveUp, Connect, Stop, MaintainPlaces
<1>5. CASE AvailablePolls \/ Available \/ Read \/ Refill \/ Write
  BY <1>5 DEF AvailablePolls, Available, Read, Refill, Write, Maintain, MaintainPlaces
<1>6. CASE SkipToken \/ DrainCut
  BY <1>6 DEF SkipToken, DrainCut
<1>7. CASE Maintained
  BY <1>7 DEF Maintained, MaintainPlaces
<1>8. CASE TimeoutFinal
  <2>1. pc \in DOMAIN AfterTimeout /\ UNCHANGED <<ret, crossed>>
        /\ pc' = IF pc = "availOk" /\ available = 0 THEN "status" ELSE AfterTimeout[pc]
    BY <1>8 DEF TimeoutFinal, Timeout
  <2>2. pc' \in MaintainPlaces => pc \in MaintainPlaces
    BY <2>1 DEF AfterTimeout, MaintainPlaces
  <2>3. pc' \notin {"idle", "ssl", "closing", "starting"} /\ pc \notin {"closing", "gone"}
    BY <2>1 DEF AfterTimeout
  <2>. QED BY <2>1, <2>2, <2>3
<1>9. CASE Stopped
  BY <1>9 DEF Stopped, Hit, MaintainPlaces
<1>10. CASE ConnectStart \/ Connected
  BY <1>10 DEF ConnectStart, Connected, Hit, MaintainPlaces
<1>11. CASE Send \/ Prompted \/ Accepted
  BY <1>11 DEF Send, Prompted, Accepted, Hit, MaintainPlaces
<1>12. CASE Ask
  BY <1>12 DEF Ask, AvailAnswer, AvailSkip, AvailDone, AskStatus, StatusAnswer, StatusDone,
     Hit, MaintainPlaces
<1>13. CASE AvailableAtOnce \/ Nothing \/ ReadClosed \/ Deliver \/ Fetch
  BY <1>13 DEF AvailableAtOnce, Nothing, ReadClosed, Deliver, Fetch, MaintainPlaces
<1>14. CASE ReadAnswer \/ ReadNotice \/ ReadSkip \/ ReadByte \/ ReadAll \/ ReadDone
  <2>1. CASE ReadAnswer
    BY <2>1 DEF ReadAnswer, Hit, MaintainPlaces
  <2>2. CASE ReadNotice \/ ReadSkip
    BY <2>2 DEF ReadNotice, ReadSkip, MaintainPlaces
  <2>3. CASE ReadByte \/ ReadAll \/ ReadDone
    BY <2>3 DEF ReadByte, ReadAll, ReadDone, Hit, MaintainPlaces
  <2>. QED BY <1>14, <2>1, <2>2, <2>3
<1>. QED
  BY <1>2, <1>3, <1>4, <1>5, <1>6, <1>7, <1>8, <1>9, <1>10, <1>11, <1>12, <1>13, <1>14
  DEF InTime, Task, Wait, Open, Consume

-----------------------------------------------------------------------------
(* The bytes of the server, one after the other: got, rx, n bytes on the     *)
(* line behind p other tokens, unread.                                       *)
OnLine(p, n) ==
  /\ p + n <= Len(wire)
  /\ \A i \in 1 .. Len(wire) : wire[i].k = "byte" <=> i \in p + 1 .. p + n
  /\ \A i \in 1 .. n : wire[p + i].n = Len(got) + Len(rx) + i
Rest(n) ==
  /\ Len(got) + Len(rx) + n + Len(unread) = sent
  /\ \A i \in 1 .. Len(got) : got[i] = i
  /\ \A i \in 1 .. Len(rx) : rx[i] = Len(got) + i
  /\ \A i \in 1 .. Len(unread) : unread[i] = Len(got) + Len(rx) + n + i

(* They are on the line only behind the token that announces them, or while  *)
(* modemRead copies them.                                                    *)
Placed(p, n) ==
  /\ pc = "readWait" => /\ \A i \in 1 .. Len(wire) : wire[i].k = "read" => i = p /\ wire[i].n = n
                        /\ n > 0 => p >= 1 /\ wire[p].k = "read"
  /\ pc = "readBytes" => p = 0 /\ n = left
  /\ pc \notin {"readWait", "readBytes"} => n = 0

Whole == /\ pc \in {"readBytes", "readOk"} => cmds = <<>>
         /\ \E p, n \in Nat : OnLine(p, n) /\ Rest(n) /\ Placed(p, n)

LostInv == late = 0 => ClosedInv /\ (~crossed /\ ret # "gone" => Whole)

(* The steps of cci_task that neither take bytes nor come upon them.         *)
Elsewhere ==
  /\ UNCHANGED wire \/ TakesOne
  /\ pc = "readBytes" => left = 0 /\ UNCHANGED wire
  /\ pc' = "readBytes" => pc \in {"readNotice", "readSkip"}
  /\ pc = "readWait" => \/ wire = <<>> /\ pc' # "readWait"
                        \/ pc' = "readWait" /\ TakesOne /\ Head(wire).k # "read"
  /\ pc' = "readWait" /\ pc # "readWait" => pc = "fetch" /\ UNCHANGED wire
  /\ pc' = "readOk" => pc \in {"readOk", "readBytes"} /\ UNCHANGED cmds

LEMMA WhereBytes ==
  ASSUME TypeOK, InTime, ClosedInv
  PROVE  \/ Modem \/ Arrive \/ RemoteClose \/ UNCHANGED vars
         \/ ReadAnswer \/ ReadByte \/ Elsewhere
<1> SUFFICES ASSUME ~(Modem \/ Arrive \/ RemoteClose \/ UNCHANGED vars), ~ReadAnswer, ~ReadByte
             PROVE  Elsewhere
  OBVIOUS
<1> USE DEF Elsewhere, TakesOne, Take, taskVars
<1>1. CASE GiveUp \/ Connect \/ Send
  BY <1>1 DEF GiveUp, Connect, Stop, Send
<1>2. CASE AvailablePolls \/ Available \/ Read \/ Refill \/ Write
  BY <1>2 DEF AvailablePolls, Available, Read, Refill, Write, Maintain
<1>3. CASE SkipToken
  BY <1>3 DEF SkipToken, Awaited
<1>4. CASE DrainCut
  BY <1>4 DEF DrainCut
<1>5. CASE Maintained
  BY <1>5 DEF Maintained, ClosedInv, MaintainPlaces
<1>6. CASE TimeoutFinal
  BY <1>6 DEF TimeoutFinal, Timeout, AfterTimeout
<1>7. CASE Stopped
  BY <1>7 DEF Stopped, Hit, ClosedInv
<1>8. CASE ConnectStart \/ Connected \/ Prompted \/ Accepted
  BY <1>8 DEF ConnectStart, Connected, Prompted, Accepted, Hit
<1>9. CASE Ask
  BY <1>9 DEF Ask, AvailAnswer, AvailSkip, AvailDone, AskStatus, StatusAnswer, StatusDone, Hit
<1>10. CASE AvailableAtOnce \/ Nothing \/ ReadClosed \/ Deliver \/ Fetch
  BY <1>10 DEF AvailableAtOnce, Nothing, ReadClosed, Deliver, Fetch
<1>11. CASE ReadNotice \/ ReadSkip \/ ReadAll \/ ReadDone
  BY <1>11 DEF ReadNotice, ReadSkip, ReadAll, ReadDone, Hit
<1>. QED
  BY <1>1, <1>2, <1>3, <1>4, <1>5, <1>6, <1>7, <1>8, <1>9, <1>10, <1>11
  DEF InTime, Task, Wait, Open, Consume

(* Outside the six steps that move a byte nothing is lost, unless stop()     *)
(* throws it away.                                                           *)
LEMMA BytesKept ==
  ASSUME TypeOK, WireInv, ClosedInv, InTime, ret' # "gone"
  PROVE  UNCHANGED <<got, rx, unread, sent>> \/ Arrive \/ AnswerRead \/ ReadByte \/ Deliver
<1>1. CASE Lossy
  <2>1. CASE Stopped
    <3>1. pc = "closing" /\ ret = "ssl" /\ rx = <<>>
      BY <2>1 DEF Stopped, Hit, ClosedInv, Unopened
    <3>2. ~AnswerClose
      BY <2>1, <3>1 DEF Stopped, AnswerClose, taskVars
    <3>. QED BY <1>1, <3>1, <3>2 DEF Lossy
  <2>2. CASE AnswerClose
    <3>1. cmds \in Seq(Cmds)
      BY DEF TypeOK
    <3>2. pc = "closing" /\ UNCHANGED <<pc, ret, rx>>
      BY <2>2, <3>1 DEF AnswerClose, WireInv, Awaiting, CommandOf, taskVars
    <3>3. unread = <<>>
      BY <3>2 DEF ClosedInv, Unopened
    <3>. QED BY <1>1, <3>2, <3>3 DEF Lossy
  <2>. QED BY <1>1, <2>1, <2>2 DEF Lossy
<1>2. DataShape
  BY DataShapes DEF InTime, Next
<1>. QED BY <1>1, <1>2 DEF DataShape

-----------------------------------------------------------------------------
LEMMA Lengths ==
  ASSUME TypeOK
  PROVE  /\ Len(got) \in Nat /\ Len(rx) \in Nat /\ Len(unread) \in Nat /\ Len(wire) \in Nat
         /\ sent \in Nat /\ left \in Nat
         /\ \A i \in 1 .. Len(wire) : wire[i].n \in Nat
<1>1. /\ Len(got) \in Nat /\ Len(rx) \in Nat /\ Len(unread) \in Nat /\ Len(wire) \in Nat
      /\ sent \in Nat /\ left \in Nat
  BY DEF TypeOK
<1>2. \A i \in 1 .. Len(wire) : wire[i] \in Token
  BY DEF TypeOK
<1>. QED BY <1>1, <1>2, TokenFields

(* A byte that arrives is the next one.                                      *)
LEMMA RestArrive ==
  ASSUME TypeOK, Arrive, NEW n \in Nat, Rest(n)
  PROVE  Rest(n)'
<1>1. /\ sent' = sent + 1 /\ unread' = Append(unread, sent + 1) /\ UNCHANGED <<got, rx>>
      /\ sent + 1 \in 1 .. MaxBytes /\ unread \in Seq(1 .. MaxBytes)
  BY DEF Arrive, TypeOK
<1>2. /\ Len(unread') = Len(unread) + 1 /\ unread'[Len(unread) + 1] = sent + 1
      /\ \A i \in 1 .. Len(unread) : unread'[i] = unread[i]
  BY <1>1, Appended
<1>3. \A i \in 1 .. Len(unread') : i \in 1 .. Len(unread) \/ i = Len(unread) + 1
  BY <1>2, Lengths
<1>4. Len(got) + Len(rx) + n + Len(unread) = sent
  BY DEF Rest
<1>5. Len(got) + Len(rx) + n + (Len(unread) + 1) = sent + 1
  BY <1>4, Lengths
<1>6. ASSUME NEW i \in 1 .. Len(unread') PROVE unread'[i] = Len(got) + Len(rx) + n + i
  <2>1. CASE i \in 1 .. Len(unread)
    BY <1>2, <2>1 DEF Rest
  <2>2. CASE i = Len(unread) + 1
    BY <1>2, <1>5, <2>2
  <2>. QED BY <1>3, <2>1, <2>2
<1>. QED BY <1>1, <1>2, <1>5, <1>6 DEF Rest

(* A byte that is delivered is the next one.                                 *)
LEMMA RestDeliver ==
  ASSUME TypeOK, Deliver, NEW n \in Nat, Rest(n)
  PROVE  Rest(n)' /\ Len(got') + Len(rx') = Len(got) + Len(rx)
<1>1. /\ got \in Seq(Nat) /\ rx \in Seq(Nat) /\ rx # <<>> /\ UNCHANGED <<unread, sent>>
      /\ got' = Append(got, Head(rx)) /\ rx' = Tail(rx)
  BY DEF Deliver, TypeOK, modemVars
<1>2. /\ Len(rx') = Len(rx) - 1 /\ Head(rx) = rx[1] /\ Head(rx) \in Nat /\ Len(rx) >= 1
      /\ \A i \in 1 .. Len(rx') : rx'[i] = rx[i + 1] /\ i + 1 \in 1 .. Len(rx)
  BY <1>1
<1>3. /\ Len(got') = Len(got) + 1 /\ got'[Len(got) + 1] = Head(rx)
      /\ \A i \in 1 .. Len(got) : got'[i] = got[i]
  BY <1>1, <1>2, Appended
<1>4. rx[1] = Len(got) + 1
  BY <1>2, Lengths DEF Rest
<1>5. \A i \in 1 .. Len(got') : got'[i] = i
  <2>1. \A i \in 1 .. Len(got') : i \in 1 .. Len(got) \/ i = Len(got) + 1
    BY <1>3, Lengths
  <2>. QED BY <1>2, <1>3, <1>4, <2>1 DEF Rest
<1>6. ASSUME NEW i \in 1 .. Len(rx') PROVE rx'[i] = Len(got') + i
  <2>1. rx'[i] = Len(got) + (i + 1)
    BY <1>2 DEF Rest
  <2>2. Len(got) + (i + 1) = (Len(got) + 1) + i
    BY <1>2, Lengths
  <2>. QED BY <1>3, <2>1, <2>2
<1>7. Len(got') + Len(rx') = Len(got) + Len(rx)
  <2>1. \A g, r \in Nat : (g + 1) + (r - 1) = g + r
    OBVIOUS
  <2>. QED BY <1>2, <1>3, <2>1, Lengths
<1>. QED BY <1>1, <1>5, <1>6, <1>7 DEF Rest

(* A byte that is copied into the ring is the next one.                      *)
LEMMA RestByte ==
  ASSUME TypeOK, ReadByte, NEW n \in Nat, n > 0, Rest(n), Len(rx) < Cap,
         Byte = Len(got) + Len(rx) + 1
  PROVE  Rest(n - 1)' /\ Len(got') + Len(rx') = Len(got) + Len(rx) + 1
<1>1. /\ rx \in Seq(Nat) /\ Byte \in Nat /\ rx' = Append(rx, Byte)
      /\ UNCHANGED <<got, unread, sent>>
  BY ByteTaken DEF TypeOK, ReadByte, Byte
<1>2. /\ Len(rx') = Len(rx) + 1 /\ rx'[Len(rx) + 1] = Byte
      /\ \A i \in 1 .. Len(rx) : rx'[i] = rx[i]
  BY <1>1, Appended
<1>3. ASSUME NEW i \in 1 .. Len(rx') PROVE rx'[i] = Len(got) + i
  <2>1. CASE i \in 1 .. Len(rx)
    BY <1>2, <2>1 DEF Rest
  <2>2. CASE i = Len(rx) + 1
    <3>1. Len(got) + Len(rx) + 1 = Len(got) + (Len(rx) + 1)
      BY Lengths
    <3>. QED BY <1>2, <2>2, <3>1
  <2>3. i \in 1 .. Len(rx) \/ i = Len(rx) + 1
    BY <1>2, Lengths
  <2>. QED BY <2>1, <2>2, <2>3
<1>4. Len(got) + Len(rx') = Len(got) + Len(rx) + 1
  BY <1>2, Lengths
<1>5. Len(got) + Len(rx') + (n - 1) = Len(got) + Len(rx) + n
  BY <1>2, Lengths
<1>6. \A i \in 1 .. Len(unread) : unread[i] = Len(got) + Len(rx') + (n - 1) + i
  BY <1>5 DEF Rest
<1>. QED BY <1>1, <1>3, <1>4, <1>5, <1>6 DEF Rest

(* What the modem hands out are the next ones.                               *)
LEMMA RestRead ==
  ASSUME TypeOK, UNCHANGED <<got, rx, sent>>, NEW n \in Nat, n <= Len(unread), Rest(0),
         Len(unread') = Len(unread) - n,
         \A i \in 1 .. Len(unread') : unread'[i] = unread[n + i]
  PROVE  Rest(n)' /\ \A i \in 1 .. n : unread[i] = Len(got) + Len(rx) + i
<1>1. Len(got) + Len(rx) + 0 = Len(got) + Len(rx)
  BY Lengths
<1>2. /\ Len(got) + Len(rx) + Len(unread) = sent
      /\ \A i \in 1 .. Len(unread) : unread[i] = Len(got) + Len(rx) + i
  BY <1>1 DEF Rest
<1>3. \A i \in 1 .. n : i \in 1 .. Len(unread)
  BY Lengths
<1>4. ASSUME NEW i \in 1 .. Len(unread') PROVE unread'[i] = Len(got) + Len(rx) + n + i
  <2>1. n + i \in 1 .. Len(unread)
    BY Lengths
  <2>2. Len(got) + Len(rx) + (n + i) = Len(got) + Len(rx) + n + i
    BY Lengths
  <2>. QED BY <1>2, <2>1, <2>2
<1>5. Len(got) + Len(rx) + n + Len(unread') = sent
  BY <1>2, Lengths
<1>. QED BY <1>2, <1>3, <1>4, <1>5 DEF Rest

-----------------------------------------------------------------------------
(* The bytes on the line, as tokens are added behind them,                   *)
LEMMA LineGrows ==
  ASSUME TypeOK, NEW p \in Nat, NEW n \in Nat, OnLine(p, n),
         Len(wire') \in Nat, Len(wire') >= Len(wire),
         \A i \in 1 .. Len(wire) : wire'[i] = wire[i],
         \A i \in 1 .. Len(wire') : i > Len(wire) => wire'[i].k # "byte",
         Len(got') + Len(rx') = Len(got) + Len(rx)
  PROVE  OnLine(p, n)'
<1>1. p + n <= Len(wire')
  BY Lengths DEF OnLine
<1>2. ASSUME NEW i \in 1 .. Len(wire') PROVE wire'[i].k = "byte" <=> i \in p + 1 .. p + n
  <2>1. CASE i > Len(wire)
    <3>1. i \notin p + 1 .. p + n
      BY <2>1, Lengths DEF OnLine
    <3>. QED BY <2>1, <3>1
  <2>2. CASE ~(i > Len(wire))
    <3>1. i \in 1 .. Len(wire)
      BY <2>2, Lengths
    <3>. QED BY <3>1 DEF OnLine
  <2>. QED BY <2>1, <2>2
<1>3. ASSUME NEW i \in 1 .. n PROVE wire'[p + i].n = Len(got) + Len(rx) + i
  <2>1. p + i \in 1 .. Len(wire)
    <3>1. p + n <= Len(wire)
      BY DEF OnLine
    <3>. QED BY <3>1, Lengths
  <2>. QED BY <2>1 DEF OnLine
<1>. QED BY <1>1, <1>2, <1>3 DEF OnLine

(* as a token in front of them is taken,                                     *)
LEMMA LineTaken ==
  ASSUME TypeOK, NEW p \in Nat, NEW n \in Nat, OnLine(p, n), TakesOne, p >= 1,
         Len(got') + Len(rx') = Len(got) + Len(rx)
  PROVE  OnLine(p - 1, n)'
<1>1. /\ Len(wire') = Len(wire) - 1 /\ Len(wire) \in Nat /\ Len(wire) >= 1
      /\ \A i \in 1 .. Len(wire') : wire'[i] = wire[i + 1]
  BY Taken DEF TakesOne, TypeOK
<1>2. p + n <= Len(wire)
  BY DEF OnLine
<1>3. (p - 1) + n <= Len(wire')
  BY <1>1, <1>2
<1>4. ASSUME NEW i \in 1 .. Len(wire')
      PROVE  wire'[i].k = "byte" <=> i \in (p - 1) + 1 .. (p - 1) + n
  <2>1. i + 1 \in 1 .. Len(wire)
    BY <1>1
  <2>2. i + 1 \in p + 1 .. p + n <=> i \in (p - 1) + 1 .. (p - 1) + n
    BY <1>1
  <2>. QED BY <1>1, <2>1, <2>2 DEF OnLine
<1>5. ASSUME NEW i \in 1 .. n PROVE wire'[(p - 1) + i].n = Len(got) + Len(rx) + i
  <2>1. (p - 1) + i \in 1 .. Len(wire') /\ ((p - 1) + i) + 1 = p + i
    BY <1>1, <1>2
  <2>2. wire'[(p - 1) + i] = wire[p + i]
    BY <1>1, <2>1
  <2>. QED BY <2>2 DEF OnLine
<1>. QED BY <1>3, <1>4, <1>5 DEF OnLine

(* as the first of them is taken,                                            *)
LEMMA LineByte ==
  ASSUME TypeOK, NEW n \in Nat, n > 0, OnLine(0, n), TakesOne
  PROVE  /\ Byte = Len(got) + Len(rx) + 1
         /\ Len(got') + Len(rx') = Len(got) + Len(rx) + 1 => OnLine(0, n - 1)'
<1>1. /\ Len(wire') = Len(wire) - 1 /\ Len(wire) \in Nat /\ Len(wire) >= 1
      /\ Head(wire) = wire[1]
      /\ \A i \in 1 .. Len(wire') : wire'[i] = wire[i + 1]
  BY Taken DEF TakesOne, TypeOK
<1>2. n <= Len(wire)
  BY DEF OnLine
<1>3. \A i \in 1 .. Len(wire) : wire[i].k = "byte" <=> i \in 1 .. n
  <2>1. 0 + 1 .. 0 + n = 1 .. n
    OBVIOUS
  <2>. QED BY <2>1 DEF OnLine
<1>4. \A i \in 1 .. n : wire[i].n = Len(got) + Len(rx) + i
  <2>1. \A i \in 1 .. n : 0 + i = i
    OBVIOUS
  <2>. QED BY <2>1 DEF OnLine
<1>5. Byte = Len(got) + Len(rx) + 1
  <2>1. 1 \in 1 .. n /\ 1 \in 1 .. Len(wire)
    BY <1>1
  <2>. QED BY <1>1, <1>3, <1>4, <2>1 DEF Byte
<1>6. ASSUME Len(got') + Len(rx') = Len(got) + Len(rx) + 1 PROVE OnLine(0, n - 1)'
  <2>1. 0 + (n - 1) <= Len(wire')
    BY <1>1, <1>2
  <2>2. ASSUME NEW i \in 1 .. Len(wire')
        PROVE  wire'[i].k = "byte" <=> i \in 0 + 1 .. 0 + (n - 1)
    <3>1. i + 1 \in 1 .. Len(wire)
      BY <1>1
    <3>2. i + 1 \in 1 .. n <=> i \in 0 + 1 .. 0 + (n - 1)
      BY <1>1
    <3>. QED BY <1>1, <1>3, <3>1, <3>2
  <2>3. ASSUME NEW i \in 1 .. n - 1 PROVE wire'[0 + i].n = Len(got') + Len(rx') + i
    <3>1. 0 + i = i /\ i \in 1 .. Len(wire') /\ i + 1 \in 1 .. n
      BY <1>1, <1>2
    <3>2. wire'[i] = wire[i + 1]
      BY <1>1, <3>1
    <3>3. wire[i + 1].n = Len(got) + Len(rx) + (i + 1)
      BY <1>4, <3>1
    <3>4. Len(got) + Len(rx) + (i + 1) = (Len(got) + Len(rx) + 1) + i
      BY Lengths
    <3>. QED BY <1>6, <3>1, <3>2, <3>3, <3>4
  <2>. QED BY <2>1, <2>2, <2>3 DEF OnLine
<1>. QED BY <1>5, <1>6

(* and where there are none.                                                 *)
LEMMA LineNone ==
  ASSUME TypeOK
  PROVE  OnLine(0, 0) <=> \A i \in 1 .. Len(wire) : wire[i].k # "byte"
<1>1. 0 + 1 .. 0 + 0 = {} /\ 1 .. 0 = {} /\ 0 + 0 <= Len(wire)
  BY Lengths
<1>. QED BY <1>1 DEF OnLine

(* The tokens of the modem, but for its answer to a read, are text.          *)
LEMMA OnlyText ==
  ASSUME TypeOK, Modem \/ Arrive \/ RemoteClose, ~AnswerRead
  PROVE  \A i \in 1 .. Len(wire') : i > Len(wire) => wire'[i].k \notin {"byte", "read"}
<1>1. wire \in Seq(Token) /\ Len(wire) \in Nat /\ Texts \subseteq Token
  BY DEF TypeOK, Texts
<1>2. \A t \in Texts : t.k \notin {"byte", "read"}
  BY DEF Texts
<1>3. LineShape
  BY LineShapes DEF Next
<1>4. ~(wire # <<>> /\ wire' = Tail(wire))
  BY <1>1, LineKept, Taken
<1>5. CASE UNCHANGED wire
  BY <1>1, <1>5
<1>6. CASE \E t \in Texts : wire' = Append(wire, t)
  <2>1. PICK t \in Texts : wire' = Append(wire, t)
    BY <1>6
  <2>2. Len(wire') = Len(wire) + 1 /\ wire'[Len(wire) + 1] = t
    BY <1>1, <2>1, Appended
  <2>3. \A i \in 1 .. Len(wire) + 1 : i > Len(wire) => i = Len(wire) + 1
    BY <1>1
  <2>. QED BY <1>2, <2>2, <2>3
<1>7. CASE \E t, u \in Texts : wire' = Append(Append(wire, t), u)
  <2>1. PICK t \in Texts, u \in Texts : wire' = Append(Append(wire, t), u)
    BY <1>7
  <2> DEFINE v == Append(wire, t)
  <2>2. v \in Seq(Token) /\ Len(v) = Len(wire) + 1 /\ v[Len(wire) + 1] = t /\ wire' = Append(v, u)
    BY <1>1, <2>1, Appended
  <2> HIDE DEF v
  <2>3. /\ Len(wire') = Len(v) + 1 /\ wire'[Len(v) + 1] = u
        /\ \A i \in 1 .. Len(v) : wire'[i] = v[i]
    BY <1>1, <2>2, Appended
  <2>4. Len(wire') = Len(wire) + 2 /\ Len(v) = Len(wire) + 1
    BY <1>1, <2>2, <2>3
  <2>5. Len(wire) + 1 \in 1 .. Len(v)
    BY <1>1, <2>4
  <2>6. wire'[Len(wire) + 1] = t
    BY <2>2, <2>3, <2>5
  <2>7. wire'[Len(wire) + 2] = u
    <3>1. Len(v) + 1 = Len(wire) + 2
      BY <1>1, <2>4
    <3>. QED BY <2>3, <3>1
  <2>8. \A i \in 1 .. Len(wire) + 2 : i > Len(wire) => i = Len(wire) + 1 \/ i = Len(wire) + 2
    BY <1>1
  <2>. QED BY <1>2, <2>4, <2>6, <2>7, <2>8
<1>. QED BY <1>3, <1>4, <1>5, <1>6, <1>7 DEF LineShape

LEMMA WholeAnswerRead ==
  ASSUME TypeOK, WireInv, RingInv, Whole, ~crossed, AnswerRead
  PROVE  Whole'
<1>1. PICK p \in Nat, n \in Nat : OnLine(p, n) /\ Rest(n) /\ Placed(p, n)
  BY DEF Whole
<1>2. cmds \in Seq(Cmds) /\ cmds # <<>> /\ Head(cmds) = "read" /\ cmds' = Tail(cmds)
  BY DEF AnswerRead, TypeOK
<1>3. pc \in Awaiting /\ cmds = <<CommandOf[pc]>> /\ Notices(wire)
  BY <1>2 DEF WireInv
<1>4. pc = "readWait" /\ cmds' = <<>>
  <2>1. CommandOf[pc] = "read" /\ cmds' = <<>>
    BY <1>2, <1>3
  <2>2. pc \notin {"readNotice", "readSkip"}
    BY DEF RingInv
  <2>3. pc \notin {"readBytes", "readOk"}
    BY <1>2 DEF Whole
  <2>. QED BY <1>3, <2>1, <2>2, <2>3 DEF Awaiting, CommandOf
<1>5. \A i \in 1 .. Len(wire) : wire[i].k \notin {"byte", "read"}
  BY <1>3 DEF Notices, Unasked
<1>6. n = 0
  <2>1. n > 0 => p + 1 \in 1 .. Len(wire) /\ p + 1 \in p + 1 .. p + n
    BY <1>1, Lengths DEF OnLine
  <2>. QED BY <1>1, <1>5, <2>1 DEF OnLine
<1>7. PICK m \in 0 .. Cap :
        /\ m <= Len(unread)
        /\ Len(wire') = Len(wire) + m + 2
        /\ \A i \in 1 .. Len(wire) : wire'[i] = wire[i]
        /\ wire'[Len(wire) + 1] = T("read", m, Len(unread) - m)
        /\ \A i \in 1 .. m : wire'[Len(wire) + 1 + i] = T("byte", unread[i], 0)
        /\ wire'[Len(wire) + m + 2] = Text("ok")
        /\ Len(unread') = Len(unread) - m
        /\ \A i \in 1 .. Len(unread') : unread'[i] = unread[m + i]
  BY ReadReply
<1>8. UNCHANGED <<got, rx, sent, pc>>
  BY DEF AnswerRead, taskVars
<1>9. m \in Nat /\ Len(wire) \in Nat
  BY Lengths
<1>10. Rest(m)' /\ \A i \in 1 .. m : unread[i] = Len(got) + Len(rx) + i
  <2>1. Rest(0)
    BY <1>1, <1>6
  <2>. QED BY <1>7, <1>8, <1>9, <2>1, RestRead
<1>11. PICK q \in Nat : q = Len(wire) + 1
  BY <1>9
<1>12. \A i \in 1 .. m : wire'[q + i].k = "byte" /\ wire'[q + i].n = unread[i]
  <2> TAKE i \in 1 .. m
  <2>1. wire'[q + i] = T("byte", unread[i], 0)
    BY <1>7, <1>11
  <2>. QED BY <2>1 DEF T
<1>13. wire'[q].k = "read" /\ wire'[q].n = m
  BY <1>7, <1>11 DEF T
<1>14. wire'[q + m + 1].k = "ok"
  <2>1. q + m + 1 = Len(wire) + m + 2
    BY <1>9, <1>11
  <2>2. wire'[Len(wire) + m + 2] = Text("ok")
    BY <1>7
  <2>. QED BY <2>1, <2>2 DEF T, Text
<1>15. q \in Nat /\ q >= 1 /\ Len(wire') = q + m + 1
  <2>1. Len(wire') = Len(wire) + m + 2
    BY <1>7
  <2>. QED BY <1>9, <1>11, <2>1
<1>16. \A i \in 1 .. Len(wire) : wire'[i].k \notin {"byte", "read"}
  BY <1>5, <1>7
<1>17. \A i \in 1 .. q - 1 : wire'[i].k \notin {"byte", "read"}
  BY <1>9, <1>16, <1>11
<1>18. ASSUME NEW i \in 1 .. Len(wire')
       PROVE  /\ wire'[i].k = "byte" <=> i \in q + 1 .. q + m
              /\ wire'[i].k = "read" => i = q
  <2>1. CASE i \in 1 .. q - 1
    BY <1>9, <1>15, <1>17, <2>1
  <2>2. CASE i = q
    BY <1>9, <1>13, <1>15, <2>2
  <2>3. CASE i \in q + 1 .. q + m
    <3>1. i - q \in 1 .. m /\ i = q + (i - q)
      BY <1>9, <1>15, <2>3
    <3>. QED BY <1>12, <2>3, <3>1
  <2>4. CASE i = q + m + 1
    BY <1>9, <1>14, <1>15, <2>4
  <2>5. i \in 1 .. q - 1 \/ i = q \/ i \in q + 1 .. q + m \/ i = q + m + 1
    BY <1>9, <1>15
  <2>. QED BY <2>1, <2>2, <2>3, <2>4, <2>5
<1>19. OnLine(q, m)'
  <2>1. q + m <= Len(wire')
    BY <1>9, <1>15
  <2>. QED BY <1>8, <1>10, <1>12, <1>18, <2>1 DEF OnLine
<1>20. Placed(q, m)'
  BY <1>4, <1>8, <1>13, <1>15, <1>18 DEF Placed
<1>21. \E r, k \in Nat : OnLine(r, k)' /\ Rest(k)' /\ Placed(r, k)'
  BY <1>9, <1>10, <1>15, <1>19, <1>20
<1>. QED BY <1>4, <1>21 DEF Whole

LEMMA WholeModem ==
  ASSUME TypeOK, WireInv, ClosedInv, InTime, Whole, ret' # "gone", ~AnswerRead,
         Modem \/ Arrive \/ RemoteClose
  PROVE  Whole'
<1>1. PICK p \in Nat, n \in Nat : OnLine(p, n) /\ Rest(n) /\ Placed(p, n)
  BY DEF Whole
<1>2. /\ \A i \in 1 .. Len(wire) : wire'[i] = wire[i]
      /\ Len(wire) \in Nat /\ Len(wire') \in Nat /\ Len(wire') >= Len(wire)
      /\ UNCHANGED <<pc, ret, left, rx, got>>
  BY LineKept
<1>3. \A i \in 1 .. Len(wire') : i > Len(wire) => wire'[i].k \notin {"byte", "read"}
  BY OnlyText
<1>4. OnLine(p, n)'
  <2>1. \A i \in 1 .. Len(wire') : i > Len(wire) => wire'[i].k # "byte"
    BY <1>3
  <2>. QED BY <1>1, <1>2, <2>1, LineGrows
<1>5. Rest(n)'
  <2>1. ~ReadByte /\ ~Deliver
    <3>1. wire \in Seq(Token)
      BY DEF TypeOK
    <3>2. ~ReadByte
      BY <1>2, <3>1, Taken DEF ReadByte, Take
    <3>3. ~Deliver
      BY <1>2 DEF Deliver
    <3>. QED BY <3>2, <3>3
  <2>2. UNCHANGED <<got, rx, unread, sent>> \/ Arrive
    BY <2>1, BytesKept
  <2>. QED BY <1>1, <2>2, RestArrive DEF Rest
<1>6. Placed(p, n)'
  <2>1. ASSUME pc = "readWait"
        PROVE  /\ \A i \in 1 .. Len(wire') : wire'[i].k = "read" => i = p /\ wire'[i].n = n
               /\ n > 0 => p >= 1 /\ wire'[p].k = "read"
    <3>1. \A i \in 1 .. Len(wire') : i > Len(wire) \/ i \in 1 .. Len(wire)
      BY <1>2
    <3>2. p >= 1 => p \in 1 .. Len(wire)
      BY <1>1, <1>2 DEF OnLine
    <3>. QED BY <1>1, <1>2, <1>3, <2>1, <3>1, <3>2 DEF Placed
  <2>. QED BY <1>1, <1>2, <2>1 DEF Placed
<1>7. pc' \in {"readBytes", "readOk"} => cmds' = <<>>
  BY <1>2 DEF Whole, Modem, Answer, AnswerRead, AnswerClose, AnswerStart, Arrive, RemoteClose
<1>. QED BY <1>1, <1>4, <1>5, <1>6, <1>7 DEF Whole

(* modemRead finds its answer.                                               *)
LEMMA WholeReadAnswer ==
  ASSUME TypeOK, WireInv, ClosedInv, InTime, Whole, ret' # "gone", ~crossed', ReadAnswer
  PROVE  Whole'
<1>1. PICK p \in Nat, n \in Nat : OnLine(p, n) /\ Rest(n) /\ Placed(p, n)
  BY DEF Whole
<1>2. /\ pc = "readWait" /\ TakesOne /\ Head(wire).k \in {"avail", "read", "error"}
      /\ left' = IF Head(wire).k \in {"read", "avail"} THEN Head(wire).n ELSE 0
      /\ pc' = CASE Head(wire).k = "read"   -> "readBytes"
                 [] Head(wire).k = "avail"  -> "readSkip"
                 [] Head(wire).k = "notice" -> "readNotice"
                 [] OTHER          -> "test"
      /\ UNCHANGED <<got, rx, unread, sent, cmds>>
  BY DEF ReadAnswer, Hit, Take, TakesOne, Awaited, modemVars
<1>3. /\ 1 \in 1 .. Len(wire) /\ Head(wire) = wire[1] /\ Len(wire') = Len(wire) - 1
      /\ Len(wire) \in Nat
      /\ \A i \in 1 .. Len(wire') : wire'[i] = wire[i + 1]
  BY <1>2, Taken, Lengths DEF TakesOne, TypeOK
<1>4. /\ wire[1].k \in Unasked \union Reply["read"]
      /\ \A j \in 1 .. Len(wire) : 1 < j /\ wire[1].k \in Final["read"] => wire[j].k \in Unasked
  BY <1>2, <1>3 DEF WireInv, Awaiting, CommandOf
<1>5. wire[1].k \in {"read", "error"}
  BY <1>2, <1>3, <1>4 DEF Reply, Unasked
<1>6. Rest(n)'
  BY <1>1, <1>2 DEF Rest
<1>7. CASE wire[1].k = "read"
  <2>1. p = 1 /\ n = wire[1].n
    BY <1>1, <1>2, <1>3, <1>7 DEF Placed
  <2>2. OnLine(0, n)'
    <3>1. OnLine(p - 1, n)' /\ p - 1 = 0
      BY <1>1, <1>2, <2>1, LineTaken
    <3>. QED BY <3>1
  <2>3. pc' = "readBytes" /\ left' = n
    BY <1>2, <1>3, <1>7, <2>1
  <2>4. Placed(0, n)'
    BY <2>3 DEF Placed
  <2>5. cmds = <<>>
    <3>1. ~Notices(wire)
      BY <1>3, <1>7 DEF Notices, Unasked
    <3>. QED BY <1>2, <3>1 DEF WireInv
  <2>. QED BY <1>1, <1>2, <1>6, <2>2, <2>4, <2>5 DEF Whole
<1>8. CASE wire[1].k = "error"
  <2>1. \A j \in 1 .. Len(wire) : wire[j].k # "byte" /\ wire[j].k # "read"
    <3>1. \A j \in 1 .. Len(wire) : j = 1 \/ 1 < j
      BY <1>3
    <3>. QED BY <1>4, <1>8, <3>1 DEF Final, Unasked
  <2>2. \A j \in 1 .. Len(wire') : wire'[j].k # "byte"
    <3>1. \A j \in 1 .. Len(wire') : j + 1 \in 1 .. Len(wire)
      BY <1>3
    <3>. QED BY <1>3, <2>1, <3>1
  <2>3. n = 0
    <3>1. n > 0 => p + 1 \in 1 .. Len(wire) /\ p + 1 \in p + 1 .. p + n
      BY <1>1, Lengths DEF OnLine
    <3>. QED BY <1>1, <2>1, <3>1 DEF OnLine
  <2>4. OnLine(0, 0)'
    <3>1. 0 + 1 .. 0 + 0 = {} /\ 1 .. 0 = {} /\ 0 + 0 <= Len(wire')
      BY <1>3
    <3>. QED BY <2>2, <3>1 DEF OnLine
  <2>5. pc' = "test"
    BY <1>2, <1>3, <1>8
  <2>6. Placed(0, 0)'
    BY <2>5 DEF Placed
  <2>. QED BY <1>6, <2>3, <2>4, <2>5, <2>6 DEF Whole
<1>. QED BY <1>5, <1>7, <1>8

LEMMA WholeReadByte ==
  ASSUME TypeOK, RingInv, Whole, ReadByte
  PROVE  Whole'
<1>1. PICK p \in Nat, n \in Nat : OnLine(p, n) /\ Rest(n) /\ Placed(p, n)
  BY DEF Whole
<1>2. /\ pc = "readBytes" /\ left > 0 /\ TakesOne /\ left' = left - 1 /\ UNCHANGED <<pc, cmds>>
  BY DEF ReadByte, Take, TakesOne
<1>3. p = 0 /\ n = left /\ n > 0
  BY <1>1, <1>2 DEF Placed
<1>4. Len(rx) < Cap
  <2>1. Len(rx) + left <= Cap
    BY <1>2 DEF RingInv
  <2>. QED BY <1>2, <2>1, Lengths
<1>5. Byte = Len(got) + Len(rx) + 1
  BY <1>1, <1>2, <1>3, LineByte
<1>6. Rest(n - 1)' /\ Len(got') + Len(rx') = Len(got) + Len(rx) + 1
  BY <1>1, <1>3, <1>4, <1>5, RestByte
<1>7. OnLine(0, n - 1)'
  BY <1>1, <1>2, <1>3, <1>6, LineByte
<1>8. Placed(0, n - 1)' /\ n - 1 \in Nat
  BY <1>2, <1>3 DEF Placed
<1>9. pc' \in {"readBytes", "readOk"} => cmds' = <<>>
  BY <1>2 DEF Whole
<1>. QED BY <1>6, <1>7, <1>8, <1>9 DEF Whole

(* Elsewhere no byte is on the line, but for the answer that is awaited.     *)
LEMMA WholeElsewhere ==
  ASSUME TypeOK, WireInv, RingInv, ClosedInv, InTime, Whole, ~crossed, ret' # "gone",
         ~(Modem \/ Arrive \/ RemoteClose), ~ReadByte, Elsewhere
  PROVE  Whole'
<1>1. PICK p \in Nat, n \in Nat : OnLine(p, n) /\ Rest(n) /\ Placed(p, n)
  BY DEF Whole
<1>2. Rest(n)' /\ Len(got') + Len(rx') = Len(got) + Len(rx)
  <2>1. UNCHANGED <<got, rx, unread, sent>> \/ Deliver
    BY BytesKept DEF Modem
  <2>. QED BY <1>1, <2>1, RestDeliver DEF Rest
<1>3. pc' # "readBytes"
  BY DEF Elsewhere, RingInv
<1>4. pc' \in {"readBytes", "readOk"} => cmds' = <<>>
  BY <1>3 DEF Elsewhere, Whole
<1>5. wire \in Seq(Token) /\ Len(wire) \in Nat
  BY DEF TypeOK
<1>6. TakesOne => /\ Len(wire') = Len(wire) - 1 /\ Len(wire) >= 1 /\ Head(wire) = wire[1]
                  /\ \A i \in 1 .. Len(wire') : wire'[i] = wire[i + 1]
  BY <1>5, Taken DEF TakesOne
(* The answer to the read is still to be found.                              *)
<1>7. CASE pc = "readWait" /\ pc' = "readWait"
  <2>1. TakesOne /\ wire[1].k # "read"
    BY <1>6, <1>7 DEF Elsewhere
  <2>2. \A i \in 1 .. Len(wire) : wire[i].k = "read" => i = p /\ wire[i].n = n
    BY <1>1, <1>7 DEF Placed
  <2>3. n > 0 => p >= 1 /\ wire[p].k = "read"
    BY <1>1, <1>7 DEF Placed
  <2>4. \A i \in 1 .. Len(wire') : i + 1 \in 1 .. Len(wire)
    BY <1>5, <1>6, <2>1
  <2>5. CASE p >= 1
    <3>1. OnLine(p - 1, n)' /\ p - 1 \in Nat
      BY <1>1, <1>2, <2>1, <2>5, LineTaken
    <3>2. \A i \in 1 .. Len(wire') : wire'[i].k = "read" => i = p - 1 /\ wire'[i].n = n
      <4>1. \A i \in 1 .. Len(wire') : i + 1 = p => i = p - 1
        BY <1>5, <1>6, <2>1
      <4>. QED BY <1>6, <2>1, <2>2, <2>4, <4>1
    <3>3. ASSUME n > 0 PROVE p - 1 >= 1 /\ wire'[p - 1].k = "read"
      <4>1. p # 1
        BY <2>1, <2>3, <3>3
      <4>2. p <= Len(wire)
        BY <1>1, <1>5 DEF OnLine
      <4>3. p - 1 \in 1 .. Len(wire') /\ (p - 1) + 1 = p
        BY <1>5, <1>6, <2>1, <2>5, <4>1, <4>2
      <4>. QED BY <1>6, <2>1, <2>3, <3>3, <4>3
    <3>4. Placed(p - 1, n)'
      BY <1>7, <3>2, <3>3 DEF Placed
    <3>. QED BY <1>2, <1>4, <3>1, <3>4 DEF Whole
  <2>6. CASE ~(p >= 1)
    <3>1. n = 0
      BY <2>3, <2>6
    <3>2. \A i \in 1 .. Len(wire) : wire[i].k \notin {"byte", "read"}
      <4>1. \A i \in 1 .. Len(wire) : i # p /\ i \notin p + 1 .. p + 0
        BY <1>5, <2>6
      <4>. QED BY <1>1, <2>2, <3>1, <4>1 DEF OnLine
    <3>3. \A i \in 1 .. Len(wire') : wire'[i].k \notin {"byte", "read"}
      BY <1>6, <2>1, <2>4, <3>2
    <3>4. OnLine(0, 0)'
      <4>1. 0 + 1 .. 0 + 0 = {} /\ 1 .. 0 = {} /\ 0 + 0 <= Len(wire')
        BY <1>5, <1>6, <2>1
      <4>. QED BY <3>3, <4>1 DEF OnLine
    <3>5. Placed(0, 0)'
      BY <1>7, <3>3 DEF Placed
    <3>. QED BY <1>2, <1>4, <3>1, <3>4, <3>5 DEF Whole
  <2>. QED BY <2>5, <2>6
<1>8. CASE ~(pc = "readWait" /\ pc' = "readWait")
  <2>1. n = 0
    <3>1. CASE pc = "readWait"
      <4>1. Len(wire) = 0
        BY <1>8, <3>1 DEF Elsewhere
      <4>. QED BY <1>1, <4>1 DEF OnLine
    <3>2. CASE pc = "readBytes"
      BY <1>1, <3>2 DEF Elsewhere, Placed
    <3>3. CASE pc \notin {"readWait", "readBytes"}
      BY <1>1, <3>3 DEF Placed
    <3>. QED BY <3>1, <3>2, <3>3
  <2>2. \A i \in 1 .. Len(wire) : wire[i].k # "byte"
    <3>1. \A i \in 1 .. Len(wire) : i \notin p + 1 .. p + 0
      BY <1>5
    <3>. QED BY <1>1, <2>1, <3>1 DEF OnLine
  <2>3. Len(wire') \in Nat /\ \A i \in 1 .. Len(wire') : wire'[i].k # "byte"
    <3>1. CASE UNCHANGED wire
      BY <1>5, <2>2, <3>1
    <3>2. CASE TakesOne
      <4>1. \A i \in 1 .. Len(wire') : i + 1 \in 1 .. Len(wire)
        BY <1>5, <1>6, <3>2
      <4>. QED BY <1>5, <1>6, <2>2, <3>2, <4>1
    <3>. QED BY <3>1, <3>2 DEF Elsewhere
  <2>4. OnLine(0, 0)'
    <3>1. 0 + 1 .. 0 + 0 = {} /\ 1 .. 0 = {} /\ 0 + 0 <= Len(wire')
      BY <2>3
    <3>. QED BY <2>3, <3>1 DEF OnLine
  <2>5. ASSUME pc' = "readWait" PROVE \A i \in 1 .. Len(wire') : wire'[i].k # "read"
    <3>1. pc = "fetch" /\ UNCHANGED wire
      BY <1>8, <2>5 DEF Elsewhere
    <3>2. Notices(wire)
      BY <3>1, TalkTables DEF WireInv
    <3>. QED BY <3>1, <3>2 DEF Notices, Unasked
  <2>6. Placed(0, 0)'
    BY <1>3, <2>5 DEF Placed
  <2>. QED BY <1>2, <1>4, <2>1, <2>4, <2>6 DEF Whole
<1>. QED BY <1>7, <1>8

LEMMA WholeStep ==
  ASSUME TypeOK, WireInv, RingInv, ClosedInv, InTime, Whole,
         ~crossed, ~crossed', ret' # "gone"
  PROVE  Whole'
<1>1. CASE UNCHANGED vars
  <2>1. UNCHANGED <<pc, left, cmds, wire, got, rx, unread, sent>>
    BY <1>1 DEF vars, taskVars, sockVars, modemVars, histVars
  <2>2. ASSUME NEW p \in Nat, NEW n \in Nat PROVE OnLine(p, n) => OnLine(p, n)'
    BY <2>1 DEF OnLine
  <2>3. ASSUME NEW p \in Nat, NEW n \in Nat PROVE Rest(n) => Rest(n)'
    BY <2>1 DEF Rest
  <2>4. ASSUME NEW p \in Nat, NEW n \in Nat PROVE Placed(p, n) => Placed(p, n)'
    BY <2>1 DEF Placed
  <2>. QED BY <2>1, <2>2, <2>3, <2>4 DEF Whole
<1>2. CASE Modem \/ Arrive \/ RemoteClose
  BY <1>2, WholeAnswerRead, WholeModem
<1>3. CASE ReadAnswer
  BY <1>3, WholeReadAnswer
<1>4. CASE ReadByte
  BY <1>4, WholeReadByte
<1>5. CASE Elsewhere
  BY <1>2, <1>4, <1>5, WholeElsewhere
<1>. QED BY <1>1, <1>2, <1>3, <1>4, <1>5, WhereBytes

LEMMA LostStep ==
  ASSUME TypeOK, AnswerInv, LostInv, [Next]_vars
  PROVE  LostInv'
<1> SUFFICES ASSUME late' = 0
             PROVE  ClosedInv' /\ (~crossed' /\ ret' # "gone" => Whole')
  BY DEF LostInv
<1>1. InTime /\ WireInv /\ RingInv /\ ClosedInv /\ (~crossed /\ ret # "gone" => Whole)
  BY NoneLate DEF AnswerInv, LostInv
<1>2. ClosedInv' /\ (ret = "gone" => ret' = "gone") /\ (crossed => crossed')
  BY <1>1, ClosedStep
<1>. QED BY <1>1, <1>2, WholeStep

LEMMA LostInit == Init => LostInv
<1> SUFFICES ASSUME Init PROVE ClosedInv /\ Whole
  BY DEF LostInv
<1>1. ClosedInv
  BY DEF Init, ClosedInv, Unopened, MaintainPlaces
<1>2. /\ pc = "idle" /\ wire = <<>> /\ got = <<>> /\ rx = <<>> /\ unread = <<>> /\ sent = 0
      /\ Len(wire) = 0 /\ Len(got) = 0 /\ Len(rx) = 0 /\ Len(unread) = 0
  BY DEF Init
<1>3. OnLine(0, 0) /\ Rest(0) /\ Placed(0, 0)
  BY <1>2 DEF OnLine, Rest, Placed
<1>. QED BY <1>1, <1>2, <1>3 DEF Whole

(* A sequence of numbers continued.                                          *)
LEMMA Continued ==
  ASSUME NEW s \in Seq(Nat), NEW t \in Seq(Nat),
         \A i \in 1 .. Len(s) : s[i] = i,
         \A i \in 1 .. Len(t) : t[i] = Len(s) + i
  PROVE  /\ s \o t \in Seq(Nat) /\ Len(s \o t) = Len(s) + Len(t)
         /\ \A i \in 1 .. Len(s \o t) : (s \o t)[i] = i
<1>1. s \o t \in Seq(Nat) /\ Len(s \o t) = Len(s) + Len(t)
  OBVIOUS
<1>2. \A i \in 1 .. Len(s) : (s \o t)[i] = s[i]
  OBVIOUS
<1>3. \A i \in 1 .. Len(t) : (s \o t)[Len(s) + i] = t[i]
  OBVIOUS
<1>4. Len(s) \in Nat /\ Len(t) \in Nat
  OBVIOUS
<1> DEFINE v == s \o t
<1> HIDE DEF v
<1>5. ASSUME NEW i \in 1 .. Len(s) + Len(t) PROVE v[i] = i
  <2>1. CASE i \in 1 .. Len(s)
    BY <1>2, <2>1 DEF v
  <2>2. CASE i \notin 1 .. Len(s)
    <3>1. i - Len(s) \in 1 .. Len(t) /\ Len(s) + (i - Len(s)) = i
      BY <1>4, <2>2
    <3>2. v[Len(s) + (i - Len(s))] = t[i - Len(s)]
      BY <1>3, <3>1 DEF v
    <3>3. t[i - Len(s)] = Len(s) + (i - Len(s))
      BY <3>1
    <3>. QED BY <3>1, <3>2, <3>3
  <2>. QED BY <2>1, <2>2
<1>. QED BY <1>1, <1>5 DEF v

LEMMA WholeIsAll ==
  ASSUME TypeOK, NEW p \in Nat, NEW n \in Nat, OnLine(p, n), Rest(n)
  PROVE  got \o rx \o [i \in 1 .. n |-> wire[p + i].n] \o unread = [i \in 1 .. sent |-> i]
<1> DEFINE w == [i \in 1 .. n |-> wire[p + i].n]
<1>1. got \in Seq(Nat) /\ rx \in Seq(Nat) /\ unread \in Seq(Nat)
  <2>1. unread \in Seq(1 .. MaxBytes) /\ 1 .. MaxBytes \subseteq Nat
    BY DEF TypeOK
  <2>2. unread \in Seq(Nat)
    BY <2>1
  <2>. QED BY <2>2 DEF TypeOK
<1>2. w \in Seq(Nat) /\ Len(w) = n /\ \A i \in 1 .. Len(w) : w[i] = Len(got) + Len(rx) + i
  <2>1. \A i \in 1 .. n : wire[p + i].n = Len(got) + Len(rx) + i
    BY DEF OnLine
  <2>2. \A i \in 1 .. n : wire[p + i].n \in Nat
    <3>1. \A i \in 1 .. n : Len(got) + Len(rx) + i \in Nat
      BY Lengths
    <3>. QED BY <2>1, <3>1
  <2>3. w \in [1 .. n -> Nat]
    BY <2>2
  <2>4. w \in Seq(Nat) /\ Len(w) = n
    BY <2>3
  <2>. QED BY <2>1, <2>4
<1> HIDE DEF w
<1> DEFINE u == got \o rx
           v == u \o w
           x == v \o unread
<1>3. /\ u \in Seq(Nat) /\ Len(u) = Len(got) + Len(rx)
      /\ \A i \in 1 .. Len(u) : u[i] = i
  BY <1>1, Continued DEF Rest
<1> HIDE DEF u
<1>4. \A i \in 1 .. Len(w) : w[i] = Len(u) + i
  BY <1>2, <1>3
<1>5. /\ v \in Seq(Nat) /\ Len(v) = Len(u) + Len(w)
      /\ \A i \in 1 .. Len(v) : v[i] = i
  BY <1>2, <1>3, <1>4, Continued
<1> HIDE DEF v
<1>6. Len(v) = Len(got) + Len(rx) + n
  BY <1>2, <1>3, <1>5
<1>7. \A i \in 1 .. Len(unread) : unread[i] = Len(v) + i
  BY <1>6 DEF Rest
<1>8. /\ x \in Seq(Nat) /\ Len(x) = Len(v) + Len(unread)
      /\ \A i \in 1 .. Len(x) : x[i] = i
  BY <1>1, <1>5, <1>7, Continued
<1> HIDE DEF x
<1>9. Len(x) = sent
  BY <1>6, <1>8 DEF Rest
<1>10. x = [i \in 1 .. Len(x) |-> x[i]]
  BY <1>8
<1>11. x = [i \in 1 .. sent |-> i]
  BY <1>8, <1>9, <1>10
<1>. QED BY <1>11 DEF x, v, u, w

(* While no answer is late and none is preceded by a notice, every byte the  *)
(* server has sent is handed out, in the ring, on the line or in the modem.  *)
THEOREM NothingIsLost == Spec => []NothingLost
<1>1. TypeOK /\ LostInv => NothingLost
  <2> SUFFICES ASSUME TypeOK, LostInv, late = 0, ~crossed, ret # "gone"
               PROVE  \E p, n \in 0 .. Len(wire) :
                        /\ p + n <= Len(wire)
                        /\ \A i \in 1 .. Len(wire) : wire[i].k = "byte" <=> i \in p + 1 .. p + n
                        /\ got \o rx \o [i \in 1 .. n |-> wire[p + i].n] \o unread
                              = [i \in 1 .. sent |-> i]
    BY DEF NothingLost
  <2>1. PICK p \in Nat, n \in Nat : OnLine(p, n) /\ Rest(n)
    BY DEF LostInv, Whole
  <2>2. p \in 0 .. Len(wire) /\ n \in 0 .. Len(wire)
    BY <2>1, Lengths DEF OnLine
  <2>3. /\ p + n <= Len(wire)
        /\ \A i \in 1 .. Len(wire) : wire[i].k = "byte" <=> i \in p + 1 .. p + n
    BY <2>1 DEF OnLine
  <2>4. got \o rx \o [i \in 1 .. n |-> wire[p + i].n] \o unread = [i \in 1 .. sent |-> i]
    BY <2>1, WholeIsAll
  <2>. QED BY <2>2, <2>3, <2>4
<1>. QED
  BY <1>1, AnswerInit, AnswerStep, LostInit, LostStep, TypeCorrect, PTL DEF Spec

=============================================================================
