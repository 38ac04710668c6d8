------------------------ MODULE ModemDrivers_proofs -------------------------
(***************************************************************************)
(* Proofs about the drivers of the modem together, and about the two of     *)
(* them, HttpSession and BringUp, that have no proofs of their own, for any *)
(* number of records, faults, unsolicited lines and late answers.           *)
(***************************************************************************)
EXTENDS ModemDrivers, GsmSocket_proofs

-----------------------------------------------------------------------------
(* HttpSession: what a line read, or a time-out, does.                      *)

StepNames == {"term", "init", "cid", "content", "url", "data", "body", "action"}

LEMMA Sequence ==
  /\ DOMAIN Following = StepNames
  /\ \A s \in StepNames : Following[s] \in Steps
  /\ Following["term"] = "init" /\ Following["init"] = "cid"
  /\ Following["cid"] = (IF job \in Gets THEN "url" ELSE "content")
  /\ Following["content"] = "url"
  /\ Following["url"] = (IF job \in Gets THEN "action" ELSE "data")
  /\ Following["data"] = "body" /\ Following["body"] = "action"
  /\ Following["action"] = "scan"
  BY DEF Following, StepNames, Steps

(* What HTTP_post and HTTP_get return decides how the call goes on.         *)
LEMMA Returns ==
  ASSUME NEW s, Returned(s), again \in BOOLEAN
  PROVE  /\ step' \in {"term", "restart", "idle", "read"} /\ Goto(step')
         /\ again' \in BOOLEAN
         /\ s \in {"200", "lesser"} => again' = again
         /\ s = "200" /\ ~again => step' = IF job = Poll THEN "idle" ELSE "read"
         /\ s = "200" => step' # "restart"
         /\ s \in {"lesser", "critical"} /\ job \notin Gets => step' # "read"
  BY DEF Returned, Goto, Gets

(* The cases of Outcome.                                                    *)
OnTo(l) ==
  /\ step \in StepNames /\ (step = "term" \/ Matches(l))
  /\ Goto(Following[step]) /\ UNCHANGED <<again, buffer, accepted>>
Fails(l) ==
  /\ step \in StepNames /\ step # "term" /\ ~Matches(l)
  /\ Returned(IF step = "data" THEN "lesser" ELSE "critical")
  /\ UNCHANGED <<buffer, accepted>>
Scanned(l) ==
  /\ step = "scan" /\ Matches(l) /\ Returned(l.says) /\ UNCHANGED <<buffer, accepted>>
NotScanned(l) ==
  /\ step = "scan" /\ ~Matches(l) /\ UNCHANGED <<buffer, accepted>>
  /\ \/ job \in Gets /\ \E s \in {"200", "37", "lesser", "critical"} : Returned(s)
     \/ job \notin Gets /\ Goto("scan") /\ UNCHANGED again
PageRead(l) ==
  /\ step = "read" /\ Matches(l) /\ l.says # "huge" /\ Goto("readOk")
  /\ buffer' = [of |-> l.of, says |-> l.says] /\ UNCHANGED <<again, accepted>>
NoPageRead(l) ==
  /\ step = "read" /\ ~(Matches(l) /\ l.says # "huge")
  /\ Goto("restart") \/ (~Matches(l) /\ Goto("readOk"))
  /\ UNCHANGED <<buffer, again, accepted>>
Ends ==
  /\ step \notin StepNames \union {"scan", "read"} /\ Goto("idle")
  /\ UNCHANGED <<again, buffer>>
  /\ accepted' = IF buffer.says = "good" /\ buffer.of \in Records /\ job \in Records
                 THEN accepted \union {job} ELSE accepted

LEMMA Outcomes ==
  ASSUME NEW l, Outcome(l)
  PROVE  \/ OnTo(l) \/ Fails(l) \/ Scanned(l) \/ NotScanned(l)
         \/ PageRead(l) \/ NoPageRead(l) \/ Ends
<1> USE Sequence DEF Outcome
<1>1. CASE step \in StepNames
  <2>1. /\ IF step = "term" \/ Matches(l)
           THEN Goto(Following[step]) /\ UNCHANGED again
           ELSE Returned(IF step = "data" THEN "lesser" ELSE "critical")
        /\ UNCHANGED <<buffer, accepted>>
    BY <1>1 DEF StepNames
  <2>. QED BY <1>1, <2>1 DEF OnTo, Fails
<1>2. CASE step = "scan"
  <2>1. /\ IF Matches(l) THEN Returned(l.says)
           ELSE IF job \in Gets
                THEN \E s \in {"200", "37", "lesser", "critical"} : Returned(s)
                ELSE Goto("scan") /\ UNCHANGED again
        /\ UNCHANGED <<buffer, accepted>>
    BY <1>2 DEF StepNames
  <2>. QED BY <1>2, <2>1 DEF Scanned, NotScanned
<1>3. CASE step = "read"
  <2>1. /\ IF Matches(l) /\ l.says # "huge"
           THEN Goto("readOk") /\ buffer' = [of |-> l.of, says |-> l.says]
           ELSE /\ UNCHANGED buffer
                /\ Goto("restart") \/ (~Matches(l) /\ Goto("readOk"))
        /\ UNCHANGED <<again, accepted>>
    BY <1>3 DEF StepNames
  <2>. QED BY <1>3, <2>1 DEF PageRead, NoPageRead
<1>4. CASE step \notin StepNames \union {"scan", "read"}
  BY <1>4 DEF Ends
<1>. QED BY <1>1, <1>2, <1>3, <1>4

(* Lines and commands.                                                      *)
LEMMA LineFields ==
  /\ \A k \in {"urc", "ok", "error", "download"} :
       Plain(k) \in Lines /\ Plain(k).k = k /\ Plain(k).of = None /\ Plain(k).says = "none"
  /\ \A of \in 0 .. Junk, s \in {"200", "lesser", "critical"} :
       /\ Line("action", of, s) \in Lines /\ Line("action", of, s).k = "action"
       /\ Line("action", of, s).of = of /\ Line("action", of, s).says = s
  /\ \A of \in 0 .. Junk, s \in {"none", "good", "bad", "huge"} :
       /\ Line("read", of, s) \in Lines /\ Line("read", of, s).k = "read"
       /\ Line("read", of, s).of = of /\ Line("read", of, s).says = s
  /\ \A l \in Lines : /\ l.of \in 0 .. Junk
                      /\ l.k = "read" => [of |-> l.of, says |-> l.says] \in Pages
                      /\ l.k = "action" => l.says \in {"200", "lesser", "critical"}
  BY HttpAssumption DEF Plain, Line, Lines, None, Junk, Records, Pages

LEMMA Numbers ==
  /\ None \in 0 .. Junk /\ Junk \in 0 .. Junk /\ Requests \subseteq 0 .. Junk
  /\ Records \subseteq Requests /\ Gets \subseteq Requests /\ None \notin Requests
  /\ Junk \notin Requests /\ Records \intersect Gets = {} /\ NoPage \in Pages
  BY HttpAssumption DEF None, Junk, Requests, Records, Gets, Time, Poll, NoPage, Pages

(* Where the driver is after each step.                                     *)
DriverType ==
  /\ job \in Requests \union {None} /\ step \in Steps
  /\ waiting \in BOOLEAN /\ lines \in 0 .. MaxLines - 1 /\ again \in BOOLEAN
  /\ buffer \in Pages /\ accepted \subseteq Records

LEMMA GotoType ==
  ASSUME NEW s \in Steps, Goto(s)
  PROVE  step' \in Steps /\ waiting' \in BOOLEAN /\ lines' \in 0 .. MaxLines - 1
  BY HttpAssumption DEF Goto

LEMMA OutcomeType ==
  ASSUME HttpTypeOK, NEW l, l.k = "read" => [of |-> l.of, says |-> l.says] \in Pages,
         Outcome(l), job' = job
  PROVE  DriverType'
<1> USE DEF HttpTypeOK, DriverType
<1>0. {"term", "restart", "idle", "read", "readOk", "scan"} \subseteq Steps
  BY DEF Steps
<1>1. CASE OnTo(l)
  BY <1>1, Sequence, GotoType DEF OnTo
<1>2. ASSUME NEW s, Returned(s) PROVE step' \in Steps /\ Goto(step') /\ again' \in BOOLEAN
  BY <1>0, <1>2, Returns
<1>3. CASE Fails(l)
  BY <1>2, <1>3, GotoType DEF Fails
<1>4. CASE Scanned(l)
  BY <1>2, <1>4, GotoType DEF Scanned
<1>5. CASE NotScanned(l)
  BY <1>0, <1>2, <1>5, GotoType DEF NotScanned
<1>6. CASE PageRead(l)
  BY <1>0, <1>6, GotoType DEF PageRead, Matches, StepNames, Following
<1>7. CASE NoPageRead(l)
  BY <1>0, <1>7, GotoType DEF NoPageRead
<1>8. CASE Ends
  <2>1. accepted' \subseteq Records
    BY <1>8 DEF Ends
  <2>. QED BY <1>0, <1>8, <2>1, GotoType DEF Ends
<1>. QED BY <1>1, <1>3, <1>4, <1>5, <1>6, <1>7, <1>8, Outcomes

(* What ReadLine leaves of the lines that have arrived.                     *)
LEMMA Cut ==
  ASSUME NEW S, NEW s \in Seq(S), NEW m \in 1 .. Len(s), NEW n \in 1 .. Len(s)
  PROVE  /\ SubSeq(s, m + 1, n) \in Seq(S)
         /\ Len(SubSeq(s, m + 1, n)) = IF m + 1 <= n THEN n - m ELSE 0
         /\ \A i \in 1 .. Len(SubSeq(s, m + 1, n)) :
              /\ SubSeq(s, m + 1, n)[i] = s[m + i]
              /\ m + i \in 2 .. n
  OBVIOUS

(* What a step does to the lines that have arrived.                         *)
InputShape ==
  \/ input' = input \/ input' = <<>>
  \/ \E l \in Lines : input' = Append(input, l)
  \/ \E l, r \in Lines : input' = input \o <<l, r>>
  \/ input # <<>> /\ input' = Tail(input)
  \/ \E m, n \in 1 .. Len(input) : input' = SubSeq(input, m + 1, n)

LEMMA InputType == input \in Seq(Lines) /\ InputShape => input' \in Seq(Lines)
<1> SUFFICES ASSUME input \in Seq(Lines), InputShape PROVE input' \in Seq(Lines)
  OBVIOUS
<1>1. CASE \E l, r \in Lines : input' = input \o <<l, r>>
  BY <1>1
<1>2. CASE \E m, n \in 1 .. Len(input) : input' = SubSeq(input, m + 1, n)
  BY <1>2, Cut
<1>3. CASE \E l \in Lines : input' = Append(input, l)
  BY <1>3
<1>4. CASE input # <<>> /\ input' = Tail(input)
  BY <1>4
<1>5. CASE input' = input \/ input' = <<>>
  <2>1. <<>> \in Seq(Lines)
    OBVIOUS
  <2>. QED BY <1>5, <2>1
<1>. QED BY <1>1, <1>2, <1>3, <1>4, <1>5 DEF InputShape

(* The modem's and the server's steps leave the driver alone.               *)
ServerStep == \/ Swallow \/ DownloadEnds \/ Execute \/ Arrives \/ Answered
              \/ Unsolicited \/ Refuse \/ Unanswered

ModemType ==
  /\ service \in {"off", "on", "download"}
  /\ body \in Records \union {None, Junk} /\ acting \in 0 .. Junk /\ page \in Pages
  /\ stored \subseteq Records /\ urcs \in 0 .. MaxUrcs
  /\ overdue \in 0 .. MaxOverdue /\ wrongs \in 0 .. MaxFaults /\ lost \in BOOLEAN
  /\ overrun \in BOOLEAN /\ queue \in Seq([c : Steps, r : Requests])

(* A command carried out: the modem's answer to it.                         *)
LEMMA Executed ==
  ASSUME Execute
  PROVE  LET c == Head(queue).c
             r == Head(queue).r
         IN /\ queue # <<>> /\ queue' = Tail(queue) /\ service # "download"
            /\ UNCHANGED <<driver, stored, accepted, urcs, history>>
            /\ \/ /\ ~Can(c, r) /\ Prints(Plain("error"))
                  /\ UNCHANGED <<service, body, acting, page>>
               \/ /\ Can(c, r) /\ c \notin {"read", "data", "body"} /\ Prints(Plain("ok"))
                  /\ c = "term" => /\ service' = "off" /\ body' = None /\ acting' = None
                                   /\ page' = NoPage
                  /\ c = "init" => service' = "on" /\ UNCHANGED <<body, acting, page>>
                  /\ c = "action" => /\ acting' = IF r \in Gets THEN r ELSE body
                                     /\ UNCHANGED <<service, body, page>>
                  /\ c \notin {"term", "init", "action"} =>
                       UNCHANGED <<service, body, acting, page>>
               \/ /\ Can(c, r) /\ c = "read" /\ UNCHANGED <<service, body, acting, page>>
                  /\ input' = input \o <<Line("read", page.of, page.says), Plain("ok")>>
               \/ /\ Can(c, r) /\ c = "data" /\ service' = "download"
                  /\ Prints(Plain("download")) /\ UNCHANGED <<body, acting, page>>
               \/ /\ Can(c, r) /\ c = "body" /\ UNCHANGED <<service, body, acting, page, input>>
<1> DEFINE c == Head(queue).c
           r == Head(queue).r
<1>1. /\ queue # <<>> /\ queue' = Tail(queue) /\ service # "download"
      /\ UNCHANGED <<driver, stored, accepted, urcs, history>>
  BY DEF Execute
<1>2. CASE ~Can(c, r)
  BY <1>1, <1>2 DEF Execute
<1>3. CASE Can(c, r)
  <2>1. /\ service' = CASE c = "term" -> "off"
                        [] c = "init" -> "on"
                        [] c = "data" -> "download"
                        [] OTHER      -> service
        /\ body' = IF c = "term" THEN None ELSE body
        /\ acting' = CASE c = "term"   -> None
                       [] c = "action" -> IF r \in Gets THEN r ELSE body
                       [] OTHER        -> acting
        /\ page' = IF c = "term" THEN NoPage ELSE page
        /\ CASE c = "read" ->
                  input' = input \o <<Line("read", page.of, page.says), Plain("ok")>>
             [] c = "data" -> Prints(Plain("download"))
             [] c = "body" -> UNCHANGED input
             [] OTHER      -> Prints(Plain("ok"))
    BY <1>3 DEF Execute
  <2> HIDE DEF c, r
  <2>2. \/ /\ c \notin {"read", "data", "body"} /\ Prints(Plain("ok"))
           /\ c = "term" => /\ service' = "off" /\ body' = None /\ acting' = None
                            /\ page' = NoPage
           /\ c = "init" => service' = "on" /\ UNCHANGED <<body, acting, page>>
           /\ c = "action" => /\ acting' = IF r \in Gets THEN r ELSE body
                              /\ UNCHANGED <<service, body, page>>
           /\ c \notin {"term", "init", "action"} =>
                UNCHANGED <<service, body, acting, page>>
        \/ /\ c = "read" /\ UNCHANGED <<service, body, acting, page>>
           /\ input' = input \o <<Line("read", page.of, page.says), Plain("ok")>>
        \/ /\ c = "data" /\ service' = "download"
           /\ Prints(Plain("download")) /\ UNCHANGED <<body, acting, page>>
        \/ /\ c = "body" /\ UNCHANGED <<service, body, acting, page, input>>
    <3>1. CASE c = "term"
      BY <2>1, <3>1
    <3>2. CASE c = "init"
      BY <2>1, <3>2
    <3>3. CASE c = "action"
      BY <2>1, <3>3
    <3>4. CASE c = "read"
      BY <2>1, <3>4
    <3>5. CASE c = "data"
      BY <2>1, <3>5
    <3>6. CASE c = "body"
      BY <2>1, <3>6
    <3>7. CASE c \notin {"term", "init", "action", "read", "data", "body"}
      BY <2>1, <3>7
    <3>. QED BY <3>1, <3>2, <3>3, <3>4, <3>5, <3>6, <3>7
  <2>. QED BY <1>1, <1>3, <2>2 DEF c, r
<1>. QED BY <1>1, <1>2, <1>3

LEMMA InputShapes == HttpTypeOK /\ [HttpNext]_httpVars => InputShape
<1> SUFFICES ASSUME HttpTypeOK, [HttpNext]_httpVars PROVE InputShape
  OBVIOUS
<1> USE DEF InputShape, Prints
<1>1. \A k \in {"urc", "ok", "error", "download"} : Plain(k) \in Lines
  BY LineFields
<1>2. CASE Unsolicited \/ Refuse \/ Swallow \/ DownloadEnds
  BY <1>1, <1>2 DEF Unsolicited, Refuse, Swallow, DownloadEnds
<1>3. CASE Execute
  <2>1. Line("read", page.of, page.says) \in Lines
    <3>1. page.of \in 0 .. Junk /\ page.says \in {"none", "good", "bad", "huge"}
      BY DEF HttpTypeOK, Pages
    <3>. QED BY <3>1, LineFields
  <2>. QED BY <1>1, <1>3, <2>1, Executed
<1>4. CASE Arrives \/ Unanswered \/ Begin
  BY <1>4 DEF Arrives, Unanswered, Begin
<1>5. CASE Answered
  <2>1. \A s \in {"200", "lesser", "critical"} : Line("action", acting, s) \in Lines
    BY LineFields DEF HttpTypeOK
  <2>. QED BY <1>5, <2>1 DEF Answered
<1>6. CASE WriteCommand \/ SkipUrc \/ Restart \/ GivenUp \/ GivenUpEarly
  BY <1>6 DEF WriteCommand, SkipUrc, Restart, GivenUp, GivenUpEarly, NoLine
<1>7. CASE ReadLine
  BY <1>7 DEF ReadLine
<1>8. CASE UNCHANGED httpVars
  BY <1>8 DEF httpVars
<1>. QED BY <1>2, <1>3, <1>4, <1>5, <1>6, <1>7, <1>8 DEF HttpNext, Serve, Drive

LEMMA DriverTypeStep == HttpTypeOK /\ [HttpNext]_httpVars => DriverType'
<1> SUFFICES ASSUME HttpTypeOK, [HttpNext]_httpVars PROVE DriverType'
  OBVIOUS
<1>0. {"term", "idle"} \subseteq Steps
  BY DEF Steps
<1> USE DEF HttpTypeOK, DriverType
<1>1. CASE ServerStep \/ UNCHANGED httpVars
  <2>1. UNCHANGED <<driver, accepted>>
    <3>1. CASE Execute
      BY <3>1, Executed
    <3>2. CASE Swallow \/ DownloadEnds \/ Arrives \/ Answered
      BY <3>2 DEF Swallow, DownloadEnds, Arrives, Answered
    <3>3. CASE Unsolicited \/ Refuse \/ Unanswered \/ UNCHANGED httpVars
      BY <3>3 DEF Unsolicited, Refuse, Unanswered, httpVars
    <3>. QED BY <1>1, <3>1, <3>2, <3>3 DEF ServerStep
  <2>. QED BY <2>1 DEF driver
<1>2. CASE Begin
  BY <1>0, <1>2, GotoType, Numbers DEF Begin
<1>3. CASE Restart
  BY <1>0, <1>3, GotoType DEF Restart
<1>4. CASE WriteCommand
  BY <1>4, HttpAssumption DEF WriteCommand
<1>5. CASE SkipUrc
  BY <1>5, HttpAssumption DEF SkipUrc, LastLine
<1>6. CASE ReadLine
  <2>1. Head(input) \in Lines
    BY <1>6 DEF ReadLine
  <2>. QED BY <1>6, <2>1, OutcomeType, LineFields DEF ReadLine
<1>7. CASE GivenUp \/ GivenUpEarly
  <2>1. Outcome(Plain("none")) /\ job' = job /\ Plain("none").k # "read"
    BY <1>7 DEF GivenUp, GivenUpEarly, NoLine, Plain, Line
  <2>. QED BY <2>1, OutcomeType
<1>. QED
  BY <1>1, <1>2, <1>3, <1>4, <1>5, <1>6, <1>7 DEF HttpNext, Serve, Drive, ServerStep

(* Only posts have a body, and a call has a request.                        *)
HttpTypeInv ==
  /\ HttpTypeOK
  /\ step # "idle" => job \in Requests
  /\ step \in {"content", "data", "body"} => job \in Records
  /\ \A i \in 1 .. Len(queue) : queue[i].c = "body" => queue[i].r \in Records

(* Where Outcome leads.                                                     *)
LEMMA OutcomeStep ==
  ASSUME NEW l, Outcome(l), again \in BOOLEAN
  PROVE  \/ step \in StepNames /\ step' = Following[step] /\ UNCHANGED again
         \/ step # "idle" /\ step' \in {"term", "restart", "idle", "read", "readOk", "scan"}
         \/ step' = "idle"
<1>1. ASSUME NEW s, Returned(s) PROVE step' \in {"term", "restart", "idle", "read"}
  BY <1>1, Returns
<1>2. CASE OnTo(l)
  BY <1>2 DEF OnTo, Goto
<1>3. CASE Fails(l)
  BY <1>1, <1>3 DEF Fails, StepNames
<1>4. CASE Scanned(l) \/ NotScanned(l)
  BY <1>1, <1>4 DEF Scanned, NotScanned, Goto
<1>5. CASE PageRead(l) \/ NoPageRead(l) \/ Ends
  BY <1>5 DEF PageRead, NoPageRead, Ends, Goto
<1>. QED BY <1>2, <1>3, <1>4, <1>5, Outcomes

LEMMA StepJob ==
  ASSUME HttpTypeInv, NEW l, Outcome(l), job' = job
  PROVE  /\ step' # "idle" => job' \in Requests
         /\ step' \in {"content", "data", "body"} => job' \in Records
<1>1. /\ "idle" \notin StepNames /\ again \in BOOLEAN
      /\ job \in Requests \ Gets => job \in Records
  BY DEF StepNames, HttpTypeInv, HttpTypeOK, Requests
<1>2. \A s \in StepNames : Following[s] \in {"content", "data", "body"} =>
        \/ s \in {"cid", "url"} /\ job \notin Gets
        \/ s \in {"content", "data"}
  BY Sequence DEF StepNames
<1>. QED BY <1>1, <1>2, OutcomeStep DEF HttpTypeInv

LEMMA Commands ==
  ASSUME HttpTypeInv, queue # <<>>
  PROVE  /\ Head(queue) \in [c : Steps, r : Requests]
         /\ Tail(queue) \in Seq([c : Steps, r : Requests])
         /\ Head(queue) = queue[1] /\ 1 \in 1 .. Len(queue)
         /\ Len(Tail(queue)) = Len(queue) - 1
         /\ \A i \in 1 .. Len(Tail(queue)) :
              Tail(queue)[i] = queue[i + 1] /\ i + 1 \in 1 .. Len(queue)
<1> DEFINE S == [c : Steps, r : Requests]
<1>1. queue \in Seq(S) /\ queue # <<>>
  BY DEF HttpTypeInv, HttpTypeOK
<1> HIDE DEF S
<1>2. Head(queue) \in S /\ Head(queue) = queue[1] /\ 1 \in 1 .. Len(queue)
  BY <1>1
<1>3. Tail(queue) \in Seq(S) /\ Len(Tail(queue)) = Len(queue) - 1
  BY <1>1
<1>4. \A i \in 1 .. Len(Tail(queue)) :
        Tail(queue)[i] = queue[i + 1] /\ i + 1 \in 1 .. Len(queue)
  BY <1>1
<1>. QED BY <1>2, <1>3, <1>4 DEF S

(* The queue loses its first command, or gets the driver's.                 *)
LEMMA QueueStep ==
  ASSUME HttpTypeInv, [HttpNext]_httpVars
  PROVE  \/ queue' = queue
         \/ queue # <<>> /\ queue' = Tail(queue)
         \/ WriteCommand /\ queue' = Append(queue, [c |-> step, r |-> job])
<1>1. CASE Execute
  BY <1>1, Executed
<1>2. CASE Swallow \/ DownloadEnds \/ Arrives \/ Answered
  BY <1>2 DEF Swallow, DownloadEnds, Arrives, Answered
<1>3. CASE Unsolicited \/ Refuse \/ Unanswered \/ UNCHANGED httpVars
  BY <1>3 DEF Unsolicited, Refuse, Unanswered, httpVars
<1>4. CASE WriteCommand \/ Begin \/ Restart
  BY <1>4 DEF WriteCommand, Begin, Restart
<1>5. CASE ReadLine \/ SkipUrc \/ GivenUp \/ GivenUpEarly
  BY <1>5 DEF ReadLine, SkipUrc, GivenUp, GivenUpEarly, NoLine
<1>. QED BY <1>1, <1>2, <1>3, <1>4, <1>5 DEF HttpNext, Serve, Drive

LEMMA QueueType ==
  ASSUME HttpTypeInv, [HttpNext]_httpVars
  PROVE  /\ queue' \in Seq([c : Steps, r : Requests])
         /\ \A i \in 1 .. Len(queue') : queue'[i].c = "body" => queue'[i].r \in Records
<1> USE DEF HttpTypeInv
<1>1. CASE queue' = queue
  BY <1>1 DEF HttpTypeOK
<1>2. CASE queue # <<>> /\ queue' = Tail(queue)
  BY <1>2, Commands
<1>3. CASE WriteCommand /\ queue' = Append(queue, [c |-> step, r |-> job])
  <2> DEFINE x == [c |-> step, r |-> job]
  <2>1. step # "idle"
    BY <1>3 DEF WriteCommand, Following
  <2>2. x \in [c : Steps, r : Requests] /\ (x.c = "body" => x.r \in Records)
    BY <2>1 DEF HttpTypeOK
  <2>3. queue \in Seq([c : Steps, r : Requests])
    BY DEF HttpTypeOK
  <2> HIDE DEF x
  <2>4. /\ Append(queue, x) \in Seq([c : Steps, r : Requests])
        /\ Len(Append(queue, x)) = Len(queue) + 1
        /\ \A i \in 1 .. Len(queue) : Append(queue, x)[i] = queue[i]
        /\ Append(queue, x)[Len(queue) + 1] = x
    BY <2>2, <2>3
  <2>5. \A i \in 1 .. Len(queue) + 1 : i \in 1 .. Len(queue) \/ i = Len(queue) + 1
    BY <2>3
  <2>6. queue' = Append(queue, x)
    BY <1>3 DEF x
  <2>. QED BY <2>2, <2>4, <2>5, <2>6
<1>. QED BY <1>1, <1>2, <1>3, QueueStep

LEMMA ModemTypeStep == HttpTypeInv /\ [HttpNext]_httpVars => ModemType'
<1> SUFFICES ASSUME HttpTypeInv, HttpTypeOK, [HttpNext]_httpVars PROVE ModemType'
  BY DEF HttpTypeInv
<1>0. /\ None \in {None, Junk} /\ None \in 0 .. Junk /\ Junk \in 0 .. Junk /\ NoPage \in Pages
      /\ Requests \subseteq 0 .. Junk
  BY Numbers
<1>q. queue' \in Seq([c : Steps, r : Requests])
  BY QueueType
<1>1. CASE Execute
  <2>1. Head(queue).r \in Requests
    BY <1>1, Commands, Executed
  <2>2. body \in 0 .. Junk
    BY <1>0, HttpAssumption DEF HttpTypeOK, Records, Junk, None
  <2>3. UNCHANGED <<stored, urcs, overdue, wrongs, lost, overrun>>
    BY <1>1, Executed DEF history
  <2>4. /\ service' \in {"off", "on", "download"} /\ body' \in Records \union {None, Junk}
        /\ acting' \in 0 .. Junk /\ page' \in Pages
    BY <1>0, <1>1, <2>1, <2>2, Executed DEF Gets, HttpTypeOK
  <2>. QED BY <1>q, <2>3, <2>4 DEF HttpTypeOK, ModemType
<1> USE DEF HttpTypeOK, ModemType, modem, history
<1>2. CASE Swallow
  <2>1. body' \in Records \union {None, Junk}
    <3>1. Head(queue).c = "body" => Head(queue).r \in Records
      BY <1>2, Commands DEF Swallow, HttpTypeInv
    <3>. QED BY <1>2, <3>1 DEF Swallow
  <2>. QED BY <1>q, <1>2, <2>1 DEF Swallow
<1>3. CASE DownloadEnds
  BY <1>q, <1>3 DEF DownloadEnds
<1>4. CASE Arrives
  BY <1>q, <1>4 DEF Arrives
<1>5. CASE Answered
  <2>1. page' \in Pages /\ wrongs' \in 0 .. MaxFaults
    BY <1>5, HttpAssumption DEF Answered, Pages
  <2>. QED BY <1>0, <1>q, <1>5, <2>1 DEF Answered
<1>6. CASE Unsolicited
  BY <1>q, <1>6, HttpAssumption DEF Unsolicited
<1>7. CASE Refuse
  BY <1>q, <1>7, HttpAssumption DEF Refuse
<1>8. CASE Unanswered
  BY <1>0, <1>q, <1>8, HttpAssumption DEF Unanswered
<1>9. CASE WriteCommand
  <2>1. urcs' = urcs \/ urcs' = 0
    BY <1>9 DEF WriteCommand
  <2>2. lost' = lost \/ lost' = (lost \/ HasAction(input))
    BY <1>9 DEF WriteCommand
  <2>3. lost' \in BOOLEAN
    BY <2>2
  <2>4. overrun' \in BOOLEAN
    BY <1>9 DEF WriteCommand
  <2>. QED BY <1>q, <1>9, <2>1, <2>3, <2>4, HttpAssumption DEF WriteCommand
<1>10. CASE Begin \/ Restart \/ SkipUrc \/ UNCHANGED httpVars
  BY <1>q, <1>10 DEF Begin, Restart, SkipUrc, httpVars, HasAction
<1>11. CASE ReadLine
  BY <1>q, <1>11 DEF ReadLine, HasAction
<1>12. CASE GivenUp \/ GivenUpEarly
  BY <1>q, <1>12, HttpAssumption DEF GivenUp, GivenUpEarly, NoLine
<1>. QED
  BY <1>1, <1>2, <1>3, <1>4, <1>5, <1>6, <1>7, <1>8, <1>9, <1>10, <1>11, <1>12
  DEF HttpNext, Serve, Drive

LEMMA JobStep ==
  ASSUME HttpTypeInv, [HttpNext]_httpVars
  PROVE  /\ step' # "idle" => job' \in Requests
         /\ step' \in {"content", "data", "body"} => job' \in Records
<1> USE DEF HttpTypeInv
<1>1. CASE UNCHANGED <<job, step>>
  BY <1>1
<1>2. CASE Begin \/ Restart
  BY <1>2 DEF Begin, Restart, Goto
<1>3. CASE ReadLine \/ GivenUp \/ GivenUpEarly
  <2>1. \E l : Outcome(l) /\ job' = job
    BY <1>3 DEF ReadLine, GivenUp, GivenUpEarly, NoLine
  <2>. QED BY <2>1, StepJob
<1>4. CASE WriteCommand \/ SkipUrc \/ ServerStep \/ UNCHANGED httpVars
  <2>1. CASE Execute
    BY <1>1, <2>1, Executed DEF driver
  <2>2. CASE Swallow \/ DownloadEnds \/ Arrives \/ Answered
    BY <1>1, <2>2 DEF Swallow, DownloadEnds, Arrives, Answered, driver
  <2>3. CASE Unsolicited \/ Refuse \/ Unanswered \/ UNCHANGED httpVars
    BY <1>1, <2>3 DEF Unsolicited, Refuse, Unanswered, httpVars, driver
  <2>4. CASE WriteCommand \/ SkipUrc
    BY <1>1, <2>4 DEF WriteCommand, SkipUrc
  <2>. QED BY <1>4, <2>1, <2>2, <2>3, <2>4 DEF ServerStep
<1>. QED BY <1>2, <1>3, <1>4 DEF HttpNext, Serve, Drive, ServerStep

LEMMA HttpTypeStep == HttpTypeInv /\ [HttpNext]_httpVars => HttpTypeInv'
<1> SUFFICES ASSUME HttpTypeInv, [HttpNext]_httpVars PROVE HttpTypeInv'
  OBVIOUS
<1>1. DriverType'
  BY DriverTypeStep DEF HttpTypeInv
<1>2. ModemType'
  BY ModemTypeStep
<1>3. input' \in Seq(Lines)
  BY InputShapes, InputType DEF HttpTypeInv, HttpTypeOK
<1>. QED
  BY <1>1, <1>2, <1>3, QueueType, JobStep DEF DriverType, ModemType, HttpTypeInv, HttpTypeOK

LEMMA HttpTypeInit == HttpInit => HttpTypeInv
<1> SUFFICES ASSUME HttpInit PROVE HttpTypeInv
  OBVIOUS
<1>1. <<>> \in Seq(Lines) /\ <<>> \in Seq([c : Steps, r : Requests])
  OBVIOUS
<1>2. /\ job = None /\ step = "idle" /\ waiting = FALSE /\ lines = 0 /\ again = FALSE
      /\ buffer \in Pages /\ step \in Steps
  BY Numbers DEF HttpInit, Steps
<1>3. /\ service \in {"off", "on", "download"} /\ body = None /\ acting \in 0 .. Junk
      /\ page \in Pages
  BY Numbers DEF HttpInit
<1>4. /\ stored = {} /\ accepted = {} /\ urcs \in 0 .. MaxUrcs
      /\ overdue \in 0 .. MaxOverdue /\ wrongs \in 0 .. MaxFaults /\ lost = FALSE
      /\ overrun = FALSE
  BY HttpAssumption DEF HttpInit
<1>5. input = <<>> /\ queue = <<>> /\ lines \in 0 .. MaxLines - 1
  BY HttpAssumption DEF HttpInit
<1>6. \A i \in 1 .. Len(queue) : queue[i].c = "body" => queue[i].r \in Records
  BY <1>5
<1>. QED BY <1>1, <1>2, <1>3, <1>4, <1>5, <1>6 DEF HttpTypeInv, HttpTypeOK

(* Every variable of HTTP_post, HTTP_get and HTTP_read, of the modem's HTTP *)
(* service and of the server keeps its type.                                *)
THEOREM HttpTypeCorrect == HttpSpec => []HttpTypeOK
<1>1. HttpSpec => []HttpTypeInv
  BY HttpTypeInit, HttpTypeStep, PTL DEF HttpSpec
<1>2. HttpTypeInv => HttpTypeOK
  BY DEF HttpTypeInv
<1>. QED BY <1>1, <1>2, PTL

-----------------------------------------------------------------------------
(* What is accepted is stored.  A modem that has no other HTTPDATA waiting  *)
(* when this request's is written executes it last: what it prints DOWNLOAD *)
(* to is this request's HTTPDATA and no other.  From then on nothing is     *)
(* outstanding, so every line that follows is this request's.               *)
NoOk(s) == \A i \in 1 .. Len(s) : s[i].k # "ok"

(* DOWNLOAD has been printed: nothing is left in the queue.                 *)
DataInv ==
  step = "data" /\ waiting =>
    /\ \A i \in 1 .. Len(queue) : queue[i].c = "data" => i = Len(queue)
    /\ \A i \in 1 .. Len(input) : input[i].k = "download" =>
         /\ queue = <<>> /\ service = "download"
         /\ \A j \in i .. Len(input) : input[j].k # "ok"

BodyInv ==
  step = "body" =>
    \/ waiting /\ service = "on" /\ queue = <<>> /\ body = job
    \/ /\ service = "download" /\ NoOk(input)
       /\ queue = IF waiting THEN <<[c |-> "body", r |-> job]>> ELSE <<>>

(* The modem acts for this request, or has done so.                         *)
ActionInv ==
  step = "action" =>
    \/ /\ service = "on" /\ body = job /\ (waiting => NoOk(input))
       /\ queue = IF waiting THEN <<[c |-> "action", r |-> job]>> ELSE <<>>
    \/ waiting /\ service = "on" /\ queue = <<>> /\ NoOk(input)
    \/ /\ waiting /\ queue = <<>> /\ acting \in {None, job}
       /\ \A i, j \in 1 .. Len(input) :
            i < j /\ input[i].k = "ok" /\ input[j].k = "action" => page.of = job
ScanInv ==
  step = "scan" =>
    /\ queue = <<>> /\ acting \in {None, job}
    /\ \A i \in 1 .. Len(input) : input[i].k = "action" => page.of = job

ReadInv ==
  step = "read" =>
    /\ acting \in {None, job}
    /\ \/ page.of = job /\ queue = IF waiting THEN <<[c |-> "read", r |-> job]>> ELSE <<>>
       \/ waiting /\ queue = <<>>
    /\ waiting => \A i \in 1 .. Len(input) :
                    input[i].k = "read" =>
                      input[i].of = job /\ (input[i].says = "good" => job \in stored)

(* Good pages are about records the server has.                             *)
PageInv == page.says = "good" /\ page.of \in Records => page.of \in stored
BufferInv == job \in Records /\ buffer.says = "good" => job \in stored

(* What a call knows of its own lines; none of it is about gets.            *)
CallInv == DataInv /\ BodyInv /\ ActionInv /\ ScanInv /\ ReadInv /\ BufferInv

StoredInv ==
  /\ PageInv
  /\ ~overrun => accepted \subseteq stored /\ (job \in Records => CallInv)

(* A sequence with an element more, or without its first.                   *)
LEMMA Added ==
  ASSUME NEW S, NEW s \in Seq(S), NEW x \in S
  PROVE  /\ Len(Append(s, x)) = Len(s) + 1 /\ Append(s, x) # <<>>
         /\ \A i \in 1 .. Len(Append(s, x)) :
              \/ i \in 1 .. Len(s) /\ Append(s, x)[i] = s[i]
              \/ i = Len(s) + 1 /\ Append(s, x)[i] = x
  OBVIOUS

LEMMA Dropped ==
  ASSUME NEW S, NEW s \in Seq(S), s # <<>>
  PROVE  /\ Head(s) = s[1] /\ 1 \in 1 .. Len(s) /\ Len(Tail(s)) = Len(s) - 1
         /\ \A i \in 1 .. Len(Tail(s)) : Tail(s)[i] = s[i + 1] /\ i + 1 \in 1 .. Len(s)
  OBVIOUS

LEMMA Single ==
  ASSUME NEW x
  PROVE  <<x>> # <<>> /\ Head(<<x>>) = x /\ Tail(<<x>>) = <<>>
  OBVIOUS

(* Lines read, or added, keep what is said of all lines.                    *)
InputKept ==
  \E d \in Nat : \A i \in 1 .. Len(input') :
    d + i \in 1 .. Len(input) /\ input'[i] = input[d + i]
InputGrown(k) ==
  \E l \in Lines : l.k = k /\ Prints(l)

LEMMA Grown ==
  ASSUME HttpTypeInv, NEW k, InputGrown(k)
  PROVE  /\ Len(input') = Len(input) + 1
         /\ \A i \in 1 .. Len(input') :
              \/ i \in 1 .. Len(input) /\ input'[i] = input[i]
              \/ i = Len(input) + 1 /\ input'[i].k = k
  BY Added DEF InputGrown, Prints, HttpTypeInv, HttpTypeOK

(* What is done to the queue and to the lines keeps what is said of         *)
(* HTTPDATA, while nothing of the driver changes.                           *)
LEMMA DataKept ==
  ASSUME HttpTypeInv, DataInv, UNCHANGED <<step, waiting, queue, service>>,
         InputKept \/ \E k \in {"urc", "action"} : InputGrown(k)
  PROVE  DataInv'
<1> SUFFICES ASSUME step = "data", waiting PROVE DataInv'
  BY DEF DataInv
<1>0. Len(input) \in Nat
  BY DEF HttpTypeInv, HttpTypeOK
<1>1. CASE InputKept
  <2>1. PICK d \in Nat : \A i \in 1 .. Len(input') :
          d + i \in 1 .. Len(input) /\ input'[i] = input[d + i]
    BY <1>1 DEF InputKept
  <2>2. ASSUME NEW i \in 1 .. Len(input'), input'[i].k = "download"
        PROVE  /\ queue' = <<>> /\ service' = "download"
               /\ \A j \in i .. Len(input') : input'[j].k # "ok"
    <3>1. /\ queue = <<>> /\ service = "download"
          /\ \A j \in d + i .. Len(input) : input[j].k # "ok"
      BY <2>1, <2>2 DEF DataInv
    <3>2. \A j \in i .. Len(input') : j \in 1 .. Len(input') /\ d + j \in d + i .. Len(input)
      BY <1>0, <2>1
    <3>. QED BY <2>1, <3>1, <3>2
  <2>. QED BY <2>2 DEF DataInv
<1>2. ASSUME NEW k \in {"urc", "action"}, InputGrown(k) PROVE DataInv'
  BY <1>0, <1>2, Grown DEF DataInv
<1>. QED BY <1>1, <1>2

LEMMA NoOkKept ==
  ASSUME HttpTypeInv, NoOk(input),
         InputKept \/ \E k \in {"urc", "action", "error", "download"} : InputGrown(k)
  PROVE  NoOk(input')
<1>1. CASE InputKept
  BY <1>1 DEF InputKept, NoOk
<1>2. ASSUME NEW k \in {"urc", "action", "error", "download"}, InputGrown(k)
      PROVE  NoOk(input')
  BY <1>2, Grown DEF NoOk
<1>. QED BY <1>1, <1>2

LEMMA Pieces ==
  HttpTypeInv =>
    /\ input \in Seq(Lines) /\ Len(input) \in Nat /\ Len(queue) \in Nat
    /\ job \in Records => job # None /\ job \notin Gets
    /\ (queue = <<>>) <=> (Len(queue) = 0)
  BY HttpAssumption DEF HttpTypeInv, HttpTypeOK, Records, None, Gets, Time, Poll

LEMMA LastData ==
  ASSUME HttpTypeInv, DataInv, step = "data", waiting, queue # <<>>, queue' = Tail(queue)
  PROVE  \A i \in 1 .. Len(queue') : queue'[i].c = "data" => i = Len(queue')
<1> SUFFICES ASSUME NEW i \in 1 .. Len(queue'), queue'[i].c = "data"
             PROVE  i = Len(queue')
  OBVIOUS
<1>1. queue'[i] = queue[i + 1] /\ i + 1 \in 1 .. Len(queue) /\ Len(queue') = Len(queue) - 1
  BY Commands
<1>2. i + 1 = Len(queue)
  BY <1>1 DEF DataInv
<1>3. Len(queue) \in Nat
  BY Pieces
<1>4. i \in Nat /\ Len(queue') = Len(queue) - 1
  BY <1>1, <1>3
<1>. QED BY <1>2, <1>3, <1>4

(* Lines the modem puts in, and the server's storing.                       *)
LEMMA CallUrc ==
  ASSUME HttpTypeInv, CallInv, Unsolicited \/ Arrives PROVE CallInv'
<1>1. /\ UNCHANGED <<driver, queue, service, body, acting, page>> /\ stored \subseteq stored'
      /\ InputGrown("urc") \/ input' = input
  <2>1. Plain("urc") \in Lines /\ Plain("urc").k = "urc"
    BY LineFields
  <2>. QED BY <2>1 DEF Unsolicited, Arrives, modem, InputGrown
<1>2. UNCHANGED <<job, step, waiting, lines, again, buffer>>
  BY <1>1 DEF driver
<1>3. InputKept \/ \E k \in {"urc", "action"} : InputGrown(k)
  <2>1. input' = input => InputKept
    <3> SUFFICES ASSUME input' = input PROVE InputKept
      OBVIOUS
    <3>1. Len(input) \in Nat /\ 0 \in Nat
      BY Pieces
    <3>2. \A i \in 1 .. Len(input') : 0 + i \in 1 .. Len(input) /\ input'[i] = input[0 + i]
      BY <3>1
    <3>. QED BY <3>1, <3>2 DEF InputKept
  <2>. QED BY <1>1, <2>1
<1>4. NoOk(input) => NoOk(input')
  BY <1>1, NoOkKept DEF NoOk
<1>5. \A i \in 1 .. Len(input') : input'[i].k = "urc" \/
        (i \in 1 .. Len(input) /\ input'[i] = input[i])
  BY <1>1, Grown
<1>6. DataInv'
  BY <1>1, <1>2, <1>3, DataKept DEF CallInv
<1>7. BodyInv' /\ BufferInv'
  BY <1>1, <1>2, <1>4 DEF CallInv, BodyInv, BufferInv
<1>8. ActionInv'
  <2>1. ASSUME step = "action" PROVE ActionInv'
    BY <1>1, <1>2, <1>4, <1>5, <2>1 DEF CallInv, ActionInv
  <2>. QED BY <1>2, <2>1 DEF ActionInv
<1>9. ScanInv' /\ ReadInv'
  BY <1>1, <1>2, <1>5 DEF CallInv, ScanInv, ReadInv
<1>. QED BY <1>6, <1>7, <1>8, <1>9 DEF CallInv

(* The end of an action is this call's, once its HTTPACTION is executed.    *)
LEMMA CallAnswered ==
  ASSUME HttpTypeInv, CallInv, job \in Records, Answered \/ Unanswered PROVE CallInv'
<1>1. /\ UNCHANGED <<driver, queue, service, body, stored>>
      /\ acting # None /\ acting' = None
      /\ \/ InputGrown("action") /\ page'.of = acting
         \/ UNCHANGED <<input, page>>
  <2>1. CASE Answered
    <3>1. \A s \in {"200", "lesser", "critical"} :
            Line("action", acting, s) \in Lines /\ Line("action", acting, s).k = "action"
      BY LineFields DEF HttpTypeInv, HttpTypeOK
    <3>2. InputGrown("action")
      BY <2>1, <3>1 DEF Answered, InputGrown
    <3>. QED BY <2>1, <3>2 DEF Answered
  <2>2. CASE Unanswered
    BY <2>2 DEF Unanswered
  <2>. QED BY <2>1, <2>2
<1>2. UNCHANGED <<job, step, waiting, lines, again, buffer>>
  BY <1>1 DEF driver
<1>3. CASE InputGrown("action") /\ page'.of = acting
  <2>1. DataInv'
    BY <1>1, <1>2, <1>3, DataKept DEF CallInv
  <2>2. NoOk(input) => NoOk(input')
    BY <1>3, NoOkKept
  <2>3. \A i \in 1 .. Len(input') :
          \/ i = Len(input') /\ input'[i].k = "action"
          \/ i \in 1 .. Len(input) /\ input'[i] = input[i]
    BY <1>3, Grown
  <2>4. BodyInv' /\ BufferInv'
    BY <1>1, <1>2, <2>2 DEF CallInv, BodyInv, BufferInv
  <2>5. ActionInv'
    BY <1>1, <1>2, <1>3, <2>2, <2>3 DEF CallInv, ActionInv
  <2>6. ScanInv' /\ ReadInv'
    BY <1>1, <1>2, <1>3, <2>3 DEF CallInv, ScanInv, ReadInv
  <2>. QED BY <2>1, <2>4, <2>5, <2>6 DEF CallInv
<1>4. CASE UNCHANGED <<input, page>>
  <2>1. DataInv'
    BY <1>1, <1>2, <1>4 DEF CallInv, DataInv
  <2>2. BodyInv' /\ BufferInv' /\ ActionInv' /\ ScanInv' /\ ReadInv'
    BY <1>1, <1>2, <1>4 DEF CallInv, BodyInv, BufferInv, ActionInv, ScanInv, ReadInv
  <2>. QED BY <2>1, <2>2 DEF CallInv
<1>. QED BY <1>1, <1>3, <1>4

(* What the modem takes for data, and the end of the time for them.         *)
LEMMA CallDownload ==
  ASSUME HttpTypeInv, CallInv, job \in Records, Swallow \/ DownloadEnds PROVE CallInv'
<1>0. Plain("ok") \in Lines /\ Plain("ok").k = "ok"
  BY LineFields
<1>1. CASE Swallow
  <2>1. /\ queue # <<>> /\ queue' = Tail(queue) /\ service = "download"
        /\ body' = IF Head(queue).c = "body" THEN Head(queue).r ELSE Junk
        /\ \/ service' = "on" /\ InputGrown("ok")
           \/ Head(queue).c # "body" /\ UNCHANGED <<service, input>>
        /\ UNCHANGED <<job, step, waiting, lines, again, buffer, acting, page, stored>>
    BY <1>0, <1>1 DEF Swallow, InputGrown, driver
  <2>3. DataInv'
    <3> SUFFICES ASSUME step = "data", waiting PROVE DataInv'
      BY <2>1 DEF DataInv
    <3>1. \A i \in 1 .. Len(input') : input'[i].k # "download"
      BY <2>1, Grown DEF CallInv, DataInv
    <3>2. \A i \in 1 .. Len(queue') : queue'[i].c = "data" => i = Len(queue')
      BY <2>1, LastData DEF CallInv
    <3>. QED BY <3>1, <3>2 DEF DataInv
  <2>4. BodyInv'
    <3> SUFFICES ASSUME step = "body" PROVE BodyInv'
      BY <2>1 DEF BodyInv
    <3>1. waiting /\ queue = <<[c |-> "body", r |-> job]>>
      BY <2>1 DEF CallInv, BodyInv
    <3>2. queue' = <<>> /\ Head(queue).c = "body" /\ Head(queue).r = job
      BY <2>1, <3>1, Single
    <3>. QED BY <2>1, <3>1, <3>2 DEF BodyInv
  <2>5. ActionInv' /\ ScanInv' /\ BufferInv'
    BY <2>1 DEF CallInv, ActionInv, ScanInv, BufferInv
  <2>6. ReadInv'
    <3> SUFFICES ASSUME step = "read" PROVE ReadInv'
      BY <2>1 DEF ReadInv
    <3>1. waiting /\ queue' = <<>>
      BY <2>1, Single DEF CallInv, ReadInv
    <3>2. \A i \in 1 .. Len(input') :
            input'[i].k = "read" => i \in 1 .. Len(input) /\ input'[i] = input[i]
      BY <2>1, Grown
    <3>. QED BY <2>1, <3>1, <3>2 DEF CallInv, ReadInv
  <2>. QED BY <2>3, <2>4, <2>5, <2>6 DEF CallInv
<1>2. CASE DownloadEnds
  <2>1. /\ service = "download" /\ step \notin {"data", "body"} /\ service' = "on"
        /\ InputGrown("ok")
        /\ UNCHANGED <<job, step, waiting, lines, again, buffer, queue, body, acting, page,
                       stored>>
    BY <1>0, <1>2 DEF DownloadEnds, InputGrown, driver
  <2>2. \A i \in 1 .. Len(input') :
          \/ i = Len(input') /\ input'[i].k = "ok"
          \/ i \in 1 .. Len(input) /\ input'[i] = input[i]
    BY <2>1, Grown
  <2>3. DataInv' /\ BodyInv' /\ BufferInv'
    BY <2>1 DEF CallInv, DataInv, BodyInv, BufferInv
  <2>4. ActionInv'
    BY <2>1, <2>2 DEF CallInv, ActionInv
  <2>5. ScanInv' /\ ReadInv'
    BY <2>1, <2>2 DEF CallInv, ScanInv, ReadInv
  <2>. QED BY <2>3, <2>4, <2>5 DEF CallInv
<1>. QED BY <1>1, <1>2

(* A command refused is answered with an error.                             *)
LEMMA CallRefused ==
  ASSUME HttpTypeInv, CallInv, job \in Records,
         queue # <<>>, queue' = Tail(queue), service # "download", InputGrown("error"),
         UNCHANGED <<driver, service, body, acting, page, stored>>
  PROVE  CallInv'
<1>1. UNCHANGED <<job, step, waiting, lines, again, buffer>>
  BY DEF driver
<1>2. \A i \in 1 .. Len(input') :
        \/ i = Len(input') /\ input'[i].k = "error"
        \/ i \in 1 .. Len(input) /\ input'[i] = input[i]
  BY Grown
<1>4. DataInv'
  <2> SUFFICES ASSUME step = "data", waiting PROVE DataInv'
    BY <1>1 DEF DataInv
  <2>1. \A i \in 1 .. Len(input') : input'[i].k # "download"
    BY <1>2 DEF CallInv, DataInv
  <2>2. \A i \in 1 .. Len(queue') : queue'[i].c = "data" => i = Len(queue')
    BY LastData DEF CallInv
  <2>. QED BY <2>1, <2>2 DEF DataInv
<1>5. BodyInv' /\ BufferInv' /\ ScanInv'
  BY <1>1 DEF CallInv, BodyInv, BufferInv, ScanInv
<1>6. ActionInv'
  <2> SUFFICES ASSUME step = "action" PROVE ActionInv'
    BY <1>1 DEF ActionInv
  <2>1. /\ waiting /\ service = "on" /\ NoOk(input)
        /\ queue = <<[c |-> "action", r |-> job]>>
    BY DEF CallInv, ActionInv
  <2>2. queue' = <<>> /\ NoOk(input')
    BY <2>1, Single, NoOkKept
  <2>. QED BY <1>1, <2>1, <2>2 DEF ActionInv
<1>7. ReadInv'
  <2> SUFFICES ASSUME step = "read" PROVE ReadInv'
    BY <1>1 DEF ReadInv
  <2>1. waiting /\ queue' = <<>>
    BY Single DEF CallInv, ReadInv
  <2>. QED BY <1>1, <1>2, <2>1 DEF CallInv, ReadInv
<1>. QED BY <1>4, <1>5, <1>6, <1>7 DEF CallInv

(* A command carried out: HTTPDATA is this call's, HTTPACTION acts for it   *)
(* and HTTPREAD gives its page.                                             *)
LEMMA CallExecuted ==
  ASSUME HttpTypeInv, PageInv, CallInv, job \in Records, Execute
  PROVE  CallInv'
<1> DEFINE c == Head(queue).c
<1>1. /\ queue # <<>> /\ queue' = Tail(queue) /\ service # "download"
      /\ UNCHANGED <<job, step, waiting, lines, again, buffer, stored>>
  BY Executed DEF driver
<1>2. CASE ~Can(Head(queue).c, Head(queue).r)
  <2>1. InputGrown("error") /\ UNCHANGED <<driver, service, body, acting, page, stored>>
    <3>1. Plain("error") \in Lines /\ Plain("error").k = "error"
      BY LineFields
    <3>. QED BY <1>2, <3>1, Executed DEF InputGrown
  <2>. QED BY <1>1, <2>1, CallRefused
<1>3. CASE Can(Head(queue).c, Head(queue).r)
  <2>1. \/ /\ c \notin {"read", "data", "body"} /\ InputGrown("ok")
           /\ c = "action" => /\ acting' = IF Head(queue).r \in Gets THEN Head(queue).r ELSE body
                              /\ UNCHANGED <<service, body, page>>
        \/ /\ c = "read" /\ UNCHANGED <<service, body, acting, page>>
           /\ input' = input \o <<Line("read", page.of, page.says), Plain("ok")>>
        \/ /\ c = "data" /\ service' = "download" /\ InputGrown("download")
           /\ UNCHANGED <<body, acting, page>>
        \/ c = "body" /\ UNCHANGED <<service, body, acting, page, input>>
    <3>1. \A k \in {"ok", "download"} : Plain(k) \in Lines /\ Plain(k).k = k
      BY LineFields
    <3>. QED BY <1>3, <3>1, Executed DEF InputGrown
  <2> DEFINE t == Line("read", page.of, page.says)
  <2>2. t.k = "read" /\ t.of = page.of /\ t.says = page.says /\ Plain("ok").k = "ok"
    BY DEF Line, Plain
  <2>3. c = "read" =>
          /\ Len(input') = Len(input) + 2
          /\ \A i \in 1 .. Len(input') :
               \/ i \in 1 .. Len(input) /\ input'[i] = input[i]
               \/ i = Len(input) + 1 /\ input'[i] = t
               \/ i = Len(input) + 2 /\ input'[i] = Plain("ok")
    <3> HIDE DEF t
    <3> SUFFICES ASSUME c = "read" PROVE input' = input \o <<t, Plain("ok")>> /\ input \in Seq(Lines)
      OBVIOUS
    <3>. QED BY <2>1, Pieces DEF t
  <2>5. DataInv'
    <3> SUFFICES ASSUME step = "data", waiting PROVE DataInv'
      BY <1>1 DEF DataInv
    <3>1. \A i \in 1 .. Len(queue') : queue'[i].c = "data" => i = Len(queue')
      BY <1>1, LastData DEF CallInv
    <3>2. \A i \in 1 .. Len(input) : input[i].k # "download"
      BY <1>1 DEF CallInv, DataInv
    <3>3. CASE c = "data"
      <4>1. Len(queue) = 1 /\ queue' = <<>>
        <5>1. 1 = Len(queue)
          BY <1>1, <3>3, Commands DEF CallInv, DataInv
        <5>2. Tail(queue) = <<>>
          BY <1>1, <5>1, Commands
        <5>. QED BY <1>1, <5>1, <5>2
      <4>2. service' = "download" /\ InputGrown("download")
        BY <2>1, <3>3
      <4>. QED BY <3>1, <3>2, <4>1, <4>2, Grown, Pieces DEF DataInv
    <3>4. CASE c # "data"
      <4>1. \A i \in 1 .. Len(input') : input'[i].k # "download"
        BY <2>1, <2>2, <2>3, <3>2, <3>4, Grown
      <4>. QED BY <3>1, <4>1 DEF DataInv
    <3>. QED BY <3>3, <3>4
  <2>6. BodyInv' /\ BufferInv' /\ ScanInv'
    BY <1>1 DEF CallInv, BodyInv, BufferInv, ScanInv
  <2>7. ActionInv'
    <3> SUFFICES ASSUME step = "action" PROVE ActionInv'
      BY <1>1 DEF ActionInv
    <3>1. /\ waiting /\ service = "on" /\ body = job /\ NoOk(input)
          /\ queue = <<[c |-> "action", r |-> job]>>
      BY <1>1 DEF CallInv, ActionInv
    <3>2. c = "action" /\ Head(queue).r = job /\ queue' = <<>>
      BY <1>1, <3>1, Single
    <3>3. acting' = job /\ InputGrown("ok")
      BY <2>1, <3>1, <3>2, Pieces
    <3>4. \A i, j \in 1 .. Len(input') :
            ~(i < j /\ input'[i].k = "ok" /\ input'[j].k = "action")
      BY <3>1, <3>3, Grown, Pieces DEF NoOk
    <3>. QED BY <1>1, <3>1, <3>2, <3>3, <3>4 DEF ActionInv
  <2>8. ReadInv'
    <3> SUFFICES ASSUME step = "read" PROVE ReadInv'
      BY <1>1 DEF ReadInv
    <3>1. /\ waiting /\ page.of = job /\ queue = <<[c |-> "read", r |-> job]>>
          /\ acting \in {None, job}
      BY <1>1 DEF CallInv, ReadInv
    <3>2. c = "read" /\ queue' = <<>>
      BY <1>1, <3>1, Single
    <3>3. page.says = "good" => job \in stored
      BY <3>1 DEF PageInv
    <3>. QED BY <1>1, <2>1, <2>2, <2>3, <3>1, <3>2, <3>3 DEF CallInv, ReadInv
  <2>. QED BY <2>5, <2>6, <2>7, <2>8 DEF CallInv
<1>. QED BY <1>2, <1>3

(* Where a post goes on, and on which line.                                 *)
LEMMA PostOutcome ==
  ASSUME HttpTypeInv, job \in Records, NEW l, Outcome(l)
  PROVE  /\ step' = "data" => ~waiting'
         /\ step' = "body" => step = "data" /\ l.k = "download" /\ ~waiting'
         /\ step' = "action" => step = "body" /\ l.k = "ok" /\ ~waiting'
         /\ step' = "scan" => step = "scan" \/ (step = "action" /\ l.k = "ok")
         /\ step' = "read" => step = "scan" /\ l.k = "action" /\ ~waiting'
         /\ \/ buffer' = buffer
            \/ step = "read" /\ l.k = "read" /\ buffer' = [of |-> l.of, says |-> l.says]
<1>0. job \notin Gets /\ again \in BOOLEAN
  BY Pieces DEF HttpTypeInv, HttpTypeOK
<1>1. CASE OnTo(l)
  <2>1. waiting' = (step' \in {"scan", "readOk"}) /\ step' = Following[step] /\ buffer' = buffer
    BY <1>1 DEF OnTo, Goto
  <2>2. step = "data" => l.k = "download"
    BY <1>1 DEF OnTo, Matches
  <2>3. step \in {"body", "action"} => l.k = "ok"
    BY <1>1 DEF OnTo, Matches
  <2>4. step \in StepNames
    BY <1>1 DEF OnTo
  <2>5. \/ step = "term" /\ step' = "init"
        \/ step = "init" /\ step' = "cid"
        \/ step = "cid" /\ step' = "content"
        \/ step = "content" /\ step' = "url"
        \/ step = "url" /\ step' = "data"
        \/ step = "data" /\ step' = "body"
        \/ step = "body" /\ step' = "action"
        \/ step = "action" /\ step' = "scan"
    <3>1. /\ Following["term"] = "init" /\ Following["init"] = "cid"
          /\ Following["cid"] = "content" /\ Following["content"] = "url"
          /\ Following["url"] = "data" /\ Following["data"] = "body"
          /\ Following["body"] = "action" /\ Following["action"] = "scan"
      BY <1>0, Sequence
    <3>2. step' = Following[step]
      BY <2>1
    <3>. QED BY <2>4, <3>1, <3>2 DEF StepNames
  <2>6. step' = "data" => ~waiting'
    BY <2>1
  <2>7. /\ step' = "body" => step = "data" /\ ~waiting'
        /\ step' = "action" => step = "body" /\ ~waiting'
        /\ step' = "scan" => step = "action"
        /\ step' # "read"
    BY <2>1, <2>5
  <2>. QED BY <2>1, <2>2, <2>3, <2>6, <2>7
<1>2. CASE Fails(l)
  <2>1. PICK s \in {"lesser", "critical"} : Returned(s) /\ buffer' = buffer
    BY <1>2 DEF Fails
  <2>2. step' \in {"term", "restart", "idle"} /\ Goto(step')
    BY <1>0, <2>1, Returns
  <2>. QED BY <2>1, <2>2 DEF Goto
<1>3. CASE Scanned(l)
  <2>1. Returned(l.says) /\ buffer' = buffer /\ step = "scan" /\ l.k = "action"
    BY <1>3 DEF Scanned, Matches, Following
  <2>2. step' \in {"term", "restart", "idle", "read"} /\ Goto(step')
    BY <1>0, <2>1, Returns
  <2>. QED BY <2>1, <2>2 DEF Goto
<1>4. CASE NotScanned(l)
  BY <1>0, <1>4 DEF NotScanned, Goto
<1>5. CASE PageRead(l)
  BY <1>5 DEF PageRead, Goto, Matches
<1>6. CASE NoPageRead(l) \/ Ends
  BY <1>6 DEF NoPageRead, Ends, Goto
<1>. QED BY <1>1, <1>2, <1>3, <1>4, <1>5, <1>6, Outcomes

(* A line read, or a time-out: the line is this call's.                     *)
InputPast ==
  \E d \in Nat : /\ d > 0
                 /\ \A i \in 1 .. Len(input') :
                      d + i \in 1 .. Len(input) /\ input'[i] = input[d + i]

LEMMA CallOutcome ==
  ASSUME HttpTypeInv, CallInv, job \in Records, NEW l, Outcome(l), waiting,
         UNCHANGED <<job, queue, modem>>, InputPast,
         (input # <<>> /\ l = input[1]) \/ l.k = "none"
  PROVE  CallInv'
<1>1. UNCHANGED <<queue, service, body, acting, page, stored>>
  BY DEF modem
<1>2. l.k # "none" => l = input[1] /\ 1 \in 1 .. Len(input)
  BY Pieces
<1>4. DataInv'
  BY PostOutcome DEF DataInv
<1>5. BodyInv'
  <2> SUFFICES ASSUME step' = "body" PROVE BodyInv'
    BY DEF BodyInv
  <2>1. step = "data" /\ l.k = "download" /\ ~waiting'
    BY PostOutcome
  <2>2. /\ queue = <<>> /\ service = "download"
        /\ \A j \in 1 .. Len(input) : input[j].k # "ok"
    BY <1>2, <2>1 DEF CallInv, DataInv
  <2>. QED BY <1>1, <2>1, <2>2 DEF BodyInv, NoOk, InputPast
<1>6. ActionInv'
  <2> SUFFICES ASSUME step' = "action" PROVE ActionInv'
    BY DEF ActionInv
  <2>1. step = "body" /\ l.k = "ok" /\ ~waiting'
    BY PostOutcome
  <2>2. service = "on" /\ queue = <<>> /\ body = job
    BY <1>2, <2>1 DEF CallInv, BodyInv, NoOk
  <2>. QED BY <1>1, <2>1, <2>2 DEF ActionInv
<1>7. ScanInv'
  <2> SUFFICES ASSUME step' = "scan" PROVE ScanInv'
    BY DEF ScanInv
  <2>1. CASE step = "scan"
    BY <1>1, <2>1 DEF CallInv, ScanInv, InputPast
  <2>2. CASE step = "action" /\ l.k = "ok"
    <3>1. /\ queue = <<>> /\ acting \in {None, job}
          /\ \A i, j \in 1 .. Len(input) :
               i < j /\ input[i].k = "ok" /\ input[j].k = "action" => page.of = job
      BY <1>2, <2>2 DEF CallInv, ActionInv, NoOk
    <3>2. \A j \in 1 .. Len(input) : 1 < j /\ input[j].k = "action" => page.of = job
      BY <1>2, <2>2, <3>1
    <3>. QED BY <1>1, <3>1, <3>2 DEF ScanInv, InputPast
  <2>. QED BY <2>1, <2>2, PostOutcome
<1>8. ReadInv'
  <2> SUFFICES ASSUME step' = "read" PROVE ReadInv'
    BY DEF ReadInv
  <2>1. step = "scan" /\ l.k = "action" /\ ~waiting'
    BY PostOutcome
  <2>. QED BY <1>1, <1>2, <2>1 DEF CallInv, ScanInv, ReadInv
<1>9. BufferInv'
  <2>1. CASE buffer' = buffer
    BY <1>1, <2>1 DEF CallInv, BufferInv
  <2>2. CASE step = "read" /\ l.k = "read" /\ buffer' = [of |-> l.of, says |-> l.says]
    BY <1>1, <1>2, <2>2 DEF CallInv, ReadInv, BufferInv
  <2>. QED BY <2>1, <2>2, PostOutcome
<1>. QED BY <1>4, <1>5, <1>6, <1>7, <1>8, <1>9 DEF CallInv

(* An unsolicited line is skipped.                                          *)
LEMMA CallSkipped ==
  ASSUME HttpTypeInv, CallInv, job \in Records, SkipUrc PROVE CallInv'
<1>1. /\ UNCHANGED <<job, step, waiting, buffer, queue, service, body, acting, page, stored>>
      /\ input # <<>> /\ input' = Tail(input)
  BY DEF SkipUrc, modem
<1>2. /\ 1 \in Nat
      /\ \A i \in 1 .. Len(input') : 1 + i \in 1 .. Len(input) /\ input'[i] = input[1 + i]
  BY <1>1, Pieces, Dropped
<1>3. InputKept
  BY <1>2 DEF InputKept
<1>4. DataInv'
  BY <1>1, <1>3, DataKept DEF CallInv
<1>5. NoOk(input) => NoOk(input')
  BY <1>3, NoOkKept
<1>6. BodyInv' /\ BufferInv'
  BY <1>1, <1>5 DEF CallInv, BodyInv, BufferInv
<1>7. ActionInv'
  <2>1. \A i, j \in 1 .. Len(input') : i < j => 1 + i < 1 + j
    BY <1>2
  <2>. QED BY <1>1, <1>2, <1>5, <2>1 DEF CallInv, ActionInv
<1>8. ScanInv' /\ ReadInv'
  BY <1>1, <1>2 DEF CallInv, ScanInv, ReadInv
<1>. QED BY <1>4, <1>6, <1>7, <1>8 DEF CallInv

(* A command written: HTTPDATA while no other waits.                        *)
LEMMA CallWritten ==
  ASSUME HttpTypeInv, CallInv, job \in Records, WriteCommand, ~overrun' PROVE CallInv'
<1> DEFINE x == [c |-> step, r |-> job]
<1>1. /\ ~waiting /\ waiting' = TRUE /\ UNCHANGED <<job, step, buffer, modem>>
      /\ queue' = Append(queue, x)
      /\ IF step = "body" THEN UNCHANGED input ELSE input' = <<>>
      /\ step \in StepNames \union {"read"}
  BY Sequence DEF WriteCommand
<1>2. UNCHANGED <<service, body, acting, page, stored>>
  BY <1>1 DEF modem
<1>3. /\ Len(queue') = Len(queue) + 1 /\ Len(queue) \in Nat
      /\ \A i \in 1 .. Len(queue') :
           \/ i \in 1 .. Len(queue) /\ queue'[i] = queue[i]
           \/ i = Len(queue) + 1 /\ queue'[i] = x
  <2>1. x \in [c : Steps, r : Requests] /\ queue \in Seq([c : Steps, r : Requests])
    BY <1>1 DEF HttpTypeInv, HttpTypeOK, StepNames
  <2> HIDE DEF x
  <2>. QED BY <1>1, <2>1, Added, Pieces
<1>4. queue = <<>> => queue' = <<x>>
  BY <1>1
<1>6. DataInv'
  <2> SUFFICES ASSUME step = "data" PROVE DataInv'
    BY <1>1 DEF DataInv
  <2>1. input' = <<>>
    BY <1>1
  <2>2. ASSUME NEW i \in 1 .. Len(queue'), queue'[i].c = "data" PROVE i = Len(queue')
    <3>1. ~(i \in 1 .. Len(queue) /\ queue'[i] = queue[i])
      BY <2>2 DEF WriteCommand
    <3>. QED BY <1>3, <2>2, <3>1
  <2>. QED BY <1>1, <2>1, <2>2 DEF DataInv
<1>7. BodyInv'
  <2> SUFFICES ASSUME step = "body" PROVE BodyInv'
    BY <1>1 DEF BodyInv
  <2>1. service = "download" /\ NoOk(input) /\ queue = <<>>
    BY <1>1 DEF CallInv, BodyInv
  <2>. QED BY <1>1, <1>2, <1>4, <2>1 DEF BodyInv
<1>8. ActionInv'
  <2> SUFFICES ASSUME step = "action" PROVE ActionInv'
    BY <1>1 DEF ActionInv
  <2>1. service = "on" /\ body = job /\ queue = <<>>
    BY <1>1 DEF CallInv, ActionInv
  <2>. QED BY <1>1, <1>2, <1>4, <2>1 DEF ActionInv, NoOk
<1>9. ScanInv' /\ BufferInv'
  BY <1>1, <1>2 DEF CallInv, ScanInv, BufferInv, StepNames
<1>10. ReadInv'
  <2> SUFFICES ASSUME step = "read" PROVE ReadInv'
    BY <1>1 DEF ReadInv
  <2>1. page.of = job /\ queue = <<>> /\ acting \in {None, job}
    BY <1>1 DEF CallInv, ReadInv
  <2>. QED BY <1>1, <1>2, <1>4, <2>1 DEF ReadInv
<1>. QED BY <1>6, <1>7, <1>8, <1>9, <1>10 DEF CallInv

(* Two HTTPDATA at a time are never forgotten.                              *)
LEMMA OverrunStep ==
  ASSUME HttpTypeInv, [HttpNext]_httpVars PROVE overrun => overrun'
<1>1. CASE Execute
  BY <1>1, Executed DEF history
<1>2. CASE Swallow \/ DownloadEnds \/ Arrives \/ Answered \/ Unsolicited \/ Refuse \/ Unanswered
  BY <1>2 DEF Swallow, DownloadEnds, Arrives, Answered, Unsolicited, Refuse, Unanswered, history
<1>3. CASE WriteCommand \/ SkipUrc \/ ReadLine \/ GivenUp \/ GivenUpEarly \/ Restart
  BY <1>3 DEF WriteCommand, SkipUrc, ReadLine, GivenUp, GivenUpEarly, NoLine, Restart, history
<1>4. CASE Begin \/ UNCHANGED httpVars
  BY <1>4 DEF Begin, httpVars, history
<1>. QED BY <1>1, <1>2, <1>3, <1>4 DEF HttpNext, Serve, Drive

LEMMA CallStep ==
  ASSUME HttpTypeInv, StoredInv, [HttpNext]_httpVars, ~overrun'
  PROVE  job' \in Records => CallInv'
<1>0. ~overrun
  BY OverrunStep
<1>1. CASE Begin
  <2>1. step' = "term" /\ ~waiting' /\ UNCHANGED queue /\ buffer'.says = "none"
    BY <1>1 DEF Begin, Goto, NoPage
  <2>3. DataInv' /\ BodyInv' /\ ActionInv' /\ ScanInv' /\ ReadInv' /\ BufferInv'
    BY <2>1 DEF DataInv, BodyInv, ActionInv, ScanInv, ReadInv, BufferInv
  <2>. QED BY <2>3 DEF CallInv
<1>2. CASE UNCHANGED httpVars
  <2>1. UNCHANGED <<job, step, waiting, buffer, queue, input, service, body, acting, page,
                    stored>>
    BY <1>2 DEF httpVars, driver, modem
  <2>. QED
    BY <1>0, <2>1 DEF StoredInv, CallInv, DataInv, BodyInv, ActionInv, ScanInv, ReadInv,
                      BufferInv
<1>3. ASSUME HttpNext, ~Begin, job' \in Records PROVE CallInv'
  <2>1. job' = job
    <3>1. CASE ServerStep
      <4>1. CASE Execute
        BY <4>1, Executed DEF driver
      <4>2. CASE ~Execute
        BY <3>1, <4>2 DEF ServerStep, Swallow, DownloadEnds, Arrives, Answered, Unsolicited,
                          Refuse, Unanswered, driver
      <4>. QED BY <4>1, <4>2
    <3>2. CASE WriteCommand \/ SkipUrc \/ ReadLine \/ GivenUp \/ GivenUpEarly \/ Restart
      BY <3>2 DEF WriteCommand, SkipUrc, ReadLine, GivenUp, GivenUpEarly, NoLine, Restart
    <3>. QED BY <1>3, <3>1, <3>2 DEF HttpNext, Serve, Drive, ServerStep
  <2>2. job \in Records /\ CallInv /\ PageInv
    BY <1>0, <1>3, <2>1 DEF StoredInv
  <2>3. CASE Unsolicited \/ Arrives \/ Answered \/ Unanswered \/ Swallow \/ DownloadEnds
    BY <2>2, <2>3, CallUrc, CallAnswered, CallDownload
  <2>4. CASE Refuse
    <3>1. Plain("error") \in Lines /\ Plain("error").k = "error"
      BY LineFields
    <3>2. /\ queue # <<>> /\ queue' = Tail(queue) /\ service # "download" /\ InputGrown("error")
          /\ UNCHANGED <<driver, service, body, acting, page, stored>>
      BY <2>4, <3>1 DEF Refuse, InputGrown, modem
    <3>. QED BY <2>2, <3>2, CallRefused
  <2>5. CASE Execute \/ WriteCommand \/ SkipUrc
    BY <2>2, <2>5, CallExecuted, CallWritten, CallSkipped
  <2>6. CASE ReadLine
    <3>1. PICK m, n \in 1 .. Len(input) : input' = SubSeq(input, m + 1, n)
      BY <2>6 DEF ReadLine
    <3>2. /\ m \in Nat /\ m > 0
          /\ \A i \in 1 .. Len(input') : m + i \in 1 .. Len(input) /\ input'[i] = input[m + i]
      BY <3>1, Cut, Pieces
    <3>3. InputPast
      BY <3>2 DEF InputPast
    <3>4. /\ waiting /\ Outcome(Head(input)) /\ UNCHANGED <<job, queue, modem>>
          /\ input # <<>> /\ Head(input) = input[1]
      BY <2>6, Pieces, Dropped DEF ReadLine
    <3>. QED BY <2>2, <3>3, <3>4, CallOutcome
  <2>7. CASE GivenUp \/ GivenUpEarly
    <3>1. /\ waiting /\ input' = <<>> /\ Outcome(Plain("none"))
          /\ UNCHANGED <<job, queue, modem>> /\ Plain("none").k = "none"
      BY <2>7 DEF GivenUp, GivenUpEarly, NoLine, Plain, Line
    <3>2. /\ 1 \in Nat /\ 1 > 0
          /\ \A i \in 1 .. Len(input') : 1 + i \in 1 .. Len(input) /\ input'[i] = input[1 + i]
      BY <3>1
    <3>3. InputPast
      <4> SUFFICES \E d \in Nat : /\ d > 0
                                  /\ \A i \in 1 .. Len(input') :
                                       d + i \in 1 .. Len(input) /\ input'[i] = input[d + i]
        BY DEF InputPast
      <4> WITNESS 1 \in Nat
      <4>. QED BY <3>2
    <3>. QED BY <2>2, <3>1, <3>3, CallOutcome
  <2>8. CASE Restart
    <3>1. step' = "idle" /\ UNCHANGED <<buffer, job, stored>>
      BY <2>8 DEF Restart, Goto, modem
    <3>. QED BY <2>2, <3>1
         DEF CallInv, DataInv, BodyInv, ActionInv, ScanInv, ReadInv, BufferInv
  <2>. QED BY <1>3, <2>3, <2>4, <2>5, <2>6, <2>7, <2>8 DEF HttpNext, Serve, Drive
<1>. QED BY <1>1, <1>2, <1>3

LEMMA PageStep ==
  ASSUME HttpTypeInv, StoredInv, [HttpNext]_httpVars
  PROVE  PageInv' /\ (~overrun' => accepted' \subseteq stored')
<1>0. ~overrun' => accepted \subseteq stored /\ (job \in Records => BufferInv)
  BY OverrunStep DEF StoredInv, CallInv
<1>p. PageInv
  BY DEF StoredInv
<1>1. CASE UNCHANGED <<page, stored, accepted>>
  BY <1>0, <1>p, <1>1 DEF PageInv
<1>2. CASE Execute
  <2>1. UNCHANGED <<stored, accepted>> /\ (page' = page \/ page' = NoPage)
    BY <1>2, Executed
  <2>. QED BY <1>0, <1>p, <2>1 DEF PageInv, NoPage
<1>3. CASE Answered
  <2>1. Records \intersect Gets = {} /\ UNCHANGED <<stored, accepted>>
    BY <1>3, Numbers DEF Answered
  <2>2. page'.says = "good" => page'.of \in stored \union Gets
    BY <1>3 DEF Answered
  <2>. QED BY <1>0, <2>1, <2>2 DEF PageInv
<1>4. CASE Arrives
  BY <1>0, <1>p, <1>4 DEF Arrives, PageInv
<1>5. ASSUME NEW l, Outcome(l), UNCHANGED modem
      PROVE  PageInv' /\ (~overrun' => accepted' \subseteq stored')
  <2>1. UNCHANGED <<page, stored>>
    BY <1>5 DEF modem
  <2>2. \/ accepted' = accepted
        \/ /\ buffer.says = "good" /\ job \in Records
           /\ accepted' = accepted \union {job}
    BY <1>5, Outcomes DEF OnTo, Fails, Scanned, NotScanned, PageRead, NoPageRead, Ends
  <2>. QED BY <1>0, <1>p, <2>1, <2>2 DEF PageInv, BufferInv
<1>6. CASE ReadLine \/ GivenUp \/ GivenUpEarly
  BY <1>5, <1>6 DEF ReadLine, GivenUp, GivenUpEarly, NoLine
<1>7. CASE Swallow \/ DownloadEnds \/ Unsolicited \/ Refuse \/ Unanswered
  BY <1>1, <1>7 DEF Swallow, DownloadEnds, Unsolicited, Refuse, Unanswered, modem
<1>8. CASE WriteCommand \/ SkipUrc \/ Restart \/ Begin \/ UNCHANGED httpVars
  BY <1>1, <1>8 DEF WriteCommand, SkipUrc, Restart, Begin, httpVars, modem
<1>. QED BY <1>2, <1>3, <1>4, <1>6, <1>7, <1>8 DEF HttpNext, Serve, Drive

(* gsm_send_http returns true for a record only if the server has it, for   *)
(* every number of records, of unsolicited, late and lost lines and of      *)
(* faults, and however far behind the modem is, until two AT+HTTPDATA wait  *)
(* at it at a time.                                                         *)
THEOREM AcceptedOnlyStored == HttpSpec => []AcceptedIsStored
<1>1. HttpInit => HttpTypeInv /\ StoredInv
  <2>1. HttpInit => job \notin Records
    BY Numbers DEF HttpInit
  <2>. QED BY <2>1, HttpTypeInit DEF HttpInit, StoredInv, PageInv, NoPage
<1>2. HttpTypeInv /\ StoredInv /\ [HttpNext]_httpVars => (HttpTypeInv /\ StoredInv)'
  BY HttpTypeStep, CallStep, PageStep DEF StoredInv
<1>3. StoredInv => AcceptedIsStored
  BY DEF StoredInv, AcceptedIsStored
<1>. QED BY <1>1, <1>2, <1>3, PTL DEF HttpSpec

-----------------------------------------------------------------------------
(* HttpSession undisturbed.  One command is out at a time, and of its       *)
(* answer exactly what has been printed and not read stands on the line,    *)
(* among unsolicited lines.                                                 *)
UrcsOnly(s) == \A i \in 1 .. Len(s) : s[i].k = "urc"
OneIn(s, x) ==
  \E p \in 1 .. Len(s) :
    s[p] = x /\ \A i \in 1 .. Len(s) : i = p \/ s[i].k = "urc"
TwoIn(s, x, y) ==
  \E p, q \in 1 .. Len(s) :
    /\ p < q /\ s[p] = x /\ s[q] = y
    /\ \A i \in 1 .. Len(s) : i = p \/ i = q \/ s[i].k = "urc"

(* Those already skipped and those on the line, which has n others.         *)
Skipped(n) == lines + Len(input) <= urcs + n

Nothing0 == Skipped(0) /\ UrcsOnly(input)
One(x) == Skipped(1) /\ OneIn(input, x)
Two(x, y) == Skipped(2) /\ TwoIn(input, x, y)

GoodPage == [of |-> job, says |-> "good"]

(* The command of this step is not yet carried out.                         *)
Asked ==
  /\ step \in Steps \ {"scan", "readOk", "restart"}
  /\ step = "idle" => ~waiting
  /\ queue = IF waiting THEN <<[c |-> step, r |-> job]>> ELSE <<>>
  /\ acting = None /\ Nothing0
  /\ step \in {"idle", "term"} => service # "download"
  /\ step = "init" => service = "off"
  /\ step = "body" => service = "download"
  /\ step \notin {"idle", "term", "init", "body"} => service = "on"
  /\ step = "action" => job \in Gets \/ body = job
  /\ step = "read" => page = GoodPage

(* It is, or there is none: what is said to it.                             *)
Told ==
  /\ waiting /\ queue = <<>>
  /\ step \notin {"idle", "restart"}
  /\ step \notin {"action", "scan"} => acting = None
  /\ step = "term" => service = "off" /\ (One(Plain("ok")) \/ One(Plain("error")))
  /\ step = "data" => service = "download" /\ One(Plain("download"))
  /\ step \notin {"term", "data"} => service = "on"
  /\ step \in {"init", "cid", "content", "url", "body"} => One(Plain("ok"))
  /\ step = "body" => body = job
  /\ step = "action" =>
       \/ acting = job /\ One(Plain("ok"))
       \/ /\ acting = None /\ page = GoodPage
          /\ Two(Plain("ok"), Line("action", job, "200"))
  /\ step = "scan" =>
       \/ acting = job /\ Nothing0
       \/ acting = None /\ page = GoodPage /\ One(Line("action", job, "200"))
  /\ step = "read" => Two(Line("read", job, "good"), Plain("ok"))
  /\ step = "readOk" => buffer = GoodPage /\ One(Plain("ok"))

QuietState ==
  /\ ~again /\ (Asked \/ Told)
  /\ step = "idle" /\ job \in Records => job \in accepted
QuietInv == Quiet /\ MaxUrcs < MaxLines => QuietState

(* Lines put in.                                                            *)
LEMMA Adding ==
  ASSUME NEW s \in Seq(Lines), NEW l \in Lines
  PROVE  /\ l.k = "urc" =>
              /\ UrcsOnly(s) => UrcsOnly(Append(s, l))
              /\ \A x : OneIn(s, x) => OneIn(Append(s, l), x)
              /\ \A x, y : TwoIn(s, x, y) => TwoIn(Append(s, l), x, y)
         /\ UrcsOnly(s) => OneIn(Append(s, l), l)
         /\ \A x : OneIn(s, x) => TwoIn(Append(s, l), x, l)
<1> DEFINE t == Append(s, l)
<1>1. /\ Len(t) = Len(s) + 1 /\ Len(s) \in Nat /\ Len(t) \in 1 .. Len(t)
      /\ t[Len(t)] = l
      /\ \A i \in 1 .. Len(s) : i \in 1 .. Len(t) /\ t[i] = s[i] /\ i < Len(t)
      /\ \A i \in 1 .. Len(t) : i \in 1 .. Len(s) \/ i = Len(t)
  BY Added
<1> HIDE DEF t
<1>2. l.k = "urc" /\ UrcsOnly(s) => UrcsOnly(t)
  BY <1>1 DEF UrcsOnly
<1>3. ASSUME l.k = "urc", NEW x, OneIn(s, x) PROVE OneIn(t, x)
  BY <1>1, <1>3 DEF OneIn
<1>4. ASSUME l.k = "urc", NEW x, NEW y, TwoIn(s, x, y) PROVE TwoIn(t, x, y)
  BY <1>1, <1>4 DEF TwoIn
<1>5. UrcsOnly(s) => OneIn(t, l)
  BY <1>1 DEF UrcsOnly, OneIn
<1>6. ASSUME NEW x, OneIn(s, x) PROVE TwoIn(t, x, l)
  BY <1>1, <1>6 DEF OneIn, TwoIn
<1>. QED BY <1>2, <1>3, <1>4, <1>5, <1>6 DEF t

(* An unsolicited line skipped.                                             *)
LEMMA Removing ==
  ASSUME NEW s \in Seq(Lines), s # <<>>, Head(s).k = "urc"
  PROVE  /\ UrcsOnly(s) => UrcsOnly(Tail(s))
         /\ \A x : x.k # "urc" /\ OneIn(s, x) => OneIn(Tail(s), x) /\ Len(s) >= 2
         /\ \A x, y : x.k # "urc" /\ y.k # "urc" /\ TwoIn(s, x, y) =>
              TwoIn(Tail(s), x, y) /\ Len(s) >= 3
<1> DEFINE t == Tail(s)
<1>1. /\ Len(t) = Len(s) - 1 /\ Len(s) \in Nat /\ Len(s) >= 1 /\ s[1].k = "urc"
      /\ \A i \in 1 .. Len(t) : t[i] = s[i + 1] /\ i + 1 \in 1 .. Len(s)
      /\ \A p \in 1 .. Len(s) : p = 1 \/ (p - 1 \in 1 .. Len(t) /\ t[p - 1] = s[p])
  BY Dropped
<1> HIDE DEF t
<1>2. UrcsOnly(s) => UrcsOnly(t)
  BY <1>1 DEF UrcsOnly
<1>3. ASSUME NEW x, x.k # "urc", OneIn(s, x) PROVE OneIn(t, x) /\ Len(s) >= 2
  <2>1. PICK p \in 1 .. Len(s) : s[p] = x /\ \A i \in 1 .. Len(s) : i = p \/ s[i].k = "urc"
    BY <1>3 DEF OneIn
  <2>2. p # 1 /\ p - 1 \in 1 .. Len(t) /\ t[p - 1] = x
    BY <1>1, <1>3, <2>1
  <2>3. ASSUME NEW i \in 1 .. Len(t) PROVE i = p - 1 \/ t[i].k = "urc"
    <3>1. i + 1 = p \/ s[i + 1].k = "urc"
      BY <1>1, <2>1
    <3>2. t[i] = s[i + 1]
      BY <1>1
    <3>3. i + 1 = p => i = p - 1
      OBVIOUS
    <3>. QED BY <3>1, <3>2, <3>3
  <2>. QED BY <1>1, <2>2, <2>3 DEF OneIn
<1>4. ASSUME NEW x, NEW y, x.k # "urc", y.k # "urc", TwoIn(s, x, y)
      PROVE  TwoIn(t, x, y) /\ Len(s) >= 3
  <2>1. PICK p, q \in 1 .. Len(s) :
          /\ p < q /\ s[p] = x /\ s[q] = y
          /\ \A i \in 1 .. Len(s) : i = p \/ i = q \/ s[i].k = "urc"
    BY <1>4 DEF TwoIn
  <2>2. /\ p # 1 /\ p - 1 \in 1 .. Len(t) /\ t[p - 1] = x
        /\ q # 1 /\ q - 1 \in 1 .. Len(t) /\ t[q - 1] = y /\ p - 1 < q - 1
    BY <1>1, <1>4, <2>1
  <2>3. ASSUME NEW i \in 1 .. Len(t) PROVE i = p - 1 \/ i = q - 1 \/ t[i].k = "urc"
    <3>1. i + 1 = p \/ i + 1 = q \/ s[i + 1].k = "urc"
      BY <1>1, <2>1
    <3>2. t[i] = s[i + 1]
      BY <1>1
    <3>3. (i + 1 = p => i = p - 1) /\ (i + 1 = q => i = q - 1)
      OBVIOUS
    <3>. QED BY <3>1, <3>2, <3>3
  <2>4. Len(s) >= 3
    BY <1>1, <2>1, <2>2
  <2>. QED BY <2>2, <2>3, <2>4 DEF TwoIn
<1>. QED BY <1>2, <1>3, <1>4 DEF t

(* A line read, and some of what follows thrown away.                       *)
LEMMA Cutting ==
  ASSUME NEW s \in Seq(Lines), s # <<>>, Head(s).k # "urc", NEW n \in 1 .. Len(s)
  PROVE  /\ ~UrcsOnly(s)
         /\ Len(SubSeq(s, 2, n)) <= Len(s) - 1 /\ Len(SubSeq(s, 2, n)) \in Nat
         /\ \A x : OneIn(s, x) => Head(s) = x /\ UrcsOnly(SubSeq(s, 2, n))
         /\ \A x, y : TwoIn(s, x, y) =>
              /\ Head(s) = x
              /\ \/ OneIn(SubSeq(s, 2, n), y)
                 \/ n < Len(s) /\ \E i \in 1 .. Len(SubSeq(s, n + 1, Len(s))) :
                                     SubSeq(s, n + 1, Len(s))[i] = y
<1> DEFINE t == SubSeq(s, 2, n)
           u == SubSeq(s, n + 1, Len(s))
<1>1. /\ Len(t) = n - 1 /\ Len(s) \in Nat /\ n <= Len(s) /\ n >= 1
      /\ \A i \in 1 .. Len(t) : t[i] = s[i + 1] /\ i + 1 \in 1 .. Len(s)
      /\ \A p \in 1 .. Len(s) : p = 1 \/ p > n \/ (p - 1 \in 1 .. Len(t) /\ t[p - 1] = s[p])
  OBVIOUS
<1>2. \A p \in 1 .. Len(s) : p > n => p - n \in 1 .. Len(u) /\ u[p - n] = s[p]
  OBVIOUS
<1>3. Head(s) = s[1] /\ s[1].k # "urc" /\ 1 \in 1 .. Len(s)
  BY Dropped
<1> HIDE DEF t, u
<1>4. ~UrcsOnly(s)
  BY <1>3 DEF UrcsOnly
<1>5. ASSUME NEW x, OneIn(s, x) PROVE Head(s) = x /\ UrcsOnly(t)
  <2>1. PICK p \in 1 .. Len(s) : s[p] = x /\ \A i \in 1 .. Len(s) : i = p \/ s[i].k = "urc"
    BY <1>5 DEF OneIn
  <2>2. p = 1
    BY <1>3, <2>1
  <2>3. ASSUME NEW i \in 1 .. Len(t) PROVE t[i].k = "urc"
    <3>1. i + 1 # 1
      OBVIOUS
    <3>2. s[i + 1].k = "urc"
      BY <1>1, <2>1, <2>2, <3>1
    <3>. QED BY <1>1, <3>2
  <2>. QED BY <1>3, <2>1, <2>2, <2>3 DEF UrcsOnly
<1>6. ASSUME NEW x, NEW y, TwoIn(s, x, y)
      PROVE  /\ Head(s) = x
             /\ OneIn(t, y) \/ (n < Len(s) /\ \E i \in 1 .. Len(u) : u[i] = y)
  <2>1. PICK p, q \in 1 .. Len(s) :
          /\ p < q /\ s[p] = x /\ s[q] = y
          /\ \A i \in 1 .. Len(s) : i = p \/ i = q \/ s[i].k = "urc"
    BY <1>6 DEF TwoIn
  <2>2. p = 1
    BY <1>1, <1>3, <2>1
  <2>3. CASE q > n
    BY <1>1, <1>2, <1>3, <2>1, <2>2, <2>3
  <2>4. CASE q <= n
    <3>1. q - 1 \in 1 .. Len(t) /\ t[q - 1] = y
      BY <1>1, <2>1, <2>4
    <3>2. ASSUME NEW i \in 1 .. Len(t) PROVE i = q - 1 \/ t[i].k = "urc"
      <4>1. i + 1 = p \/ i + 1 = q \/ s[i + 1].k = "urc"
        BY <1>1, <2>1
      <4>2. i + 1 # p
        BY <2>2
      <4>. QED BY <1>1, <4>1, <4>2
    <3>. QED BY <1>3, <2>1, <2>2, <3>1, <3>2 DEF OneIn
  <2>. QED BY <1>1, <2>3, <2>4
<1>7. Len(t) <= Len(s) - 1 /\ Len(t) \in Nat
  BY <1>1
<1>. QED BY <1>4, <1>5, <1>6, <1>7 DEF t, u

LEMMA QuietTypes ==
  HttpTypeInv =>
    /\ lines \in Nat /\ urcs \in Nat /\ urcs <= MaxUrcs /\ Len(input) \in Nat
    /\ input \in Seq(Lines) /\ overdue \in Nat /\ wrongs \in Nat
    /\ MaxUrcs \in Nat /\ MaxLines \in Nat
    /\ step # "idle" => job \in Requests /\ job # None
  BY HttpAssumption, Numbers DEF HttpTypeInv, HttpTypeOK

LEMMA Printed ==
  /\ \A k \in {"ok", "error", "download"} : Plain(k) \in Lines /\ Plain(k).k = k
  /\ \A r \in Requests :
       /\ Line("action", r, "200") \in Lines /\ Line("action", r, "200").k = "action"
       /\ Line("action", r, "200").of = r /\ Line("action", r, "200").says = "200"
       /\ Line("read", r, "good") \in Lines /\ Line("read", r, "good").k = "read"
       /\ Line("read", r, "good").of = r /\ Line("read", r, "good").says = "good"
  BY LineFields, Numbers

(* Unsolicited lines come and are skipped.                                  *)
LEMMA QuietKept ==
  ASSUME HttpTypeInv, QuietState,
         UNCHANGED <<job, step, waiting, again, buffer, queue, service, body, acting, page,
                     accepted>>,
         UrcsOnly(input) => UrcsOnly(input'),
         \A x : x.k # "urc" /\ OneIn(input, x) => OneIn(input', x),
         \A x, y : x.k # "urc" /\ y.k # "urc" /\ TwoIn(input, x, y) => TwoIn(input', x, y),
         \A n \in {0, 1, 2} : Skipped(n) => lines' + Len(input') <= urcs' + n
  PROVE  QuietState'
<1>1. Nothing0 => Nothing0'
  BY DEF Nothing0, Skipped
<1>2. \A k \in {"ok", "error", "download"} : One(Plain(k)) => One(Plain(k))'
  BY Printed DEF One, Skipped
<1>3. CASE Asked
  BY <1>1, <1>3 DEF Asked, GoodPage, QuietState
<1>4. CASE Told
  <2>1. job \in Requests
    BY <1>4, QuietTypes DEF Told
  <2>2. One(Line("action", job, "200")) => One(Line("action", job, "200"))'
    BY <2>1, Printed DEF One, Skipped
  <2>3. Two(Plain("ok"), Line("action", job, "200"))
          => Two(Plain("ok"), Line("action", job, "200"))'
    BY <2>1, Printed DEF Two, Skipped
  <2>4. Two(Line("read", job, "good"), Plain("ok"))
          => Two(Line("read", job, "good"), Plain("ok"))'
    BY <2>1, Printed DEF Two, Skipped
  <2>5. Told'
    BY <1>1, <1>2, <1>4, <2>2, <2>3, <2>4 DEF Told, GoodPage
  <2>. QED BY <2>5 DEF QuietState
<1>. QED BY <1>3, <1>4 DEF QuietState

LEMMA QuietUrc ==
  ASSUME HttpTypeInv, QuietState, Unsolicited \/ SkipUrc PROVE QuietState'
<1>1. UNCHANGED <<job, step, waiting, again, buffer, queue, service, body, acting, page,
                  accepted>>
  BY DEF Unsolicited, SkipUrc, driver, modem
<1>2. /\ UrcsOnly(input) => UrcsOnly(input')
      /\ \A x : x.k # "urc" /\ OneIn(input, x) => OneIn(input', x)
      /\ \A x, y : x.k # "urc" /\ y.k # "urc" /\ TwoIn(input, x, y) => TwoIn(input', x, y)
      /\ lines' + Len(input') + urcs = lines + Len(input) + urcs'
      /\ lines' \in Nat /\ Len(input') \in Nat /\ urcs' \in Nat
  <2>1. CASE Unsolicited
    <3>1. Plain("urc") \in Lines /\ Plain("urc").k = "urc"
      BY LineFields
    <3>2. /\ input' = Append(input, Plain("urc")) /\ urcs' = urcs + 1 /\ lines' = lines
          /\ Len(input') = Len(input) + 1
      BY <2>1, <3>1, QuietTypes, Added DEF Unsolicited, Prints, driver
    <3>3. lines' + Len(input') + urcs = lines + Len(input) + urcs'
      BY <3>2, QuietTypes
    <3>4. /\ UrcsOnly(input) => UrcsOnly(input')
          /\ \A x : x.k # "urc" /\ OneIn(input, x) => OneIn(input', x)
          /\ \A x, y : x.k # "urc" /\ y.k # "urc" /\ TwoIn(input, x, y) => TwoIn(input', x, y)
      BY <3>1, <3>2, QuietTypes, Adding
    <3>. QED BY <3>2, <3>3, <3>4, QuietTypes
  <2>2. CASE SkipUrc
    <3>1. /\ input # <<>> /\ Head(input).k = "urc" /\ input' = Tail(input)
          /\ lines' = lines + 1 /\ urcs' = urcs
      BY <2>2 DEF SkipUrc
    <3>2. Len(input') = Len(input) - 1 /\ Len(input) >= 1
      BY <3>1, QuietTypes, Dropped
    <3>3. lines' \in Nat /\ Len(input') \in Nat /\ urcs' \in Nat
      BY <3>1, <3>2, QuietTypes
    <3>5. lines' + Len(input') + urcs = lines + Len(input) + urcs'
      BY <3>1, <3>2, QuietTypes
    <3>4. /\ UrcsOnly(input) => UrcsOnly(input')
          /\ \A x : x.k # "urc" /\ OneIn(input, x) => OneIn(input', x)
          /\ \A x, y : x.k # "urc" /\ y.k # "urc" /\ TwoIn(input, x, y) => TwoIn(input', x, y)
      BY <3>1, QuietTypes, Removing
    <3>. QED BY <3>3, <3>4, <3>5
  <2>. QED BY <2>1, <2>2
<1>3. ASSUME NEW n \in {0, 1, 2}, Skipped(n) PROVE lines' + Len(input') <= urcs' + n
  <2>1. lines + Len(input) <= urcs + n /\ n \in Nat
    BY <1>3 DEF Skipped
  <2>2. lines \in Nat /\ Len(input) \in Nat /\ urcs \in Nat
    BY QuietTypes
  <2>3. /\ lines' + Len(input') + urcs = lines + Len(input) + urcs'
        /\ lines' \in Nat /\ Len(input') \in Nat /\ urcs' \in Nat
    BY <1>2
  <2>. QED BY <2>1, <2>2, <2>3
<1>. QED BY <1>1, <1>2, <1>3, QuietKept

(* The answer of the server.                                                *)
LEMMA QuietAnswered ==
  ASSUME HttpTypeInv, QuietState, Answered, wrongs = 0, wrongs' = 0 PROVE QuietState'
<1>1. /\ acting # None /\ acting' = None
      /\ page' = [of |-> acting, says |-> "good"]
      /\ Prints(Line("action", acting, "200"))
      /\ UNCHANGED <<job, step, waiting, lines, again, buffer, queue, service, body, accepted,
                     urcs>>
  BY QuietTypes DEF Answered, driver
<1>2. Told /\ step \in {"action", "scan"} /\ acting = job /\ job \in Requests
  BY <1>1, QuietTypes DEF QuietState, Asked, Told
<1>3. Line("action", job, "200") \in Lines
  BY <1>2, Printed
<1>4. Len(input') = Len(input) + 1
  BY <1>1, <1>2, <1>3, QuietTypes, Added DEF Prints
<1>5. CASE step = "action"
  <2>1. One(Plain("ok"))
    BY <1>1, <1>2, <1>5 DEF Told
  <2>2. Two(Plain("ok"), Line("action", job, "200"))'
    BY <1>1, <1>2, <1>3, <1>4, <2>1, QuietTypes, Adding DEF One, Two, Skipped, Prints
  <2>3. Told'
    BY <1>1, <1>2, <1>5, <2>2 DEF Told, GoodPage
  <2>. QED BY <1>1, <1>5, <2>3 DEF QuietState
<1>6. CASE step = "scan"
  <2>1. Nothing0
    BY <1>1, <1>2, <1>6 DEF Told
  <2>2. One(Line("action", job, "200"))'
    BY <1>1, <1>2, <1>3, <1>4, <2>1, QuietTypes, Adding DEF One, Nothing0, Skipped, Prints
  <2>3. Told'
    BY <1>1, <1>2, <1>6, <2>2 DEF Told, GoodPage
  <2>. QED BY <1>1, <1>6, <2>3 DEF QuietState
<1>. QED BY <1>2, <1>5, <1>6

(* Only a post's data are taken for data.                                   *)
LEMMA QuietSwallow ==
  ASSUME HttpTypeInv, QuietState, Swallow PROVE QuietState'
<1>1. /\ waiting /\ step = "body" /\ Asked /\ queue = <<[c |-> step, r |-> job]>>
  BY DEF Swallow, QuietState, Asked, Told
<1>2. Head(queue).c = "body" /\ Head(queue).r = job /\ Tail(queue) = <<>>
  BY <1>1, Single
<1>3. /\ queue' = <<>> /\ service' = "on" /\ body' = job /\ Prints(Plain("ok"))
      /\ UNCHANGED <<job, step, waiting, lines, again, buffer, acting, page, accepted, urcs>>
  BY <1>2 DEF Swallow, driver
<1>4. Plain("ok") \in Lines
  BY Printed
<1>5. Len(input') = Len(input) + 1
  BY <1>3, <1>4, QuietTypes, Added DEF Prints
<1>6. One(Plain("ok"))'
  BY <1>1, <1>3, <1>4, <1>5, QuietTypes, Adding DEF Asked, Nothing0, One, Skipped, Prints
<1>7. Told'
  BY <1>1, <1>3, <1>6 DEF Asked, Told
<1>. QED BY <1>1, <1>3, <1>7 DEF QuietState

(* The command of the step is carried out.                                  *)
LEMMA QuietExecute ==
  ASSUME HttpTypeInv, QuietState, Execute PROVE QuietState'
<1>1. /\ Asked /\ waiting /\ queue = <<[c |-> step, r |-> job]>> /\ service # "download"
      /\ step \notin {"idle", "scan", "readOk", "restart"}
  BY Executed DEF QuietState, Asked, Told
<1>2. Head(queue).c = step /\ Head(queue).r = job /\ Tail(queue) = <<>>
  BY <1>1, Single
<1>3. /\ queue' = <<>>
      /\ UNCHANGED <<job, step, waiting, lines, again, buffer, accepted, urcs>>
  BY <1>2, Executed DEF driver
<1>4. job \in Requests /\ acting = None /\ Nothing0 /\ step # "body"
  BY <1>1, QuietTypes DEF Asked
<1>5. ASSUME NEW k \in {"ok", "error", "download"}, Prints(Plain(k)) PROVE One(Plain(k))'
  <2>1. Plain(k) \in Lines
    BY Printed
  <2>2. Len(input') = Len(input) + 1
    BY <1>5, <2>1, QuietTypes, Added DEF Prints
  <2>. QED BY <1>3, <1>4, <1>5, <2>1, <2>2, QuietTypes, Adding
           DEF Nothing0, One, Skipped, Prints
<1>6. CASE ~Can(step, job)
  <2>1. step = "term" /\ service = "off"
    <3>1. step \notin {"idle", "term", "init", "body"} => service = "on"
      BY <1>1 DEF Asked
    <3>2. step \notin {"init", "action", "read"} => service # "on"
      BY <1>6 DEF Can
    <3>3. step # "init"
      BY <1>1, <1>6 DEF Can, Asked
    <3>4. step # "action"
      BY <1>1, <1>4, <1>6, QuietTypes DEF Can, Asked
    <3>5. step # "read"
      BY <1>1, <1>6 DEF Can, Asked, GoodPage, NoPage
    <3>. QED BY <1>1, <1>4, <3>1, <3>2, <3>3, <3>4, <3>5
             DEF HttpTypeInv, HttpTypeOK
  <2>2. One(Plain("error"))' /\ UNCHANGED <<service, body, acting, page>>
    BY <1>2, <1>5, <1>6, Executed
  <2>3. Told'
    BY <1>1, <1>3, <1>4, <2>1, <2>2 DEF Told
  <2>. QED BY <1>3, <2>1, <2>3 DEF QuietState
<1>7. CASE Can(step, job)
  <2>1. CASE step = "read"
    <3>1. /\ input' = input \o <<Line("read", page.of, page.says), Plain("ok")>>
          /\ UNCHANGED <<service, body, acting, page>>
      BY <1>2, <1>7, <2>1, Executed
    <3>2. page.of = job /\ page.says = "good" /\ service = "on"
      BY <1>1, <2>1 DEF Asked, GoodPage
    <3> DEFINE x == Line("read", job, "good")
               y == Plain("ok")
    <3>3. x \in Lines /\ y \in Lines /\ input' = input \o <<x, y>> /\ input \in Seq(Lines)
      BY <1>4, <3>1, <3>2, Printed, QuietTypes
    <3> HIDE DEF x, y
    <3>4. /\ input' = Append(Append(input, x), y) /\ Append(input, x) \in Seq(Lines)
          /\ Len(input') = Len(input) + 2
      BY <3>3
    <3>5. TwoIn(input', x, y)
      <4>1. UrcsOnly(input)
        BY <1>4 DEF Nothing0
      <4>2. OneIn(Append(input, x), x)
        BY <3>3, <4>1, Adding
      <4>3. TwoIn(Append(Append(input, x), y), x, y)
        BY <3>3, <3>4, <4>2, Adding
      <4>. QED BY <3>4, <4>3
    <3>6. Two(x, y)'
      <4>1. lines + Len(input) <= urcs + 0
        BY <1>4 DEF Nothing0, Skipped
      <4>2. lines' + Len(input') <= urcs' + 2
        BY <1>3, <3>4, <4>1, QuietTypes
      <4>. QED BY <1>3, <3>5, <4>2 DEF Two, Skipped, x, y
    <3>7. Told'
      BY <1>1, <1>3, <1>4, <2>1, <3>1, <3>2, <3>6 DEF Told, x, y
    <3>. QED BY <1>3, <2>1, <3>7 DEF QuietState
  <2>2. CASE step = "data"
    <3>1. service' = "download" /\ One(Plain("download"))' /\ UNCHANGED <<body, acting, page>>
      BY <1>2, <1>5, <1>7, <2>2, Executed
    <3>2. Told'
      BY <1>1, <1>3, <1>4, <2>2, <3>1 DEF Told
    <3>. QED BY <1>3, <2>2, <3>2 DEF QuietState
  <2>3. CASE step \notin {"read", "data"}
    <3>1. /\ One(Plain("ok"))'
          /\ step = "term" => service' = "off" /\ acting' = None
          /\ step = "init" => service' = "on" /\ UNCHANGED acting
          /\ step = "action" =>
               acting' = (IF job \in Gets THEN job ELSE body) /\ UNCHANGED service
          /\ step \notin {"term", "init", "action"} => UNCHANGED <<service, acting>>
      BY <1>2, <1>4, <1>5, <1>7, <2>3, Executed
    <3>2. Told'
      BY <1>1, <1>3, <1>4, <2>3, <3>1 DEF Asked, Told
    <3>. QED BY <1>1, <1>3, <3>2 DEF QuietState
  <2>. QED BY <2>1, <2>2, <2>3
<1>. QED BY <1>6, <1>7

(* The driver writes, and reads the answer to what it has written.          *)
LEMMA QuietWritten ==
  ASSUME HttpTypeInv, QuietState, WriteCommand PROVE QuietState'
<1>1. /\ ~waiting /\ step \in StepNames \union {"read"}
      /\ waiting' = TRUE /\ lines' = 0
      /\ queue' = Append(queue, [c |-> step, r |-> job])
      /\ IF step = "body" THEN UNCHANGED <<input, urcs>> ELSE input' = <<>> /\ urcs' = 0
      /\ UNCHANGED <<job, step, again, buffer, service, body, acting, page, accepted>>
  BY Sequence DEF WriteCommand, modem
<1>2. Asked /\ queue = <<>>
  BY <1>1 DEF QuietState, Asked, Told
<1>3. queue' = <<[c |-> step, r |-> job]>>
  BY <1>1, <1>2
<1>4. Nothing0'
  <2>1. CASE step = "body"
    BY <1>1, <1>2, <2>1, QuietTypes DEF Asked, Nothing0, Skipped
  <2>2. CASE step # "body"
    BY <1>1, <2>2 DEF Nothing0, Skipped, UrcsOnly
  <2>. QED BY <2>1, <2>2
<1>5. Asked'
  BY <1>1, <1>2, <1>3, <1>4 DEF Asked, GoodPage, StepNames
<1>. QED BY <1>1, <1>5 DEF QuietState

LEMMA NoUrcLast ==
  ASSUME HttpTypeInv, QuietState, waiting, input # <<>>, Head(input).k = "urc",
         MaxUrcs < MaxLines
  PROVE  ~LastLine
<1>1. Len(input) >= 1
  BY QuietTypes, Dropped
<1>2. (Nothing0 \/ \E k \in {"ok", "error", "download"} : One(Plain(k))) => lines + 1 <= urcs
  <2>1. Nothing0 => lines + 1 <= urcs
    BY <1>1, QuietTypes DEF Nothing0, Skipped
  <2>2. ASSUME NEW k \in {"ok", "error", "download"}, One(Plain(k)) PROVE lines + 1 <= urcs
    <3>1. Len(input) >= 2
      BY <2>2, QuietTypes, Printed, Removing DEF One
    <3>. QED BY <2>2, <3>1, QuietTypes DEF One, Skipped
  <2>. QED BY <2>1, <2>2
<1>3. ASSUME Told PROVE lines + 1 <= urcs
  <2>1. job \in Requests
    BY <1>3, QuietTypes DEF Told
  <2>2. One(Line("action", job, "200")) => lines + 1 <= urcs
    <3>1. One(Line("action", job, "200")) => Len(input) >= 2
      BY <2>1, QuietTypes, Printed, Removing DEF One
    <3>. QED BY <3>1, QuietTypes DEF One, Skipped
  <2>3. Two(Plain("ok"), Line("action", job, "200")) => lines + 1 <= urcs
    <3>1. Two(Plain("ok"), Line("action", job, "200")) => Len(input) >= 3
      BY <2>1, QuietTypes, Printed, Removing DEF Two
    <3>. QED BY <3>1, QuietTypes DEF Two, Skipped
  <2>4. Two(Line("read", job, "good"), Plain("ok")) => lines + 1 <= urcs
    <3>1. Two(Line("read", job, "good"), Plain("ok")) => Len(input) >= 3
      BY <2>1, QuietTypes, Printed, Removing DEF Two
    <3>. QED BY <3>1, QuietTypes DEF Two, Skipped
  <2>. QED BY <1>2, <1>3, <2>2, <2>3, <2>4 DEF Told, HttpTypeInv, HttpTypeOK, Steps
<1>4. lines + 1 <= urcs
  BY <1>2, <1>3 DEF QuietState, Asked
<1>. QED BY <1>4, QuietTypes DEF LastLine

LEMMA QuietRead ==
  ASSUME HttpTypeInv, QuietState, ReadLine, MaxUrcs < MaxLines, ~lost'
  PROVE  QuietState'
<1> DEFINE h == Head(input)
<1>1. /\ waiting /\ input # <<>> /\ Outcome(h) /\ (h.k # "urc" \/ LastLine)
      /\ UNCHANGED <<job, queue, service, body, acting, page, urcs>>
  BY DEF ReadLine, modem
<1>2. PICK m, n \in 1 .. Len(input) :
        /\ m > 1 => step = "read" /\ ~Matches(h)
        /\ n < Len(input) => step \notin {"scan", "read"}
        /\ input' = SubSeq(input, m + 1, n)
        /\ lost' = (lost \/ HasAction(SubSeq(input, 2, m))
                         \/ HasAction(SubSeq(input, n + 1, Len(input))))
  BY DEF ReadLine
<1>3. h.k # "urc" /\ input \in Seq(Lines)
  BY <1>1, NoUrcLast, QuietTypes
<1>4. /\ ~UrcsOnly(input)
      /\ Len(SubSeq(input, 2, n)) <= Len(input) - 1 /\ Len(SubSeq(input, 2, n)) \in Nat
      /\ \A x : OneIn(input, x) => h = x /\ UrcsOnly(SubSeq(input, 2, n))
      /\ \A x, y : TwoIn(input, x, y) =>
           /\ h = x
           /\ \/ OneIn(SubSeq(input, 2, n), y)
              \/ n < Len(input) /\ \E i \in 1 .. Len(SubSeq(input, n + 1, Len(input))) :
                                    SubSeq(input, n + 1, Len(input))[i] = y
  BY <1>1, <1>3, Cutting
<1>5. Told /\ job \in Requests
  BY <1>4, QuietTypes DEF QuietState, Asked, Nothing0, Told
<1>6. step = "read" => h = Line("read", job, "good") /\ Matches(h)
  <2> SUFFICES ASSUME step = "read" PROVE h = Line("read", job, "good") /\ Matches(h)
    OBVIOUS
  <2>1. TwoIn(input, Line("read", job, "good"), Plain("ok"))
    BY <1>5 DEF Told, Two
  <2>2. h = Line("read", job, "good")
    BY <1>4, <2>1
  <2>. QED BY <1>5, <2>2, Printed DEF Matches
<1>7. input' = SubSeq(input, 2, n)
  BY <1>2, <1>6
<1> HIDE DEF h
<1>8. /\ Skipped(0) => Len(input') <= urcs'
      /\ Skipped(1) => Len(input') <= urcs'
      /\ Skipped(2) => Len(input') <= urcs' + 1
  BY <1>1, <1>4, <1>7, QuietTypes DEF Skipped
<1>9. /\ lines' = 0 /\ UrcsOnly(input') /\ (Skipped(0) \/ Skipped(1)) => Nothing0'
      /\ \A x : lines' = 0 /\ OneIn(input', x) /\ Skipped(2) =>
                lines' + Len(input') <= urcs' + 1
  BY <1>1, <1>4, <1>7, <1>8, QuietTypes DEF Nothing0, Skipped
<1>10. step \in StepNames /\ (step = "term" \/ Matches(h)) =>
         Goto(Following[step]) /\ UNCHANGED <<again, buffer, accepted>>
  BY <1>1, Outcomes DEF OnTo, Fails, Scanned, NotScanned, PageRead, NoPageRead, Ends, StepNames
<1>11. CASE step \in StepNames \ {"action"}
  <2>1. PICK k \in {"ok", "error", "download"} :
          /\ One(Plain(k)) /\ (step = "data" <=> k = "download")
          /\ k = "error" => step = "term"
    BY <1>5, <1>11 DEF Told, StepNames
  <2>2. h = Plain(k) /\ UrcsOnly(input') /\ Skipped(1)
    BY <1>4, <1>7, <2>1 DEF One
  <2>3. step = "term" \/ Matches(h)
    BY <1>11, <2>1, <2>2, Printed DEF Matches, StepNames
  <2>4. Goto(Following[step]) /\ UNCHANGED <<again, buffer, accepted>>
    BY <1>10, <1>11, <2>3
  <2>5. /\ step' \in {"init", "cid", "content", "url", "data", "body", "action"}
        /\ step' = "init" => step = "term"
        /\ step' = "body" => step = "data"
        /\ step' = "action" => step = "body" \/ job \in Gets
        /\ step' # "init" => step # "term"
        /\ step' # "body" => step # "data"
    BY <1>11, <2>4, Sequence DEF Goto, StepNames
  <2>6. ~waiting' /\ lines' = 0
    BY <2>4, <2>5 DEF Goto
  <2>7. Nothing0'
    BY <1>9, <2>2, <2>6
  <2>8. Asked'
    <3>1. /\ queue = <<>> /\ acting = None
          /\ step = "term" => service = "off"
          /\ step = "data" => service = "download"
          /\ step \notin {"term", "data"} => service = "on"
          /\ step = "body" => body = job
      BY <1>5, <1>11 DEF Told, StepNames
    <3>2. /\ step' = "init" => service' = "off"
          /\ step' = "body" => service' = "download"
          /\ step' \notin {"init", "body"} => service' = "on"
          /\ step' = "action" => job' \in Gets \/ body' = job'
      BY <1>1, <2>5, <3>1
    <3>3. queue' = <<>> /\ acting' = None
      BY <1>1, <3>1
    <3>. QED BY <2>5, <2>6, <2>7, <3>2, <3>3 DEF Asked, Steps
  <2>. QED BY <2>4, <2>5, <2>8 DEF QuietState
<1>12. CASE step = "action"
  <2>1. One(Plain("ok")) \/ Two(Plain("ok"), Line("action", job, "200"))
    BY <1>5, <1>12 DEF Told
  <2>2. Matches(h)
    BY <1>4, <1>12, <2>1, Printed DEF One, Two, Matches
  <2>3. step' = "scan" /\ waiting' /\ lines' = 0 /\ UNCHANGED <<again, buffer, accepted>>
    BY <1>10, <1>12, <2>2, Sequence DEF Goto, StepNames
  <2>4. CASE acting = job /\ One(Plain("ok"))
    <3>1. Nothing0'
      BY <1>4, <1>7, <1>9, <2>3, <2>4 DEF One
    <3>2. Told'
      BY <1>1, <1>5, <1>12, <2>3, <2>4, <3>1 DEF Told
    <3>. QED BY <2>3, <3>2 DEF QuietState
  <2>5. CASE /\ acting = None /\ page = GoodPage
             /\ Two(Plain("ok"), Line("action", job, "200"))
    <3>1. ~HasAction(SubSeq(input, n + 1, Len(input)))
      BY <1>2
    <3>2. OneIn(input', Line("action", job, "200"))
      <4>1. \A i \in 1 .. Len(SubSeq(input, n + 1, Len(input))) :
              SubSeq(input, n + 1, Len(input))[i] # Line("action", job, "200")
        BY <1>5, <3>1, Printed DEF HasAction
      <4>2. TwoIn(input, Plain("ok"), Line("action", job, "200"))
        BY <2>5 DEF Two
      <4>3. OneIn(SubSeq(input, 2, n), Line("action", job, "200"))
        BY <1>4, <4>1, <4>2
      <4>. QED BY <1>7, <4>3
    <3>3. One(Line("action", job, "200"))'
      BY <1>1, <1>9, <2>3, <2>5, <3>2 DEF One, Two, Skipped
    <3>4. Told'
      BY <1>1, <1>5, <1>12, <2>3, <2>5, <3>3 DEF Told, GoodPage
    <3>. QED BY <2>3, <3>4 DEF QuietState
  <2>. QED BY <1>5, <1>12, <2>4, <2>5 DEF Told
<1>13. CASE step = "scan"
  <2>1. /\ acting = None /\ page = GoodPage /\ service = "on"
        /\ One(Line("action", job, "200"))
    BY <1>4, <1>5, <1>13 DEF Told, Nothing0
  <2>2. h = Line("action", job, "200") /\ UrcsOnly(input') /\ Skipped(1)
    BY <1>4, <1>7, <2>1 DEF One
  <2>3. Matches(h) /\ h.says = "200"
    BY <1>5, <1>13, <2>2, Printed, Sequence DEF Matches, StepNames
  <2>4. Returned("200") /\ UNCHANGED <<buffer, accepted>>
    BY <1>1, <1>13, <2>3, Outcomes
    DEF OnTo, Fails, Scanned, NotScanned, PageRead, NoPageRead, Ends, StepNames
  <2>5. again \in BOOLEAN /\ ~again
    BY DEF HttpTypeInv, HttpTypeOK, QuietState
  <2>6. ~again' /\ step' = (IF job = Poll THEN "idle" ELSE "read") /\ Goto(step')
    BY <2>4, <2>5, Returns
  <2>7. ~waiting' /\ lines' = 0
    BY <2>6 DEF Goto
  <2>8. Nothing0'
    BY <1>9, <2>2, <2>7
  <2>9. Asked'
    BY <1>1, <1>5, <2>1, <2>6, <2>7, <2>8 DEF Asked, Told, Steps, GoodPage
  <2>10. Poll \notin Records
    BY Numbers DEF Gets
  <2>. QED BY <1>1, <2>6, <2>9, <2>10 DEF QuietState
<1>14. CASE step = "read"
  <2>1. h = Line("read", job, "good") /\ Matches(h) /\ h.of = job /\ h.says = "good"
    BY <1>5, <1>6, <1>14, Printed
  <2>2. /\ step' = "readOk" /\ waiting' /\ lines' = 0 /\ buffer' = GoodPage
        /\ UNCHANGED <<again, accepted>>
    BY <1>1, <1>14, <2>1, Outcomes
    DEF OnTo, Fails, Scanned, NotScanned, PageRead, NoPageRead, Ends, StepNames, Goto, GoodPage
  <2>3. Two(Line("read", job, "good"), Plain("ok"))
    BY <1>5, <1>14 DEF Told
  <2>4. OneIn(input', Plain("ok"))
    BY <1>2, <1>4, <1>7, <1>14, <2>3 DEF Two
  <2>5. One(Plain("ok"))'
    BY <1>9, <2>2, <2>3, <2>4 DEF One, Two, Skipped
  <2>6. Told'
    BY <1>1, <1>5, <1>14, <2>2, <2>5 DEF Told, GoodPage
  <2>. QED BY <2>2, <2>6 DEF QuietState
<1>15. CASE step = "readOk"
  <2>1. buffer = GoodPage /\ One(Plain("ok"))
    BY <1>5, <1>15 DEF Told
  <2>2. UrcsOnly(input') /\ Skipped(1)
    BY <1>4, <1>7, <2>1 DEF One
  <2>3. Ends
    BY <1>1, <1>15, Outcomes
    DEF OnTo, Fails, Scanned, NotScanned, PageRead, NoPageRead, StepNames
  <2>4. /\ step' = "idle" /\ ~waiting' /\ lines' = 0 /\ UNCHANGED again
        /\ job \in Records => job \in accepted'
    BY <2>1, <2>3 DEF Ends, Goto, GoodPage
  <2>5. Nothing0'
    BY <1>9, <2>2, <2>4
  <2>6. Asked'
    BY <1>1, <1>5, <1>15, <2>4, <2>5 DEF Asked, Told, Steps
  <2>. QED BY <1>1, <2>4, <2>6 DEF QuietState
<1>. QED BY <1>5, <1>11, <1>12, <1>13, <1>14, <1>15
     DEF Told, HttpTypeInv, HttpTypeOK, Steps, StepNames

(* Nothing is given up, and the chip is not restarted.                      *)
LEMMA NotGivenUp ==
  ASSUME HttpTypeInv, QuietState, waiting, input = <<>> PROVE Expected
<1>1. CASE Asked
  BY <1>1 DEF Asked, Expected
<1>2. CASE Told
  <2>1. /\ \A x : ~OneIn(input, x)
        /\ \A x, y : ~TwoIn(input, x, y)
    BY DEF OneIn, TwoIn
  <2>2. step = "scan" /\ acting = job /\ job # None
    BY <1>2, <2>1, QuietTypes DEF Told, One, Two, HttpTypeInv, HttpTypeOK, Steps
  <2>. QED BY <2>2 DEF Expected
<1>. QED BY <1>1, <1>2 DEF QuietState

LEMMA QuietBegun ==
  ASSUME HttpTypeInv, QuietState, Begin PROVE QuietState'
<1>1. /\ step = "idle" /\ ~again' /\ step' = "term" /\ ~waiting' /\ lines' = 0
      /\ UNCHANGED <<input, queue, service, body, acting, page, accepted, urcs>>
  BY DEF Begin, Goto, modem
<1>2. Asked
  BY <1>1 DEF QuietState, Told
<1>3. queue' = <<>> /\ Nothing0' /\ acting' = None /\ service' # "download"
  BY <1>1, <1>2, QuietTypes DEF Asked, Nothing0, Skipped
<1>4. Asked'
  BY <1>1, <1>3 DEF Asked, Steps
<1>. QED BY <1>1, <1>4 DEF QuietState

LEMMA QuietBefore ==
  ASSUME HttpTypeInv, [HttpNext]_httpVars, Quiet'
  PROVE  Quiet /\ ~Refuse /\ ~Unanswered /\ ~GivenUpEarly
<1>0. overdue \in Nat /\ wrongs \in Nat /\ lost \in BOOLEAN
  BY QuietTypes DEF HttpTypeInv, HttpTypeOK
<1> USE DEF Quiet
<1>1. ~Refuse /\ ~Unanswered /\ ~GivenUpEarly
  BY <1>0 DEF Refuse, Unanswered, GivenUpEarly
<1> SUFFICES Quiet
  BY <1>1
<1>2. CASE UNCHANGED history
  BY <1>2 DEF history
<1>3. CASE Execute
  BY <1>2, <1>3, Executed
<1>4. CASE Swallow \/ DownloadEnds \/ Arrives \/ Unsolicited
  BY <1>2, <1>4 DEF Swallow, DownloadEnds, Arrives, Unsolicited
<1>5. CASE Answered
  BY <1>0, <1>5 DEF Answered
<1>6. CASE WriteCommand \/ Restart
  BY <1>6 DEF WriteCommand, Restart
<1>7. CASE ReadLine
  BY <1>7 DEF ReadLine
<1>8. CASE SkipUrc \/ Begin \/ GivenUp
  BY <1>2, <1>8 DEF SkipUrc, Begin, GivenUp, NoLine, history
<1>9. CASE UNCHANGED httpVars
  BY <1>2, <1>9 DEF httpVars
<1>. QED BY <1>1, <1>3, <1>4, <1>5, <1>6, <1>7, <1>8, <1>9 DEF HttpNext, Serve, Drive

LEMMA QuietStep ==
  ASSUME HttpTypeInv, QuietInv, [HttpNext]_httpVars PROVE QuietInv'
<1> SUFFICES ASSUME Quiet', MaxUrcs < MaxLines PROVE QuietState'
  BY DEF QuietInv
<1>1. Quiet /\ QuietState /\ ~Refuse /\ ~Unanswered /\ ~GivenUpEarly
  BY QuietBefore DEF QuietInv
<1>2. CASE Unsolicited \/ SkipUrc
  BY <1>1, <1>2, QuietUrc
<1>3. CASE Answered
  BY <1>1, <1>3, QuietAnswered DEF Quiet
<1>4. CASE Swallow \/ Execute \/ WriteCommand \/ Begin
  BY <1>1, <1>4, QuietSwallow, QuietExecute, QuietWritten, QuietBegun
<1>5. CASE DownloadEnds
  <2>1. service = "download" /\ step \notin {"data", "body"}
    BY <1>5 DEF DownloadEnds
  <2>. QED BY <1>1, <2>1 DEF QuietState, Asked, Told
<1>6. CASE ReadLine
  BY <1>1, <1>6, QuietRead DEF Quiet
<1>7. CASE GivenUp
  BY <1>1, <1>7, NotGivenUp DEF GivenUp, NoLine
<1>8. CASE Restart
  BY <1>1, <1>8 DEF Restart, QuietState, Asked, Told
<1>9. CASE Arrives \/ UNCHANGED httpVars
  <2>1. UNCHANGED <<job, step, waiting, lines, again, buffer, input, queue, service, body,
                    acting, page, accepted, urcs>>
    BY <1>9 DEF Arrives, httpVars, driver, modem
  <2>. QED
    BY <1>1, <2>1 DEF QuietState, Asked, Told, Nothing0, One, Two, Skipped, GoodPage
<1>. QED
  BY <1>1, <1>2, <1>3, <1>4, <1>5, <1>6, <1>7, <1>8, <1>9 DEF HttpNext, Serve, Drive

(* While the modem answers in time and rightly, with fewer unsolicited      *)
(* lines in front of an answer than expect reads lines, gsm_send_http       *)
(* recognises the first time that its record has been accepted, and the     *)
(* chip is not restarted, for every number of records and limit of lines.   *)
THEOREM QuietIsUndisturbed == HttpSpec => []Undisturbed
<1>1. HttpInit => HttpTypeInv /\ QuietInv
  <2> SUFFICES ASSUME HttpInit PROVE QuietState
    BY HttpTypeInit DEF QuietInv
  <2>1. /\ job \notin Records /\ step = "idle" /\ ~waiting /\ ~again /\ queue = <<>>
        /\ acting = None /\ service # "download" /\ input = <<>> /\ lines = 0 /\ urcs = 0
    BY Numbers DEF HttpInit
  <2>2. Nothing0
    BY <2>1 DEF Nothing0, Skipped, UrcsOnly
  <2>3. Asked
    BY <2>1, <2>2 DEF Asked, Steps
  <2>. QED BY <2>1, <2>3 DEF QuietState
<1>2. HttpTypeInv /\ QuietInv /\ [HttpNext]_httpVars => (HttpTypeInv /\ QuietInv)'
  BY HttpTypeStep, QuietStep
<1>3. QuietInv => Undisturbed
  BY DEF QuietInv, QuietState, Asked, Told, Undisturbed
<1>. QED BY <1>1, <1>2, <1>3, PTL DEF HttpSpec

-----------------------------------------------------------------------------
(* BringUp.                                                                 *)
Places == {"idle", "at", "atAgain", "power", "pulse", "reset", "configure", "card",
           "signal", "register", "shutdown", "bearer"}
FaultsType ==
  unanswered \in 0 .. MaxMissed /\ silences \in 0 .. MaxSilences /\ unheard \in BOOLEAN

LEMMA Answers ==
  ASSUME FaultsType
  PROVE  /\ \A c \in BOOLEAN : Yes(c) \/ No(c) => FaultsType'
         /\ \A b \in BOOLEAN : Woken(b) => at' \in Places /\ tries' = 0
<1>1. \A c \in BOOLEAN : Yes(c) => FaultsType'
  BY DEF Yes, FaultsType, faults
<1>2. \A c \in BOOLEAN : No(c) => FaultsType'
  BY TriesAssumption DEF No, FaultsType
<1>3. \A b \in BOOLEAN : Woken(b) => at' \in Places /\ tries' = 0
  BY DEF Woken, Goes, Places
<1>. QED BY <1>1, <1>2, <1>3

LEMMA BringUpTypeStep == BringUpTypeOK /\ [BringUpNext]_bringUpVars => BringUpTypeOK'
<1> SUFFICES ASSUME BringUpTypeOK, [BringUpNext]_bringUpVars PROVE BringUpTypeOK'
  OBVIOUS
<1>0. /\ FaultsType /\ 0 \in Nat /\ TRUE \in BOOLEAN /\ FALSE \in BOOLEAN
      /\ at \in Places /\ (UNCHANGED faults => FaultsType')
  BY DEF BringUpTypeOK, FaultsType, faults, Places
<1>t. BringUpTypeOK' <=>
        /\ at' \in Places /\ back' \in {"gsm_init", "register"} /\ tries' \in Nat
        /\ begun' \in BOOLEAN /\ keyOut' \in BOOLEAN /\ supply' \in BOOLEAN
        /\ online' \in BOOLEAN
        /\ chip' \in {"off", "mute", "ready"} /\ (chip' # "off" => supply')
        /\ good' \subseteq Conditions /\ FaultsType'
  BY DEF BringUpTypeOK, Places, FaultsType
<1> USE DEF BringUpTypeOK, Goes, pins
<1>1. CASE GsmInit \/ GsmReboot
  <2>1. FaultsType' /\ at' \in Places
    BY <1>0, <1>1 DEF GsmInit, GsmReboot, Places
  <2>. QED BY <1>0, <1>1, <1>t, <2>1 DEF GsmInit, GsmReboot
<1>2. CASE FirstAT \/ ResetModem
  <2>1. FaultsType'
    BY <1>0, <1>2, Answers DEF FirstAT, ResetModem
  <2>2. at' \in Places /\ tries' = 0
    BY <1>0, <1>2, Answers DEF FirstAT, ResetModem, Places
  <2>. QED BY <1>0, <1>2, <1>t, <2>1, <2>2 DEF FirstAT, ResetModem
<1>3. CASE SecondAT
  <2>1. FaultsType' /\ at' \in Places
    BY <1>0, <1>3, Answers DEF SecondAT, Places
  <2>. QED BY <1>0, <1>3, <1>t, <2>1 DEF SecondAT
<1>4. CASE PowerOn \/ PulseKey \/ Configure \/ Bearer
  <2>1. FaultsType' /\ at' \in Places /\ tries' \in Nat
    BY <1>0, <1>4 DEF PowerOn, PulseKey, Configure, Bearer, Places
  <2>. QED BY <1>0, <1>4, <1>t, <2>1 DEF PowerOn, PulseKey, Configure, Bearer
<1>5. CASE CheckSimCard \/ GetSignal
  <2>1. at' \in Places /\ tries' \in Nat
    BY <1>0, <1>5 DEF CheckSimCard, GetSignal, Places
  <2>2. \/ Yes("card" \in good) \/ No("card" \in good)
        \/ Yes("signal" \in good) \/ No("signal" \in good)
    BY <1>5 DEF CheckSimCard, GetSignal
  <2>3. FaultsType'
    BY <1>0, <2>2, TriesAssumption DEF Yes, No, FaultsType
  <2>. QED BY <2>3, <1>0, <1>5, <1>t, <2>1 DEF CheckSimCard, GetSignal
<1>6. CASE RegisterNetwork
  <2>1. at' \in Places /\ tries' \in Nat
    BY <1>0, <1>6 DEF RegisterNetwork, Places
  <2>2. Yes("network" \in good) \/ No("network" \in good)
    BY <1>6 DEF RegisterNetwork
  <2>3. FaultsType'
    BY <1>0, <2>2, TriesAssumption DEF Yes, No, FaultsType
  <2>. QED BY <2>3, <1>0, <1>6, <1>t, <2>1 DEF RegisterNetwork
<1>7. CASE Shutdown
  <2>1. FaultsType' /\ at' \in Places
    BY <1>0, <1>7, Answers DEF Shutdown, Places
  <2>. QED BY <1>0, <1>7, <1>t, <2>1 DEF Shutdown
<1>8. CASE ComesOn \/ Recovers \/ Changes \/ UNCHANGED bringUpVars
  <2>1. UNCHANGED <<at, back, tries, begun, keyOut, supply, online>> /\ UNCHANGED faults
    BY <1>8 DEF ComesOn, Recovers, Changes, bringUpVars
  <2>. QED BY <1>0, <1>8, <1>t, <2>1 DEF ComesOn, Recovers, Changes, bringUpVars
<1>9. CASE FallsSilent
  <2>1. FaultsType'
    BY <1>0, <1>9, TriesAssumption DEF FallsSilent, FaultsType
  <2>. QED BY <1>0, <1>9, <1>t, <2>1 DEF FallsSilent
<1>10. CASE ChipRestarts
  <2>1. FaultsType' /\ at' \in Places
    BY <1>0, <1>10 DEF ChipRestarts, Places
  <2>. QED BY <1>0, <1>10, <1>t, <2>1 DEF ChipRestarts
<1>. QED
  BY <1>1, <1>2, <1>3, <1>4, <1>5, <1>6, <1>7, <1>8, <1>9, <1>10 DEF BringUpNext, Bring

(* gsm_init's variables and the modem's state keep their types, and a modem *)
(* that is on has power, whoever switches it and whenever the chip restarts.*)
THEOREM BringUpTypeCorrect == BringUpSpec => []BringUpTypeOK
<1>1. BringUpInit => BringUpTypeOK
  <2> SUFFICES ASSUME BringUpInit PROVE BringUpTypeOK
    OBVIOUS
  <2>1. unanswered \in 0 .. MaxMissed /\ silences \in 0 .. MaxSilences /\ tries \in Nat
    BY TriesAssumption DEF BringUpInit
  <2>. QED BY <2>1 DEF BringUpInit, BringUpTypeOK
<1>. QED BY <1>1, BringUpTypeStep, PTL DEF BringUpSpec

-----------------------------------------------------------------------------
(* The modem's users together: each behaves as it does alone.               *)
LEMMA Together ==
  /\ DriversInit => Init /\ HttpInit /\ BringUpInit
  /\ [DriversNext]_driversVars =>
       [Next]_vars /\ [HttpNext]_httpVars /\ [BringUpNext]_bringUpVars
<1>1. DriversInit => Init /\ HttpInit /\ BringUpInit
  BY DEF DriversInit
<1>2. ASSUME DriversNext
      PROVE  [Next]_vars /\ [HttpNext]_httpVars /\ [BringUpNext]_bringUpVars
  BY <1>2 DEF DriversNext, InGsmInit, InSyncTask, InCciTask
<1>3. ASSUME UNCHANGED driversVars
      PROVE  UNCHANGED vars /\ UNCHANGED httpVars /\ UNCHANGED bringUpVars
  BY <1>3 DEF driversVars
<1>. QED BY <1>1, <1>2, <1>3

(* Each part's steps are its own in ModemDrivers: what is proved of a part  *)
(* can be cited for the whole.                                              *)
LEMMA DriversCompose == DriversSpec => Spec /\ HttpSpec /\ BringUpSpec
  BY Together, PTL DEF DriversSpec, Spec, HttpSpec, BringUpSpec

(* All variables of the modem's drivers, of the modem and of the server     *)
(* keep their types.                                                        *)
THEOREM DriversTypeCorrect == DriversSpec => []DriversTypeOK
<1>1. TypeOK /\ HttpTypeOK /\ BringUpTypeOK => DriversTypeOK
  BY DEF DriversTypeOK
<1>. QED
  BY <1>1, DriversCompose, TypeCorrect, HttpTypeCorrect, BringUpTypeCorrect, PTL

(* What the modem's users are promised, whichever of them has it: the bytes *)
(* of a download come in order and whole, and, until two AT+HTTPDATA wait   *)
(* at the modem at a time, an answer is believed only if it is this         *)
(* request's.                                                               *)
THEOREM DriversKeepPromises ==
  DriversSpec => [](InOrder /\ ExactAnswer /\ NothingLost /\ AcceptedIsStored /\ Undisturbed)
BY DriversCompose, ReadInOrder, AnswerTakenExactly, NothingIsLost, AcceptedOnlyStored,
   QuietIsUndisturbed, PTL
=============================================================================
