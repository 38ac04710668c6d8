---------------------------- MODULE HttpSession -----------------------------
(***************************************************************************)
(* HTTP requests through the sim800 driver: HTTP_post, HTTP_get and         *)
(* HTTP_read of sim800.cpp on its line layer (println, readline, expect,    *)
(* expect_scan), as gsm_send_http and gsm_get_time_from_http of gsm_tools.h *)
(* call them.                                                              *)
(*                                                                         *)
(* Every command waits for one line.  The modem may put unsolicited lines   *)
(* in front of it, refuse, fail, or answer when the driver has given up; a  *)
(* line left over is then taken for the answer to a later command, unless   *)
(* it is dropped when that command is written.                              *)
(*                                                                         *)
(* A request is the number of the record it posts, Time, or Poll: a get     *)
(* whose page is not read.  Lines arrive whole.  A page is good (the server *)
(* has the record), bad, or huge (longer than CRITICAL_BUFFER_HTTPREAD).    *)
(***************************************************************************)
EXTENDS Naturals, Sequences

CONSTANTS
  MaxRecords,  (* bound: records to post                                    *)
  MaxLines,    (* lines expect reads at most: 6                             *)
  MaxUrcs,     (* bound: unsolicited lines in front of one answer           *)
  MaxOverdue,  (* bound: answers that come after the driver's time-out      *)
  MaxBehind,   (* bound: commands the modem is behind when a call begins    *)
  MaxFaults    (* bound: what the modem or the server does wrong            *)

ASSUME HttpAssumption ==
  /\ MaxRecords \in Nat /\ MaxLines \in Nat \ {0}
  /\ MaxUrcs \in Nat /\ MaxOverdue \in Nat /\ MaxBehind \in Nat /\ MaxFaults \in Nat

VARIABLES
  job,       (* the request of the call in progress, or of the last one     *)
  step,      (* where SyncTask is in it                                     *)
  waiting,   (* the command of this step is written, its line awaited       *)
  lines,     (* lines read by this expect: i                                *)
  again,     (* the second HTTP_post, or HTTP_get, of the call              *)
  buffer,    (* the page HTTP_read has read                                 *)
  input,     (* lines that have arrived and are not yet read                *)
  queue,     (* commands the modem has not yet executed                     *)
  service,   (* the modem's HTTP service: "off", "on" or "download"         *)
  body,      (* what HTTPDATA has given it                                  *)
  acting,    (* the request it is performing                                *)
  page,      (* the answer it holds                                         *)
  stored,    (* records the server has                                      *)
  accepted,  (* history: records gsm_send_http has returned true for        *)
  urcs,      (* unsolicited lines since the last command                    *)
  overdue,   (* history: answers that came too late                         *)
  wrongs,    (* history: faults                                             *)
  lost,      (* history: a +HTTPACTION line was lost                        *)
  overrun    (* history: two AT+HTTPDATA waited at the modem at a time      *)

driver == <<job, step, waiting, lines, again, buffer>>
modem == <<service, body, acting, page, stored>>
history == <<overdue, wrongs, lost, overrun>>
httpVars == <<driver, input, queue, modem, accepted, urcs, history>>

None == 0
Records == 1 .. MaxRecords
Time == MaxRecords + 1
Poll == MaxRecords + 2
Junk == MaxRecords + 3
Gets == {Time, Poll}
Requests == Records \union Gets

Steps == {"idle", "term", "init", "cid", "content", "url", "data", "body", "action",
          "scan", "read", "readOk", "restart"}
Pages == [of : 0 .. Junk, says : {"none", "good", "bad", "huge"}]
NoPage == [of |-> None, says |-> "none"]
Lines == [k : {"urc", "ok", "error", "download"}, of : {None}, says : {"none"}]
         \union [k : {"action"}, of : 0 .. Junk, says : {"200", "lesser", "critical"}]
         \union [k : {"read"}, of : 0 .. Junk, says : {"none", "good", "bad", "huge"}]
Line(k, of, says) == [k |-> k, of |-> of, says |-> says]
Plain(k) == Line(k, None, "none")
Prints(l) == input' = Append(input, l)
HasAction(s) == \E i \in 1 .. Len(s) : s[i].k = "action"

HttpInit ==
  /\ job = None /\ step = "idle" /\ waiting = FALSE /\ lines = 0 /\ again = FALSE
  /\ buffer = NoPage
  /\ input = <<>> /\ queue = <<>>
  /\ service \in {"off", "on"} /\ body = None /\ acting = None /\ page = NoPage
  /\ stored = {} /\ accepted = {}
  /\ urcs = 0 /\ overdue = 0 /\ wrongs = 0 /\ lost = FALSE
  /\ overrun = FALSE

-----------------------------------------------------------------------------
(* The modem and the server.                                                *)

Unsolicited ==
  /\ waiting /\ urcs < MaxUrcs
  /\ urcs' = urcs + 1
  /\ Prints(Plain("urc"))
  /\ UNCHANGED <<driver, queue, modem, accepted, history>>

Refuse ==
  /\ queue # <<>> /\ queue' = Tail(queue) /\ service # "download"
  /\ wrongs < MaxFaults /\ wrongs' = wrongs + 1
  /\ Prints(Plain("error"))
  /\ UNCHANGED <<driver, modem, accepted, urcs, overdue, lost, overrun>>

(* After DOWNLOAD whatever comes is data, until it is enough ...            *)
Swallow ==
  /\ queue # <<>> /\ queue' = Tail(queue) /\ service = "download"
  /\ body' = IF Head(queue).c = "body" THEN Head(queue).r ELSE Junk
  /\ \/ service' = "on" /\ Prints(Plain("ok"))
     \/ Head(queue).c # "body" /\ UNCHANGED <<service, input>>
  /\ UNCHANGED <<driver, acting, page, stored, accepted, urcs, history>>

(* ... or the three seconds are over; a post's data follow at once.         *)
DownloadEnds ==
  /\ service = "download" /\ step \notin {"data", "body"}
  /\ service' = "on" /\ Prints(Plain("ok"))
  /\ UNCHANGED <<driver, queue, body, acting, page, stored, accepted, urcs, history>>

(* Whether the command makes sense to the modem.                            *)
Can(c, r) ==
  CASE c = "init"   -> service = "off"
    [] c = "action" -> service = "on" /\ (r \in Gets \/ body # None)
    [] c = "read"   -> service = "on" /\ page # NoPage
    [] OTHER        -> service = "on"

Execute ==
  /\ queue # <<>> /\ queue' = Tail(queue) /\ service # "download"
  /\ LET c == Head(queue).c
         r == Head(queue).r
     IN IF Can(c, r)
        THEN /\ service' = CASE c = "term" -> "off"
                             [] c = "init" -> "on"
                             [] c = "data" -> "download"
                             [] OTHER      -> service
             /\ body' = IF c = "term" THEN None ELSE body
             /\ acting' = CASE c = "term"   -> None
                            [] c = "action" -> IF r \in Gets THEN r ELSE body
                            [] OTHER        -> acting
             /\ page' = IF c = "term" THEN NoPage ELSE page
             /\ CASE c = "read" ->
                       input' = input \o <<Line("read", page.of, page.says), Plain("ok")>>
                  [] c = "data" -> Prints(Plain("download"))
                  [] c = "body" -> UNCHANGED input
                  [] OTHER      -> Prints(Plain("ok"))
        ELSE Prints(Plain("error")) /\ UNCHANGED <<service, body, acting, page>>
  /\ UNCHANGED <<driver, stored, accepted, urcs, history>>

(* The request reaches the server ...                                       *)
Arrives ==
  /\ acting \in Records \ stored
  /\ stored' = stored \union {acting}
  /\ UNCHANGED <<driver, input, queue, service, body, acting, page, accepted, urcs,
                 history>>

(* ... and is answered: "1" or "Record exist" only of what is stored.       *)
Answered ==
  /\ acting # None /\ acting' = None
  /\ \/ /\ acting \in stored \union Gets
        /\ page' = [of |-> acting, says |-> "good"]
        /\ Prints(Line("action", acting, "200")) /\ UNCHANGED wrongs
     \/ /\ wrongs < MaxFaults /\ wrongs' = wrongs + 1
        /\ \E s \in {"200", "lesser", "critical"} : Prints(Line("action", acting, s))
        /\ \E s \in {"bad", "huge"} : page' = [of |-> acting, says |-> s]
  /\ UNCHANGED <<driver, queue, service, body, stored, accepted, urcs, overdue, lost, overrun>>

(* It is not: the line is lost, or the modem has been reset.                *)
Unanswered ==
  /\ acting # None /\ acting' = None
  /\ wrongs < MaxFaults /\ wrongs' = wrongs + 1
  /\ lost' = TRUE
  /\ UNCHANGED <<driver, input, queue, service, body, page, stored, accepted, urcs,
                 overdue, overrun>>

Serve == Swallow \/ DownloadEnds \/ Execute \/ Arrives \/ Answered

-----------------------------------------------------------------------------
(* gsm_send_http and gsm_get_time_from_http.                                *)

Goto(s) == step' = s /\ waiting' = (s \in {"scan", "readOk"}) /\ lines' = 0

Begin ==
  /\ step = "idle" /\ Len(queue) <= MaxBehind
  /\ job' \in Requests /\ again' = FALSE /\ buffer' = NoPage
  /\ Goto("term")
  /\ UNCHANGED <<input, queue, modem, accepted, urcs, history>>

(* HTTP_post or HTTP_get has returned status.  What a repeated post says is *)
(* not looked at; a repeated get is read whatever it says.                  *)
Returned(status) ==
  IF status = "critical" /\ job # Poll
  THEN again' = TRUE /\ Goto(IF again THEN "restart" ELSE "term")
  ELSE /\ UNCHANGED again
       /\ Goto(CASE job = Poll -> "idle"
                 [] again      -> IF job = Time THEN "read" ELSE "idle"
                 [] OTHER      -> IF status \in {"200", "37"} THEN "read" ELSE "idle")

(* The chip restarts, the modem goes on.                                    *)
Restart ==
  /\ step = "restart" /\ Goto("idle")
  /\ input' = <<>> /\ lost' = (lost \/ HasAction(input))
  /\ UNCHANGED <<job, again, buffer, queue, modem, accepted, urcs, overdue, wrongs,
                 overrun>>

-----------------------------------------------------------------------------
(* HTTP_post, HTTP_get and HTTP_read: the steps of a request.               *)

Following ==
  [term |-> "init", init |-> "cid", cid |-> IF job \in Gets THEN "url" ELSE "content",
   content |-> "url", url |-> IF job \in Gets THEN "action" ELSE "data",
   data |-> "body", body |-> "action", action |-> "scan"]

(* println drops what has arrived, however far behind the modem is; the     *)
(* data of a post is only written.                                          *)
WriteCommand ==
  /\ step \in DOMAIN Following \union {"read"} /\ ~waiting
  /\ waiting' = TRUE /\ lines' = 0
  /\ queue' = Append(queue, [c |-> step, r |-> job])
  /\ overrun' = (overrun \/ (step = "data"
                               /\ \E i \in 1 .. Len(queue) : queue[i].c = "data"))
  /\ IF step = "body" THEN UNCHANGED <<input, urcs, lost>>
     ELSE input' = <<>> /\ urcs' = 0 /\ lost' = (lost \/ HasAction(input))
  /\ UNCHANGED <<job, step, again, buffer, modem, accepted, overdue, wrongs>>

(* Slip: the other HTTP_post's "+HTTPACTION: 0" (sim800.cpp:479).           *)
MatchesGet(l) ==
  CASE step = "data" -> l.k = "download"
    [] step = "scan" -> l.k = "action" /\ l.of \in Gets
    [] step = "read" -> l.k = "read"
    [] OTHER         -> l.k = "ok"

(* Slip: HTTP_post does not look at what expect returns.                    *)
MatchesUnlooked(l) ==
  CASE step = "scan" -> l.k = "action" /\ (l.of \in Gets <=> job \in Gets)
    [] step = "read" -> l.k = "read"
    [] OTHER         -> TRUE

(* The line each step looks for.                                            *)
Matches(l) ==
  CASE step = "data" -> l.k = "download"
    [] step = "scan" -> l.k = "action" /\ (l.of \in Gets <=> job \in Gets)
    [] step = "read" -> l.k = "read"
    [] OTHER         -> l.k = "ok"

(* expect and expect_scan have read l; "none" stands for a time-out.        *)
Outcome(l) ==
  /\ CASE step \in DOMAIN Following ->
            /\ IF step = "term" \/ Matches(l) THEN Goto(Following[step]) /\ UNCHANGED again
               ELSE Returned(IF step = "data" THEN "lesser" ELSE "critical")
            /\ UNCHANGED <<buffer, accepted>>
       [] step = "scan" ->
            /\ IF Matches(l) THEN Returned(l.says)
               ELSE IF job \in Gets
                    THEN \E s \in {"200", "37", "lesser", "critical"} : Returned(s)
                    ELSE Goto("scan") /\ UNCHANGED again
            /\ UNCHANGED <<buffer, accepted>>
       [] step = "read" ->
            /\ IF Matches(l) /\ l.says # "huge"
               THEN Goto("readOk") /\ buffer' = [of |-> l.of, says |-> l.says]
               ELSE /\ UNCHANGED buffer
                    /\ Goto("restart") \/ (~Matches(l) /\ Goto("readOk"))
            /\ UNCHANGED <<again, accepted>>
       [] OTHER ->
            /\ Goto("idle") /\ UNCHANGED <<again, buffer>>
            /\ accepted' = IF buffer.says = "good" /\ buffer.of \in Records
                              /\ job \in Records
                           THEN accepted \union {job} ELSE accepted

(* Slip: the limit is reached one line early.                               *)
LastLineEarly == lines + 2 >= MaxLines

(* expect takes its last line whatever it is.                               *)
LastLine == lines + 1 >= MaxLines

SkipUrc ==
  /\ waiting /\ input # <<>> /\ Head(input).k = "urc" /\ ~LastLine
  /\ lines' = lines + 1 /\ input' = Tail(input)
  /\ UNCHANGED <<job, step, waiting, again, buffer, queue, modem, accepted, urcs, history>>

(* expect flushes: what is still in the receiver is gone.  HTTP_read, when  *)
(* its line does not match, takes some of what follows for the page.        *)
ReadLine ==
  /\ waiting /\ input # <<>> /\ (Head(input).k # "urc" \/ LastLine)
  /\ Outcome(Head(input))
  /\ \E m, n \in 1 .. Len(input) :
       /\ m > 1 => step = "read" /\ ~Matches(Head(input))
       /\ n < Len(input) => step \notin {"scan", "read"}
       /\ input' = SubSeq(input, m + 1, n)
       /\ lost' = (lost \/ HasAction(SubSeq(input, 2, m))
                        \/ HasAction(SubSeq(input, n + 1, Len(input))))
  /\ UNCHANGED <<job, queue, modem, urcs, overdue, wrongs, overrun>>

NoLine ==
  /\ waiting /\ input = <<>> /\ Outcome(Plain("none"))
  /\ UNCHANGED <<job, input, queue, modem, urcs, wrongs, lost, overrun>>

(* A time-out, when nothing more would come, or when it would have.         *)
Expected == queue # <<>> \/ (step = "scan" /\ acting # None)
GivenUp == ~Expected /\ NoLine /\ UNCHANGED overdue
GivenUpEarly == Expected /\ overdue < MaxOverdue /\ NoLine /\ overdue' = overdue + 1

Drive == WriteCommand \/ SkipUrc \/ ReadLine \/ GivenUp \/ Restart

HttpNext == Serve \/ Drive \/ Begin \/ Unsolicited \/ Refuse \/ Unanswered \/ GivenUpEarly

HttpSpec == HttpInit /\ [][HttpNext]_httpVars

-----------------------------------------------------------------------------
HttpTypeOK ==
  /\ job \in Requests \union {None} /\ step \in Steps
  /\ waiting \in BOOLEAN /\ lines \in 0 .. MaxLines - 1 /\ again \in BOOLEAN
  /\ buffer \in Pages
  /\ input \in Seq(Lines) /\ queue \in Seq([c : Steps, r : Requests])
  /\ service \in {"off", "on", "download"}
  /\ body \in Records \union {None, Junk} /\ acting \in 0 .. Junk /\ page \in Pages
  /\ stored \subseteq Records /\ accepted \subseteq Records
  /\ urcs \in 0 .. MaxUrcs /\ overdue \in 0 .. MaxOverdue /\ wrongs \in 0 .. MaxFaults
  /\ lost \in BOOLEAN /\ overrun \in BOOLEAN

(* gsm_send_http returns true for a record only if the server has that      *)
(* record: no late answer, left-over line, unsolicited line or status of    *)
(* another request passes for its own (HTTP_post waits for DOWNLOAD), until *)
(* two AT+HTTPDATA wait at the modem at a time.  Then one post may take the *)
(* DOWNLOAD of an earlier one, and all that follows, for its own.  Five     *)
(* commands lie between two AT+HTTPDATA, each waited for five seconds       *)
(* (sim800.cpp:1052); the repository knows one that takes up to thirty      *)
(* (sim800.cpp:358), so the code does not rule this out.                    *)
AcceptedIsStored == ~overrun => accepted \subseteq stored

(* While the modem answers in time and rightly, with at most five           *)
(* unsolicited lines in front of an answer, the chip is not restarted, and  *)
(* a posted record is recognised as accepted by the first gsm_send_http.    *)
Quiet == overdue = 0 /\ wrongs = 0 /\ ~lost
Undisturbed ==
  Quiet /\ MaxUrcs < MaxLines =>
    /\ step # "restart"
    /\ step = "idle" /\ job \in Records => job \in accepted

(* HTTP_post waits for +HTTPACTION for ever, and still every call ends if   *)
(* no such line is lost, whatever is refused, late or left over.            *)
CallEnds == <>[]~lost => []<>(step \in {"idle", "restart"})
=============================================================================
