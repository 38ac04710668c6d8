---------------------------- MODULE DailyArchive ----------------------------
(***************************************************************************)
(* The files of db.h on the SD card, one per day: db_write_record appends   *)
(* what SyncTask takes out of the cache to today's .txt file; db_sync, once *)
(* the day has changed, posts the lines of yesterday's file and renames it  *)
(* to .syn.  The clock is Calendar's, which Timekeeping implements.         *)
(*                                                                         *)
(* A record is its number and the day of its file; a file is a set of them, *)
(* the order of lines being of no account.  A file exists when it holds     *)
(* something.                                                               *)
(***************************************************************************)
EXTENDS Calendar

CONSTANTS
  MonthLength,  (* days of a month: get_day_of_month counts modulo this     *)
  MaxRecords    (* bound: records written                                   *)

ASSUME MonthAssumption == MonthLength \in Nat /\ MonthLength > 1
ASSUME RecordAssumption == MaxRecords \in Nat

VARIABLES
  pc,        (* where db_sync is                                            *)
  global,    (* global_current_day                                          *)
  current,   (* db_sync: current_day                                        *)
  file,      (* db_sync: the day of the file it has opened                  *)
  lines,     (* db_sync: the lines not yet read                             *)
  txt,       (* the .txt files                                              *)
  syn,       (* the .syn files                                              *)
  count,     (* records written                                             *)
  posted,    (* history: records db_sync has posted                         *)
  own,       (* history: records written since SyncTask entered its loop    *)
  served,    (* history: files db_sync has opened since then                *)
  lastDay,   (* history: the day the last db_sync since then has begun on   *)
  skipped,   (* history: the clock has moved past a day without db_sync     *)
  between,   (* history: days that ended between db_sync's first two        *)
             (* readings of the clock                                       *)
  starved    (* history: malloc has failed in db_sync                       *)

syncVars == <<pc, current, file, lines>>
cardVars == <<txt, syn, count>>
runVars == <<own, served, lastDay, skipped, between>>
vars == <<calendarVars, syncVars, global, cardVars, posted, runVars, starved>>

Records == (1 .. MaxRecords) \X Days
(* Slip: tm_yday.                                                           *)
DayOfYear(d) == d + 1

DayOfMonth(d) == (d % MonthLength) + 1

Init ==
  /\ CalendarInit
  /\ pc = "idle" /\ global = 0 /\ current = 0 /\ file = 0 /\ lines = {}
  /\ txt = [d \in Days |-> {}] /\ syn = [d \in Days |-> {}] /\ count = 0
  /\ posted = {} /\ own = {} /\ served = {} /\ lastDay = 0
  /\ skipped = FALSE /\ between = {} /\ starved = FALSE

-----------------------------------------------------------------------------
(* The clock: midnight comes at any point of db_sync.                       *)
ClockSet ==
  /\ Begin \/ Set
  /\ UNCHANGED <<syncVars, global, cardVars, posted, runVars, starved>>

TimePasses ==
  /\ Forward
  /\ skipped' = (skipped \/ day' > lastDay + 1)
  /\ UNCHANGED <<syncVars, global, cardVars, posted, own, served, lastDay, between, starved>>

(* SyncTask enters its loop: global_current_day = get_day_of_month().       *)
Enter ==
  /\ Go
  /\ global' = DayOfMonth(day) /\ lastDay' = day
  /\ UNCHANGED <<syncVars, cardVars, posted, own, served, skipped, between, starved>>

(* db_sync's own variables are gone.                                        *)
Leave == pc' = "idle" /\ current' = 0 /\ file' = 0 /\ lines' = {}

(* gsm_restart, a panic or a power loss, also between two lines.            *)
Restart ==
  /\ phase # "down" /\ Down
  /\ Leave /\ global' = 0
  /\ own' = {} /\ served' = {} /\ lastDay' = 0 /\ skipped' = FALSE /\ between' = {}
  /\ UNCHANGED <<cardVars, posted, starved>>

-----------------------------------------------------------------------------
(* db_write_record.                                                         *)
WriteRecord ==
  /\ phase = "running" /\ pc = "idle"
  /\ count < MaxRecords
  /\ LET r == <<count + 1, day>>
     IN /\ txt' = [txt EXCEPT ![day] = @ \union {r}]
        /\ own' = own \union {r}
  /\ count' = count + 1
  /\ UNCHANGED <<calendarVars, syncVars, global, syn, posted, served, lastDay,
                 skipped, between, starved>>

-----------------------------------------------------------------------------
(* db_sync.                                                                 *)

(* current_day # global_current_day.                                        *)
DayChanged ==
  /\ phase = "running" /\ pc = "idle" /\ DayOfMonth(day) # global
  /\ pc' = "open"
  /\ current' = DayOfMonth(day) /\ lastDay' = day
  /\ UNCHANGED <<calendarVars, file, lines, global, cardVars, posted, own, served, skipped,
                 between, starved>>

(* Slip: the file of the day that has begun.                                *)
OpenToday ==
  /\ pc = "open"
  /\ txt[day] # {}
  /\ file' = day /\ served' = served \union {file'}
  /\ between' = between \union (lastDay .. day - 1)
  /\ \/ pc' = "lines" /\ lines' = txt[file'] /\ UNCHANGED starved
     \/ pc' = "rename" /\ starved' = TRUE /\ UNCHANGED lines
  /\ UNCHANGED <<calendarVars, current, global, cardVars, posted, own, lastDay, skipped>>

(* YesterdayAsString reads the clock once more; when malloc fails no line   *)
(* is read.                                                                 *)
Open ==
  /\ pc = "open"
  /\ day > 0 /\ txt[day - 1] # {}
  /\ file' = day - 1 /\ served' = served \union {file'}
  /\ between' = between \union (lastDay .. day - 1)
  /\ \/ pc' = "lines" /\ lines' = txt[file'] /\ UNCHANGED starved
     \/ pc' = "rename" /\ starved' = TRUE /\ UNCHANGED lines
  /\ UNCHANGED <<calendarVars, current, global, cardVars, posted, own, lastDay, skipped>>

NoFile ==
  /\ pc = "open" /\ Leave
  /\ day > 0 => txt[day - 1] = {}
  /\ global' = current
  /\ between' = between \union (lastDay .. day - 1)
  /\ UNCHANGED <<calendarVars, cardVars, posted, own, served, lastDay, skipped, starved>>

(* Slip: a line no post could deliver ends the loop.                        *)
PostLineOrStop ==
  /\ pc = "lines"
  /\ \E r \in lines :
       /\ posted' = posted \union {r}
       /\ lines' \in {lines \ {r}, {}}
  /\ UNCHANGED <<calendarVars, pc, current, file, global, cardVars, runVars, starved>>

(* Up to four posts; what comes of them is not looked at.                   *)
PostLine ==
  /\ pc = "lines"
  /\ \E r \in lines : posted' = posted \union {r} /\ lines' = lines \ {r}
  /\ UNCHANGED <<calendarVars, pc, current, file, global, cardVars, runVars, starved>>

EndOfFile ==
  /\ pc = "lines" /\ lines = {}
  /\ pc' = "rename"
  /\ UNCHANGED <<calendarVars, current, file, lines, global, cardVars, posted, runVars,
                 starved>>

(* Slip: rename replaces a file that is there.                              *)
RenameOver ==
  /\ pc = "rename" /\ Leave
  /\ LET to == IF day > 0 THEN day - 1 ELSE 0
     IN syn' = [syn EXCEPT ![to] = txt[file]] /\ txt' = [txt EXCEPT ![file] = {}]
  /\ global' = current
  /\ UNCHANGED <<calendarVars, count, posted, runVars, starved>>

(* Slip: the day is looked at anew.                                         *)
RenameLate ==
  /\ pc = "rename" /\ Leave
  /\ LET to == IF day > 0 THEN day - 1 ELSE 0
     IN IF syn[to] = {} THEN /\ syn' = [syn EXCEPT ![to] = txt[file]]
                             /\ txt' = [txt EXCEPT ![file] = {}]
                        ELSE UNCHANGED <<txt, syn>>
  /\ global' = DayOfMonth(day) /\ lastDay' = day
  /\ UNCHANGED <<calendarVars, count, posted, own, served,
                 skipped, between, starved>>

(* Slip: global_current_day is set only when the file has gone.             *)
RenameChecked ==
  /\ pc = "rename" /\ Leave
  /\ LET to == IF day > 0 THEN day - 1 ELSE 0
     IN IF syn[to] = {} THEN /\ syn' = [syn EXCEPT ![to] = txt[file]]
                             /\ txt' = [txt EXCEPT ![file] = {}]
                             /\ global' = current
                        ELSE UNCHANGED <<txt, syn, global>>
  /\ UNCHANGED <<calendarVars, count, posted, runVars, starved>>

(* The new name is made of yesterday's date once more: if midnight has      *)
(* passed meanwhile it is another day's.  FAT renames onto no other file.   *)
Rename ==
  /\ pc = "rename" /\ Leave
  /\ LET to == IF day > 0 THEN day - 1 ELSE 0
     IN IF syn[to] = {} THEN /\ syn' = [syn EXCEPT ![to] = txt[file]]
                             /\ txt' = [txt EXCEPT ![file] = {}]
                        ELSE UNCHANGED <<txt, syn>>
  /\ global' = current
  /\ UNCHANGED <<calendarVars, count, posted, runVars, starved>>

DbSync == DayChanged \/ Open \/ NoFile \/ PostLine \/ EndOfFile \/ Rename

Next == ClockSet \/ TimePasses \/ Enter \/ Restart \/ WriteRecord \/ DbSync

Spec == Init /\ [][Next]_vars
FairSpec == Spec /\ WF_vars(DbSync)

-----------------------------------------------------------------------------
Files == [Days -> SUBSET Records]

TypeOK ==
  /\ day \in Days /\ phase \in Phases
  /\ pc \in {"idle", "open", "lines", "rename"} /\ lines \subseteq Records
  /\ global \in 0 .. MonthLength /\ current \in 0 .. MonthLength
  /\ file \in Days /\ lastDay \in Days
  /\ txt \in Files /\ syn \in Files
  /\ count \in 0 .. MaxRecords /\ posted \subseteq Records /\ own \subseteq Records
  /\ served \subseteq Days /\ between \subseteq Days
  /\ skipped \in BOOLEAN /\ starved \in BOOLEAN

(* Every record written is in some file, and no record is in two, whatever  *)
(* is renamed to what and whenever midnight comes.                          *)
Kept ==
  /\ \A n \in 1 .. count : \E d \in Days, r \in Records : r[1] = n /\ r \in txt[d] \union syn[d]
  /\ \A d, e \in Days : /\ \A r \in txt[d] : r \notin syn[e] /\ (d # e => r \notin txt[e])
                       /\ \A r \in syn[d] : d # e => r \notin syn[e]

(* A file is called .syn only when each of its lines has been offered to    *)
(* the server, also after restarts and when its name is another day's       *)
(* (unless malloc failed).                                                  *)
SynWasPosted == ~starved => \A d \in Days : syn[d] \subseteq posted

(* While no day passes without a db_sync, whatever this run has written on  *)
(* a day that db_sync has closed has been posted: no line falls between two *)
(* days, also when midnight comes while lines are posted.  A day is left    *)
(* out only when the next one ends between db_sync's two readings of the    *)
(* clock (db.h:118, 125): global_current_day then says it has been closed.  *)
NextDayPosted ==
  phase = "running" /\ pc = "idle" /\ ~skipped /\ ~starved =>
    \A r \in own : r[2] < lastDay /\ r[2] + 1 \notin between => r \in posted

(* A run opens a file at most once: lines are not posted over and over.     *)
(* Only one opened on the wrong side of midnight may be opened again.       *)
OncePerRun ==
  [][pc = "open" /\ pc' \in {"lines", "rename"} => file' \notin served \ between]_vars

(* The records of a day do get posted when the day is over, if the run goes *)
(* on and the network is there again and again.                             *)
DayPosted ==
  \A d \in Days : (\E r \in own : r[2] = d) /\ day > d /\ phase = "running"
    ~> \/ \A r \in own : r[2] = d => r \in posted
       \/ phase # "running" \/ skipped \/ starved \/ d + 1 \in between
=============================================================================
