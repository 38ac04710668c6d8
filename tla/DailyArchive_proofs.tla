----------------------- MODULE DailyArchive_proofs --------------------------
(***************************************************************************)
(* Proofs about DailyArchive, for any number of days and records and every  *)
(* length of a month.                                                       *)
(***************************************************************************)
EXTENDS DailyArchive, TLAPS

USE MaxDayAssumption, MonthAssumption, RecordAssumption

OnCard(d) == txt[d] \union syn[d]

(* Records are numbered as they are written.                                *)
Numbered == /\ \A d \in Days : \A r \in OnCard(d) : r[1] <= count
            /\ Kept

(* What db_sync has still to post is what is left to be read.  The file is  *)
(* that of the day before, or midnight has come between.                    *)
Pass == /\ pc = "lines" => txt[file] \subseteq posted \union lines
        /\ pc = "rename" /\ ~starved => txt[file] \subseteq posted
        /\ pc # "idle" => phase = "running" /\ current = DayOfMonth(lastDay)
        /\ pc \in {"lines", "rename"} => /\ lastDay <= file + 1
                                        /\ lastDay .. file \subseteq between

(* The days of a run.                                                       *)
Run == phase = "running" =>
         /\ lastDay <= day
         /\ pc = "idle" => global = DayOfMonth(lastDay)
         /\ \A d \in served \ between : d < lastDay /\ (pc = "open" => d + 1 < lastDay)
         /\ \A r \in own : r[2] <= day
         /\ ~skipped => day <= lastDay + 1

(* What a run has written and not posted is under its own day; before the   *)
(* day that db_sync deals with there is nothing of the kind, but for a day  *)
(* passed over at midnight.                                                 *)
Due == phase = "running" /\ ~skipped /\ ~starved =>
         /\ \A r \in own : r \in posted \/ r \in txt[r[2]]
         /\ \A r \in own : r[2] + 1 \notin between =>
              /\ pc = "idle" /\ r[2] < lastDay => r \in posted
              /\ pc # "idle" /\ r[2] + 1 < lastDay => r \in posted

(* Nothing is known of a run that has not entered its loop.                 *)
NotYet == phase # "running" =>
            own = {} /\ served = {} /\ between = {} /\ ~skipped /\ pc = "idle"

Inv == TypeOK /\ Numbered /\ SynWasPosted /\ Pass /\ Run /\ NotYet /\ Due

LEMMA RecordDay == \A r \in Records : r[1] \in 1 .. MaxRecords /\ r[2] \in Days
  BY DEF Records

LEMMA MonthDay == \A d \in Days : DayOfMonth(d) \in 1 .. MonthLength
  BY DEF DayOfMonth, Days

LEMMA TypeStep == TypeOK /\ [Next]_vars => TypeOK'
<1> SUFFICES ASSUME TypeOK, [Next]_vars PROVE TypeOK'
  OBVIOUS
<1> USE MonthDay DEF TypeOK, Files, calendarVars, syncVars, cardVars, runVars
<1>0. 0 \in Days /\ 0 \in 0 .. MonthLength
  BY DEF Days
<1>00. lastDay .. day - 1 \subseteq Days
  BY DEF Days
<1>1. CASE ClockSet
  BY <1>1 DEF ClockSet, Begin, Set, Phases
<1>2. CASE TimePasses
  BY <1>2 DEF TimePasses, Forward, Days
<1>3. CASE Enter
  BY <1>3 DEF Enter, Go, Phases
<1>4. CASE Restart
  BY <1>0, <1>4 DEF Restart, Leave, Down, Phases
<1>5. CASE WriteRecord
  <2>1. count + 1 \in 0 .. MaxRecords /\ <<count + 1, day>> \in Records
    BY <1>5 DEF WriteRecord, Records
  <2>. QED BY <1>5, <2>1 DEF WriteRecord
<1>12. CASE DayChanged
  BY <1>12 DEF DayChanged
<1>6. CASE Open
  <2>1. day - 1 \in Days /\ lines' \subseteq Records
    BY <1>6 DEF Open, Days
  <2>2. skipped' \in BOOLEAN /\ starved' \in BOOLEAN /\ between' \subseteq Days
    BY <1>00, <1>6 DEF Open
  <2>3. /\ pc' \in {"idle", "lines", "rename"} /\ lastDay' \in Days
        /\ file' \in Days /\ served' \subseteq Days /\ current' \in 0 .. MonthLength
    BY <1>6, <2>1 DEF Open
  <2>. QED BY <1>6, <2>1, <2>2, <2>3 DEF Open
<1>7. CASE NoFile
  BY <1>0, <1>00, <1>7 DEF NoFile, Leave
<1>8. CASE PostLine
  BY <1>8 DEF PostLine
<1>9. CASE EndOfFile
  BY <1>9 DEF EndOfFile
<1>10. CASE Rename
  BY <1>0, <1>10 DEF Rename, Leave
<1>11. CASE UNCHANGED vars
  BY <1>11 DEF vars
<1>. QED
  BY <1>1, <1>2, <1>3, <1>4, <1>5, <1>6, <1>7, <1>8, <1>9, <1>10, <1>11, <1>12 DEF Next, DbSync

(* What a step does to the files.                                           *)
LEMMA FileStep ==
  ASSUME Inv, [Next]_vars
  PROVE  \/ UNCHANGED cardVars
         \/ /\ count' = count + 1 /\ syn' = syn
            /\ txt' = [txt EXCEPT ![day] = @ \union {<<count + 1, day>>}]
         \/ /\ Rename /\ count' = count
            /\ \E to \in Days : /\ syn[to] = {}
                                /\ syn' = [syn EXCEPT ![to] = txt[file]]
                                /\ txt' = [txt EXCEPT ![file] = {}]
<1>1. CASE WriteRecord
  BY <1>1 DEF WriteRecord
<1>2. CASE Rename
  <2> DEFINE to == IF day > 0 THEN day - 1 ELSE 0
  <2>1. to \in Days
    BY DEF Inv, TypeOK, Days
  <2>2. count' = count
    BY <1>2 DEF Rename
  <2>3. IF syn[to] = {} THEN /\ syn' = [syn EXCEPT ![to] = txt[file]]
                             /\ txt' = [txt EXCEPT ![file] = {}]
                        ELSE UNCHANGED <<txt, syn>>
    BY <1>2 DEF Rename
  <2> HIDE DEF to
  <2>. QED BY <1>2, <2>1, <2>2, <2>3 DEF cardVars
<1>3. CASE ClockSet \/ TimePasses \/ Enter \/ Restart
  BY <1>3 DEF ClockSet, TimePasses, Enter, Restart
<1>4. CASE DayChanged \/ Open \/ NoFile \/ PostLine \/ EndOfFile
  BY <1>4 DEF DayChanged, Open, NoFile, PostLine, EndOfFile
<1>5. CASE UNCHANGED vars
  BY <1>5 DEF vars, cardVars
<1>. QED BY <1>1, <1>2, <1>3, <1>4, <1>5 DEF Next, DbSync

LEMMA NumberedStep == Inv /\ [Next]_vars => Numbered'
<1> SUFFICES ASSUME Inv, [Next]_vars PROVE Numbered'
  OBVIOUS
<1> USE DEF Inv, Numbered, Kept, OnCard
<1>0. /\ txt \in [Days -> SUBSET Records] /\ syn \in [Days -> SUBSET Records]
      /\ count \in Nat /\ day \in Days /\ file \in Days
  BY DEF TypeOK, Files
<1>1. CASE UNCHANGED cardVars
  BY <1>1 DEF cardVars
<1>2. CASE /\ count' = count + 1 /\ syn' = syn
           /\ txt' = [txt EXCEPT ![day] = @ \union {<<count + 1, day>>}]
  <2> DEFINE r == <<count + 1, day>>
  <2>1. r[1] = count + 1 /\ r[2] = day
    OBVIOUS
  <2>2. \A d \in Days : txt'[d] = txt[d] \union (IF d = day THEN {r} ELSE {})
    BY <1>0, <1>2
  <2>3. \A d \in Days : r \notin txt[d] /\ r \notin syn[d]
    BY <1>0, <2>1
  <2>4. \A d \in Days : \A s \in txt[d] \union syn[d] : s \in Records /\ s[1] \in Nat
    BY <1>0, RecordDay
  <2>5. count' <= MaxRecords /\ r \in Records
    <3>1. count' \in 0 .. MaxRecords
      BY TypeStep DEF TypeOK
    <3>. QED BY <1>0, <1>2, <3>1 DEF Records
  <2> HIDE DEF r
  <2>6. \A d \in Days : \A s \in txt'[d] \union syn'[d] : s[1] <= count'
    BY <1>0, <1>2, <2>1, <2>2, <2>4
  <2>7. \A n \in 1 .. count' : \E d \in Days, s \in Records :
          s[1] = n /\ s \in txt'[d] \union syn'[d]
    <3> SUFFICES ASSUME NEW n \in 1 .. count'
                 PROVE  \E d \in Days, s \in Records : s[1] = n /\ s \in txt'[d] \union syn'[d]
      OBVIOUS
    <3>1. CASE n = count + 1
      <4>1. r \in txt'[day]
        BY <1>0, <2>2
      <4>. QED BY <1>0, <2>1, <2>5, <3>1, <4>1
    <3>2. CASE n \in 1 .. count
      BY <1>2, <2>2, <3>2
    <3>. QED BY <1>0, <1>2, <3>1, <3>2
  <2>8. \A d, e \in Days :
          /\ \A s \in txt'[d] : s \notin syn'[e] /\ (d # e => s \notin txt'[e])
          /\ \A s \in syn'[d] : d # e => s \notin syn'[e]
    BY <1>2, <2>2, <2>3
  <2>. QED BY <2>6, <2>7, <2>8
<1>3. CASE /\ Rename /\ count' = count
           /\ \E to \in Days : /\ syn[to] = {}
                               /\ syn' = [syn EXCEPT ![to] = txt[file]]
                               /\ txt' = [txt EXCEPT ![file] = {}]
  <2>1. PICK to \in Days : /\ syn[to] = {}
                           /\ syn' = [syn EXCEPT ![to] = txt[file]]
                           /\ txt' = [txt EXCEPT ![file] = {}]
    BY <1>3
  <2>2. \A d \in Days : txt'[d] = IF d = file THEN {} ELSE txt[d]
    BY <1>0, <2>1
  <2>3. \A d \in Days : syn'[d] = IF d = to THEN txt[file] ELSE syn[d]
    BY <1>0, <2>1
  <2>4. \A d \in Days : \A s \in txt'[d] \union syn'[d] : s[1] <= count'
    BY <1>0, <1>3, <2>2, <2>3
  <2>5. \A d \in Days : \A s \in txt[d] \union syn[d] :
          \E e \in Days : s \in txt'[e] \union syn'[e]
    BY <1>0, <2>1, <2>2, <2>3
  <2>6. \A n \in 1 .. count' : \E d \in Days, s \in Records :
          s[1] = n /\ s \in txt'[d] \union syn'[d]
    BY <1>3, <2>5
  <2>7. \A d, e \in Days :
          /\ \A s \in txt'[d] : s \notin syn'[e] /\ (d # e => s \notin txt'[e])
          /\ \A s \in syn'[d] : d # e => s \notin syn'[e]
    BY <1>0, <2>2, <2>3
  <2>. QED BY <2>4, <2>6, <2>7
<1>. QED BY <1>1, <1>2, <1>3, FileStep

LEMMA PostedStep == Inv /\ [Next]_vars => SynWasPosted' /\ Pass'
<1> SUFFICES ASSUME Inv, [Next]_vars PROVE SynWasPosted' /\ Pass'
  OBVIOUS
<1> USE DEF Inv, SynWasPosted, Pass, calendarVars, syncVars, cardVars, runVars
<1>1. CASE ClockSet
  BY <1>1 DEF ClockSet, Begin, Set
<1>2. CASE TimePasses
  BY <1>2 DEF TimePasses, Forward
<1>3. CASE Enter
  BY <1>3 DEF Enter, Go
<1>4. CASE Restart
  BY <1>4 DEF Restart, Leave
<1>5. CASE WriteRecord
  BY <1>5 DEF WriteRecord
<1>12. CASE DayChanged
  BY <1>12 DEF DayChanged
<1>6. CASE Open
  <2>1. /\ file' = day - 1 /\ UNCHANGED <<phase, current, lastDay>>
        /\ between' = between \union (lastDay .. day - 1) /\ pc = "open"
    BY <1>6 DEF Open
  <2>2. lastDay <= day /\ day \in Nat /\ lastDay \in Nat
    BY <2>1 DEF Run, TypeOK, Days
  <2>3. lastDay' <= file' + 1 /\ lastDay' .. file' \subseteq between'
    BY <2>1, <2>2
  <2>4. pc' = "lines" => lines' = txt[file'] /\ starved' = starved
    BY <1>6 DEF Open
  <2>5. pc' = "rename" => starved'
    BY <1>6 DEF Open
  <2>6. starved => starved'
    BY <1>6 DEF Open
  <2>7. UNCHANGED <<txt, syn, posted>>
    BY <1>6 DEF Open
  <2>. QED BY <2>1, <2>3, <2>4, <2>5, <2>6, <2>7
<1>7. CASE NoFile
  BY <1>7 DEF NoFile, Leave
<1>8. CASE PostLine
  BY <1>8 DEF PostLine
<1>9. CASE EndOfFile
  BY <1>9 DEF EndOfFile
<1>10. CASE Rename
  <2>1. pc' = "idle" /\ UNCHANGED <<posted, starved>>
    BY <1>10 DEF Rename, Leave
  <2>2. ~starved => txt[file] \subseteq posted
    BY <1>10 DEF Rename
  <2>3. \/ UNCHANGED syn
        \/ \E to \in Days : syn' = [syn EXCEPT ![to] = txt[file]]
    BY <1>10, FileStep DEF Rename
  <2>4. \A d \in Days : syn'[d] = syn[d] \/ syn'[d] = txt[file]
    BY <2>3 DEF TypeOK, Files
  <2>. QED BY <2>1, <2>2, <2>4
<1>11. CASE UNCHANGED vars
  BY <1>11 DEF vars
<1>. QED
  BY <1>1, <1>2, <1>3, <1>4, <1>5, <1>6, <1>7, <1>8, <1>9, <1>10, <1>11, <1>12 DEF Next, DbSync

(* Once a run has not skipped a day, a day that is not the last one that    *)
(* db_sync dealt with is the one after it.                                  *)
LEMMA NextDay ==
  ASSUME Inv, DayChanged
  PROVE  lastDay < day /\ (~skipped => day = lastDay + 1)
<1>1. DayOfMonth(lastDay) # DayOfMonth(day) /\ lastDay <= day
  BY DEF Inv, Run, DayChanged
<1>2. lastDay # day
  BY <1>1
<1>. QED BY <1>1, <1>2 DEF Inv, Run, DayChanged, TypeOK, Days

LEMMA RunStep == Inv /\ [Next]_vars => Run'
<1> SUFFICES ASSUME Inv, [Next]_vars PROVE Run'
  OBVIOUS
<1>0. day \in Nat /\ lastDay \in Nat /\ file \in Nat /\ own \subseteq Records /\ served \subseteq Nat
  BY DEF Inv, TypeOK, Days
<1>00. \A r \in own : r[2] \in Nat
  BY <1>0, RecordDay DEF Days
<1> USE DEF Run, calendarVars, syncVars, cardVars, runVars
<1>1. CASE ClockSet
  BY <1>1 DEF ClockSet, Begin, Set
<1>2. CASE TimePasses
  <2>1. /\ phase = "running" /\ day' \in day .. MaxDay 
        /\ UNCHANGED <<pc, global, served, between, own, lastDay>>
        /\ ~skipped' => ~skipped /\ ~(day' > lastDay + 1)
    BY <1>2 DEF TimePasses, Forward
  <2>2. day' \in Nat /\ day <= day'
    BY <1>0, <2>1
  <2>. QED BY <1>0, <1>00, <2>1, <2>2 DEF Inv
<1>3. CASE Enter
  <2>1. /\ own' = {} /\ served' = {} /\ lastDay' = day /\ day' = day
        /\ global' = DayOfMonth(day)
    BY <1>3 DEF Enter, Go, Inv, NotYet
  <2>. QED BY <1>0, <2>1
<1>4. CASE Restart
  BY <1>4 DEF Restart, Down
<1>5. CASE WriteRecord
  <2>1. /\ own' = own \union {<<count + 1, day>>}
        /\ UNCHANGED <<phase, day, pc, global, served, between, lastDay, skipped>>
    BY <1>5 DEF WriteRecord
  <2>2. \A r \in own' : r \in own \/ r[2] = day
    BY <2>1
  <2>. QED BY <1>0, <2>1, <2>2 DEF Inv
<1>11. CASE DayChanged
  <2>1. lastDay < day
    BY <1>11, NextDay
  <2>2. /\ lastDay' = day /\ day' = day /\ pc = "idle" /\ pc' # "idle" /\ phase = "running"
        /\ UNCHANGED <<own, served, between, skipped>>
    BY <1>11 DEF DayChanged
  <2>3. \A d \in served' \ between' : d < lastDay' /\ d + 1 < lastDay'
    BY <1>0, <2>1, <2>2 DEF Inv
  <2>. QED BY <1>0, <2>1, <2>2, <2>3 DEF Inv
<1>6. CASE Open
  <2>1. /\ pc = "open" /\ pc' \notin {"idle", "open"} /\ served' = served \union {day - 1}
        /\ between' = between \union (lastDay .. day - 1)
        /\ UNCHANGED <<phase, day, own, lastDay, skipped>>
    BY <1>6 DEF Open
  <2>2. phase = "running" => \A d \in served' \ between' : d < lastDay'
    <3> SUFFICES ASSUME phase = "running", NEW d \in served' \ between' PROVE d < lastDay
      BY <2>1
    <3>1. CASE d \in served
      BY <2>1, <3>1 DEF Inv
    <3>2. CASE d = day - 1
      BY <1>0, <2>1, <3>2
    <3>. QED BY <2>1, <3>1, <3>2
  <2>. QED BY <2>1, <2>2 DEF Inv
<1>7. CASE NoFile
  <2>1. /\ pc = "open" /\ pc' = "idle" /\ global' = current
        /\ between \subseteq between'
        /\ UNCHANGED <<phase, day, own, served, lastDay, skipped>>
    BY <1>7 DEF NoFile, Leave
  <2>2. current = DayOfMonth(lastDay)
    BY <2>1 DEF Inv, Pass
  <2>. QED BY <2>1, <2>2 DEF Inv
<1>8. CASE PostLine \/ EndOfFile
  BY <1>8 DEF PostLine, EndOfFile, Inv
<1>9. CASE Rename
  <2>1. /\ pc = "rename" /\ global' = current
        /\ pc' = "idle" /\ UNCHANGED <<phase, day, served, between, own, lastDay, skipped>>
    BY <1>9 DEF Rename, Leave
  <2>2. current = DayOfMonth(lastDay)
    BY <2>1 DEF Inv, Pass
  <2>. QED BY <2>1, <2>2 DEF Inv
<1>10. CASE UNCHANGED vars
  BY <1>10 DEF vars, Inv
<1>. QED
  BY <1>1, <1>2, <1>3, <1>4, <1>5, <1>6, <1>7, <1>8, <1>9, <1>10, <1>11 DEF Next, DbSync

LEMMA DueStep == Inv /\ [Next]_vars => Due'
<1> SUFFICES ASSUME Inv, [Next]_vars PROVE Due'
  OBVIOUS
<1>0. /\ day \in Nat /\ lastDay \in Nat /\ file \in Days /\ own \subseteq Records
      /\ txt \in [Days -> SUBSET Records] /\ day \in Days
  BY DEF Inv, TypeOK, Files, Days
<1>00. \A r \in own : r[2] \in Nat /\ r[2] \in Days
  BY <1>0, RecordDay DEF Days
<1> USE DEF Due, calendarVars, syncVars, cardVars, runVars
<1>1. CASE ClockSet
  BY <1>1 DEF ClockSet, Begin, Set
<1>2. CASE TimePasses
  <2>1. /\ UNCHANGED <<phase, pc, txt, file, posted, own, lastDay, between, starved>>
        /\ ~skipped' => ~skipped
    BY <1>2 DEF TimePasses, Forward
  <2>. QED BY <2>1 DEF Inv
<1>3. CASE Enter
  <2>1. own' = {}
    BY <1>3 DEF Enter, Go, Inv, NotYet
  <2>. QED BY <2>1
<1>4. CASE Restart
  BY <1>4 DEF Restart, Down
<1>5. CASE WriteRecord
  <2> DEFINE r == <<count + 1, day>>
  <2>1. /\ phase = "running" /\ pc = "idle" /\ own' = own \union {r}
        /\ UNCHANGED <<phase, day, pc, posted, lastDay, between, skipped, starved>>
        /\ txt' = [txt EXCEPT ![day] = @ \union {r}]
    BY <1>5 DEF WriteRecord
  <2>2. r[2] = day /\ r \in txt'[day] /\ \A d \in Days : txt[d] \subseteq txt'[d]
    BY <1>0, <2>1
  <2>3. lastDay <= day
    BY <2>1 DEF Inv, Run
  <2> HIDE DEF r
  <2>4. ~skipped /\ ~starved => \A s \in own' : s \in posted' \/ s \in txt'[s[2]]
    BY <1>00, <2>1, <2>2 DEF Inv
  <2>5. ~skipped /\ ~starved => \A s \in own' : s[2] + 1 \notin between' /\ s[2] < lastDay' => s \in posted'
    BY <1>0, <2>1, <2>2, <2>3 DEF Inv
  <2>. QED BY <2>1, <2>4, <2>5
<1>12. CASE DayChanged
  <2>1. ~skipped => day = lastDay + 1
    BY <1>12, NextDay
  <2>2. /\ pc = "idle" /\ pc' # "idle" /\ lastDay' = day
        /\ UNCHANGED <<phase, txt, posted, own, between, skipped, starved>>
    BY <1>12 DEF DayChanged
  <2>. QED BY <1>0, <1>00, <2>1, <2>2 DEF Inv
<1>6. CASE Open
  <2>1. /\ pc # "idle" /\ pc' # "idle" /\ between \subseteq between' /\ (starved => starved')
        /\ UNCHANGED <<phase, txt, posted, own, lastDay, skipped>>
    BY <1>6 DEF Open
  <2>. QED BY <2>1 DEF Inv
<1>7. CASE NoFile
  <2>1. /\ pc = "open" /\ pc' = "idle" /\ (day > 0 => txt[day - 1] = {})
        /\ between' = between \union (lastDay .. day - 1)
        /\ UNCHANGED <<phase, txt, posted, own, lastDay, skipped, starved>>
    BY <1>7 DEF NoFile, Leave
  <2>2. ASSUME phase = "running", ~skipped, ~starved, NEW r \in own,
               r[2] + 1 \notin between', r[2] < lastDay
        PROVE  r \in posted
    <3>1. CASE r[2] + 1 < lastDay
      BY <2>1, <2>2, <3>1 DEF Inv
    <3>2. CASE r[2] + 1 = lastDay
      <4>1. lastDay <= day /\ lastDay \notin lastDay .. day - 1
        BY <2>1, <2>2, <3>2 DEF Inv, Run
      <4>2. day = lastDay /\ day > 0 /\ r[2] = day - 1
        BY <1>0, <1>00, <2>2, <3>2, <4>1
      <4>. QED BY <2>1, <2>2, <4>2 DEF Inv
    <3>. QED BY <1>0, <1>00, <2>2, <3>1, <3>2
  <2>. QED BY <2>1, <2>2 DEF Inv
<1>8. CASE PostLine
  <2>1. /\ posted \subseteq posted' /\ pc # "idle"
        /\ UNCHANGED <<phase, pc, txt, own, lastDay, between, skipped, starved>>
    BY <1>8 DEF PostLine
  <2>. QED BY <2>1 DEF Inv
<1>9. CASE EndOfFile
  BY <1>9 DEF EndOfFile, Inv
<1>10. CASE Rename
  <2>1. /\ pc = "rename" /\ pc' = "idle"
        /\ UNCHANGED <<phase, posted, own, lastDay, between, skipped, starved>>
    BY <1>10 DEF Rename, Leave
  <2>2. ~starved => txt[file] \subseteq posted
    BY <2>1 DEF Inv, Pass
  <2>3. \A d \in Days : txt'[d] = txt[d] \/ d = file
    <3>1. txt' = txt \/ txt' = [txt EXCEPT ![file] = {}]
      BY <1>10 DEF Rename
    <3>. QED BY <1>0, <3>1
  <2>4. lastDay <= file + 1 /\ lastDay .. file \subseteq between /\ file \in Nat
    BY <1>0, <2>1 DEF Inv, Pass, Days
  <2>5. ~starved => \A r \in own : r \in txt[r[2]] => r \in txt'[r[2]] \/ r \in posted
    BY <1>00, <2>2, <2>3
  <2>6. ASSUME phase = "running", ~skipped, ~starved, NEW r \in own,
               r[2] + 1 \notin between, r[2] < lastDay
        PROVE  r \in posted
    <3>1. CASE r[2] + 1 < lastDay
      BY <2>1, <2>6, <3>1 DEF Inv
    <3>2. CASE r[2] + 1 = lastDay
      <4>1. r[2] = file
        BY <1>0, <1>00, <2>4, <2>6, <3>2
      <4>. QED BY <2>2, <2>6, <4>1 DEF Inv
    <3>. QED BY <1>0, <1>00, <2>6, <3>1, <3>2
  <2>. QED BY <2>1, <2>5, <2>6 DEF Inv
<1>11. CASE UNCHANGED vars
  BY <1>11 DEF vars, Inv
<1>. QED
  BY <1>1, <1>2, <1>3, <1>4, <1>5, <1>6, <1>7, <1>8, <1>9, <1>10, <1>11, <1>12 DEF Next, DbSync

LEMMA NotYetStep == Inv /\ [Next]_vars => NotYet'
<1> SUFFICES ASSUME Inv, [Next]_vars, phase' # "running" PROVE NotYet'
  BY DEF NotYet
<1> USE DEF NotYet, Inv, calendarVars, syncVars, runVars
<1>1. CASE ClockSet
  BY <1>1 DEF ClockSet, Begin, Set
<1>2. CASE TimePasses \/ Enter
  BY <1>2 DEF TimePasses, Forward, Enter, Go
<1>3. CASE Restart
  BY <1>3 DEF Restart, Leave
<1>4. CASE WriteRecord \/ DayChanged
  BY <1>4 DEF WriteRecord, DayChanged
<1>5. CASE Open \/ NoFile \/ PostLine \/ EndOfFile \/ Rename
  BY <1>5 DEF Open, NoFile, PostLine, EndOfFile, Rename, Pass
<1>6. CASE UNCHANGED vars
  BY <1>6 DEF vars
<1>. QED BY <1>1, <1>2, <1>3, <1>4, <1>5, <1>6 DEF Next, DbSync

(* What the archive rests on is inductive.                                  *)
THEOREM Archive == Spec => []Inv
<1>1. Init => Inv
  <2> SUFFICES ASSUME Init PROVE Inv
    OBVIOUS
  <2>1. skipped \in BOOLEAN /\ starved \in BOOLEAN
    BY DEF Init
  <2>2. TypeOK
    BY <2>1 DEF Init, CalendarInit, TypeOK, Files, Days, Phases
  <2>3. Numbered
    BY DEF Init, Numbered, Kept, OnCard
  <2>4. SynWasPosted /\ Pass
    BY DEF Init, SynWasPosted, Pass
  <2>. QED BY <2>2, <2>3, <2>4 DEF Init, CalendarInit, Inv, Run, NotYet, Due
<1>2. Inv /\ [Next]_vars => Inv'
  BY TypeStep, NumberedStep, PostedStep, RunStep, NotYetStep, DueStep DEF Inv
<1>. QED BY <1>1, <1>2, PTL DEF Spec

(* Every variable keeps its type.                                           *)
THEOREM TypeCorrect == Spec => []TypeOK
  BY Archive, PTL DEF Inv

(* No record leaves the card and none is there twice.                       *)
THEOREM NothingLost == Spec => []Kept
<1>1. Inv => Kept
  BY DEF Inv, Numbered
<1>. QED BY <1>1, Archive, PTL

(* .syn means posted, through restarts and midnights.                       *)
THEOREM SynMeansPosted == Spec => []SynWasPosted
  BY Archive, PTL DEF Inv

(* No line falls between two days, but at a midnight between db_sync's two  *)
(* readings of the clock.                                                   *)
THEOREM NoDayLeft == Spec => []NextDayPosted
<1>1. Inv => NextDayPosted
  BY DEF Inv, Due, NextDayPosted
<1>. QED BY <1>1, Archive, PTL

(* A run opens no file twice, but one opened on the wrong side of midnight. *)
THEOREM OpenedOnce == Spec => OncePerRun
<1>1. ASSUME Inv, [Next]_vars, pc = "open", pc' \in {"lines", "rename"}
      PROVE  file' \notin served \ between
  <2>1. Open
    BY <1>1 DEF Next, DbSync, ClockSet, TimePasses, Enter, Restart, WriteRecord, DayChanged,
       NoFile, Leave, PostLine, EndOfFile, Rename, vars, syncVars
  <2>2. file' = day - 1 /\ phase = "running"
    BY <1>1, <2>1 DEF Open, Inv, Pass
  <2>3. lastDay <= day /\ \A d \in served \ between : d + 1 < lastDay /\ d \in Nat
    BY <1>1, <2>2 DEF Inv, Run, TypeOK, Days
  <2>4. lastDay \in Nat /\ day \in Nat
    BY <1>1 DEF Inv, TypeOK, Days
  <2>. QED BY <2>2, <2>3, <2>4
<1>2. Inv /\ [Next]_vars =>
        [pc = "open" /\ pc' \in {"lines", "rename"} => file' \notin served \ between]_vars
  BY <1>1
<1>. QED BY <1>2, Archive, PTL DEF Spec, OncePerRun
=============================================================================
