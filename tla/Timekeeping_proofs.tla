------------------------ MODULE Timekeeping_proofs --------------------------
(***************************************************************************)
(* Proofs about Timekeeping, for every default, every period and every time *)
(* the server or the modem reports.                                         *)
(***************************************************************************)
EXTENDS Timekeeping, TLAPS

USE TimeAssumption, PeriodAssumption

(* The stamp on flash is never earlier than the default, and nothing has    *)
(* been noted when SyncTask starts.                                         *)
Saved == (stored = 0 \/ Default <= stored) /\ (committed = 0 \/ Default <= committed)
BeforeLoop == {"boot", "start", "setStart", "info", "setLocation", "enter", "ended"}
AtStart == /\ pc = "boot" => ~hnvs
           /\ pc \in {"boot", "start"} => sended = 0 /\ last = 0
           /\ pc = "setStart" => last = 0
           /\ pc \in BeforeLoop => startSignal = 0 /\ startDb = 0 /\ reboot = 0
InLoop == pc \in Places \ BeforeLoop => hnvs

(* What the clock is to be set to is no earlier than anything noted.        *)
ToSet == hnvs /\ pc \in Setting =>
           Default <= sended /\ last <= sended /\ startSignal <= sended /\ startDb <= sended

Inv == TypeOK /\ TwoSuffice /\ PointsPast /\ Saved /\ AtStart /\ InLoop /\ ToSet

LEMMA SavedTime ==
  ASSUME NEW t \in Times, Default <= t, Saved, Save(t), stored \in Times, committed \in Times
  PROVE  Saved' /\ stored' \in Times /\ committed' \in Times
  BY DEF Save, Saved, saved

(* nvs_check_timestamp leaves the clock at the time it is given or later.   *)
LEMMA Checked ==
  ASSUME NEW t \in Times, NEW open \in BOOLEAN, CheckTimestamp(open, t),
         Saved, stored \in Times, committed \in Times, now \in Times
  PROVE  /\ Saved' /\ stored' \in Times /\ committed' \in Times /\ now' \in Times
         /\ open => t <= now' /\ Default <= now'
         /\ ~open => now' = now
<1>1. CASE open
  <2>1. PICK s \in {stored, 0} :
          LET current == IF s = 0 THEN Default ELSE s
              chosen == IF current < t \/ t > Default THEN t ELSE current
          IN now' = chosen /\ Save(chosen)
    BY <1>1 DEF CheckTimestamp
  <2> DEFINE current == IF s = 0 THEN Default ELSE s
             chosen == IF current < t \/ t > Default THEN t ELSE current
  <2>2. current \in Times /\ Default <= current
    BY DEF Saved, Times
  <2>3. chosen \in Times /\ Default <= chosen /\ t <= chosen
    BY <2>2 DEF Times
  <2>4. now' = chosen /\ Save(chosen)
    BY <2>1
  <2> HIDE DEF chosen
  <2>5. Saved' /\ stored' \in Times /\ committed' \in Times
    BY <2>3, <2>4, SavedTime
  <2>. QED BY <1>1, <2>3, <2>4, <2>5
<1>2. CASE ~open
  BY <1>2 DEF CheckTimestamp, saved, Saved
<1>. QED BY <1>1, <1>2

(* check_timestamp_from_http asks for no less than it has read.             *)
LEMMA Answered ==
  ASSUME now \in Times, NEW http \in Times, FromHttp(http)
  PROVE  sended' \in Times /\ now <= sended'
  BY DEF FromHttp, MaxTimeStamp, Times

(* The clock is set: to what has been asked for, or later.                  *)
LEMMA ClockSet ==
  ASSUME Inv, pc \in Setting, CheckTimestamp(hnvs, sended)
  PROVE  /\ Saved' /\ stored' \in Times /\ committed' \in Times /\ now' \in Times
         /\ hnvs => sended <= now' /\ Default <= now'
         /\ ~hnvs => now' = now
  BY Checked DEF Inv, TypeOK

(* The variables start over with the invariant.                             *)
LEMMA RestartedInv ==
  ASSUME Restarted, Saved', stored' \in Times, committed' \in Times, now' \in Times
  PROVE  Inv'
<1>1. ~hnvs' /\ hnvs' \in BOOLEAN /\ gsm' \in BOOLEAN
  BY DEF Restarted
<1>2. 0 \in Times /\ pc' = "boot" /\ "boot" \in Places
  BY DEF Restarted, Times, Places
<1>3. sended' = 0 /\ last' = 0 /\ startSignal' = 0 /\ startDb' = 0 /\ reboot' = 0
  BY DEF Restarted
<1>4. TypeOK'
  BY <1>1, <1>2, <1>3 DEF TypeOK
<1>. QED BY <1>1, <1>2, <1>3, <1>4 DEF Inv, TwoSuffice, PointsPast, AtStart, InLoop, ToSet, Setting,
                                   BeforeLoop

LEMMA InvStep == Inv /\ [Next]_vars => Inv'
<1> SUFFICES ASSUME Inv, [Next]_vars PROVE Inv'
  OBVIOUS
<1> USE DEF Inv, TypeOK, TwoSuffice, PointsPast, Saved, AtStart, InLoop, ToSet, Setting, Times,
        Places, BeforeLoop, points, saved
<1>1. CASE FirstInit
  <2>1. hnvs' \in BOOLEAN /\ CheckTimestamp(hnvs', 0) /\ 0 \in Times
    BY <1>1 DEF FirstInit
  <2>2. /\ Saved' /\ stored' \in Times /\ committed' \in Times /\ now' \in Times
        /\ hnvs' => Default <= now'
    BY <2>1, Checked
  <2>. QED BY <1>1, <2>1, <2>2 DEF FirstInit
<1>2. CASE StartOnline
  <2>1. PICK http \in Times : FromHttp(http)
    BY <1>2 DEF StartOnline
  <2>2. sended' \in Times /\ now <= sended'
    BY <2>1, Answered
  <2>. QED BY <1>2, <2>2 DEF StartOnline
<1>15. CASE SetStart
  <2>1. /\ Saved' /\ stored' \in Times /\ committed' \in Times /\ now' \in Times
        /\ hnvs => sended <= now' /\ Default <= now'
    BY <1>15, ClockSet DEF SetStart
  <2>. QED BY <1>15, <2>1 DEF SetStart
<1>3. CASE StartOffline
  <2>1. sended = 0 /\ last = 0 /\ startSignal = 0 /\ startDb = 0 /\ reboot = 0
    BY <1>3 DEF StartOffline
  <2>2. sended' = Default /\ now' = Default
    BY <1>3, <2>1 DEF StartOffline
  <2>3. TypeOK'
    <3>1. gsm' \in BOOLEAN /\ hnvs' \in BOOLEAN
      BY <1>3 DEF StartOffline
    <3>2. pc' \in Places /\ UNCHANGED <<last, startSignal, startDb, reboot, stored, committed>>
      BY <1>3 DEF StartOffline
    <3>. QED BY <2>2, <3>1, <3>2
  <2>. QED BY <1>3, <2>1, <2>2, <2>3 DEF StartOffline
<1>4. CASE Locate
  <2>1. PICK t \in Times :
          /\ sended' = IF t < now THEN now ELSE t
          /\ pc' = IF t > now THEN "setLocation" ELSE "enter"
    BY <1>4 DEF Locate
  <2>. QED BY <1>4, <2>1 DEF Locate
<1>16. CASE SetLocation
  <2>1. /\ Saved' /\ stored' \in Times /\ committed' \in Times /\ now' \in Times
        /\ hnvs => sended <= now' /\ Default <= now'
    BY <1>16, ClockSet DEF SetLocation
  <2>. QED BY <1>16, <2>1 DEF SetLocation
<1>5. CASE LocateFails \/ Enter
  BY <1>5 DEF LocateFails, Enter
<1>6. CASE TopOfLoop
  BY <1>6 DEF TopOfLoop
<1>7. CASE Records \/ SignalNotDue \/ SignalOffline
  BY <1>7 DEF Records, SignalNotDue, SignalOffline
<1>8. CASE Ask
  <2>1. PICK http \in Times : FromHttp(http)
    BY <1>8 DEF Ask
  <2>2. sended' \in Times /\ now <= sended'
    BY <2>1, Answered
  <2>. QED BY <1>8, <2>2 DEF Ask
<1>17. CASE SetSignal
  <2>1. /\ Saved' /\ stored' \in Times /\ committed' \in Times /\ now' \in Times
        /\ hnvs => sended <= now' /\ Default <= now'
    BY <1>17, ClockSet DEF SetSignal
  <2>. QED BY <1>17, <2>1 DEF SetSignal
<1>18. CASE Signal \/ Signalled
  BY <1>18 DEF Signal, Signalled
<1>9. CASE GsmReboot \/ NoGsmReboot
  BY <1>9 DEF GsmReboot, NoGsmReboot
<1>10. CASE DbSync \/ NoDbSync \/ DbSynced
  BY <1>10 DEF DbSync, NoDbSync, DbSynced
<1>11. CASE Tick
  BY <1>11 DEF Tick
<1>12. CASE Reset
  <2>1. Saved' /\ stored' \in Times /\ committed' \in Times /\ now' \in Times
    BY <1>12 DEF Reset
  <2>2. Restarted
    BY <1>12 DEF Reset
  <2>. QED BY <2>1, <2>2, RestartedInv
<1>13. CASE GsmRestart
  <2>1. now \in Times /\ Default <= now /\ Save(now)
    BY <1>13 DEF GsmRestart
  <2>2. Saved' /\ stored' \in Times /\ committed' \in Times
    BY <2>1, SavedTime
  <2>3. Restarted /\ now' \in Times
    BY <1>13 DEF GsmRestart
  <2>. QED BY <2>2, <2>3, RestartedInv
<1>14. CASE UNCHANGED vars
  BY <1>14 DEF vars
<1>. QED
  BY <1>1, <1>2, <1>3, <1>4, <1>5, <1>6, <1>7, <1>8, <1>9, <1>10, <1>11, <1>12, <1>13, <1>14,
     <1>15, <1>16, <1>17, <1>18
  DEF Next, SyncTask, Start, Loop

(* The inductive invariant: what the periods and the maximum rest on.       *)
THEOREM Stamps == Spec => []Inv
<1>1. Init => Inv
  <2> SUFFICES ASSUME Init PROVE Inv
    OBVIOUS
  <2>1. ~hnvs /\ hnvs \in BOOLEAN /\ gsm \in BOOLEAN
    BY DEF Init
  <2>2. TypeOK
    BY <2>1 DEF Init, TypeOK, Times, Places
  <2>. QED BY <2>1, <2>2 DEF Init, Inv, TwoSuffice, PointsPast, Saved, AtStart, InLoop, ToSet,
                             Setting, BeforeLoop
<1>. QED BY <1>1, InvStep, PTL DEF Spec

(* Every variable keeps its type.                                           *)
THEOREM TypeCorrect == Spec => []TypeOK
  BY Stamps, PTL DEF Inv

(* No stamp is ahead of the clock: the two values get_max_time_stamp looks  *)
(* at are enough, and no period starts in the future.                       *)
THEOREM NothingAhead == Spec => []StampsPast
<1>1. Inv => StampsPast
  BY DEF Inv, StampsPast
<1>. QED BY <1>1, Stamps, PTL

LEMMA ForwardStep ==
  ASSUME Inv, [Next]_vars, pc \notin {"boot", "start", "setStart"}, pc' # "boot"
  PROVE  Seen' >= Seen
<1> USE DEF Inv, TypeOK, Times, points, saved, Seen, Setting
<1>1. CASE Locate
  <2>1. PICK t \in Times :
          /\ sended' = IF t < now THEN now ELSE t
          /\ pc' = IF t > now THEN "setLocation" ELSE "enter"
    BY <1>1 DEF Locate
  <2>. QED BY <1>1, <2>1 DEF Locate
<1>2. CASE Ask
  <2>1. PICK http \in Times : FromHttp(http)
    BY <1>2 DEF Ask
  <2>2. sended' \in Times /\ now <= sended'
    BY <2>1, Answered
  <2>. QED BY <1>2, <2>2 DEF Ask
<1>3. CASE SetLocation \/ SetSignal
  <2>1. pc \in Setting /\ pc' \notin Setting /\ CheckTimestamp(hnvs, sended) /\ hnvs' = hnvs
    BY <1>3 DEF SetLocation, SetSignal
  <2>2. now' \in Times /\ (hnvs => sended <= now') /\ (~hnvs => now' = now)
    BY <2>1, ClockSet
  <2>. QED BY <2>1, <2>2
<1>4. CASE LocateFails \/ Enter \/ TopOfLoop \/ Records \/ SignalNotDue \/ SignalOffline
           \/ Signal \/ Signalled
  BY <1>4 DEF LocateFails, Enter, TopOfLoop, Records, SignalNotDue, SignalOffline, Signal,
              Signalled
<1>5. CASE GsmReboot \/ NoGsmReboot \/ DbSync \/ NoDbSync \/ DbSynced \/ Tick
  BY <1>5 DEF GsmReboot, NoGsmReboot, DbSync, NoDbSync, DbSynced, Tick
<1>6. CASE FirstInit \/ StartOnline \/ SetStart \/ StartOffline \/ Reset \/ GsmRestart
  BY <1>6 DEF FirstInit, StartOnline, SetStart, StartOffline, Reset, GsmRestart, Restarted
<1>7. CASE UNCHANGED vars
  BY <1>7 DEF vars
<1>. QED BY <1>1, <1>2, <1>3, <1>4, <1>5, <1>6, <1>7 DEF Next, SyncTask, Start, Loop

(* The time SyncTask goes by does not go back until a reset, whatever time  *)
(* is reported, and however long it takes to set the clock.                 *)
THEOREM NeverBack == Spec => ClockForward
<1>1. Inv /\ [Next]_vars =>
        [pc \notin {"boot", "start", "setStart"} /\ pc' # "boot" => Seen' >= Seen]_vars
  BY ForwardStep
<1>. QED BY <1>1, Stamps, PTL DEF Spec, ClockForward

-----------------------------------------------------------------------------
(* The time SyncTask goes by implements Calendar.                           *)

LEMMA DayOf ==
  /\ \A t \in Times : t \div DayLength \in 0 .. (MaxTime \div DayLength)
  /\ \A t, u \in Times : t <= u => u \div DayLength \in (t \div DayLength) .. (MaxTime \div DayLength)
  /\ \A t, u \in Times : t <= u => t \div DayLength <= u \div DayLength
  BY DEF Times

LEMMA SeenType ==
  ASSUME Inv, [Next]_vars PROVE Seen \in Times /\ Seen' \in Times
  BY InvStep DEF Inv, TypeOK, Seen

LEMMA PhaseStep ==
  ASSUME Inv, [Next]_vars
  PROVE  \/ pc' = "boot" /\ Phase' = "down"
         \/ pc = "boot" /\ Phase = "down" /\ Phase' = "starting"
         \/ Phase = "starting" /\ Phase' = "starting"
         \/ pc = "enter" /\ Phase = "starting" /\ Phase' = "running" /\ Seen' = Seen
         \/ Phase = "running" /\ Phase' = "running" /\ Seen <= Seen'
         \/ Phase' = Phase /\ Seen' = Seen
<1> USE DEF Phase
<1>1. CASE FirstInit
  BY <1>1 DEF FirstInit
<1>2. CASE StartOnline \/ SetStart \/ StartOffline \/ Locate \/ SetLocation \/ LocateFails
  BY <1>2 DEF StartOnline, SetStart, StartOffline, Locate, SetLocation, LocateFails
<1>3. CASE Enter
  BY <1>3 DEF Enter, Seen, Setting
<1>4. CASE Loop
  <2>1. Phase = "running" /\ Phase' = "running" /\ pc \notin {"boot", "start", "setStart"}
        /\ pc' # "boot"
    BY <1>4 DEF Loop, TopOfLoop, Records, SignalNotDue, SignalOffline, Signal, Ask, SetSignal,
       Signalled, GsmReboot, NoGsmReboot, DbSync, NoDbSync, DbSynced
  <2>2. Seen' \in Times /\ Seen \in Times
    BY SeenType
  <2>. QED BY <2>1, <2>2, ForwardStep DEF Times
<1>5. CASE Tick
  <2>1. pc # "boot" /\ pc' = pc /\ Seen <= Seen'
    BY <1>5 DEF Tick, Inv, TypeOK, Times, Seen
  <2>2. Phase \in {"starting", "running"} /\ Phase' = Phase
    BY <2>1
  <2>. QED BY <2>1, <2>2
<1>6. CASE Reset \/ GsmRestart
  BY <1>6 DEF Reset, GsmRestart, Restarted
<1>7. CASE UNCHANGED vars
  BY <1>7 DEF vars, Seen
<1>. QED BY <1>1, <1>2, <1>3, <1>4, <1>5, <1>6, <1>7 DEF Next, SyncTask, Start

(* Every step of the time SyncTask goes by is one of Calendar's, or none:   *)
(* what is shown under Calendar holds of the firmware.                      *)
THEOREM Implements == Spec => CalendarSpec
<1>1. Init => C!CalendarInit
  <2> SUFFICES ASSUME Init PROVE C!CalendarInit
    OBVIOUS
  <2>1. Seen = 0 /\ pc = "boot" /\ 0 \in Times
    BY DEF Init, Times, Seen
  <2>. QED BY <2>1, DayOf DEF C!CalendarInit, C!Days, Phase
<1>2. Inv /\ [Next]_vars => [C!CalendarNext]_C!calendarVars
  <2> SUFFICES ASSUME Inv, [Next]_vars PROVE [C!CalendarNext]_C!calendarVars
    OBVIOUS
  <2>1. Seen \in Times /\ Seen' \in Times
    BY SeenType
  <2> DEFINE d == Seen \div DayLength
  <2>2. /\ d' \in 0 .. (MaxTime \div DayLength)
        /\ Seen <= Seen' => d <= d'
        /\ Seen = Seen' => d = d'
    BY <2>1, DayOf
  <2>3. d' \in C!Days
    BY <2>2 DEF C!Days
  <2>4. Seen <= Seen' => d' \in d .. (MaxTime \div DayLength)
    BY <2>1, <2>2, DayOf
  <2> HIDE DEF d
  <2>5. CASE pc' = "boot" /\ Phase' = "down"
    BY <2>3, <2>5 DEF C!CalendarNext, C!Down, d
  <2>6. CASE Phase = "down" /\ Phase' = "starting"
    BY <2>3, <2>6 DEF C!CalendarNext, C!Begin, d
  <2>7. CASE Phase = "starting" /\ Phase' = "starting"
    BY <2>3, <2>7 DEF C!CalendarNext, C!Set, d
  <2>8. CASE Phase = "starting" /\ Phase' = "running" /\ Seen' = Seen
    BY <2>2, <2>8 DEF C!CalendarNext, C!Go, d
  <2>9. CASE Phase = "running" /\ Phase' = "running" /\ Seen <= Seen'
    BY <2>4, <2>9 DEF C!CalendarNext, C!Forward, d
  <2>10. CASE Phase' = Phase /\ Seen' = Seen
    BY <2>2, <2>10 DEF C!calendarVars, d
  <2>. QED BY <2>5, <2>6, <2>7, <2>8, <2>9, <2>10, PhaseStep
<1>. QED BY <1>1, <1>2, Stamps, PTL DEF Spec, CalendarSpec, C!CalendarSpec
=============================================================================
