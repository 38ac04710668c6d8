---------------------------- MODULE Timekeeping -----------------------------
(***************************************************************************)
(* The system clock and the time stamps SyncTask keeps: nvs_check_timestamp *)
(* and nvs_sync_with_server of main.cpp, gsm_send_signal,                   *)
(* check_timestamp_from_http and gsm_send_location, get_max_time_stamp of   *)
(* date_time.h, gsm_restart of gsm_tools.h.                                 *)
(*                                                                         *)
(* The server and the modem may report any time, and time passes between    *)
(* SyncTask's reading the clock and its setting it.  Posts are steps only   *)
(* where they may end in gsm_restart; what they send is left out.           *)
(***************************************************************************)
EXTENDS Naturals

CONSTANTS
  Default,       (* default_current_time_stamp                              *)
  SignalPeriod,  (* UPDATE_PERIOD_FOR_TIME_STAMP_DBM_SIGNAL                 *)
  RebootPeriod,  (* PERIOD_REBOOT_GSM                                       *)
  DbPeriod,      (* UPDATE_PERIOD_FOR_CHECK_DB_SYNCHRONIZATION              *)
  DayLength,     (* ticks of the clock in a day                             *)
  MaxTime        (* bound: the last time                                    *)

ASSUME TimeAssumption == Default \in Nat \ {0} /\ MaxTime \in Nat /\ Default <= MaxTime
ASSUME PeriodAssumption ==
  /\ SignalPeriod \in Nat /\ RebootPeriod \in Nat /\ DbPeriod \in Nat
  /\ DayLength \in Nat \ {0}

VARIABLES
  pc,           (* where SyncTask is                                        *)
  now,          (* the system clock                                         *)
  hnvs,         (* nvs_open has succeeded                                   *)
  gsm,          (* gsm_no_problem                                           *)
  sended,       (* last_time_stamp_sended                                   *)
  last,         (* last_time_stamp                                          *)
  startSignal,  (* start_point_time_stamp_dbm_signal                        *)
  startDb,      (* start_point_time_stamp_check_db_sync                     *)
  reboot,       (* time_stamp_reboot_gsm                                    *)
  stored,       (* "timestamp" as nvs_get_i32 reads it; 0: there is none    *)
  committed     (* "timestamp" as it is sure to survive a reset             *)

points == <<startSignal, startDb, reboot>>
saved == <<stored, committed>>
vars == <<pc, now, hnvs, gsm, sended, last, points, saved>>

Times == 0 .. MaxTime
Setting == {"setStart", "setLocation", "setSignal"}
Places == {"boot", "start", "info", "enter", "ended", "loop", "records", "signal", "ask",
           "signalled", "modem", "db", "sync"} \union Setting

Init ==
  /\ pc = "boot" /\ now = 0 /\ hnvs = FALSE /\ gsm = FALSE
  /\ sended = 0 /\ last = 0 /\ startSignal = 0 /\ startDb = 0 /\ reboot = 0
  /\ stored = 0 /\ committed = 0

-----------------------------------------------------------------------------
(* get_max_time_stamp takes sizeof of a pointer: it looks at two of five.   *)
MaxTimeStamp(a, b) == IF a > b THEN a ELSE b

(* nvs_set_i32 and nvs_commit; either may fail.                             *)
Save(t) ==
  \/ stored' = t /\ committed' \in {t, committed}
  \/ UNCHANGED saved

(* nvs_check_timestamp(t, true).  nvs_get_i32 finds nothing on an erased    *)
(* partition.                                                               *)
CheckTimestamp(open, t) ==
  IF open
  THEN \E s \in {stored, 0} :
         LET current == IF s = 0 THEN Default ELSE s
             chosen == IF current < t \/ t > Default THEN t ELSE current
         IN now' = chosen /\ Save(chosen)
  ELSE UNCHANGED <<now, saved>>

(* Slip: the server is believed, also when it is behind.                    *)
FromHttpBelieved(http) == sended' = IF http = 0 THEN now ELSE http

(* check_timestamp_from_http, when the server has said http (0: no answer), *)
(* reads the clock; setting it is a later step.                             *)
FromHttp(http) == sended' = MaxTimeStamp(http, now)

-----------------------------------------------------------------------------
(* nvs_first_init(0).                                                       *)
FirstInit ==
  /\ pc = "boot" /\ pc' = "start"
  /\ hnvs' \in BOOLEAN
  /\ CheckTimestamp(hnvs', 0)
  /\ UNCHANGED <<gsm, sended, last, points>>

StartOnline ==
  /\ pc = "start" /\ pc' = "setStart"
  /\ gsm' = TRUE
  /\ \E http \in Times : FromHttp(http)
  /\ UNCHANGED <<now, hnvs, last, points, saved>>

SetStart ==
  /\ pc = "setStart" /\ pc' = "info"
  /\ CheckTimestamp(hnvs, sended)
  /\ last' = sended
  /\ UNCHANGED <<hnvs, gsm, sended, points>>

(* The clock is set back to the default if nothing has been sent.           *)
StartOffline ==
  /\ pc = "start" /\ pc' = "enter"
  /\ gsm' = FALSE
  /\ sended' = IF sended < Default THEN Default ELSE sended
  /\ now' = sended'
  /\ UNCHANGED <<hnvs, last, points, saved>>

(* Slip: the clock is set to the modem's time whatever it is.               *)
LocateAlways ==
  /\ pc = "info" /\ pc' = "setLocation"
  /\ last' = now /\ sended' \in Times
  /\ UNCHANGED <<now, hnvs, gsm, points, saved>>

(* gsm_send_location, when the modem knows where it is.                     *)
Locate ==
  /\ pc = "info"
  /\ last' = now
  /\ \E t \in Times :
       /\ sended' = IF t < now THEN now ELSE t
       /\ pc' = IF t > now THEN "setLocation" ELSE "enter"
  /\ UNCHANGED <<now, hnvs, gsm, points, saved>>

SetLocation ==
  /\ pc = "setLocation" /\ pc' = "enter"
  /\ CheckTimestamp(hnvs, sended)
  /\ UNCHANGED <<hnvs, gsm, sended, last, points>>

LocateFails ==
  /\ pc = "info" /\ pc' = "enter"
  /\ UNCHANGED <<now, hnvs, gsm, sended, last, points, saved>>

Enter ==
  /\ pc = "enter"
  /\ IF hnvs THEN pc' = "loop" /\ reboot' = sended
             ELSE pc' = "ended" /\ UNCHANGED reboot
  /\ UNCHANGED <<now, hnvs, gsm, sended, last, startSignal, startDb, saved>>

-----------------------------------------------------------------------------
(* One pass of SyncTask's loop.                                             *)

TopOfLoop ==
  /\ pc = "loop" /\ pc' = "records"
  /\ gsm' \in BOOLEAN /\ (gsm => gsm')
  /\ UNCHANGED <<now, hnvs, sended, last, points, saved>>

(* Every hundred records the time is saved, without a commit.               *)
Records ==
  /\ pc = "records" /\ pc' = "signal"
  /\ stored' \in {stored, now}
  /\ UNCHANGED <<now, hnvs, gsm, sended, last, points, committed>>

SignalNotDue ==
  /\ pc = "signal" /\ pc' = "modem"
  /\ now <= startSignal + SignalPeriod
  /\ last' = now
  /\ UNCHANGED <<now, hnvs, gsm, sended, points, saved>>

(* Slip: offline, the start point stays.                                    *)
SignalOfflineStays ==
  /\ pc = "signal" /\ pc' = "modem"
  /\ now > startSignal + SignalPeriod /\ ~gsm
  /\ last' = now
  /\ UNCHANGED <<now, hnvs, gsm, sended, points, saved>>

SignalOffline ==
  /\ pc = "signal" /\ pc' = "modem"
  /\ now > startSignal + SignalPeriod /\ ~gsm
  /\ last' = now /\ startSignal' = now
  /\ UNCHANGED <<now, hnvs, gsm, sended, startDb, reboot, saved>>

Signal ==
  /\ pc = "signal" /\ pc' = "ask"
  /\ now > startSignal + SignalPeriod /\ gsm
  /\ last' = now
  /\ UNCHANGED <<now, hnvs, gsm, sended, points, saved>>

Ask ==
  /\ pc = "ask" /\ pc' = "setSignal"
  /\ \E http \in Times : FromHttp(http)
  /\ UNCHANGED <<now, hnvs, gsm, last, points, saved>>

(* Slip: the server's time is noted and the clock not set.                  *)
SetSignalNoted ==
  /\ pc = "setSignal" /\ pc' = "signalled"
  /\ startSignal' = sended
  /\ UNCHANGED <<now, hnvs, gsm, sended, last, startDb, reboot, saved>>

SetSignal ==
  /\ pc = "setSignal" /\ pc' = "signalled"
  /\ CheckTimestamp(hnvs, sended)
  /\ startSignal' = sended
  /\ UNCHANGED <<hnvs, gsm, sended, last, startDb, reboot>>

(* The strength of the signal is posted, and firmware asked for.  The test  *)
(* of start_point against last_time_stamp_sended comes out false.           *)
Signalled ==
  /\ pc = "signalled" /\ pc' = "modem"
  /\ UNCHANGED <<now, hnvs, gsm, sended, last, points, saved>>

(* Slip: the time of the next reboot is noted.                              *)
GsmRebootNext ==
  /\ pc = "modem" /\ pc' = "db"
  /\ sended > reboot + RebootPeriod
  /\ reboot' = sended + RebootPeriod
  /\ gsm' \in BOOLEAN
  /\ UNCHANGED <<now, hnvs, sended, last, startSignal, startDb, saved>>

GsmReboot ==
  /\ pc = "modem" /\ pc' = "db"
  /\ sended > reboot + RebootPeriod
  /\ reboot' = sended
  /\ gsm' \in BOOLEAN
  /\ UNCHANGED <<now, hnvs, sended, last, startSignal, startDb, saved>>

NoGsmReboot ==
  /\ pc = "modem" /\ pc' = "db"
  /\ sended <= reboot + RebootPeriod
  /\ UNCHANGED <<now, hnvs, gsm, sended, last, points, saved>>

DbSync ==
  /\ pc = "db" /\ pc' = "sync"
  /\ gsm /\ last > startDb + DbPeriod
  /\ startDb' = now
  /\ UNCHANGED <<now, hnvs, gsm, sended, last, startSignal, reboot, saved>>

NoDbSync ==
  /\ pc = "db" /\ pc' = "loop"
  /\ ~(gsm /\ last > startDb + DbPeriod)
  /\ UNCHANGED <<now, hnvs, gsm, sended, last, points, saved>>

DbSynced ==
  /\ pc = "sync" /\ pc' = "loop"
  /\ UNCHANGED <<now, hnvs, gsm, sended, last, points, saved>>

-----------------------------------------------------------------------------
Tick ==
  /\ pc # "boot" /\ now < MaxTime
  /\ now' = now + 1
  /\ UNCHANGED <<pc, hnvs, gsm, sended, last, points, saved>>

(* The variables start over.                                                *)
Restarted ==
  /\ pc' = "boot" /\ hnvs' = FALSE /\ gsm' = FALSE
  /\ sended' = 0 /\ last' = 0 /\ startSignal' = 0 /\ startDb' = 0 /\ reboot' = 0

(* Power fails, or the chip panics: an uncommitted write may be gone.       *)
Reset ==
  /\ pc # "boot" /\ Restarted
  /\ now' \in {0, now}
  /\ stored' \in {stored, committed} /\ committed' = stored'

(* gsm_restart, from wherever a request may have failed.                    *)
GsmRestart ==
  /\ pc \in {"start", "info", "records", "ask", "signalled", "sync"} /\ hnvs
  /\ Restarted /\ Save(now)
  /\ UNCHANGED now

Start == \/ FirstInit \/ StartOnline \/ SetStart \/ StartOffline
         \/ Locate \/ SetLocation \/ LocateFails \/ Enter
Loop == \/ TopOfLoop \/ Records \/ SignalNotDue \/ SignalOffline \/ Signal
        \/ Ask \/ SetSignal \/ Signalled
        \/ GsmReboot \/ NoGsmReboot \/ DbSync \/ NoDbSync \/ DbSynced
SyncTask == Start \/ Loop

Next == SyncTask \/ Tick \/ Reset \/ GsmRestart

Spec == Init /\ [][Next]_vars
FairSpec == Spec /\ WF_vars(SyncTask)

-----------------------------------------------------------------------------
TypeOK ==
  /\ pc \in Places /\ now \in Times /\ hnvs \in BOOLEAN /\ gsm \in BOOLEAN
  /\ sended \in Times /\ last \in Times
  /\ startSignal \in Times /\ startDb \in Times /\ reboot \in Times
  /\ stored \in Times /\ committed \in Times

(* No stamp is ahead of the clock, but for the one the clock is about to be *)
(* set to.  get_max_time_stamp looks only at the server's time and the      *)
(* clock, and the three stamps it leaves out are never later, wherever it   *)
(* is called: it is the maximum of all five.                                *)
TwoSuffice ==
  hnvs => Default <= now /\ last <= now /\ (pc \notin Setting => sended <= now)

(* No period starts in the future of what it is compared with.              *)
PointsPast ==
  hnvs => startSignal <= now /\ startDb <= now /\ reboot <= sended

(* Both: a time that came from outside makes neither the maximum of two     *)
(* wrong nor a poll of the server, db_sync or the modem's reboot late       *)
(* (get_max_time_stamp, gsm_send_signal, the loop).                         *)
StampsPast == TwoSuffice /\ PointsPast

(* The time as SyncTask goes by it: the clock, or what it is going to set   *)
(* the clock to, having read it.                                            *)
Seen == IF hnvs /\ pc \in Setting THEN sended ELSE now

(* Once SyncTask has set the clock at its start, the time it goes by does   *)
(* not go back until a reset, whatever time the server and the modem report *)
(* and however long it takes to set the clock: a poll sets the clock to no  *)
(* less than it has read, and nothing is done by the clock in between.  The *)
(* clock itself goes back, at a poll, by the time that has passed since     *)
(* (main.cpp:183 reads it, 48 sets it).                                     *)
ClockForward ==
  [][pc \notin {"boot", "start", "setStart"} /\ pc' # "boot" => Seen' >= Seen]_vars

(* A poll of the server that is due takes place, unless the chip restarts.  *)
Polled ==
  pc = "loop" /\ now > startSignal + SignalPeriod
    ~> now <= startSignal + SignalPeriod \/ pc = "boot"

(* The time SyncTask goes by is what Calendar says of it.                   *)
Phase ==
  CASE pc = "boot" -> "down"
    [] pc \in {"start", "setStart", "info", "setLocation", "enter", "ended"} -> "starting"
    [] OTHER -> "running"
C == INSTANCE Calendar WITH MaxDay <- MaxTime \div DayLength, day <- Seen \div DayLength,
                            phase <- Phase
CalendarSpec == C!CalendarSpec
=============================================================================
