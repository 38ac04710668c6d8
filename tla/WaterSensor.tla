---------------------------- MODULE WaterSensor ----------------------------
(***************************************************************************)
(* The water sensor's readings.  Two contexts run the same code on the      *)
(* same globals, without a lock: the FreeRTOS timer service, which calls    *)
(* vTimerPPMCallback, and SyncTask, which does the callback's work too,     *)
(* every WATER_PERIOD-th turn of its loop, and reports the mean.            *)
(*                                                                         *)
(* read_ppm checks, sleeps three seconds, stores and counts; each is a step *)
(* of its own, as are the load and the store of water_current_item++.  A    *)
(* context stays in its ++ for a few cycles, so during a wait of the other  *)
(* (three seconds, the minutes between two calls) there is an instant when  *)
(* it is not inside: Pass and SyncCount are taken at such an instant.       *)
(* Reading the array for the mean is one step: its loop takes microseconds. *)
(* A store past the array lands in whatever the linker put there (timer_ppm *)
(* is declared next, and nobody reads it any more): it harms nothing here.  *)
(***************************************************************************)
EXTENDS Naturals

CONSTANTS
  PPM_COUNT,     (* readings of a mean                                     *)
  WATER_PERIOD,  (* 1000 in nvs_sync_with_server                           *)
  Readings       (* what MAX_VOLTAGE - analogRead() can be                 *)

ASSUME PpmAssumption     == PPM_COUNT \in Nat \ {0} /\ WATER_PERIOD \in Nat
ASSUME ReadingAssumption == Readings \subseteq Nat /\ 0 \in Readings

Contexts == {"timer", "sync"}
Slots    == 0 .. PPM_COUNT - 1

VARIABLES
  has_water_sensor, gsm_no_problem, send_ppm, water_counter,
  item,       (* water_current_item                                        *)
  ppms,       (* slot PPM_COUNT is the word after the array                *)
  pc, reg,    (* per context: where it is; the item it has loaded          *)
  pending,    (* history: current_middle_water_value not yet given to HTTP *)
  fresh,      (* history: slots stored to since item was last reset        *)
  overlapped  (* history: a round had both contexts inside at once         *)

rest     == <<has_water_sensor, gsm_no_problem>>
readVars == <<item, ppms, reg, fresh, overlapped>>
sendVars == <<send_ppm, water_counter, pending>>
vars     == <<rest, readVars, sendVars, pc>>

Other(c) == IF c = "timer" THEN "sync" ELSE "timer"
Goto(c, p) == pc' = [pc EXCEPT ![c] = p]
Finished(c) == Goto(c, IF c = "timer" THEN "wait" ELSE "loop")

Reading(c) == pc[c] \in {"sleep", "store", "load", "incr"}
Busy(c)    == Reading(c) \/ pc[c] \in {"mean", "reset"}

-----------------------------------------------------------------------------
Cleared == [s \in 0 .. PPM_COUNT |-> 0]
StartPc == [c \in Contexts |-> IF c = "timer" THEN "off" ELSE "setup"]

Init ==
  /\ has_water_sensor = FALSE /\ gsm_no_problem = FALSE
  /\ send_ppm = TRUE /\ water_counter = 0
  /\ item = 0 /\ ppms = Cleared
  /\ pc = StartPc /\ reg = [c \in Contexts |-> 0]
  /\ pending = FALSE /\ fresh = {} /\ overlapped = FALSE

(* setup_water_quality_pins: a first value; the timer may not be created.   *)
Setup ==
  /\ pc["sync"] = "setup"
  /\ has_water_sensor' \in BOOLEAN
  /\ \E t \in {"off", "wait"} :
       /\ t = "wait" => has_water_sensor'
       /\ pc' = [c \in Contexts |-> IF c = "timer" THEN t ELSE "loop"]
  /\ pending' = has_water_sensor'
  /\ UNCHANGED <<gsm_no_problem, readVars, send_ppm, water_counter>>

(* The modem comes up or goes down, in the same loop of SyncTask.           *)
Network ==
  /\ pc["sync"] = "loop"
  /\ gsm_no_problem' = ~gsm_no_problem
  /\ UNCHANGED <<has_water_sensor, readVars, sendVars, pc>>

-----------------------------------------------------------------------------
(* The timer's period, or read_ppm's three seconds, go by.                  *)
Pass(c) ==
  /\ pc[c] \in {"wait", "sleep"} /\ pc[Other(c)] # "incr"
  /\ Goto(c, IF pc[c] = "wait" THEN "check" ELSE "store")
  /\ UNCHANGED <<rest, readVars, sendVars>>

(* vTimerPPMCallback, and its copy in nvs_sync_with_server.                 *)
Check(c) ==
  /\ pc[c] = "check"
  /\ Goto(c, IF item < PPM_COUNT THEN "sleep" ELSE "mean")
  /\ overlapped' = (overlapped \/ Busy(Other(c)))
  /\ UNCHANGED <<rest, sendVars, item, ppms, reg, fresh>>

(* read_ppm, after the sleep                                                *)
Store(c) ==
  /\ pc[c] = "store"
  /\ \E v \in Readings : ppms' = [ppms EXCEPT ![item] = v]
  /\ fresh' = fresh \cup {item}
  /\ Goto(c, "load")
  /\ UNCHANGED <<rest, sendVars, item, reg, overlapped>>

Load(c) ==
  /\ pc[c] = "load"
  /\ reg' = [reg EXCEPT ![c] = item]
  /\ Goto(c, "incr")
  /\ UNCHANGED <<rest, sendVars, item, ppms, fresh, overlapped>>

(* Slip: the reading is counted twice.                                      *)
IncrementTwice(c) ==
  /\ pc[c] = "incr"
  /\ item' = reg[c] + 2
  /\ Finished(c)
  /\ UNCHANGED <<rest, sendVars, ppms, reg, fresh, overlapped>>

Increment(c) ==
  /\ pc[c] = "incr"
  /\ item' = reg[c] + 1
  /\ Finished(c)
  /\ UNCHANGED <<rest, sendVars, ppms, reg, fresh, overlapped>>

(* middle_sum_array divides by the number of readings that are not 0.       *)
AllZero == \A s \in Slots : ppms[s] = 0

Mean(c) ==
  /\ pc[c] = "mean" /\ ~AllZero
  /\ pending' = TRUE
  /\ Goto(c, "reset")
  /\ UNCHANGED <<rest, send_ppm, water_counter, readVars>>

(* With none left the division panics, and the chip starts again.           *)
Panic(c) ==
  /\ pc[c] = "mean" /\ AllZero
  /\ has_water_sensor' = FALSE /\ gsm_no_problem' = FALSE
  /\ send_ppm' = TRUE /\ water_counter' = 0
  /\ item' = 0 /\ ppms' = Cleared
  /\ pc' = StartPc /\ reg' = [d \in Contexts |-> 0]
  /\ pending' = FALSE /\ fresh' = {} /\ overlapped' = FALSE

(* Slip: the item is counted on from the first slot.                        *)
ResetToOne(c) ==
  /\ pc[c] = "reset"
  /\ item' = 1
  /\ fresh' = {} /\ overlapped' = (overlapped /\ Busy(Other(c)))
  /\ Goto(c, "flag")
  /\ UNCHANGED <<rest, sendVars, ppms, reg>>

Reset(c) ==
  /\ pc[c] = "reset"
  /\ item' = 0
  /\ fresh' = {} /\ overlapped' = (overlapped /\ Busy(Other(c)))
  /\ Goto(c, "flag")
  /\ UNCHANGED <<rest, sendVars, ppms, reg>>

(* Slip: only the timer's copy of the code sets send_ppm.                   *)
RaiseTimerOnly(c) ==
  /\ pc[c] = "flag"
  /\ send_ppm' = (send_ppm \/ c = "timer")
  /\ Finished(c)
  /\ UNCHANGED <<rest, readVars, water_counter, pending>>

Raise(c) ==
  /\ pc[c] = "flag"
  /\ send_ppm' = TRUE
  /\ Finished(c)
  /\ UNCHANGED <<rest, readVars, water_counter, pending>>

Measure(c) == \/ Pass(c) \/ Check(c) \/ Store(c) \/ Load(c) \/ Increment(c)
              \/ Mean(c) \/ Panic(c) \/ Reset(c) \/ Raise(c)

-----------------------------------------------------------------------------
(* nvs_sync_with_server: clear the flag, then send what is current.         *)
SyncFlag ==
  /\ pc["sync"] = "loop" /\ gsm_no_problem /\ has_water_sensor
  /\ send_ppm' = FALSE
  /\ Goto("sync", IF send_ppm THEN "send" ELSE "count")
  /\ UNCHANGED <<rest, readVars, water_counter, pending>>

(* gsm_send_water_quality_via_http; nobody looks at its result.             *)
SyncSend ==
  /\ pc["sync"] = "send"
  /\ pending' = FALSE
  /\ Goto("sync", "count")
  /\ UNCHANGED <<rest, readVars, send_ppm, water_counter>>

(* Slip: water_counter is not reset.                                        *)
SyncCountOn ==
  /\ pc["sync"] = "count" /\ pc["timer"] # "incr"
  /\ water_counter' = water_counter + 1
  /\ Goto("sync", IF water_counter > WATER_PERIOD THEN "check" ELSE "loop")
  /\ UNCHANGED <<rest, readVars, send_ppm, pending>>

(* water_counter is reset before read_ppm and counted after it.             *)
SyncCount ==
  /\ pc["sync"] = "count" /\ pc["timer"] # "incr"
  /\ IF water_counter > WATER_PERIOD
       THEN water_counter' = 1 /\ Goto("sync", "check")
       ELSE water_counter' = water_counter + 1 /\ Goto("sync", "loop")
  /\ UNCHANGED <<rest, readVars, send_ppm, pending>>

SyncStep == Setup \/ SyncFlag \/ SyncSend \/ SyncCount

Next == Network \/ SyncStep \/ \E c \in Contexts : Measure(c)

Spec == Init /\ [][Next]_vars

(* SyncTask's loop never stops, and the timer is periodic.  A wait is only  *)
(* ever held back for the few cycles of the other's ++.                     *)
FairSpec == /\ Spec
            /\ WF_vars(SyncStep \/ Measure("sync")) /\ SF_vars(SyncCount)
            /\ SF_vars(Pass("sync"))
            /\ WF_vars(Measure("timer")) /\ SF_vars(Pass("timer"))

-----------------------------------------------------------------------------
Pcs == {"off", "setup", "loop", "send", "count", "wait", "check", "sleep",
        "store", "load", "incr", "mean", "reset", "flag"}

(* Every variable has its type.                                             *)
TypeOK ==
  /\ has_water_sensor \in BOOLEAN /\ gsm_no_problem \in BOOLEAN
  /\ send_ppm \in BOOLEAN /\ pending \in BOOLEAN /\ overlapped \in BOOLEAN
  /\ water_counter \in 0 .. WATER_PERIOD + 1
  /\ item \in Nat /\ reg \in [Contexts -> Nat]
  /\ ppms \in [0 .. PPM_COUNT -> Readings]
  /\ pc \in [Contexts -> Pcs]
  /\ pc["timer"] \notin {"setup", "loop", "send", "count"}
  /\ pc["sync"] \notin {"off", "wait"}
  /\ fresh \subseteq 0 .. PPM_COUNT

(* read_ppm stores inside long ppms[PPM_COUNT] (water_sensor.h:27), which   *)
(* is what the test "if(water_current_item < PPM_COUNT)" at line 128 is     *)
(* for.  The code does not keep this: the other context counts in between.  *)
IndexInBounds == \A c \in Contexts : pc[c] = "store" => item < PPM_COUNT

(* The two contexts together never get further than one slot past the       *)
(* array, whatever increments are lost and however a reset races a read.    *)
OneSlotPast ==
  /\ \A c \in Contexts : pc[c] = "store" => item <= PPM_COUNT
  /\ item <= PPM_COUNT + 1

(* What OneSlotPast rests on: while a context is in its ++, the other has   *)
(* not changed the item, or has done so and has still to wait.              *)
OverrunInv ==
  /\ item <= PPM_COUNT + 1
  /\ \A c \in Contexts :
       /\ pc[c] \in {"sleep", "store", "load"} => item <= PPM_COUNT
       /\ pc[c] = "incr" => reg[c] <= PPM_COUNT
       /\ pc[c] = "incr" /\ (pc[Other(c)] = "check" \/ Reading(Other(c)))
            => reg[c] = item
       /\ Reading(c) /\ Reading(Other(c)) => item < PPM_COUNT

(* A mean is taken over readings of its own round only, all PPM_COUNT of    *)
(* them, unless the contexts met during the round; a clean reset ends the   *)
(* damage.                                                                  *)
MeanIsFresh ==
  \A c \in Contexts : pc[c] = "reset" /\ ~overlapped => Slots \subseteq fresh

(* What MeanIsFresh rests on: one context at a time, which fills the array  *)
(* from the front.                                                          *)
Before(n) == {s \in Slots : s < n}
RoundInv ==
  ~overlapped =>
    /\ \A c \in Contexts :
         /\ Busy(c) => ~Busy(Other(c))
         /\ pc[c] \in {"sleep", "store"}
              => item < PPM_COUNT /\ Before(item) \subseteq fresh
         /\ pc[c] \in {"load", "incr"}
              => item < PPM_COUNT /\ Before(item + 1) \subseteq fresh
         /\ pc[c] = "incr" => reg[c] = item
         /\ pc[c] \in {"mean", "reset"} => Slots \subseteq fresh
    /\ Before(item) \subseteq fresh

(* A mean that has not been sent is announced by send_ppm, or about to be,  *)
(* or about to be sent: neither context's writes hide the other's.          *)
MeanAnnounced ==
  pending => \/ send_ppm \/ pc["sync"] = "send"
             \/ \E c \in Contexts : pc[c] \in {"reset", "flag"}

(* Once the modem stays up, every mean is given to the HTTP layer.          *)
MeanReported == <>[]gsm_no_problem => (pending ~> ~pending)
=============================================================================
