------------------------------ MODULE Calendar ------------------------------
(***************************************************************************)
(* What SyncTask, which reads the clock for all of the firmware, may rely   *)
(* on: while it is in its loop the time it goes by does not go back.  It is *)
(* set anew, to anything, by a reset and while SyncTask starts.             *)
(***************************************************************************)
EXTENDS Naturals

CONSTANT MaxDay   (* bound: the last day                                    *)

ASSUME MaxDayAssumption == MaxDay \in Nat

VARIABLES
  day,     (* the day SyncTask goes by                                      *)
  phase    (* of the run: "down", SyncTask starts, or is in its loop        *)

calendarVars == <<day, phase>>

Days == 0 .. MaxDay
Phases == {"down", "starting", "running"}

CalendarInit == day \in Days /\ phase = "down"

Down == phase' = "down" /\ day' \in Days

(* nvs_first_init sets the clock to the time stamp saved last.              *)
Begin == phase = "down" /\ phase' = "starting" /\ day' \in Days

Set == phase = "starting" /\ day' \in Days /\ UNCHANGED phase

Go == phase = "starting" /\ phase' = "running" /\ UNCHANGED day

Forward == phase = "running" /\ day' \in day .. MaxDay /\ UNCHANGED phase

CalendarNext == Down \/ Begin \/ Set \/ Go \/ Forward

CalendarSpec == CalendarInit /\ [][CalendarNext]_calendarVars
=============================================================================
