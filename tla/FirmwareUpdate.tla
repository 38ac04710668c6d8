--------------------------- MODULE FirmwareUpdate ---------------------------
(***************************************************************************)
(* How a new firmware gets onto the chip.  SyncTask asks the server         *)
(* (gsm_send_signal) and raises download_firmware; cci_task downloads to    *)
(* update.bin on the SD card (update_over_gsm_http) while SyncTask waits;   *)
(* the next boot writes update.bin to the other OTA partition and boots it  *)
(* (ota_from_sd_card).  Power may fail between any two steps.               *)
(*                                                                         *)
(* External, from how the code uses them: the OTA library (esp_ota_write    *)
(* fails on data that is no image, by its first byte, or is too long;       *)
(* esp_ota_end fails unless a whole image was written), the FAT library (a  *)
(* file not closed is short after a reset), the socket and the server.      *)
(***************************************************************************)
EXTENDS Naturals

CONSTANTS
  WAIT_MINUTES,  (* gsm_send_signal: 15                                    *)
  MAX_FILES,     (* sd_tools.h: max_files = 33                             *)
  MaxContent,    (* bound: contentLength                                   *)
  MaxFaults      (* bound: power losses and failing library calls          *)

ASSUME WaitAssumption  == WAIT_MINUTES \in Nat /\ MAX_FILES \in Nat
ASSUME BoundAssumption == MaxContent \in Nat /\ MaxFaults \in Nat

Partitions == {"factory", "ota_0", "ota_1"}
Images     == {"old", "new"}

VARIABLES
  update_bin,   (* "absent", "partial", "image" or "alien" (not writable)  *)
  slots, boot,  (* partition -> what it holds; the one to boot             *)
  running,      (* the one that was booted                                 *)
  phase,        (* where app_main is                                       *)
  has_sd_card, handles,                 (* FILE handles in use             *)
  download_firmware, gsm_no_problem,
  syncPc, minutes,                      (* trying_download_firmware        *)
  cciPc, opened,                        (* f is not NULL                   *)
  contentLength, iterations,
  body,         (* what has been written to f: "empty", "good", ...        *)
  faults        (* bound: faults spent                                     *)

flashVars == <<slots, boot, running>>
taskVars  == <<download_firmware, gsm_no_problem, syncPc, minutes>>
loadVars  == <<cciPc, opened, contentLength, iterations, body>>
vars == <<update_bin, flashVars, phase, has_sd_card, handles, taskVars,
          loadVars, faults>>

Fault == faults < MaxFaults /\ faults' = faults + 1

(* Slip: always the first OTA partition.                                    *)
TargetFirst == "ota_0"

(* esp_ota_get_next_update_partition(NULL)                                  *)
Target == IF running = "ota_0" THEN "ota_1" ELSE "ota_0"

-----------------------------------------------------------------------------
Init ==
  /\ update_bin \in {"absent", "partial", "image", "alien"}
  /\ slots = [p \in Partitions |-> IF p = "factory" THEN "old" ELSE "junk"]
  /\ boot = "factory" /\ running = "factory"
  /\ phase = "boot" /\ has_sd_card = FALSE /\ handles = 0
  /\ download_firmware = FALSE /\ gsm_no_problem = FALSE
  /\ syncPc = "off" /\ minutes = 0
  /\ cciPc = "off" /\ opened = FALSE /\ contentLength = 0 /\ iterations = 0
  /\ body = "empty" /\ faults = 0

(* esp_restart, a panic or a power loss: RAM is gone, app_main starts.      *)
Reset ==
  /\ running' = boot
  /\ phase' = "boot" /\ has_sd_card' = FALSE /\ handles' = 0
  /\ download_firmware' = FALSE /\ gsm_no_problem' = FALSE
  /\ syncPc' = "off" /\ minutes' = 0
  /\ cciPc' = "off" /\ opened' = FALSE /\ contentLength' = 0
  /\ iterations' = 0 /\ body' = "empty"

PowerLoss == Fault /\ Reset /\ UNCHANGED <<update_bin, slots, boot>>

-----------------------------------------------------------------------------
(* app_main: ota_from_sd_card, then the tasks.                              *)
StartTasks ==
  /\ phase' = "tasks" /\ syncPc' = "loop" /\ cciPc' = "idle"
  /\ UNCHANGED <<flashVars, download_firmware, gsm_no_problem, minutes, opened,
                 contentLength, iterations, body>>

NoCard ==
  /\ phase = "boot" /\ Fault
  /\ StartTasks
  /\ UNCHANGED <<update_bin, has_sd_card, handles>>

(* check_sd_card: a card that cannot be mounted is formatted.               *)
CardMounted ==
  /\ phase = "boot"
  /\ has_sd_card' = TRUE /\ phase' = "ota"
  /\ \/ UNCHANGED <<update_bin, faults>>
     \/ update_bin' = "absent" /\ Fault
  /\ UNCHANGED <<flashVars, handles, taskVars, loadVars>>

OtaNoFile ==
  /\ phase = "ota" /\ update_bin = "absent"
  /\ StartTasks
  /\ UNCHANGED <<update_bin, has_sd_card, handles, faults>>

(* fopen fails; malloc or esp_ota_begin fails, and the file stays open.     *)
OtaCannotStart ==
  /\ phase = "ota" /\ update_bin # "absent" /\ Fault
  /\ StartTasks
  /\ handles' \in {handles, handles + 1} \cap 0 .. MAX_FILES
  /\ UNCHANGED <<update_bin, has_sd_card>>

(* esp_ota_begin erases the partition.                                      *)
OtaBegin ==
  /\ phase = "ota" /\ update_bin # "absent"
  /\ slots' = [slots EXCEPT ![Target] = "junk"] /\ phase' = "write"
  /\ UNCHANGED <<update_bin, boot, running, has_sd_card, handles, taskVars,
                 loadVars, faults>>

OtaWrite ==
  /\ phase = "write" /\ update_bin # "alien"
  /\ slots' = [slots EXCEPT ![Target] = IF update_bin = "image" THEN "new"
                                        ELSE "junk"]
  /\ phase' = "end"
  /\ UNCHANGED <<update_bin, boot, running, has_sd_card, handles, taskVars,
                 loadVars, faults>>

(* ESP_ERROR_CHECK(err) aborts before "if(err != ESP_OK) break;" is tried.  *)
OtaWriteAborts ==
  /\ phase = "write"
  /\ IF update_bin = "alien" THEN UNCHANGED faults ELSE Fault
  /\ Reset
  /\ UNCHANGED <<update_bin, slots, boot>>

(* Slip: the test of esp_ota_end is the wrong way round.                    *)
OtaEndInverted ==
  /\ phase = "end" /\ slots[Target] = "junk"
  /\ phase' = "set"
  /\ UNCHANGED <<update_bin, flashVars, has_sd_card, handles, taskVars,
                 loadVars, faults>>

OtaEnd ==
  /\ phase = "end" /\ slots[Target] \in Images
  /\ phase' = "set"
  /\ UNCHANGED <<update_bin, flashVars, has_sd_card, handles, taskVars,
                 loadVars, faults>>

OtaEndFails ==
  /\ phase = "end"
  /\ IF slots[Target] \in Images THEN Fault ELSE UNCHANGED faults
  /\ StartTasks
  /\ UNCHANGED <<update_bin, has_sd_card, handles>>

OtaSetBoot ==
  /\ phase = "set"
  /\ boot' = Target /\ phase' = "remove"
  /\ UNCHANGED <<update_bin, slots, running, has_sd_card, handles, taskVars,
                 loadVars, faults>>

OtaSetBootFails ==
  /\ phase = "set" /\ Fault
  /\ StartTasks
  /\ UNCHANGED <<update_bin, has_sd_card, handles>>

(* Slip: update.bin is left on the card.                                    *)
OtaRemoveForgotten ==
  /\ phase = "remove"
  /\ Reset
  /\ UNCHANGED <<update_bin, slots, boot, faults>>

(* remove or rename, whose results do not matter, and esp_restart.          *)
OtaRemove ==
  /\ phase = "remove"
  /\ \/ update_bin' = "absent" /\ UNCHANGED faults
     \/ Fault /\ UNCHANGED update_bin
  /\ Reset
  /\ UNCHANGED <<slots, boot>>

BootStep == \/ NoCard \/ CardMounted \/ OtaNoFile \/ OtaCannotStart
            \/ OtaBegin \/ OtaWrite \/ OtaWriteAborts \/ OtaEnd
            \/ OtaEndFails \/ OtaSetBoot \/ OtaSetBootFails \/ OtaRemove

-----------------------------------------------------------------------------
(* SyncTask brings the modem up and down in its own loop.                   *)
SyncModem ==
  /\ syncPc = "loop"
  /\ gsm_no_problem' = ~gsm_no_problem
  /\ UNCHANGED <<update_bin, flashVars, phase, has_sd_card, handles,
                 download_firmware, syncPc, minutes, loadVars, faults>>

(* gsm_send_signal: gsm_has_firmware_from_http says yes or no.              *)
SyncPoll ==
  /\ syncPc = "loop"
  /\ download_firmware' \in BOOLEAN
  /\ minutes' = 0 /\ syncPc' = "wait"
  /\ UNCHANGED <<update_bin, flashVars, phase, has_sd_card, handles,
                 gsm_no_problem, loadVars, faults>>

(* Slip: the minutes are not counted.                                       *)
SyncWaitOn ==
  /\ syncPc = "wait" /\ download_firmware /\ minutes < WAIT_MINUTES
  /\ minutes' = minutes
  /\ UNCHANGED <<update_bin, flashVars, phase, has_sd_card, handles,
                 download_firmware, gsm_no_problem, syncPc, loadVars, faults>>

(* Slip: one minute too many.                                               *)
SyncWaitLonger ==
  /\ syncPc = "wait" /\ download_firmware /\ minutes <= WAIT_MINUTES
  /\ minutes' = minutes + 1
  /\ UNCHANGED <<update_bin, flashVars, phase, has_sd_card, handles,
                 download_firmware, gsm_no_problem, syncPc, loadVars, faults>>

SyncWait ==
  /\ syncPc = "wait" /\ download_firmware /\ minutes < WAIT_MINUTES
  /\ minutes' = minutes + 1
  /\ UNCHANGED <<update_bin, flashVars, phase, has_sd_card, handles,
                 download_firmware, gsm_no_problem, syncPc, loadVars, faults>>

SyncGoesOn ==
  /\ syncPc = "wait" /\ ~download_firmware
  /\ syncPc' = "loop"
  /\ UNCHANGED <<update_bin, flashVars, phase, has_sd_card, handles,
                 download_firmware, gsm_no_problem, minutes, loadVars, faults>>

(* Slip: SyncTask goes on without the download.                             *)
SyncGivesUp ==
  /\ syncPc = "wait" /\ download_firmware /\ minutes = WAIT_MINUTES
  /\ syncPc' = "loop"
  /\ UNCHANGED <<update_bin, flashVars, phase, has_sd_card, handles,
                 download_firmware, gsm_no_problem, minutes, loadVars, faults>>

SyncRestart ==
  /\ syncPc = "wait" /\ download_firmware /\ minutes = WAIT_MINUTES
  /\ Reset
  /\ UNCHANGED <<update_bin, slots, boot, faults>>

SyncStep == SyncModem \/ SyncPoll \/ SyncWait \/ SyncGoesOn \/ SyncRestart

-----------------------------------------------------------------------------
(* cci_task: update_over_gsm_http.                                          *)
CciStart ==
  /\ cciPc = "idle" /\ gsm_no_problem /\ download_firmware
  /\ cciPc' = "connect"
  /\ UNCHANGED <<update_bin, flashVars, phase, has_sd_card, handles, taskVars,
                 opened, contentLength, iterations, body, faults>>

ConnectFails ==
  /\ cciPc = "connect"
  /\ cciPc' = "idle" /\ download_firmware' = FALSE
  /\ UNCHANGED <<update_bin, flashVars, phase, has_sd_card, handles,
                 gsm_no_problem, syncPc, minutes, opened, contentLength,
                 iterations, body, faults>>

(* fopen("/sdcard/update.bin", "wb") truncates; nobody looks at f.          *)
Connects ==
  /\ cciPc = "connect"
  /\ opened' = (has_sd_card /\ handles < MAX_FILES)
  /\ IF opened' THEN update_bin' = "partial" /\ handles' = handles + 1
                ELSE UNCHANGED <<update_bin, handles>>
  /\ cciPc' = "request"
  /\ UNCHANGED <<flashVars, phase, has_sd_card, taskVars, contentLength,
                 iterations, body, faults>>

(* No second connection, or no answer in 5 s: f and the flag stay.          *)
RequestFails ==
  /\ cciPc = "request"
  /\ cciPc' = "idle" /\ opened' = FALSE
  /\ UNCHANGED <<update_bin, flashVars, phase, has_sd_card, handles, taskVars,
                 contentLength, iterations, body, faults>>

(* The header; the status line is not looked at.                            *)
ReadHeader ==
  /\ cciPc = "request"
  /\ contentLength' \in 0 .. MaxContent
  /\ iterations' = 0 /\ body' = "empty"
  /\ cciPc' = "check"
  /\ UNCHANGED <<update_bin, flashVars, phase, has_sd_card, handles, taskVars,
                 opened, faults>>

MoreToRead ==
  /\ cciPc = "check" /\ iterations < contentLength
  /\ cciPc' = "burst"
  /\ UNCHANGED <<update_bin, flashVars, phase, has_sd_card, handles, taskVars,
                 opened, contentLength, iterations, body, faults>>

(* One block of the stream: the image's next one, or something else: an     *)
(* error page, bytes lost on the serial line, read() = -1 after a close.    *)
ReadBlock ==
  /\ cciPc = "burst" /\ opened
  /\ iterations' = IF iterations <= MaxContent THEN iterations + 1
                   ELSE iterations
  /\ body' \in CASE body = "empty" -> {"good", "alien"}
                 [] body = "good"  -> {"good", "spoilt"}
                 [] OTHER          -> {body}
  /\ UNCHANGED <<update_bin, flashVars, phase, has_sd_card, handles, taskVars,
                 cciPc, opened, contentLength, faults>>

BurstEnds ==
  /\ cciPc = "burst"
  /\ cciPc' = "check"
  /\ UNCHANGED <<update_bin, flashVars, phase, has_sd_card, handles, taskVars,
                 opened, contentLength, iterations, body, faults>>

(* fclose: what is on the card now.  fclose(NULL) does nothing.             *)
Stored == CASE ~opened -> update_bin
            [] body = "alien" -> "alien"
            [] body = "good" /\ iterations >= contentLength -> "image"
            [] OTHER -> "partial"

(* All read, and no more than that: restart into ota_from_sd_card.          *)
DownloadDone ==
  /\ cciPc = "check" /\ iterations = contentLength
  /\ update_bin' = Stored
  /\ Reset
  /\ UNCHANGED <<slots, boot, faults>>

(* The connection was closed early, or the last burst brought too much.     *)
DownloadEnds ==
  /\ cciPc = "check" /\ iterations # contentLength
  /\ update_bin' = Stored
  /\ handles' = IF opened THEN handles - 1 ELSE handles
  /\ opened' = FALSE
  /\ cciPc' = "idle" /\ download_firmware' = FALSE
  /\ UNCHANGED <<flashVars, phase, has_sd_card, gsm_no_problem, syncPc,
                 minutes, contentLength, iterations, body, faults>>

(* fprintf(NULL, ...), at the first byte read.                              *)
NullFilePanics ==
  /\ cciPc = "burst" /\ ~opened
  /\ Reset
  /\ UNCHANGED <<update_bin, slots, boot, faults>>

CciStep == \/ CciStart \/ ConnectFails \/ Connects \/ RequestFails
           \/ ReadHeader \/ MoreToRead \/ ReadBlock \/ BurstEnds
           \/ DownloadDone \/ DownloadEnds \/ NullFilePanics

Next == PowerLoss \/ BootStep \/ SyncStep \/ CciStep

Spec == Init /\ [][Next]_vars

(* app_main and SyncTask run on; the download may hang anywhere.            *)
FairSpec == Spec /\ WF_vars(BootStep) /\ WF_vars(SyncStep)

-----------------------------------------------------------------------------
Phases  == {"boot", "ota", "write", "end", "set", "remove", "tasks"}
CciPcs  == {"off", "idle", "connect", "request", "check", "burst"}

(* Every variable has its type.                                             *)
TypeOK ==
  /\ update_bin \in {"absent", "partial", "image", "alien"}
  /\ slots \in [Partitions -> Images \cup {"junk"}]
  /\ boot \in Partitions /\ running \in Partitions /\ phase \in Phases
  /\ has_sd_card \in BOOLEAN /\ handles \in Nat /\ opened \in BOOLEAN
  /\ download_firmware \in BOOLEAN /\ gsm_no_problem \in BOOLEAN
  /\ syncPc \in {"off", "loop", "wait"} /\ minutes \in 0 .. WAIT_MINUTES
  /\ cciPc \in CciPcs
  /\ contentLength \in 0 .. MaxContent /\ iterations \in 0 .. MaxContent + 1
  /\ body \in {"empty", "good", "spoilt", "alien"}
  /\ faults \in 0 .. MaxFaults

(* Whatever update.bin holds and wherever power fails, the partition the    *)
(* chip boots next holds a whole image.                                     *)
BootSlotValid == slots[boot] \in Images

(* What BootSlotValid rests on: the partition being written is neither the  *)
(* running one nor the one to boot, until it is known to be whole.          *)
SlotInv ==
  /\ slots[boot] \in Images
  /\ phase # "remove" => boot = running
  /\ phase = "set" => slots[Target] \in Images

(* The running image is never written to.                                   *)
RunningUntouched == [][slots'[running] = slots[running]]_vars

(* The download and SyncTask share one modem without a lock: while cci_task *)
(* is downloading, SyncTask is in its wait and the flag is up, so no AT     *)
(* command of the one falls between a command and an answer of the other.   *)
ModemHandedOver ==
  cciPc \notin {"off", "idle"} => syncPc = "wait" /\ download_firmware

(* The chip gets through ota_from_sd_card: update.bin is installed at most  *)
(* once.  The exception is a file that esp_ota_write refuses.               *)
BootSettles == phase = "boot" ~> (phase = "tasks" \/ update_bin = "alien")

(* A download that is asked for ends, even one that hangs: the flag is      *)
(* lowered or the chip restarts.                                            *)
DownloadSettles == download_firmware ~> ~download_firmware

(* A failing esp_ota_write ends the copy ("if(err != ESP_OK) break;",       *)
(* main.h:246) and the firmware goes on with what it has.                   *)
BootCompletes == phase = "boot" ~> phase = "tasks"
=============================================================================
