----------------------------- MODULE RecordSync -----------------------------
(***************************************************************************)
(* The record cache of the firmware and the two tasks that share it.       *)
(*                                                                         *)
(* "CciUartTask" (cci_task, core 0) runs the board's own function, which   *)
(* stores records in the NVS flash partition through nvs_data_save.        *)
(* "SyncTask" (nvs_sync_with_server, core 1) walks the keys, archives each *)
(* record on the SD card, posts it to the server and erases it.  Both      *)
(* bracket their sections with xSemaphore; gsm_restart, called from deep   *)
(* inside a post, takes it too.  Power may fail between any two steps.     *)
(*                                                                         *)
(* External parts, modelled from how the code uses them: the NVS library   *)
(* (a set or an erase is seen at once by every reader, and is sure to      *)
(* survive a reset only after nvs_commit), the FreeRTOS semaphore, the     *)
(* server (which keeps every post that reaches it), and the board function *)
(* that main.cpp leaves as the placeholder any_custom_function().          *)
(***************************************************************************)
EXTENDS Integers, FiniteSets

CONSTANTS
  NVS_MAX_DATA_COUNTER, (* main.h: the ring of cache keys                  *)
  MaxRecords,           (* bound: records the board function produces      *)
  MaxFaults,            (* bound: power losses and server-caused restarts  *)
  Size,                 (* bytes nvs_get_str needs for a record, NUL too   *)
  EraseAtBoot,          (* DEBUG_NVS_ERASE_ALL is defined                  *)
  SdWorks,              (* the db file on the SD card can be opened        *)
  NvsErrors             (* NVS calls may fail                              *)

Records == 1 .. MaxRecords
None    == 0
Keys    == 0 .. NVS_MAX_DATA_COUNTER

ASSUME CounterAssumption == NVS_MAX_DATA_COUNTER \in Nat \ {0}
ASSUME RecordAssumption  == MaxRecords \in Nat /\ MaxFaults \in Nat
ASSUME SizeAssumption    == Size \in [Records -> Nat \ {0}]
ASSUME BuildAssumption   == /\ EraseAtBoot \in BOOLEAN
                            /\ SdWorks \in BOOLEAN
                            /\ NvsErrors \in BOOLEAN

VARIABLES
  nvs,           (* key -> record, as nvs_get_str sees it                  *)
  flash,         (* key -> record, as of the last nvs_commit               *)
  storedCounter, (* key "data_counter", as nvs_get_i32 sees it             *)
  flashCounter,  (* key "data_counter", as of the last nvs_commit          *)
  counter,       (* nvs_data_counter                                       *)
  sem,           (* xSemaphore: TRUE when it can be taken                  *)
  cciPc,         (* where cci_task is                                      *)
  next,          (* the next record the board function will produce        *)
  syncPc,        (* where nvs_sync_with_server is                          *)
  gsmOk,         (* gsm_no_problem                                         *)
  i,             (* the key index of the for loop                          *)
  data,          (* the record in the buffer data                          *)
  required,      (* required_size, passed to every nvs_get_str             *)
  try,           (* gsm_send_http calls made for this record               *)
  archive,       (* records in a db file on the SD card                    *)
  server,        (* records that reached the server                        *)
  acked,         (* history: records nvs_data_save committed               *)
  displacedBy,   (* history: the record written over a record's key        *)
  unlockedEntry, (* history: cci_task went on after a failed take          *)
  startedOver,   (* history: a full partition, or a counter that could not *)
                 (* be read at boot, put the counter back to 0             *)
  wiped,         (* history: records nvs_first_init found and erased       *)
  faults         (* bound: faults spent                                    *)

cacheVars == <<nvs, flash, storedCounter, flashCounter>>
cciVars   == <<counter, cciPc, next>>
syncVars  == <<syncPc, gsmOk, i, data, required, try>>
history   == <<acked, displacedBy, unlockedEntry, startedOver, wiped>>
vars == <<cacheVars, sem, cciVars, syncVars, archive, server, history, faults>>

Empty == [k \in Keys |-> None]

(* A record of at most one character is neither archived nor sent.         *)
Worth(r) == Size[r] > 2

Commit      == flash' = nvs /\ flashCounter' = storedCounter
OnError(S)  == IF NvsErrors THEN S ELSE {}
CommitTried == Commit \/ (NvsErrors /\ UNCHANGED <<flash, flashCounter>>)

-----------------------------------------------------------------------------
Init ==
  /\ nvs = Empty /\ flash = Empty /\ storedCounter = 0 /\ flashCounter = 0
  /\ counter = 0 /\ sem = TRUE /\ cciPc = "idle" /\ next = 1
  /\ syncPc = "start" /\ gsmOk = FALSE /\ i = 0 /\ data = None
  /\ required = 0 /\ try = 0
  /\ archive = {} /\ server = {}
  /\ acked = {} /\ displacedBy = [r \in Records |-> None]
  /\ unlockedEntry = FALSE /\ startedOver = FALSE /\ wiped = {}
  /\ faults = 0

(* A reset finds keys and counter n and c in the NVS partition.  app_main   *)
(* creates the semaphore anew, and nvs_first_init                           *)
(*  - formats a partition in which nvs_flash_init finds no free page;       *)
(*  - erases all keys in a build with DEBUG_NVS_ERASE_ALL;                  *)
(*  - reads the counter, and writes 0 back when it cannot;                  *)
(*  - commits, after the erase and at the end.                              *)
(* A partition that cannot be opened is one of which every call fails.      *)
Reboot(n, c) ==
  \E formatted \in {FALSE, NvsErrors},
     erased \in {EraseAtBoot, EraseAtBoot /\ ~NvsErrors} :
    LET found == IF formatted THEN <<Empty, 0>> ELSE <<n, c>>
        left  == IF erased THEN <<Empty, 0>> ELSE found
    IN /\ nvs' = left[1]
       /\ counter' \in {left[2]} \cup OnError({0})
       /\ storedCounter' \in {counter', left[2]}
       /\ \E kept \in {<<nvs', storedCounter'>>} \cup OnError({found, left}) :
            flash' = kept[1] /\ flashCounter' = kept[2]
       /\ startedOver' = (startedOver \/ counter' # left[2])
       /\ wiped' = IF formatted \/ erased
                   THEN wiped \cup ({n[k] : k \in Keys} \ {None}) ELSE wiped
       /\ sem' = TRUE /\ cciPc' = "idle"
       /\ next' = IF cciPc \in {"idle", "nosave"} THEN next ELSE next + 1
       /\ syncPc' = "start" /\ gsmOk' = FALSE /\ i' = 0 /\ data' = None
       /\ required' = 0 /\ try' = 0
       /\ UNCHANGED <<archive, server, acked, displacedBy, unlockedEntry>>

(* Each write that was not committed may or may not have reached the flash. *)
UncommittedReset ==
  \E written \in SUBSET {k \in Keys : nvs[k] # flash[k]},
     c \in {storedCounter, flashCounter} :
    Reboot([k \in Keys |-> IF k \in written THEN nvs[k] ELSE flash[k]], c)

UnsavedReset ==
  /\ faults < MaxFaults /\ faults' = faults + 1
  /\ UncommittedReset

PowerLoss == UnsavedReset

-----------------------------------------------------------------------------
(* cci_task.  The result of its take is not looked at.  The board function  *)
(* stores a record or nothing.                                              *)
CciTake ==
  /\ cciPc = "idle"
  /\ sem' = FALSE
  /\ unlockedEntry' = (unlockedEntry \/ ~sem)
  /\ cciPc' = "nosave" \/ (next <= MaxRecords /\ cciPc' = "set")
  /\ UNCHANGED <<cacheVars, counter, next, syncVars, archive, server,
                 acked, displacedBy, startedOver, wiped, faults>>

(* nvs_data_save: nvs_set_str under the key "counter".                      *)
StoreAt(k) ==
  /\ nvs' = [nvs EXCEPT ![k] = next]
  /\ displacedBy' = IF nvs[k] = None THEN displacedBy
                    ELSE [displacedBy EXCEPT ![nvs[k]] = next]
  /\ cciPc' = "count"

SaveSet ==
  /\ cciPc = "set"
  /\ StoreAt(counter)
  /\ UNCHANGED <<flash, storedCounter, flashCounter, sem, counter, next,
                 syncVars, archive, server, acked, unlockedEntry, startedOver,
                 wiped, faults>>

(* Slip: a full partition is erased before the record is stored.            *)
SaveSetFullErases ==
  /\ cciPc = "set" /\ NvsErrors
  /\ counter' = 0 /\ cciPc' = "count"
  /\ nvs' = [Empty EXCEPT ![0] = next]
  /\ UNCHANGED <<flash, storedCounter, flashCounter, sem, next, syncVars,
                 archive, server, history, faults>>

(* The partition is full: start over at key "0", which may fail again.      *)
SaveSetFull ==
  /\ cciPc = "set" /\ NvsErrors
  /\ counter' = 0 /\ startedOver' = TRUE
  /\ \/ StoreAt(0)
     \/ cciPc' = "give" /\ UNCHANGED <<nvs, displacedBy>>
  /\ UNCHANGED <<flash, storedCounter, flashCounter, sem, next, syncVars,
                 archive, server, acked, unlockedEntry, wiped, faults>>

SaveSetFails ==
  /\ cciPc = "set" /\ NvsErrors
  /\ cciPc' = "give"
  /\ UNCHANGED <<cacheVars, sem, counter, next, syncVars, archive, server,
                 history, faults>>

(* Slip: the counter wraps one key too late.                                *)
SaveCountPastEnd ==
  /\ cciPc = "count"
  /\ counter' = IF counter > NVS_MAX_DATA_COUNTER THEN 0 ELSE counter + 1
  /\ storedCounter' = counter' /\ cciPc' = "commit"
  /\ UNCHANGED <<nvs, flash, flashCounter, sem, next, syncVars, archive,
                 server, history, faults>>

(* Slip: the counter is stored before it is advanced.                       *)
SaveCountStoresOld ==
  /\ cciPc = "count"
  /\ counter' = IF counter = NVS_MAX_DATA_COUNTER THEN 0 ELSE counter + 1
  /\ storedCounter' = counter /\ cciPc' = "commit"
  /\ UNCHANGED <<nvs, flash, flashCounter, sem, next, syncVars, archive,
                 server, history, faults>>

(* nvs_data_save: advance the counter and store it.                         *)
SaveCount ==
  /\ cciPc = "count"
  /\ counter' = IF counter = NVS_MAX_DATA_COUNTER THEN 0 ELSE counter + 1
  /\ \/ storedCounter' = counter' /\ cciPc' = "commit"
     \/ NvsErrors /\ cciPc' = "give" /\ UNCHANGED storedCounter
  /\ UNCHANGED <<nvs, flash, flashCounter, sem, next, syncVars, archive,
                 server, history, faults>>

SaveCommit ==
  /\ cciPc = "commit"
  /\ \/ Commit /\ acked' = acked \cup {next}
     \/ NvsErrors /\ UNCHANGED <<flash, flashCounter, acked>>
  /\ cciPc' = "give"
  /\ UNCHANGED <<nvs, storedCounter, sem, counter, next, syncVars, archive,
                 server, displacedBy, unlockedEntry, startedOver, wiped, faults>>

(* Slip: the give is forgotten.                                             *)
CciGiveForgotten ==
  /\ cciPc \in {"give", "nosave"}
  /\ cciPc' = "idle" /\ next' = IF cciPc = "give" THEN next + 1 ELSE next
  /\ UNCHANGED <<cacheVars, sem, counter, syncVars, archive, server, history,
                 faults>>

CciGive ==
  /\ cciPc \in {"give", "nosave"}
  /\ sem' = TRUE /\ cciPc' = "idle"
  /\ next' = IF cciPc = "give" THEN next + 1 ELSE next
  /\ UNCHANGED <<cacheVars, counter, syncVars, archive, server, history,
                 faults>>

CciWork == SaveSet \/ SaveSetFull \/ SaveSetFails \/ SaveCount \/ SaveCommit
           \/ CciGive

-----------------------------------------------------------------------------
(* nvs_sync_with_server: bring the modem up, send the start-up messages.    *)
SyncStart ==
  /\ syncPc = "start"
  /\ gsmOk' \in BOOLEAN
  /\ \/ ~gsmOk' /\ UNCHANGED <<flash, flashCounter>>
     \/ gsmOk' /\ CommitTried
  /\ \/ syncPc' = "top" /\ UNCHANGED faults
     \/ gsmOk' /\ faults < MaxFaults /\ faults' = faults + 1
        /\ syncPc' = "restartOut"
  /\ UNCHANGED <<nvs, storedCounter, sem, cciVars, i, data, required, try,
                 archive, server, history>>

SyncTop ==
  /\ syncPc = "top"
  /\ gsmOk' \in IF gsmOk THEN {TRUE} ELSE BOOLEAN
  /\ i' = 0 /\ syncPc' = "take"
  /\ UNCHANGED <<cacheVars, sem, cciVars, data, required, try, archive,
                 server, history, faults>>

SyncTake ==
  /\ syncPc = "take" /\ sem
  /\ sem' = FALSE
  /\ data' = None /\ syncPc' = "read"
  /\ UNCHANGED <<cacheVars, cciVars, gsmOk, i, required, try, archive,
                 server, history, faults>>

(* nvs_get_str(hnvs, key, data, &required_size) succeeds.                   *)
Fits(k) == nvs[k] # None /\ Size[nvs[k]] <= required

(* Slip: the size nvs_get_str asks for is thrown away.                      *)
SyncSkipForgetsSize ==
  /\ syncPc = "read"
  /\ ~Fits(i)
  /\ syncPc' = "give"
  /\ UNCHANGED <<cacheVars, sem, cciVars, gsmOk, i, data, required, try,
                 archive, server, history, faults>>

(* nvs_get_str finds nothing, or more than required_size bytes: the size is *)
(* left behind in required_size and the record waits for the next pass.  Or *)
(* it fails.                                                                *)
SyncSkip ==
  /\ syncPc = "read"
  /\ \/ nvs[i] # None /\ ~Fits(i) /\ required' = Size[nvs[i]]
     \/ (nvs[i] = None \/ NvsErrors) /\ UNCHANGED required
  /\ syncPc' = "give"
  /\ UNCHANGED <<cacheVars, sem, cciVars, gsmOk, i, data, try, archive,
                 server, history, faults>>

(* The record is in the buffer; db_write_record appends it to the db file.  *)
SyncRead ==
  /\ syncPc = "read"
  /\ Fits(i)
  /\ data' = nvs[i] /\ required' = Size[nvs[i]]
  /\ archive' = IF Worth(data') /\ SdWorks THEN archive \cup {data'}
                ELSE archive
  /\ IF Worth(data') /\ gsmOk THEN syncPc' = "post" /\ try' = 1
                              ELSE syncPc' = "erase" /\ try' = 0
  /\ UNCHANGED <<cacheVars, sem, cciVars, gsmOk, i, server, history, faults>>

(* gsm_send_http.  Whatever the answer, the post may have got through.      *)
MayArrive == server' \in {server, server \cup {data}}

(* Status 200 and the body says "1" or "Record exist".                      *)
PostAccepted ==
  /\ syncPc = "post"
  /\ server' = server \cup {data}
  /\ syncPc' = "erase"
  /\ UNCHANGED <<cacheVars, sem, cciVars, gsmOk, i, data, required, try,
                 archive, history, faults>>

(* The first call and the three retries of the loop body.                   *)
AfterFalse ==
  IF try < 4 THEN syncPc' = "post" /\ try' = try + 1
             ELSE syncPc' = "erase" /\ try' = try

PostRefused ==
  /\ syncPc = "post"
  /\ MayArrive /\ AfterFalse
  /\ UNCHANGED <<cacheVars, sem, cciVars, gsmOk, i, data, required, archive,
                 history, faults>>

(* Status above http_critical_status: post once more.                       *)
PostCritical ==
  /\ syncPc = "post"
  /\ MayArrive /\ syncPc' = "repost"
  /\ UNCHANGED <<cacheVars, sem, cciVars, gsmOk, i, data, required, try,
                 archive, history, faults>>

(* Any lesser status now leaves result FALSE: the body is not read.         *)
RepostAnswered ==
  /\ syncPc = "repost"
  /\ MayArrive /\ AfterFalse
  /\ UNCHANGED <<cacheVars, sem, cciVars, gsmOk, i, data, required, archive,
                 history, faults>>

(* Critical again, or HTTP_read returned -1 after a 200: gsm_restart.       *)
PostRestarts ==
  /\ syncPc \in {"post", "repost"}
  /\ faults < MaxFaults /\ faults' = faults + 1
  /\ MayArrive /\ syncPc' = "restartIn"
  /\ UNCHANGED <<cacheVars, sem, cciVars, gsmOk, i, data, required, try,
                 archive, history>>

(* Sent or given up: nvs_erase_key, which is not committed here.            *)
SyncErase ==
  /\ syncPc = "erase"
  /\ \/ nvs' = [nvs EXCEPT ![i] = None]
     \/ NvsErrors /\ UNCHANGED nvs
  /\ syncPc' = "give"
  /\ UNCHANGED <<flash, storedCounter, flashCounter, sem, cciVars, gsmOk, i,
                 data, required, try, archive, server, history, faults>>

SyncGive ==
  /\ syncPc = "give"
  /\ sem' = TRUE /\ i' = i + 1
  /\ syncPc' = IF i + 1 < NVS_MAX_DATA_COUNTER THEN "take" ELSE "tail"
  /\ UNCHANGED <<cacheVars, cciVars, gsmOk, data, required, try, archive,
                 server, history, faults>>

(* gsm_send_signal (commits the time stamp), gsm_reboot, db_sync.           *)
SyncTail ==
  /\ syncPc = "tail"
  /\ gsmOk' \in BOOLEAN
  /\ \/ UNCHANGED <<flash, flashCounter>>
     \/ gsmOk /\ Commit
  /\ \/ syncPc' = "top" /\ UNCHANGED faults
     \/ gsmOk /\ faults < MaxFaults /\ faults' = faults + 1
        /\ syncPc' = "restartOut"
  /\ UNCHANGED <<nvs, storedCounter, sem, cciVars, i, data, required, try,
                 archive, server, history>>

(* gsm_send_signal: firmware still not downloaded after the wait.           *)
FirmwareRestart == syncPc = "tail" /\ UnsavedReset

(* Slip: gsm_restart does not wait for the take to succeed.                 *)
RestartTakeUnchecked ==
  /\ syncPc \in {"restartIn", "restartOut"}
  /\ sem' = FALSE /\ syncPc' = "restartSave"
  /\ UNCHANGED <<cacheVars, cciVars, gsmOk, i, data, required, try, archive,
                 server, history, faults>>

(* gsm_restart: take xSemaphore, whoever the caller is, then save and reset.*)
RestartTake ==
  /\ syncPc \in {"restartIn", "restartOut"} /\ sem
  /\ sem' = FALSE /\ syncPc' = "restartSave"
  /\ UNCHANGED <<cacheVars, cciVars, gsmOk, i, data, required, try, archive,
                 server, history, faults>>

RestartReset ==
  /\ syncPc = "restartSave"
  /\ IF NvsErrors THEN UncommittedReset ELSE Reboot(nvs, storedCounter)
  /\ UNCHANGED faults

SyncWork == \/ SyncStart \/ SyncTop \/ SyncTake \/ SyncSkip \/ SyncRead
            \/ PostAccepted \/ PostRefused \/ PostCritical \/ RepostAnswered
            \/ PostRestarts \/ SyncErase \/ SyncGive \/ SyncTail
            \/ FirmwareRestart \/ RestartTake \/ RestartReset

Next == PowerLoss \/ CciTake \/ CciWork \/ SyncWork

Spec == Init /\ [][Next]_vars

(* The scheduler runs both tasks (they live on different cores); calls of   *)
(* the board function and power losses need not come, nor need they stop.   *)
FairSpec == Spec /\ WF_vars(SyncWork) /\ WF_vars(CciWork)

-----------------------------------------------------------------------------
SyncPcs == {"start", "top", "take", "read", "post", "repost", "erase", "give",
            "tail", "restartIn", "restartOut", "restartSave"}
CciPcs  == {"idle", "nosave", "set", "count", "commit", "give"}

(* Every variable has its type.                                             *)
TypeOK ==
  /\ nvs \in [Keys -> Records \cup {None}]
  /\ flash \in [Keys -> Records \cup {None}]
  /\ storedCounter \in Keys /\ flashCounter \in Keys /\ counter \in Keys
  /\ sem \in BOOLEAN /\ gsmOk \in BOOLEAN
  /\ unlockedEntry \in BOOLEAN /\ startedOver \in BOOLEAN
  /\ cciPc \in CciPcs /\ syncPc \in SyncPcs
  /\ next \in 1 .. MaxRecords + 1 /\ (cciPc \notin {"idle", "nosave"} => next \in Records)
  /\ i \in Keys /\ (syncPc \in {"take", "read", "post", "repost", "erase",
                                "give"} => i < NVS_MAX_DATA_COUNTER)
  /\ data \in Records \cup {None}
  /\ (syncPc \in {"post", "repost"} => data \in Records)
  /\ required \in Nat /\ try \in 0 .. 4
  /\ archive \subseteq Records /\ server \subseteq Records
  /\ acked \subseteq Records /\ wiped \subseteq Records
  /\ displacedBy \in [Records -> Records \cup {None}]
  /\ faults \in 0 .. MaxFaults

(* A task is inside when it is between its take and its give.               *)
SyncInside == syncPc \in {"read", "post", "repost", "erase", "give",
                          "restartIn", "restartSave"}
CciInside  == cciPc # "idle"

(* xSemaphore is created as a mutex (main.cpp:658): the two tasks should    *)
(* never both be inside.  cci_task does not look at its take's result, so   *)
(* the code does not keep this; see MutexUnlessIgnored.                     *)
MutualExclusion == ~(SyncInside /\ CciInside)

(* As long as no failed take of cci_task was ignored, the tasks exclude     *)
(* each other, through every restart, give and retry.                       *)
MutexUnlessIgnored == ~unlockedEntry => MutualExclusion

(* A record whose save was committed and that is worth sending is in the    *)
(* cache, on the SD card or on the server, unless a later record was        *)
(* written over its key or nvs_first_init erased it with all others: no     *)
(* interleaving, reset, failing NVS call or failed post loses it otherwise. *)
(* It needs a working SD card and no ignored take (after one, SyncTask may  *)
(* erase a record it has never read).                                       *)
Accounted(r) == \/ \E k \in Keys : nvs[k] = r
                \/ r \in archive \cup server \cup wiped
                \/ displacedBy[r] # None
NoSilentLoss ==
  SdWorks /\ ~unlockedEntry => \A r \in acked : Worth(r) => Accounted(r)

(* What NoSilentLoss rests on while the tasks exclude each other.            *)
(* The semaphore can be taken only when no task is inside.                  *)
LockInv ==
  /\ sem => ~SyncInside /\ ~CciInside
  /\ MutualExclusion
(* The record cci_task is saving is in the cache from its nvs_set_str on.   *)
SavingInv == cciPc \in {"count", "commit"} => \E k \in Keys : nvs[k] = next
(* The record SyncTask is about to erase is the one it read and archived.   *)
ErasingInv ==
  syncPc \in {"post", "repost", "erase"}
    => nvs[i] = data /\ (Worth(data) /\ SdWorks => data \in archive)
(* An unsent record is both in the cache and committed: a reset keeps it.   *)
Unsent(r) == /\ Worth(r) /\ displacedBy[r] = None
             /\ r \notin archive \cup server \cup wiped
DurableInv ==
  SdWorks => \A r \in acked :
    Unsent(r) => \E k \in Keys : nvs[k] = r /\ flash[k] = r
SafeInv == ~unlockedEntry => LockInv /\ SavingInv /\ ErasingInv /\ DurableInv

(* Unless a full partition made nvs_data_save start over at key "0", or the *)
(* counter could not be read at boot, a committed record is written over    *)
(* only when the counter has gone round all NVS_MAX_DATA_COUNTER + 1 keys,  *)
(* even when the counter is reloaded after a reset or an NVS call fails     *)
(* halfway through a save.  A record nvs_first_init erased may come back    *)
(* when the erase was not committed; it has lost its turn.                  *)
DisplacedOnlyAfterWrap ==
  ~startedOver => \A r \in acked \ wiped :
    displacedBy[r] # None => displacedBy[r] - r > NVS_MAX_DATA_COUNTER

(* cci_task may take the mutex again as soon as it gave it (main.cpp:147);  *)
(* SyncTask only looks every second or two (main.cpp:518, gsm_tools.h:15).  *)
(* Nothing in the code keeps it from missing every moment at which the      *)
(* mutex is free: the two properties below assume that it does not.         *)
PollsMeetFreeMutex == SF_vars(SyncTake) /\ SF_vars(RestartTake)

(* A record under a key the loop visits leaves the cache in the end,        *)
(* however often cci_task takes the mutex: it is not passed over forever    *)
(* for its size or for a server that refuses it.  The one exception is      *)
(* gsm_restart called while SyncTask holds xSemaphore.                      *)
Drained ==
  PollsMeetFreeMutex =>
    \A k \in 0 .. NVS_MAX_DATA_COUNTER - 1, r \in Records :
      nvs[k] = r ~> (nvs[k] # r \/ syncPc = "restartIn")

(* gsm_restart called outside the loop's section resets the chip, however   *)
(* often cci_task takes the mutex: every section gives it back.             *)
RestartOutCompletes ==
  PollsMeetFreeMutex => (syncPc = "restartOut" ~> syncPc = "start")

(* Every call of gsm_restart reaches its esp_restart() (gsm_tools.h:30      *)
(* announces "GSM: ESP_RESTART").                                           *)
RestartCompletes ==
  syncPc \in {"restartIn", "restartOut"} ~> syncPc = "start"
=============================================================================
