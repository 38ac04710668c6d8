# Verification of the ESP32 + SIM800C firmware

The firmware in `src/main/` collects records on an ESP32 board, keeps them in the
NVS flash partition, archives them on an SD card and posts them to a server
through a SIM800C modem. It measures a water sensor, keeps time, and replaces its
own image. This directory holds TLA+ modules for the parts of it that are hard to
test, TLC configurations that check them on small instances, and TLAPS proofs of
the properties that matter most.

Everything below `src/components/` is vendored (the Arduino core) and is left
aside; the parts of ESP-IDF, FreeRTOS, the modem and the server that the firmware
calls appear only as *external* behaviour, described where it is used.

## 1. Inventory

Three contexts run code of the repository:

| context | started by | does |
|---|---|---|
| `SyncTask` (core 1) | `app_main`, main.cpp:679 | `nvs_sync_with_server`: modem, posts, archive, poll for firmware |
| `CciUartTask` (core 0) | `app_main`, main.cpp:680 | `cci_task`: the board's own function (records), firmware download |
| timer service | `setup_water_quality_pins`, water_sensor.h:166 | `vTimerPPMCallback`: one reading, or a mean |

They share plain globals (`gsm_no_problem`, `download_firmware`, `send_ppm`,
`water_current_item`, `ppms`, the time stamps), one NVS handle, one UART to the
modem, the SD card and one FreeRTOS mutex, `xSemaphore`.

| component | state | operations | hard behaviour | correct when |
|---|---|---|---|---|
| Record cache and sync (main.cpp, gsm_tools.h) | NVS keys `"0"`..`"100"`, `data_counter`, `xSemaphore`, `required_size`, the key loop | `nvs_data_save`, `nvs_first_init`, the loop, `gsm_send_http`, `gsm_restart` | two tasks, NVS errors, uncommitted writes at a power loss, retries, restart from inside | no committed record vanishes but with the whole partition; tasks exclude each other; every visited record leaves the cache; restarts happen |
| Ring buffer (TinyGsmFifo.h) | `_b`, `_w`, `_r` | `put` x2, `get` x2, `clear`, `free`, `size` | two contexts, order of copy and publish, wrap | it is a bounded queue |
| Water sensor (water_sensor.h, main.cpp:486-516) | `ppms`, `water_current_item`, `send_ppm`, `current_middle_water_value` | check, read, mean, report | timer and SyncTask race without a lock | the index stays inside; a mean is over its own round; each mean is reported |
| Firmware update (main.cpp:204-402, main.h:162-291) | `download_firmware`, `update.bin`, OTA partitions | poll, wait, download, install | power loss anywhere, hanging download, bad file, two tasks on one modem | the chip always boots; the modem has one user; a download ends |
| TinyGSM socket (TinyGsmClientSIM800.h) | `sock_available`, `sock_connected`, `got_data`, `rx` | `connect`, `stop`, `available`, `read`, `maintain`, `modemRead`, `waitResponse` | unsolicited notices between command and answer, late answers, a close with data pending | bytes are delivered in order, none is invented |
| AT line layer (sim800.cpp:746-957) | the UART's input | `readline`, `println`/`eat_echo`, `expect`, `expect_scan`, `is_urc` | late and partial lines, unsolicited codes | an answer belongs to its command |
| Modem bring-up (sim800.cpp:61-634, 959-1071) | `serial_worked`, the direction of `SIM800_KEY`, `SIM800_POWER` | `gsm_init`, `wakeup`, `reset`, `shutdown`, `check_sim_card`, `get_signal`, `registerNetwork`, `gsm_reboot` | loops without an end, a modem that goes off or mute between them | it ends when modem, card, signal and network are there |
| HTTP session (sim800.cpp:378-509, gsm_tools.h) | the modem's HTTP service | `HTTP_get`, `HTTP_post`, `HTTP_read`, `gsm_send_http`, `gsm_get_time_from_http` | lost `+HTTPACTION`, uninitialised results | a record counts as accepted only if the server has it; a call ends |
| Timekeeping (date_time.h, main.cpp:30-52, 181-296) | six time stamps, the system clock, NVS `timestamp` | `nvs_check_timestamp`, `check_timestamp_from_http`, `gsm_send_location` | clock stepped backwards, restarts | no stamp is ahead of the clock, the time SyncTask goes by does not go back while the loop runs |
| Daily archive (db.h) | `/sdcard/db/<day>.txt`, `.syn`, `global_current_day` | `db_write_record`, `db_sync` | midnight, restarts, failed posts | no record is lost by a rename, each line of a finished day is posted, each line of a `.syn` file was offered to the server |
| Helpers (str_tools.h, TinyGsmCommon.h, date_time.h) | none | `clear_string`, `get_max_time_stamp`, decoders | `get_max_time_stamp` looks at two of five | the two it looks at are the latest |

How they interact: SyncTask takes the record of a key (cache), appends it to the
day's file (archive), posts it (HTTP session over AT lines over the UART) and
erases the key. `gsm_send_http` may call `gsm_restart`, which takes `xSemaphore`
whoever its caller is. After the key loop `gsm_send_signal` may raise
`download_firmware`; `cci_task` then drives the same UART through TinyGSM while
SyncTask waits. The timer and SyncTask both measure, and SyncTask reports.

`PROJECT.json` lists, under `hazards`, every place of this code that is hard to
test, with the properties that would catch it, or the reason why none does.

Code nothing calls is not modelled: `ota_net.h`, `nvsfat.h` (included nowhere),
`update_esp_http`, `init_ftp`, `update_esp_ftp`, `HTTP_read_ota`,
`gsm_tcp_send_file`, `nvs_task_save_time`, `db_size`, `db_file_open`, `strtoint`,
`at_str_digits`, `only_digits`. One exception: `nvs_data_save` has no caller in
the repository either, but `cci_task` holds the mutex around the placeholder
`// any_custom_function();` (main.cpp:154) for a board function, and the records
SyncTask looks for are exactly those `nvs_data_save` writes. The model takes the
board function to be one call of `nvs_data_save`.

## 2. Plan

Modules, most important behaviour first. All of them are done.

1. **RecordSync**: the cache, both tasks, NVS, resets. *Proved.*
2. **RingFifo** implementing **ByteStream**. *Proved.*
3. **WaterSensor**. *Proved.*
4. **FirmwareUpdate**. *Proved.*
5. **GsmSocket**: the socket client over the modem's side of `+CIPRXGET`, with the
   ring as `ByteStream` says it behaves. *Proved.*
6. **HttpSession**: one request after the other, each a sequence of AT commands on
   the line layer (`println`, `readline`, `expect`, `expect_scan`). *Proved.*
7. **BringUp**: `gsm_init` and what it calls, over a modem that goes off or mute. Its one
   property is a liveness property; *its types are proved.*
8. **ModemDrivers** composes 5, 6 and 7: what drives the one modem. *Proved* to keep
   the invariants of the three.
9. **Timekeeping** implementing **Calendar**, and **DailyArchive** built on
   Calendar: the clock, the time stamps, and the files named after it. *Proved.*

```
RingFifo    --implements--> ByteStream
Timekeeping --implements--> Calendar <--extends-- DailyArchive
ModemDrivers composes GsmSocket, HttpSession, BringUp
RecordSync, WaterSensor, FirmwareUpdate
```

What a next step could take up: a specification of one request that HttpSession
implements and RecordSync's post actions use; `set_operator` (below, section 6).

## 3. What is modelled

### RecordSync

| model | code |
|---|---|
| `nvs`, `storedCounter` | what `nvs_get_*` would return now |
| `flash`, `flashCounter` | what is sure to survive a reset (last `nvs_commit`) |
| `counter`, `required`, `i`, `data`, `try` | `nvs_data_counter`, `required_size`, the loop's locals |
| `cciPc`, `syncPc` | where the two tasks are |
| `archive`, `server` | records in a db file, records that reached the server |
| `acked`, `displacedBy`, `unlockedEntry`, `startedOver`, `wiped` | history, only read by properties |

`CciTake` is main.cpp:152; `SaveSet`, `SaveSetFull`, `SaveSetFails`, `SaveCount`,
`SaveCommit` are the branches of `nvs_data_save`; `SyncStart` ... `SyncTail` follow
`nvs_sync_with_server`; the `Post...` actions are `gsm_send_http` as the loop sees
it, one action per kind of answer; `RestartTake` and `RestartReset` are
`gsm_restart`. `PowerLoss` may happen between any two steps: each write that was
not committed may or may not be on flash afterwards. `Reboot` is `nvs_first_init`
with every way its calls may fail (`NvsErrors`): `nvs_flash_init` may find no free
page, and `nvs_flash_erase` then wipes the cache (main.cpp:57-61); the counter may be
unreadable, and 0 is written back (81-83); either commit may fail, so that what was
erased is there again after the next reset. `wiped` holds the records erased at a
boot, `startedOver` says that the counter was put back to 0. A call of the board
function saves a record or nothing (`"nosave"`), so `cci_task` takes the mutex again
and again, also when there are no more records.

Assumed of the external parts: a set or an erase is seen at once by every reader;
`nvs_get_str` writes the needed size to its length argument also when it fails for
length; the handle `hnvs` stays open; the server keeps a post that reaches it.
A record is told apart only by its length (`Size`): too short to send, and
fitting or not fitting the size an earlier record left behind.

### RingFifo and ByteStream

`TinyGsmFifo` as its comments divide it: a writing and a reading context, each of
which reads the other's index, copies, and publishes its own index, in separate
steps. In this firmware one task does both: its executions are the sequential ones
among those checked, and the interleavings are what the class's comments promise. `ByteStream` is the abstract specification, a bounded queue of numbered
bytes; `StreamSpec` is the refinement mapping (`Contents` reads the ring from `_r`).

### WaterSensor

The code of `vTimerPPMCallback` for the two contexts that run it, `"timer"` and
`"sync"`: check, store three seconds later, load and store of
`water_current_item++`, mean, reset, flag. Slot `PPM_COUNT` of `ppms` is the word
after the array. Waiting is a state too: `"wait"` is the timer's period, `"sleep"`
the three seconds of `read_ppm`. Every interleaving of the two contexts is modelled
except one kind: a whole wait does not fit between the load and the store of the
other's `++`, because a wait is seconds to minutes and that window is a few cycles.
So `Pass` (the end of a wait) and `SyncCount` (the end of a turn of SyncTask's loop)
are taken when the other context is not inside its `++`; every other step is free.

### FirmwareUpdate

`boot` to `remove` of `phase` follow `check_sd_card` and `ota_from_sd_card`;
`Sync...` is `gsm_send_signal`; the rest is `update_over_gsm_http`. `update.bin`
is absent, a partial file, a whole image, or something `esp_ota_write` refuses
(`"alien"`: wrong first byte or too long). A partition holds `"old"`, `"new"` or
`"junk"`. The stream is blocks, each the image's next one or something else,
because the status line is not checked and `read()` returns -1 after a close.
With a failed `fopen`, `fprintf` panics at the first byte (`NullFilePanics`); a
connection that closes before it ends as one with a file would, without a file.
`MaxFaults` counts power losses and failing library calls.

### GsmSocket

| model | code |
|---|---|
| `connected`, `available`, `gotData`, `rx` | `sock_connected`, `sock_available`, `got_data`, the ring |
| `pc`, `ret`, `left` | where `cci_task` is, where `maintain()` and `stop()` return to, the bytes `modemRead` has still to copy |
| `wire`, `cmds` | tokens on the serial line, commands the modem has not answered |
| `open`, `unread`, `sent` | the modem's connection and the bytes it holds |
| `got`, `late`, `crossed`, `refused`, `missed` | history |

`Awaited` gives, for each place with a `waitResponse`, the answers it looks for;
`SkipToken` passes over every other token, with what `waitResponse` does on a
notice or a `CLOSED` line. `Connect` to `Accepted` are `connect` and `write`,
`Available` to `StatusDone` are `available` with `modemGetAvailable` and
`modemGetConnected`, `Deliver` to `ReadDone` are `read` and `modemRead`. A notice is
taken for the answer where the driver looks for `+CIPRXGET:`, because that test
comes before the one for the notice; the fields then read are shifted.

Assumed of the modem: it executes commands in order; the tokens of one answer are
not torn apart by a notice; a text read as data counts as one byte, numbered 0; no
byte of data is a comma; a closed connection refuses `+CIPRXGET=2` only when it
holds nothing any more. Only the commands that read may be answered late
(`MaxLate`), and a client connects once, as `update_over_gsm_http` does.

### HttpSession

`step` is the AT command of `HTTP_post`, `HTTP_get` or `HTTP_read` that SyncTask is
at, `job` the request, `again` the repetition after a critical status. Each step is
`WriteCommand` (`println`, which drops what has arrived) and one read line:
`SkipUrc` for an unsolicited one, `ReadLine`, or `NoLine` when the time is over.
`Matches` is what the step looks for, `Outcome` what follows, `Returned` what
`gsm_send_http` and `gsm_get_time_from_http` make of a status. `expect` flushes the
receiver when it returns: which of the waiting lines that drops is open, and a
`+HTTPACTION` right behind an `OK` may be among them (`lost`).

The modem (`queue`, `service`, `body`, `acting`, `page`) executes commands in order
and late, takes what comes after `DOWNLOAD` for data, refuses, loses a request;
the server (`stored`) says "1" or "Record exist" only of what it has.
`println` writes whether or not the modem has executed what came before, so nothing
in a call holds `queue` down; `MaxBehind` bounds it where a call begins. `overrun`
says that two `AT+HTTPDATA` have waited at the modem at a time.
Lines are whole, and what `HTTP_read` reads raw after an unmatched `+HTTPREAD`
never looks like a page that says "1". Uninitialised results (`HTTP_get`'s status,
`HTTP_read`'s length) are any value.

### BringUp

`at` follows `gsm_init`: `wakeup` (`"at"`, `"atAgain"`, `"power"`, `"pulse"`,
`"reset"`), the nine commands nobody looks at, the card, the signal, the
registration with `shutdown` and `wakeup` between two attempts, the bearer. `chip`
is the modem: off, mute, or ready. It comes on when it has power, falls silent by
itself (`FallsSilent`), and a command may go unanswered (`No`). Of the key pin the
direction is kept, since it decides whether a pulse reaches the modem: `begin`
makes it an output once, `wakeup` leaves it an input, `shutdown` makes it an output
again. A pulse on an output switches a running modem off.

**ModemDrivers** composes the three. `user` has the modem for a whole run: SyncTask
bringing it up, SyncTask in its requests, or `cci_task` with the TinyGSM client.
What a former user leaves on the line is not modelled; that two of them never have
it at once is `ModemHandedOver` of FirmwareUpdate.

### Timekeeping and Calendar

`pc` follows SyncTask through `nvs_first_init`, the start with or without network,
`gsm_send_location`, and the loop: the records, `gsm_send_signal`, the reboot of the
modem, `db_sync`. `now` is the system clock. `FromHttp` is what
`check_timestamp_from_http` reads (main.cpp:183), `CheckTimestamp` is
`nvs_check_timestamp(t, true)`, which sets the clock to it (48). They are two steps,
at the start, at a poll and after `gsm_send_location`: prints to the serial port and
an NVS read lie between, the clock may tick meanwhile (`pc` is in `Setting`), and it
is then set back by what has passed. Nothing is done by the clock in between, because
only SyncTask reads it; the time it *goes by* is `Seen`: the clock, or what it is about
to set the clock to. The server and the modem may
report any time, NVS may find nothing or fail to save, `Reset` and `GsmRestart` may
come anywhere (that `gsm_restart` may wait for its own semaphore is RecordSync's
subject). A start without network sets the clock back to the default; the
properties about a clock that goes forward begin behind it.

**Calendar** is what the rest of the firmware may rely on: the clock is set to
anything while SyncTask starts, and goes forward only while it is in its loop.
`CalendarSpec` of Timekeeping is the refinement mapping (the day is
`Seen \div DayLength`, the phase comes from `pc`).

### DailyArchive

`WriteRecord` is `db_write_record`; `DayChanged`, `Open`, `NoFile`, `PostLine`,
`EndOfFile` and `Rename` are `db_sync`, with the clock of Calendar free to move between
any two of them. `db_sync` reads the clock three times: for the day of the month it
compares and notes (`DayChanged`, db.h:118), for the name of yesterday's file (`Open`,
`NoFile`, 125) and for the new name (`Rename`, 168). When midnight comes between the
first two, the file of the day that has just ended is opened instead of the one before,
and the note says that the day before is done: its file is never posted. That is what
the code does; the history `between` holds the days that ended there, and the
properties except only the day before such a day. `txt` and `syn` are the files, by day; a file is a set of records. `DayOfMonth`
is what `db_sync` compares. The new name is yesterday's at that moment, so after a midnight
it is another day's; FAT refuses to rename onto a file that is there. *Posted* means
offered: `db_sync` does not look at what becomes of the fourth try. The histories `skipped` (a day went by without `db_sync`) and
`starved` (`malloc` failed) qualify the properties: files of skipped days and of
earlier runs are never sent, which is what the code does.

In every module a *slip* (a definition whose comment starts with "Slip:") is a
plausible wrong version of the operation after it. No specification uses it; it is
there to show that a property notices the mistake.

## 4. What the runs show

| run | bounds | checks |
|---|---|---|
| RecordSync | 2 keys, 3 records, 1 fault, any NVS call may fail | `TypeOK`, `MutexUnlessIgnored`, `NoSilentLoss`, `DisplacedOnlyAfterWrap` |
| RecordSyncLive | 3 keys, 2 records, 1 fault, fairness | `Drained`, `RestartOutCompletes` |
| RecordSyncMutex | 1 record, `DEBUG_NVS_ERASE_ALL` | `MutualExclusion` is **violated** |
| RecordSyncRestart | 1 record, 1 fault, `DEBUG_NVS_ERASE_ALL`, fairness | `RestartCompletes` is **violated** |
| RingFifo | 3 slots, 5 bytes | `NoOverlap`, `StreamSpec` |
| WaterSensor | 3 slots, period 1, readings 0 and 1, fairness | `TypeOK`, `OneSlotPast`, `MeanIsFresh`, `MeanReported` |
| WaterSensorIndex | same, no fairness | `IndexInBounds` is **violated** |
| FirmwareUpdate | wait of 2, 2 blocks, 2 faults, fairness | `TypeOK`, `BootSlotValid`, `RunningUntouched`, `ModemHandedOver`, `BootSettles`, `DownloadSettles` |
| FirmwareUpdateBoot | no faults, fairness | `BootCompletes` is **violated** |
| ModemDrivers | ring of 2, 5 bytes, 1 late answer; 2 records, 2 lines per answer, 1 unsolicited, 1 time-out too early, 1 command behind when a call begins, 1 fault; 2 tries each, 2 silences, 2 missed answers; fairness | `DriversTypeOK`, `InOrder`, `ExactAnswer`, `NothingLost`, `Fetched`, `CallsReturn`, `CloseSeen` (socket); `AcceptedIsStored`, `Undisturbed`, `CallEnds` (requests); `GsmInitEnds` (bring-up) |
| Timekeeping | times 0 to 6, default 2, periods of 1, days of 2, fairness | `TypeOK`, `StampsPast`, `ClockForward`, `Polled`, `CalendarSpec` |
| DailyArchive | 5 days, months of 3, 2 records, fairness | `TypeOK`, `Kept`, `SynWasPosted`, `NextDayPosted`, `OncePerRun`, `DayPosted` |

Why the bounds are enough. RecordSync: with more records than keys the counter
wraps, each kind of length occurs, and one fault placed anywhere reaches every
window between an uncommitted write and its commit (failing NVS calls are not
counted); `RecordSyncLive` has two keys that the loop visits, so a size is carried
from one to the other, and `cci_task` takes the mutex without end, records or not;
the proofs cover other sizes and the build that erases the cache at boot.
RingFifo: three slots hold two bytes, so blocks split at the wrap; five bytes go
round nearly twice. WaterSensor: three slots and a saturated reading (0) give
rounds with and without a meeting, lost increments and the division by zero.
FirmwareUpdate: two faults allow a failing library call and a power loss in the
recovery from it; two blocks tell an early close, a whole image and an overrun
apart; the length of the wait and the number of handles only scale.
ModemDrivers: five bytes pass a ring of two more than twice, and one late answer
may meet any later command; two records and a time tell a line of another request
from one's own, and one fault placed anywhere with one answer overdue gives every
refusal, loss or critical status of the retry. `HttpSessionLate.cfg`, for the requests
alone (`tlc -config HttpSessionLate.cfg HttpSession`; it is in none of the runs above),
has two answers overdue, calls that begin four commands behind, and nothing
unsolicited: 7.8 million states in which `AcceptedIsStored` holds too. The property
leaves out the histories in which two `AT+HTTPDATA` wait at the modem at a time
(`overrun`): TLC reaches one with five commands behind and two time-outs, not with
four, and so in neither of the two; for what is beyond their bounds there is the
theorem. Two silences let the modem fail again after it was woken.
Timekeeping: default, saved, reported and true time come in every order.
Two ticks make a day, so a poll may be on either side of midnight, or across it.
DailyArchive: three days make a month, so the day numbers return within the run;
two records are two lines of a file, or two days' files that want one name.

Five of the liveness properties leave out, with `<>[]` of a history that only
becomes true, what the code has no answer to: `Heard` (an answer too late, or a
notice taken for an answer *and* the `CLOSED` line lost: `read()` then repeats a
refused `+CIPRXGET=2`), `lost` (`HTTP_post` waits for `+HTTPACTION` for ever),
`unheard` and `Wedged` (a modem mute while only card and signal are asked for; a key
that is no output when `wakeup` pulses it, sim800.cpp:134).

`CHECK_DEADLOCK FALSE` is used where the system may stop: records are bounded, a
task may wait for itself (`restartIn`), a board may have no sensor, the download
may hang.

### Fairness

RecordSync: weak fairness of each task; they are pinned to different cores and
nothing else of their priority runs there. New records, power losses and restarts
are never required. Weak fairness does not give SyncTask the mutex: while there is
serial input `cci_task` takes it again as soon as it gave it (main.cpp:147), and
SyncTask only looks every second or two (518, gsm_tools.h:15), so it may miss every
moment at which the mutex is free. TLC finds that, and `Drained` and
`RestartOutCompletes` are false without a further assumption, which is their premise
`PollsMeetFreeMutex`: a poll that finds the mutex free again and again takes it in the
end. What they show is that nothing else keeps a record in the cache: no section ends
without a give, no size or refusal passes a record over for ever. Implied by it: a post and `gsm_init` return. When they do is
`CallEnds` and `GsmInitEnds` of ModemDrivers.
WaterSensor: weak fairness of both contexts, strong fairness of `Pass` and
`SyncCount`, which are held back only for the few cycles of the other's `++`. The modem's ups and
downs are not fair; `MeanReported` assumes that it stays up in the end.
FirmwareUpdate: weak fairness of the boot and of SyncTask, **none** of the
download, which may hang at any step.
ModemDrivers: weak fairness of the task that has the modem and of the modem's
executing commands; strong fairness of `AvailablePolls` (two seconds without data
come again and again) and of a modem that is given power coming on. Nothing need
arrive from the server, no notice need be sent, and no card, signal or network need
appear: `GsmInitEnds` assumes that they do.
Timekeeping: weak fairness of SyncTask (its calls return); the clock need not tick.
DailyArchive: weak fairness of `db_sync` once its condition holds; neither records
nor days need come.

### Disagreements found

1. `MutualExclusion`: `cci_task` ignores the result of its take (main.cpp:152) of
   what main.cpp:658 creates as a mutex. Both tasks are then inside, and the give of
   the one releases the mutex of the other. `MutexUnlessIgnored` is what remains.
2. `RestartCompletes`: `gsm_restart` (gsm_tools.h:15) called from a post in the
   loop waits for the semaphore its own task holds. `RestartOutCompletes` is what
   remains.
3. `IndexInBounds`: the guard of water_sensor.h:128 is three seconds old when
   water_sensor.h:105 stores. `OneSlotPast` is what remains.
4. `BootCompletes`: `ESP_ERROR_CHECK` (main.h:245) aborts before the line that
   would end the copy (main.h:246), at every boot. `BootSettles` is what remains.

## 5. What is proved

All theorems hold for every value of the constants under the named assumptions of
the modules: `NVS_MAX_DATA_COUNTER` at least 1, sizes at least 1, at least two
slots in the ring, at least one reading per mean, 0 among the readings, and
a ring of at least one byte in the socket, at least one line read by `expect`, a
month of more than one day, a default time within the bound, and natural numbers
for the bounds and periods. None of them is about the modem.

`AcceptedIsStored`, and with it `AcceptedOnlyStored` and `DriversKeepPromises`, has a
premise instead, `~overrun`: no two `AT+HTTPDATA` have waited at the modem at a time.
The code does not ensure it. It waits up to five seconds for the line of each command
and then writes the next (sim800.cpp:1052), although the repository itself gives
`AT+SAPBR=1,1` 30 s (sim800.cpp:358) or 85 s (TinyGsmClientSIM800.h:479), and without
the premise the statement is false: with a modem nine commands behind and ten
time-outs too early TLC has followed the requests to a record that is taken for
accepted although the server has only the one before it, all of whose lines came one
request late. The theorem says that this is the only way: whatever else comes late, is
left over, refused or lost, and however far behind the modem is, up to the first
overrun an accepted record is stored.

| module | theorem | says |
|---|---|---|
| RecordSync_proofs | `TypeCorrect`, `Safe`, `MutexCorrect`, `NothingLost`, `GoneRound` | `TypeOK`, `SafeInv`, `MutexUnlessIgnored`, `NoSilentLoss`, `DisplacedOnlyAfterWrap` always hold |
| RingFifo_proofs | `Ring`, `RaceFree`, `Implements` | `RingInv` and `NoOverlap` always hold; `Spec => StreamSpec` |
| WaterSensor_proofs | `TypeCorrect`, `OverrunBounded`, `Fresh`, `Announced` | `TypeOK`, `OneSlotPast`, `MeanIsFresh`, `MeanAnnounced` always hold |
| FirmwareUpdate_proofs | `TypeCorrect`, `AlwaysBootable`, `ModemExclusive`, `RunningSafe` | `TypeOK`, `BootSlotValid`, `ModemHandedOver` always hold; `RunningUntouched` |
| GsmSocket_proofs | `TypeCorrect`, `ReadInOrder`, `AnswerTakenExactly`, `NothingIsLost` | `TypeOK`, `InOrder`, `ExactAnswer`, `NothingLost` always hold |
| ModemDrivers_proofs | `HttpTypeCorrect`, `AcceptedOnlyStored`, `QuietIsUndisturbed`, `BringUpTypeCorrect` | `HttpTypeOK`, `AcceptedIsStored`, `Undisturbed` hold of HttpSession, `BringUpTypeOK` of BringUp |
| | `DriversTypeCorrect`, `DriversKeepPromises` | `DriversTypeOK` and the five invariants of the parts hold of ModemDrivers |
| Timekeeping_proofs | `Stamps`, `TypeCorrect`, `NothingAhead`, `NeverBack`, `Implements` | the inductive invariant, `TypeOK`, `StampsPast` always hold; `ClockForward`; `Spec => CalendarSpec` |
| DailyArchive_proofs | `Archive`, `TypeCorrect`, `NothingLost`, `SynMeansPosted`, `NoDayLeft`, `OpenedOnce` | the inductive invariant, `TypeOK`, `Kept`, `SynWasPosted`, `NextDayPosted` always hold; `OncePerRun` |

The arguments:

- **RecordSync.** `NoSilentLoss` is not inductive: it does not say why the record
  that `SyncErase` removes is safe. `SafeInv` adds that a free semaphore means no
  task inside (`LockInv`), that the record being saved is in the cache
  (`SavingInv`), that the record being erased is the one that was read and archived
  (`ErasingInv`), and that an unsent record is under the *same* key in the cache and
  on flash (`DurableInv`), so that no choice of surviving writes can lose it, and only
  a boot that erases the whole partition does (`RebootLeaves` lists what a boot may
  leave of what it finds). All of it holds only until a failed take is ignored.
  For `DisplacedOnlyAfterWrap` (`WrapInv`): since a committed record was written, the
  counter in memory, in NVS and on flash has been advanced at most once for each
  later record (`Around`), so that it comes back to the record's key after as many
  records as there are keys. A reset takes the counter back, but not past the value
  that was committed with the record, unless the record is wiped or the counter cannot
  be read (`startedOver`).
- **RingFifo.** `RingInv`: the block a context copies was free (or full) when it was
  chosen and still is, because the other context can only make more room (or more
  data). The refinement needs the contents of the ring from `_r` and what a publish
  does to them (`BytesValue`, `PutPublishes`, `GetPublishes`).
- **WaterSensor.** `OverrunInv`: if both contexts are in `read_ppm`, the index is
  below `PPM_COUNT`; while one is in its `++`, the item it loaded is still current,
  unless the other has changed it and has yet to wait. `RoundInv`: without a meeting, the
  slots before the index were stored to in this round.
- **FirmwareUpdate.** The partition being written is neither the running one nor
  the one to boot, and is made the one to boot only when it holds an image
  (`SlotInv`); cci_task is in the download only while SyncTask is in its wait.

- **GsmSocket.** `Order`: what `read()` has returned, the ring, the bytes on the line
  and those in the modem are each in order, and what is in an earlier one of these
  four places is smaller than what is in a later one. Every step drops bytes or moves
  one to the end of the next place (`DataShapes`, `LineShapes` say how little of the
  rest a step can do), so no late answer and no shifted field can reverse two bytes.
  For `ExactAnswer`, `AnswerInv` says what can be on the line while no answer is late:
  the command the driver waits for is unanswered, or its answer is there, with only
  notices behind it (`WireInv`); as many bytes follow an answer to `+CIPRXGET=2` as it
  announces (`Announced`); and the ring is empty when `modemRead` asks, so what it
  still has to copy fits (`RingInv`).
  For `NothingLost`, `LostInv` numbers the bytes: what was handed out, the ring, the
  bytes on the line and those in the modem are together the bytes sent, each in its
  place (`Rest`, `OnLine`); bytes are on the line only behind the token that announces
  them, or while `modemRead` copies them (`Placed`); nothing is sent before the socket
  is open (`ClosedInv`). Only `stop` drops bytes, those of the ring and, with the answer
  to its command, those of the modem (`Lossy`): at the start there are none, and at
  the end the property asks for nothing more.
- **HttpSession.** `StoredInv` follows one post. The modem executes commands in order,
  and unless it is overrun this request's `AT+HTTPDATA` is the only one it has still to
  execute, so the `DOWNLOAD` the driver reads answers that and no other (`DataInv`); by then nothing is outstanding, so the line that follows the data, the
  `+HTTPACTION` and the page are this request's too (`BodyInv`, `ActionInv`,
  `ScanInv`, `ReadInv`). The guard that carries it is the comparison with `DOWNLOAD`:
  the answers to all other commands look alike.
  `QuietInv`, for `Undisturbed`: with nothing late, wrong or lost, the modem's service
  is in the state the step expects, and exactly one answer is due or has come, behind
  no more unsolicited lines than `expect` still skips.
- **ModemDrivers.** A step of the composition is a step of one part and a stutter of
  the others (`Together`, `DriversCompose`), so the theorems about the parts carry over.
- **Timekeeping.** `Inv`: what is saved is the default or later (`Saved`), nothing is
  noted before SyncTask has started (`AtStart`), so no stamp and no period starts
  ahead of the clock (`TwoSuffice`, `PointsPast`). A time from outside is taken only
  where `nvs_check_timestamp` sets the clock to it or later; between reading and
  setting, what has been read is not behind any other stamp (`ToSet`), so that setting
  the clock back to it puts it behind none. The refinement of
  Calendar needs that division by the length of a day is monotone.
- **DailyArchive.** `Inv`: each record is in one file (`Numbered`); what is left of the
  file that is read, and what is posted, make up that file (`Pass`); the day of the
  last `db_sync` separates the days served from those to come, but for the days in
  `between` (`Run`, `NotYet`); what a run has written and not posted is still under its
  own day, none of it before the day in hand, but for the days left out (`Due`).

Only model-checked are the liveness properties, which need fairness and `ENABLED`:
`Drained`, `RestartOutCompletes`, `MeanReported`, `BootSettles`, `DownloadSettles`,
`Fetched`, `CallsReturn`, `CloseSeen`, `CallEnds`, `GsmInitEnds`, `Polled` and
`DayPosted`. Every invariant, action property and refinement that a passing run
checks is also proved.

## 6. Not modelled

See the table of section 1 and `components` in `PROJECT.json`. Left out on purpose:
formatting of records and URLs, logging, the LCD, the identifier of the board, the
analogue conversion, TinyGSM's SMS, call, USSD and GPRS functions.

- **The vendored tree.** Nearly all of `src/` is the Arduino core with the headers of
  ESP-IDF, Bluetooth, lwIP, mbedTLS and newlib below `src/components/`: register
  definitions and declarations the firmware only links against. The repository's own
  code is `src/main/`, some 5300 lines, and the modules are about that.
- **A second socket and reads of several bytes** in TinyGSM: the firmware opens one
  client and reads byte by byte.
- **Lines that arrive in two halves, or fill the buffer** of `readline`, and
  characters lost on the serial line: the UART is given as reliable.
- **`set_operator`**: it chooses the access point's name, a string. Its loop visits
  four of the five operators (sim800.cpp:996), and since `current_operator` starts at
  0 the first one never calls `setAPN` (sim800.cpp:1007); the requests do not use the
  name, only `connect` does.
- **`connect`** of sim800.cpp appears in FirmwareUpdate as a call that fails or not.
  Its 16-bit countdown may pass 0, which ends the loop and leaves a long time-out.
- **Record lengths** beyond the buffers of the loop (main.cpp:526): no statement of
  the repository says which records are legal.
