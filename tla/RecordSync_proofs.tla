------------------------- MODULE RecordSync_proofs -------------------------
(***************************************************************************)
(* Theorems about RecordSync, for every number of keys, records and        *)
(* faults, every record size and every build of the firmware.              *)
(***************************************************************************)
EXTENDS RecordSync, TLAPS

(* What nvs_first_init leaves of the image (n, c) it finds, one fact per    *)
(* thing it may do.                                                         *)
LEMMA RebootLeaves ==
  ASSUME NEW n \in [Keys -> Records \cup {None}], NEW c \in Keys, Reboot(n, c)
  PROVE  /\ nvs' \in {n, Empty} /\ flash' \in {n, Empty}
         /\ (nvs' = n /\ flash' = n) \/ {n[k] : k \in Keys} \ {None} \subseteq wiped'
         /\ wiped' \in {wiped, wiped \cup ({n[k] : k \in Keys} \ {None})}
         /\ counter' \in {0, c} /\ storedCounter' \in {0, c}
         /\ flashCounter' \in {0, c}
         /\ startedOver' \in BOOLEAN /\ (startedOver => startedOver')
         /\ \/ startedOver'
            \/ {n[k] : k \in Keys} \ {None} \subseteq wiped'
            \/ counter' = c /\ storedCounter' = c /\ flashCounter' = c
         /\ sem' /\ cciPc' = "idle" /\ syncPc' = "start" /\ ~gsmOk'
         /\ next' = IF cciPc \in {"idle", "nosave"} THEN next ELSE next + 1
         /\ i' = 0 /\ data' = None /\ required' = 0 /\ try' = 0
         /\ UNCHANGED <<archive, server, acked, displacedBy, unlockedEntry>>
<1>1. PICK formatted \in {FALSE, NvsErrors},
           erased \in {EraseAtBoot, EraseAtBoot /\ ~NvsErrors} :
        LET found == IF formatted THEN <<Empty, 0>> ELSE <<n, c>>
            left  == IF erased THEN <<Empty, 0>> ELSE found
        IN /\ nvs' = left[1]
           /\ counter' \in {left[2]} \cup OnError({0})
           /\ storedCounter' \in {counter', left[2]}
           /\ \E kept \in {<<nvs', storedCounter'>>} \cup OnError({found, left}) :
                flash' = kept[1] /\ flashCounter' = kept[2]
           /\ startedOver' = (startedOver \/ counter' # left[2])
           /\ wiped' = IF formatted \/ erased
                       THEN wiped \cup ({n[k] : k \in Keys} \ {None}) ELSE wiped
           /\ sem' = TRUE /\ cciPc' = "idle"
           /\ next' = IF cciPc \in {"idle", "nosave"} THEN next ELSE next + 1
           /\ syncPc' = "start" /\ gsmOk' = FALSE /\ i' = 0 /\ data' = None
           /\ required' = 0 /\ try' = 0
           /\ UNCHANGED <<archive, server, acked, displacedBy, unlockedEntry>>
  BY Zenon DEF Reboot
<1>0. OnError({0}) \subseteq {0}
      /\ \A a, b : OnError({a, b}) \subseteq {a, b}
  BY DEF OnError
<1>5. LET found == IF formatted THEN <<Empty, 0>> ELSE <<n, c>>
          left  == IF erased THEN <<Empty, 0>> ELSE found
      IN \/ flash' = nvs' /\ flashCounter' = storedCounter'
         \/ flash' = found[1] /\ flashCounter' = found[2]
         \/ flash' = left[1] /\ flashCounter' = left[2]
  <2>. DEFINE found == IF formatted THEN <<Empty, 0>> ELSE <<n, c>>
              left  == IF erased THEN <<Empty, 0>> ELSE found
  <2>1. PICK kept \in {<<nvs', storedCounter'>>} \cup OnError({found, left}) :
               flash' = kept[1] /\ flashCounter' = kept[2]
    BY <1>1, Zenon
  <2>2. kept = <<nvs', storedCounter'>> \/ kept = found \/ kept = left
    BY <1>0, <2>1, Zenon
  <2>. QED BY <2>1, <2>2
<1>2. startedOver' \in BOOLEAN /\ (startedOver => startedOver')
  <2>1. \E k : startedOver' = (startedOver \/ counter' # k)
    BY <1>1, Zenon
  <2>. QED BY <2>1
<1>3. CASE ~formatted /\ ~erased
  <2>1. nvs' = n /\ flash' = n /\ wiped' = wiped
    BY <1>0, <1>1, <1>3, <1>5
  <2>2. counter' \in {0, c} /\ storedCounter' \in {counter', c}
    BY <1>0, <1>1, <1>3, <1>5
  <2>3. flashCounter' \in {storedCounter', c}
    BY <1>0, <1>1, <1>3, <1>5
  <2>4. startedOver' \/ counter' = c
    <3>1. startedOver' = (startedOver \/ counter' # c)
      BY <1>1, <1>3
    <3>. QED BY <3>1
  <2>. QED BY <1>1, <1>2, <2>1, <2>2, <2>3, <2>4
<1>4. CASE formatted \/ erased
  <2>1. nvs' = Empty /\ counter' = 0 /\ storedCounter' = 0
    BY <1>0, <1>1, <1>4
  <2>2. flash' \in {n, Empty} /\ flashCounter' \in {0, c}
    BY <1>0, <1>1, <1>4, <1>5, <2>1
  <2>3. wiped' = wiped \cup ({n[k] : k \in Keys} \ {None})
    BY <1>1, <1>4
  <2>. QED BY <1>1, <1>2, <2>1, <2>2, <2>3
<1>. QED BY <1>3, <1>4

(* A reset leaves values of the right type, from any well-typed image of   *)
(* the NVS partition.                                                      *)
LEMMA RebootType ==
  ASSUME TypeOK, faults' \in 0 .. MaxFaults,
         NEW n \in [Keys -> Records \cup {None}], NEW c \in Keys,
         Reboot(n, c)
  PROVE  TypeOK'
<1>1. Empty \in [Keys -> Records \cup {None}] /\ 0 \in Keys
  BY CounterAssumption DEF Empty, Keys
<1>2. next' \in 1 .. MaxRecords + 1
  BY RecordAssumption, RebootLeaves DEF TypeOK, Records
<1>3. /\ nvs' \in [Keys -> Records \cup {None}]
      /\ flash' \in [Keys -> Records \cup {None}]
      /\ storedCounter' \in Keys /\ flashCounter' \in Keys /\ counter' \in Keys
  BY <1>1, RebootLeaves
<1>4. /\ sem' \in BOOLEAN /\ gsmOk' \in BOOLEAN
      /\ unlockedEntry' \in BOOLEAN /\ startedOver' \in BOOLEAN
  <2>1. sem' /\ ~gsmOk' /\ unlockedEntry' = unlockedEntry /\ startedOver' \in BOOLEAN
    BY RebootLeaves
  <2>2. sem' = TRUE /\ gsmOk' = FALSE
    BY DEF Reboot
  <2>. QED BY <2>1, <2>2 DEF TypeOK
<1>5. /\ cciPc' \in CciPcs /\ cciPc' = "idle"
      /\ syncPc' \in SyncPcs /\ syncPc' = "start"
  BY RebootLeaves DEF CciPcs, SyncPcs
<1>6. /\ i' \in Keys /\ data' \in Records \cup {None}
      /\ required' \in Nat /\ try' \in 0 .. 4
  BY <1>1, RebootLeaves
<1>7. /\ archive' \subseteq Records /\ server' \subseteq Records
      /\ acked' \subseteq Records
      /\ displacedBy' \in [Records -> Records \cup {None}]
  BY RebootLeaves DEF TypeOK
<1>8. wiped' \subseteq Records
  BY RebootLeaves DEF TypeOK
<1>. QED BY <1>2, <1>3, <1>4, <1>5, <1>6, <1>7, <1>8 DEF TypeOK

(* The same for a reset that may lose what was not committed.              *)
LEMMA UncommittedType ==
  TypeOK /\ UncommittedReset /\ faults' \in 0 .. MaxFaults => TypeOK'
<1>. SUFFICES ASSUME TypeOK, UncommittedReset, faults' \in 0 .. MaxFaults
              PROVE  TypeOK'
  OBVIOUS
<1>2. PICK written \in SUBSET {k \in Keys : nvs[k] # flash[k]},
           c \in {storedCounter, flashCounter} :
        Reboot([k \in Keys |-> IF k \in written THEN nvs[k] ELSE flash[k]], c)
  BY DEF UncommittedReset
<1>3. [k \in Keys |-> IF k \in written THEN nvs[k] ELSE flash[k]]
        \in [Keys -> Records \cup {None}]
  BY DEF TypeOK
<1>4. c \in Keys
  BY DEF TypeOK
<1>. QED BY <1>2, <1>3, <1>4, RebootType

LEMMA UnsavedResetType == TypeOK /\ UnsavedReset => TypeOK'
<1>1. TypeOK /\ UnsavedReset => faults' \in 0 .. MaxFaults
  BY RecordAssumption DEF TypeOK, UnsavedReset
<1>. QED BY <1>1, UncommittedType DEF UnsavedReset

(* The steps of cci_task keep every variable in its type.                  *)
LEMMA CciType == TypeOK /\ (CciTake \/ CciWork) => TypeOK'
<1>. SUFFICES ASSUME TypeOK, CciTake \/ CciWork PROVE TypeOK'
  OBVIOUS
<1>. USE CounterAssumption, RecordAssumption
     DEF TypeOK, Keys, Records, None, CciPcs, cacheVars, cciVars, syncVars,
         history
<1>1. CASE CciTake
  <2>1. unlockedEntry' \in BOOLEAN /\ startedOver' \in BOOLEAN /\ sem' \in BOOLEAN
    BY <1>1 DEF CciTake
  <2>2. next' \in 1 .. MaxRecords + 1 /\ (cciPc' \notin {"idle", "nosave"} => next' \in Records)
    BY <1>1 DEF CciTake
  <2>. QED BY <1>1, <2>1, <2>2 DEF CciTake
<1>2. CASE SaveSet
  BY <1>2 DEF SaveSet, StoreAt
<1>3. CASE SaveSetFull
  <2>1. CASE StoreAt(0)
    BY <2>1, <1>3 DEF SaveSetFull, StoreAt
  <2>2. CASE UNCHANGED <<nvs, displacedBy>> /\ cciPc' = "give"
    BY <2>2, <1>3 DEF SaveSetFull
  <2>. QED BY <1>3, <2>1, <2>2 DEF SaveSetFull
<1>4. CASE SaveSetFails
  BY <1>4 DEF SaveSetFails
<1>5. CASE SaveCount
  BY <1>5 DEF SaveCount
<1>6. CASE SaveCommit
  BY <1>6 DEF SaveCommit, Commit
<1>7. CASE CciGive
  BY <1>7 DEF CciGive
<1>. QED BY <1>1, <1>2, <1>3, <1>4, <1>5, <1>6, <1>7 DEF CciWork

(* The steps of SyncTask keep every variable in its type.                  *)
LEMMA SyncType == TypeOK /\ SyncWork => TypeOK'
<1>. SUFFICES ASSUME TypeOK, SyncWork PROVE TypeOK'
  OBVIOUS
<1>1. CASE SyncStart \/ SyncTail
  <2>1. faults' \in 0 .. MaxFaults
    BY <1>1, RecordAssumption DEF TypeOK, SyncStart, SyncTail
  <2>2. gsmOk' \in BOOLEAN /\ syncPc' \in {"top", "restartOut"}
    BY <1>1 DEF SyncStart, SyncTail
  <2>3. /\ flash' \in [Keys -> Records \cup {None}]
        /\ flashCounter' \in Keys
    BY <1>1 DEF TypeOK, SyncStart, SyncTail, Commit, CommitTried
  <2>. QED BY <1>1, <2>1, <2>2, <2>3
           DEF TypeOK, SyncStart, SyncTail, SyncPcs, cciVars, history
<1>2. CASE SyncTop
  <2>1. gsmOk' \in BOOLEAN
    BY <1>2 DEF SyncTop
  <2>2. i' \in Keys /\ i' < NVS_MAX_DATA_COUNTER
    BY <1>2, CounterAssumption DEF SyncTop, Keys
  <2>. QED BY <1>2, <2>1, <2>2
           DEF TypeOK, SyncTop, SyncPcs, cciVars, cacheVars, history
<1>10. CASE SyncTake
  BY <1>10 DEF TypeOK, SyncTake, SyncPcs, None, cciVars, cacheVars, history
<1>11. CASE SyncGive
  <2>1. i' \in Keys /\ (syncPc' = "take" => i' < NVS_MAX_DATA_COUNTER)
    BY <1>11, CounterAssumption DEF TypeOK, SyncGive, Keys
  <2>2. syncPc' \in {"take", "tail"} /\ sem' \in BOOLEAN
    BY <1>11 DEF SyncGive
  <2>. QED BY <1>11, <2>1, <2>2
           DEF TypeOK, SyncGive, SyncPcs, cciVars, cacheVars, history
<1>3. CASE SyncSkip
  BY <1>3, SizeAssumption, CounterAssumption
  DEF TypeOK, SyncSkip, Fits, Keys, SyncPcs, cciVars, cacheVars, history
<1>4. CASE SyncRead
  <2>1. data' \in Records
    BY <1>4 DEF TypeOK, SyncRead, Fits
  <2>2. required' \in Nat /\ try' \in 0 .. 4
    BY <1>4, <2>1, SizeAssumption DEF SyncRead
  <2>3. archive' \subseteq Records
    BY <1>4, <2>1 DEF TypeOK, SyncRead
  <2>4. syncPc' \in {"post", "erase"}
    BY <1>4 DEF SyncRead
  <2>. QED BY <1>4, <2>1, <2>2, <2>3, <2>4
           DEF TypeOK, SyncRead, SyncPcs, cciVars, cacheVars, history
<1>5. CASE PostAccepted \/ PostRefused \/ PostCritical \/ RepostAnswered
           \/ PostRestarts
  BY <1>5, RecordAssumption
  DEF TypeOK, PostAccepted, PostRefused, PostCritical, RepostAnswered,
      PostRestarts, MayArrive, AfterFalse, SyncPcs, cciVars, cacheVars, history
<1>6. CASE SyncErase
  BY <1>6 DEF TypeOK, SyncErase, SyncPcs, cciVars, history
<1>7. CASE FirmwareRestart
  BY <1>7, UnsavedResetType DEF FirmwareRestart
<1>8. CASE RestartTake
  BY <1>8 DEF TypeOK, RestartTake, SyncPcs, cciVars, cacheVars, history
<1>9. CASE RestartReset
  <2>1. faults' \in 0 .. MaxFaults
    BY <1>9 DEF RestartReset, TypeOK
  <2>2. CASE Reboot(nvs, storedCounter)
    BY <2>1, <2>2, RebootType DEF TypeOK
  <2>3. CASE UncommittedReset
    BY <2>1, <2>3, UncommittedType
  <2>. QED BY <1>9, <2>2, <2>3 DEF RestartReset
<1>. QED BY <1>1, <1>2, <1>3, <1>4, <1>5, <1>6, <1>7, <1>8, <1>9, <1>10, <1>11
    DEF SyncWork

(* No sequence of saves, posts, restarts and power losses takes a variable  *)
(* out of its type; in particular the counter stays within the ring.        *)
THEOREM TypeCorrect == Spec => []TypeOK
<1>1. Init => TypeOK
  <2>. SUFFICES ASSUME Init PROVE TypeOK
    OBVIOUS
  <2>1. 0 \in Keys /\ Empty \in [Keys -> Records \cup {None}]
    BY CounterAssumption DEF Empty, Keys
  <2>2. 1 \in 1 .. MaxRecords + 1 /\ 0 \in 0 .. MaxFaults /\ 0 \in 0 .. 4
    BY RecordAssumption
  <2>. QED BY <2>1, <2>2 DEF Init, TypeOK, SyncPcs, CciPcs
<1>2. TypeOK /\ [Next]_vars => TypeOK'
  <2>. SUFFICES ASSUME TypeOK, [Next]_vars PROVE TypeOK'
    OBVIOUS
  <2>1. CASE UNCHANGED vars
    BY <2>1 DEF TypeOK, vars, cacheVars, cciVars, syncVars, history
  <2>. QED BY <2>1, UnsavedResetType, CciType, SyncType DEF Next, PowerLoss
<1>. QED BY <1>1, <1>2, PTL DEF Spec

-----------------------------------------------------------------------------
(* A reset keeps SafeInv: whatever survives in the flash, a key that held   *)
(* the same record in the cache and in the flash still holds it, unless     *)
(* nvs_first_init erased it with all others.                                *)
LEMMA RebootSafe ==
  ASSUME TypeOK, SafeInv, NEW n \in [Keys -> Records \cup {None}], NEW c \in Keys,
         Reboot(n, c), \A k \in Keys : nvs[k] = flash[k] => n[k] = nvs[k]
  PROVE  SafeInv'
<1>1. SUFFICES ASSUME ~unlockedEntry'
               PROVE  (LockInv /\ SavingInv /\ ErasingInv /\ DurableInv)'
  BY DEF SafeInv
<1>2. ~unlockedEntry
  BY <1>1, RebootLeaves
<1>3. (LockInv /\ SavingInv /\ ErasingInv)'
  <2>1. cciPc' = "idle" /\ syncPc' = "start"
    BY RebootLeaves
  <2>. QED BY <2>1 DEF LockInv, SyncInside, CciInside, MutualExclusion, SavingInv,
           ErasingInv
<1>4. DurableInv'
  <2>0. UNCHANGED <<acked, archive, server, displacedBy>> /\ wiped \subseteq wiped'
    BY RebootLeaves
  <2>. SUFFICES ASSUME SdWorks, NEW r \in acked, Unsent(r)'
                PROVE  \E k \in Keys : nvs'[k] = r /\ flash'[k] = r
    BY <2>0 DEF DurableInv
  <2>1. Unsent(r) /\ r \notin wiped'
    BY <2>0 DEF Unsent
  <2>2. PICK k \in Keys : nvs[k] = r /\ flash[k] = r
    BY <1>2, <2>1 DEF SafeInv, DurableInv
  <2>3. n[k] = r /\ r # None
    BY <2>2 DEF TypeOK, Records, None
  <2>4. ~({n[j] : j \in Keys} \ {None} \subseteq wiped')
    BY <2>1, <2>3
  <2>5. nvs' = n /\ flash' = n
    BY <2>4, RebootLeaves
  <2>. QED BY <2>3, <2>5
<1>. QED BY <1>3, <1>4

LEMMA UncommittedSafe == TypeOK /\ SafeInv /\ UncommittedReset => SafeInv'
<1>. SUFFICES ASSUME TypeOK, SafeInv, UncommittedReset PROVE SafeInv'
  OBVIOUS
<1>2. PICK written \in SUBSET {k \in Keys : nvs[k] # flash[k]},
           c \in {storedCounter, flashCounter} :
        Reboot([k \in Keys |-> IF k \in written THEN nvs[k] ELSE flash[k]], c)
  BY DEF UncommittedReset
<1>. DEFINE n == [k \in Keys |-> IF k \in written THEN nvs[k] ELSE flash[k]]
<1>3. n \in [Keys -> Records \cup {None}] /\ c \in Keys
  BY DEF TypeOK
<1>4. \A k \in Keys : nvs[k] = flash[k] => n[k] = nvs[k]
  OBVIOUS
<1>5. Reboot(n, c)
  BY <1>2
<1>. HIDE DEF n
<1>. QED BY <1>3, <1>4, <1>5, RebootSafe

(* DurableInv survives a step that keeps every key whose record is          *)
(* committed, and takes nothing from the SD card or the server.             *)
LEMMA DurableKept ==
  ASSUME DurableInv, UNCHANGED <<acked, displacedBy, wiped>>,
         archive \subseteq archive', server \subseteq server',
         \A k \in Keys : nvs[k] = flash[k] => /\ nvs'[k] = nvs[k]
                                            /\ flash'[k] = flash[k]
  PROVE  DurableInv'
<1>. SUFFICES ASSUME SdWorks, NEW r \in acked', Unsent(r)'
              PROVE  \E k \in Keys : nvs'[k] = r /\ flash'[k] = r
  BY DEF DurableInv
<1>1. r \in acked /\ Unsent(r)
  BY DEF Unsent
<1>2. PICK k \in Keys : nvs[k] = r /\ flash[k] = r
  BY <1>1 DEF DurableInv
<1>. QED BY <1>2

(* The steps of cci_task.  While it is inside SyncTask is not, so the       *)
(* record it has set stays in the cache until it is committed.              *)
LEMMA CciSafe == TypeOK /\ SafeInv /\ (CciTake \/ CciWork) => SafeInv'
<1>. SUFFICES ASSUME TypeOK, SafeInv, CciTake \/ CciWork PROVE SafeInv'
  OBVIOUS
<1>. SUFFICES ASSUME ~unlockedEntry'
              PROVE  (LockInv /\ SavingInv /\ ErasingInv /\ DurableInv)'
  BY DEF SafeInv
<1>1. ~unlockedEntry /\ (CciTake => sem)
  <2>1. CASE CciTake
    BY <2>1, Zenon DEF CciTake
  <2>2. CASE CciWork
    <3>1. unlockedEntry' = unlockedEntry
      BY <2>2 DEF CciWork, SaveSet, SaveSetFull, SaveSetFails, SaveCount,
                  SaveCommit, CciGive, history
    <3>2. ~CciTake
      BY <2>2 DEF CciWork, CciTake, SaveSet, SaveSetFull, SaveSetFails,
                  SaveCount, SaveCommit, CciGive
    <3>. QED BY <3>1, <3>2
  <2>. QED BY <2>1, <2>2
<1>2. LockInv /\ SavingInv /\ ErasingInv /\ DurableInv
  BY <1>1 DEF SafeInv
<1>3. LockInv' /\ ~SyncInside /\ ~SyncInside'
  <2>1. ~SyncInside
    BY <1>1, <1>2
    DEF LockInv, CciInside, MutualExclusion, CciWork, SaveSet, SaveSetFull,
        SaveSetFails, SaveCount, SaveCommit, CciGive
  <2>2. syncPc' = syncPc /\ (sem' => cciPc' = "idle")
    <3>1. CASE CciTake
      BY <3>1 DEF CciTake, syncVars
    <3>2. CASE CciWork
      BY <3>2, <1>2 DEF CciWork, SaveSet, SaveSetFull, SaveSetFails, SaveCount,
        SaveCommit, CciGive, syncVars, StoreAt, LockInv, CciInside
    <3>. QED BY <3>1, <3>2
  <2>. QED BY <2>1, <2>2 DEF LockInv, SyncInside, CciInside, MutualExclusion
<1>5. ErasingInv'
  BY <1>3 DEF ErasingInv, SyncInside
<1>6. ASSUME NEW k \in Keys, StoreAt(k), UNCHANGED <<flash, acked, next>>,
             UNCHANGED <<archive, server, wiped>>, cciPc = "set"
      PROVE  SavingInv' /\ DurableInv'
  <2>1. SavingInv'
    <3>1. nvs'[k] = next'
      BY <1>6 DEF StoreAt, TypeOK
    <3>. QED BY <3>1 DEF SavingInv
  <2>2. SUFFICES ASSUME SdWorks, NEW r \in acked, Unsent(r)'
                 PROVE  \E j \in Keys : nvs'[j] = r /\ flash'[j] = r
    BY <1>6, <2>1 DEF DurableInv
  <2>3. r \in Records /\ r # None /\ next # None
    BY <1>6 DEF TypeOK, Records, None
  <2>4. nvs[k] # r /\ Unsent(r)
    <3>1. CASE nvs[k] = None
      BY <1>6, <2>2, <2>3, <3>1 DEF StoreAt, Unsent
    <3>2. CASE nvs[k] # None
      <4>1. displacedBy' = [displacedBy EXCEPT ![nvs[k]] = next]
        BY <1>6, <3>2 DEF StoreAt
      <4>2. displacedBy'[r] = None
        BY <2>2 DEF Unsent
      <4>3. nvs[k] # r /\ displacedBy[r] = None
        BY <2>3, <4>1, <4>2 DEF TypeOK
      <4>. QED BY <1>6, <2>2, <4>3 DEF Unsent
    <3>. QED BY <3>1, <3>2
  <2>5. PICK j \in Keys : nvs[j] = r /\ flash[j] = r
    BY <1>2, <2>2, <2>4 DEF DurableInv
  <2>. QED BY <1>6, <2>4, <2>5 DEF StoreAt, TypeOK
<1>7. CASE CciTake
  <2>1. DurableInv'
    BY <1>2, <1>7, DurableKept DEF CciTake, cacheVars
  <2>. QED BY <1>7, <2>1, <1>3, <1>5 DEF SavingInv, CciTake
<1>8. CASE SaveSet
  <2>1. counter \in Keys
    BY DEF TypeOK
  <2>. QED BY <1>3, <1>5, <1>6, <1>8, <2>1 DEF SaveSet
<1>9. CASE SaveSetFull
  <2>1. CASE StoreAt(0)
    <3>1. 0 \in Keys
      BY CounterAssumption DEF Keys
    <3>. QED BY <1>3, <1>5, <1>6, <1>9, <2>1, <3>1 DEF SaveSetFull
  <2>2. CASE cciPc' = "give" /\ UNCHANGED <<nvs, displacedBy>>
    <3>1. DurableInv'
      BY <1>2, <1>9, <2>2, DurableKept DEF SaveSetFull
    <3>. QED BY <1>3, <1>5, <2>2, <3>1 DEF SavingInv
  <2>. QED BY <1>9, <2>1, <2>2 DEF SaveSetFull
<1>10. CASE SaveSetFails \/ SaveCount \/ CciGive
  <2>1. DurableInv'
    BY <1>2, <1>10, DurableKept
    DEF SaveSetFails, SaveCount, CciGive, cacheVars, history
  <2>2. SavingInv'
    BY <1>2, <1>10 DEF SavingInv, SaveSetFails, SaveCount, CciGive
  <2>. QED BY <1>3, <1>5, <2>1, <2>2
<1>11. CASE SaveCommit
  <2>1. SavingInv'
    BY <1>11 DEF SaveCommit, SavingInv
  <2>2. CASE UNCHANGED <<flash, flashCounter, acked>>
    <3>1. DurableInv'
      BY <1>2, <1>11, <2>2, DurableKept DEF SaveCommit
    <3>. QED BY <1>3, <1>5, <2>1, <3>1
  <2>3. CASE Commit /\ acked' = acked \cup {next}
    <3>1. SUFFICES ASSUME SdWorks, NEW r \in acked \cup {next}, Unsent(r)
                   PROVE  \E k \in Keys : nvs[k] = r
      BY <1>3, <1>5, <1>11, <2>1, <2>3
      DEF DurableInv, Unsent, SaveCommit, Commit
    <3>2. \E k \in Keys : nvs[k] = next
      BY <1>2, <1>11 DEF SaveCommit, SavingInv
    <3>. QED BY <1>2, <3>1, <3>2 DEF DurableInv
  <2>. QED BY <1>11, <2>2, <2>3 DEF SaveCommit
<1>. QED BY <1>7, <1>8, <1>9, <1>10, <1>11 DEF CciWork

(* The steps of SyncTask.  Only SyncErase takes a record out of the cache,  *)
(* and it takes the record that ErasingInv says is archived.                *)
LEMMA SyncSafe == TypeOK /\ SafeInv /\ SyncWork => SafeInv'
<1>. SUFFICES ASSUME TypeOK, SafeInv, SyncWork PROVE SafeInv'
  OBVIOUS
<1>1. CASE FirmwareRestart
  BY <1>1, UncommittedSafe DEF FirmwareRestart, UnsavedReset
<1>2. CASE RestartReset
  <2>1. CASE Reboot(nvs, storedCounter)
    BY <2>1, RebootSafe DEF TypeOK
  <2>2. CASE UncommittedReset
    BY <2>2, UncommittedSafe
  <2>. QED BY <1>2, <2>1, <2>2 DEF RestartReset
<1>3. CASE ~FirmwareRestart /\ ~RestartReset
  <2>2. UNCHANGED <<cciPc, next, acked, displacedBy, unlockedEntry, wiped>>
    BY <1>3
    DEF SyncWork, SyncStart, SyncTop, SyncTake, SyncSkip, SyncRead,
        PostAccepted, PostRefused, PostCritical, RepostAnswered, PostRestarts,
        SyncErase, SyncGive, SyncTail, RestartTake, cciVars, history
  <2>. SUFFICES ASSUME ~unlockedEntry
                PROVE  (LockInv /\ SavingInv /\ ErasingInv /\ DurableInv)'
    BY <2>2 DEF SafeInv
  <2>3. LockInv /\ SavingInv /\ ErasingInv /\ DurableInv
    BY DEF SafeInv
  <2>4. LockInv'
    <3>1. \/ SyncGive
          \/ sem /\ ~sem'
          \/ sem' = sem /\ (SyncInside' <=> SyncInside)
      BY <1>3
      DEF SyncInside, SyncWork, SyncStart, SyncTop, SyncTake, SyncSkip,
          SyncRead, PostAccepted, PostRefused, PostCritical, RepostAnswered,
          PostRestarts, AfterFalse, SyncErase, SyncTail, RestartTake
    <3>2. CciInside' <=> CciInside
      BY <2>2 DEF CciInside
    <3>3. SyncGive => SyncInside /\ ~SyncInside'
      BY DEF SyncGive, SyncInside
    <3>4. CASE SyncGive
      BY <2>3, <3>2, <3>3, <3>4 DEF LockInv, MutualExclusion
    <3>5. CASE sem /\ ~sem'
      BY <2>3, <3>2, <3>5 DEF LockInv, MutualExclusion
    <3>6. CASE sem' = sem /\ (SyncInside' <=> SyncInside)
      BY <2>3, <3>2, <3>6 DEF LockInv, MutualExclusion
    <3>. QED BY <3>1, <3>4, <3>5, <3>6
  <2>5. CASE SyncErase
    <3>1. SavingInv' /\ ErasingInv'
      BY <2>2, <2>3, <2>5
      DEF SyncErase, SavingInv, ErasingInv, LockInv, MutualExclusion, SyncInside,
          CciInside
    <3>2. DurableInv'
      <4>1. CASE UNCHANGED nvs
        BY <2>3, <2>5, <4>1, DurableKept DEF SyncErase, history
      <4>2. CASE nvs' = [nvs EXCEPT ![i] = None]
        <5>. SUFFICES ASSUME SdWorks, NEW r \in acked, Unsent(r)
                      PROVE  \E k \in Keys : nvs'[k] = r /\ flash'[k] = r
          BY <2>5 DEF SyncErase, DurableInv, Unsent, history
        <5>1. PICK k \in Keys : nvs[k] = r /\ flash[k] = r
          BY <2>3 DEF DurableInv
        <5>2. nvs[i] # r
          BY <2>3, <2>5 DEF SyncErase, ErasingInv, Unsent
        <5>. QED BY <2>5, <4>2, <5>1, <5>2 DEF SyncErase, TypeOK
      <4>. QED BY <2>5, <4>1, <4>2 DEF SyncErase
    <3>. QED BY <2>4, <3>1, <3>2
  <2>6. CASE ~SyncErase
    <3>1. UNCHANGED nvs
      BY <1>3, <2>6
      DEF SyncWork, SyncStart, SyncTop, SyncTake, SyncSkip, SyncRead,
          PostAccepted, PostRefused, PostCritical, RepostAnswered,
          PostRestarts, SyncGive, SyncTail, RestartTake, cacheVars
    <3>2. SavingInv'
      BY <2>2, <2>3, <3>1 DEF SavingInv
    <3>3. ErasingInv'
      <4>1. CASE SyncRead
        BY <3>1, <4>1 DEF SyncRead, ErasingInv
      <4>2. CASE ~SyncRead
        <5>1. /\ syncPc' \in {"post", "repost", "erase"}
                 => syncPc \in {"post", "repost"} /\ UNCHANGED <<i, data, archive>>
          BY <1>3, <2>6, <4>2
          DEF SyncWork, SyncStart, SyncTop, SyncTake, SyncSkip, PostAccepted,
              PostRefused, PostCritical, RepostAnswered, PostRestarts,
              AfterFalse, SyncGive, SyncTail, RestartTake
        <5>. QED BY <2>3, <3>1, <5>1 DEF ErasingInv
      <4>. QED BY <4>1, <4>2
    <3>4. archive \subseteq archive' /\ server \subseteq server'
      BY <1>3, <2>6
      DEF SyncWork, SyncStart, SyncTop, SyncTake, SyncSkip, SyncRead,
          PostAccepted, PostRefused, PostCritical, RepostAnswered,
          PostRestarts, MayArrive, SyncGive, SyncTail, RestartTake
    <3>6. flash' = flash \/ flash' = nvs
      BY <1>3, <2>6
      DEF SyncWork, SyncStart, SyncTop, SyncTake, SyncSkip, SyncRead,
          PostAccepted, PostRefused, PostCritical, RepostAnswered,
          PostRestarts, SyncGive, SyncTail, RestartTake, Commit, CommitTried,
          cacheVars
    <3>7. DurableInv'
      BY <2>2, <2>3, <3>1, <3>4, <3>6, DurableKept
    <3>. QED BY <2>4, <3>2, <3>3, <3>7
  <2>. QED BY <2>5, <2>6
<1>. QED BY <1>1, <1>2, <1>3

(* SafeInv is inductive.                                                    *)
THEOREM Safe == Spec => [](TypeOK /\ SafeInv)
<1>1. Init => SafeInv
  BY DEF Init, SafeInv, LockInv, SyncInside, CciInside, MutualExclusion,
         SavingInv, ErasingInv, DurableInv
<1>2. TypeOK /\ SafeInv /\ [Next]_vars => SafeInv'
  <2>. SUFFICES ASSUME TypeOK, SafeInv, [Next]_vars PROVE SafeInv'
    OBVIOUS
  <2>1. CASE UNCHANGED vars
    BY <2>1
    DEF SafeInv, LockInv, SyncInside, CciInside, MutualExclusion,
        SavingInv, ErasingInv, DurableInv, Unsent, vars, cacheVars, cciVars,
        syncVars, history
  <2>. QED BY <2>1, UncommittedSafe, CciSafe, SyncSafe DEF Next, PowerLoss, UnsavedReset
<1>. QED BY <1>1, <1>2, TypeCorrect, PTL DEF Spec

(* The two tasks exclude each other unless cci_task has ignored a failed    *)
(* take: whatever restarts, retries and resets happen.                      *)
THEOREM MutexCorrect == Spec => []MutexUnlessIgnored
<1>1. SafeInv => MutexUnlessIgnored
  BY DEF SafeInv, LockInv, MutexUnlessIgnored
<1>. QED BY <1>1, Safe, PTL

(* No committed record worth sending is lost without a trace.               *)
THEOREM NothingLost == Spec => []NoSilentLoss
<1>1. SafeInv => NoSilentLoss
  BY DEF SafeInv, DurableInv, Unsent, NoSilentLoss, Accounted
<1>. QED BY <1>1, Safe, PTL

-----------------------------------------------------------------------------
(* How often the counter has been advanced, modulo the number of keys,      *)
(* since it went past key k to c.                                           *)
Ahead(c, k) == IF c > k THEN c - k - 1 ELSE c - k + NVS_MAX_DATA_COUNTER

(* The last record whose save may have advanced the counter.                *)
Past == IF cciPc \in {"commit", "give"} THEN next ELSE next - 1

(* What has not been produced is nowhere.                                   *)
Fresh ==
  /\ \A k \in Keys : nvs[k] <= next /\ flash[k] <= next
  /\ cciPc \in {"idle", "nosave", "set"} => \A k \in Keys : nvs[k] < next /\ flash[k] < next
  /\ \A r \in acked : r < next \/ (r = next /\ cciPc = "give")
  /\ \A r \in Records : displacedBy[r] # None => r < next

(* The record being saved is under the key the counter points to, or has    *)
(* just gone past.                                                          *)
OwnKey ==
  \A k \in Keys : nvs[k] = next =>
    /\ cciPc = "count" => counter = k
    /\ cciPc = "commit" => Ahead(counter, k) = 0 /\ storedCounter = counter

(* Since a committed record was written the counter, in memory, in NVS or   *)
(* on flash, has been advanced at most once for each record after it.       *)
Around ==
  \A r \in acked \ wiped, k \in Keys : nvs[k] = r \/ flash[k] = r =>
    \A c \in {counter, storedCounter, flashCounter} : Ahead(c, k) <= Past - r

WrapInv == Fresh /\ (~startedOver => OwnKey /\ Around /\ DisplacedOnlyAfterWrap)

LEMMA AheadSteps ==
  ASSUME NEW c \in Keys, NEW k \in Keys
  PROVE  LET d == IF c = NVS_MAX_DATA_COUNTER THEN 0 ELSE c + 1
         IN /\ Ahead(c, k) \in Nat
            /\ Ahead(d, k) <= Ahead(c, k) + 1
            /\ c = k => Ahead(c, k) = NVS_MAX_DATA_COUNTER /\ Ahead(d, k) = 0
  BY CounterAssumption DEF Keys, Ahead

(* A step of SyncTask that is not a reset erases or commits at most.        *)
LEMMA CalmWrap ==
  ASSUME TypeOK, WrapInv,
         UNCHANGED <<counter, storedCounter, next, cciPc, acked, displacedBy,
                     startedOver, wiped>>,
         \A k \in Keys : nvs'[k] \in {nvs[k], None} /\ flash'[k] \in {nvs'[k], flash[k]},
         flashCounter' \in {storedCounter, flashCounter}
  PROVE  WrapInv'
<1> USE DEF None
<1>1. \A k \in Keys : nvs[k] \in Nat /\ flash[k] \in Nat
  BY DEF TypeOK, Records
<1>2. next \in Nat \ {0} /\ \A r \in acked : r \in Nat \ {0}
  BY DEF TypeOK, Records
<1>3. Fresh'
  BY <1>1, <1>2 DEF WrapInv, Fresh
<1>4. ASSUME ~startedOver PROVE OwnKey' /\ Around' /\ DisplacedOnlyAfterWrap'
  <2>1. OwnKey'
    BY <1>2, <1>4 DEF WrapInv, OwnKey, Ahead
  <2>2. DisplacedOnlyAfterWrap'
    BY <1>4 DEF WrapInv, DisplacedOnlyAfterWrap
  <2>3. Past' = Past
    BY DEF Past
  <2>4. ASSUME NEW r \in acked \ wiped, NEW k \in Keys, nvs'[k] = r \/ flash'[k] = r,
               NEW c \in {counter', storedCounter', flashCounter'}
        PROVE  Ahead(c, k) <= Past' - r
    <3>1. nvs[k] = r \/ flash[k] = r
      BY <1>2, <2>4
    <3>2. c \in {counter, storedCounter, flashCounter}
      BY <2>4
    <3>. QED BY <1>4, <2>3, <3>1, <3>2 DEF WrapInv, Around
  <2>5. Around'
    BY <2>4 DEF Around, Ahead
  <2>. QED BY <2>1, <2>2, <2>5
<1>. QED BY <1>3, <1>4 DEF WrapInv

(* A reset may take the counter back, but not past what was committed,      *)
(* unless the counter could not be read; what nvs_first_init erased counts  *)
(* no more.                                                                 *)
LEMMA RebootWrap ==
  ASSUME TypeOK, WrapInv, NEW n \in [Keys -> Records \cup {None}], NEW c0 \in Keys,
         Reboot(n, c0), \A k \in Keys : n[k] \in {nvs[k], flash[k]},
         c0 \in {storedCounter, flashCounter}
  PROVE  WrapInv'
<1> USE DEF None
<1>1. \A k \in Keys : nvs[k] \in Nat /\ flash[k] \in Nat
  BY DEF TypeOK, Records
<1>2. next \in Nat \ {0} /\ (\A r \in acked : r \in Nat \ {0}) /\ \A r \in Records : r \in Nat
  BY DEF TypeOK, Records
<1>3. /\ cciPc' = "idle" /\ UNCHANGED <<acked, displacedBy>>
      /\ next' = IF cciPc \in {"idle", "nosave"} THEN next ELSE next + 1
      /\ wiped \subseteq wiped' /\ (startedOver => startedOver')
  BY RebootLeaves
<1>4. \A k \in Keys : nvs'[k] \in {0, n[k]} /\ flash'[k] \in {0, n[k]}
  BY RebootLeaves DEF Empty
<1>5. \A k \in Keys : n[k] < next'
  BY <1>1, <1>2, <1>3 DEF WrapInv, Fresh
<1>6. Fresh'
  <2>1. \A r \in acked' : r < next'
    BY <1>2, <1>3 DEF WrapInv, Fresh
  <2>2. \A r \in Records : displacedBy'[r] # None => r < next'
    BY <1>2, <1>3 DEF WrapInv, Fresh
  <2>3. \A k \in Keys : nvs'[k] < next' /\ flash'[k] < next'
    BY <1>2, <1>3, <1>4, <1>5
  <2>4. \A k \in Keys : nvs'[k] <= next' /\ flash'[k] <= next'
    BY <1>1, <1>2, <1>3, <1>4, <2>3
  <2>. QED BY <1>3, <2>1, <2>2, <2>3, <2>4 DEF Fresh
<1>7. ASSUME ~startedOver' PROVE OwnKey' /\ Around' /\ DisplacedOnlyAfterWrap'
  <2>1. OwnKey'
    BY <1>1, <1>2, <1>3, <1>4, <1>5 DEF OwnKey
  <2>2. DisplacedOnlyAfterWrap'
    BY <1>3, <1>7 DEF WrapInv, DisplacedOnlyAfterWrap
  <2>3. Past \in Int /\ Past' \in Int /\ Past' >= Past
    BY <1>2, <1>3 DEF Past
  <2>4. ASSUME NEW r \in acked' \ wiped', NEW k \in Keys, nvs'[k] = r \/ flash'[k] = r,
               NEW c \in {counter', storedCounter', flashCounter'}
        PROVE  Ahead(c, k) <= Past' - r
    <3>1. n[k] = r /\ r # None /\ r \in acked \ wiped
      BY <1>2, <1>3, <1>4, <2>4
    <3>2. ~({n[j] : j \in Keys} \ {None} \subseteq wiped')
      BY <2>4, <3>1
    <3>3. c = c0
      BY <1>7, <2>4, <3>2, RebootLeaves
    <3>4. Ahead(c, k) <= Past - r
      BY <1>3, <1>7, <3>1, <3>3 DEF WrapInv, Around
    <3>5. Ahead(c, k) \in Nat
      BY <3>3, AheadSteps
    <3>. QED BY <1>2, <2>3, <3>1, <3>4, <3>5
  <2>5. Around'
    BY <1>3, <2>4 DEF Around, Ahead
  <2>. QED BY <2>1, <2>2, <2>5
<1>. QED BY <1>3, <1>6, <1>7 DEF WrapInv

LEMMA UncommittedWrap == TypeOK /\ WrapInv /\ UncommittedReset => WrapInv'
<1> SUFFICES ASSUME TypeOK, WrapInv, UncommittedReset PROVE WrapInv'
  OBVIOUS
<1>1. PICK written \in SUBSET {k \in Keys : nvs[k] # flash[k]},
           c \in {storedCounter, flashCounter} :
        Reboot([k \in Keys |-> IF k \in written THEN nvs[k] ELSE flash[k]], c)
  BY DEF UncommittedReset
<1> DEFINE n == [k \in Keys |-> IF k \in written THEN nvs[k] ELSE flash[k]]
<1>2. n \in [Keys -> Records \cup {None}] /\ c \in Keys
  BY DEF TypeOK
<1>3. \A k \in Keys : n[k] \in {nvs[k], flash[k]}
  OBVIOUS
<1>4. Reboot(n, c)
  BY <1>1
<1> HIDE DEF n
<1>. QED BY <1>2, <1>3, <1>4, RebootWrap

LEMMA SyncWrap == TypeOK /\ WrapInv /\ SyncWork => WrapInv'
<1> SUFFICES ASSUME TypeOK, WrapInv, SyncWork PROVE WrapInv'
  OBVIOUS
<1> USE DEF cacheVars, cciVars, history
<1>1. CASE RestartReset
  <2>1. CASE Reboot(nvs, storedCounter)
    BY <2>1, RebootWrap DEF TypeOK
  <2>2. CASE UncommittedReset
    BY <2>2, UncommittedWrap
  <2>. QED BY <1>1, <2>1, <2>2 DEF RestartReset
<1>2. CASE FirmwareRestart
  BY <1>2, UncommittedWrap DEF FirmwareRestart, UnsavedReset
<1>3. CASE SyncStart \/ SyncTail
  BY <1>3, CalmWrap DEF SyncStart, SyncTail, Commit, CommitTried
<1>4. CASE SyncErase
  <2>1. \A k \in Keys : nvs'[k] \in {nvs[k], None}
    BY <1>4 DEF SyncErase, TypeOK
  <2>. QED BY <1>4, <2>1, CalmWrap DEF SyncErase
<1>5. CASE SyncTop \/ SyncTake \/ SyncSkip \/ SyncRead \/ SyncGive \/ RestartTake
  BY <1>5, CalmWrap DEF SyncTop, SyncTake, SyncSkip, SyncRead, SyncGive, RestartTake
<1>6. CASE PostAccepted \/ PostRefused \/ PostCritical \/ RepostAnswered \/ PostRestarts
  BY <1>6, CalmWrap DEF PostAccepted, PostRefused, PostCritical, RepostAnswered, PostRestarts
<1>. QED BY <1>1, <1>2, <1>3, <1>4, <1>5, <1>6 DEF SyncWork

(* The record is written where the counter points: what it displaces is as  *)
(* old as the counter has gone round.                                       *)
LEMMA SaveSetWrap ==
  ASSUME TypeOK, WrapInv, SaveSet
  PROVE  WrapInv'
<1> USE DEF None
<1>1. /\ next \in Records /\ next \in Nat /\ counter \in Keys
      /\ (\A r \in acked : r \in Records /\ r \in Nat) /\ \A r \in Records : r \in Nat \ {0}
      /\ \A k \in Keys : nvs[k] \in Nat /\ flash[k] \in Nat
  BY DEF TypeOK, SaveSet, Records
<1>2. /\ cciPc = "set" /\ cciPc' = "count" /\ nvs' = [nvs EXCEPT ![counter] = next]
      /\ UNCHANGED <<flash, counter, storedCounter, flashCounter, next, acked, startedOver, wiped>>
  BY DEF SaveSet, StoreAt
<1>3. \A k \in Keys : nvs'[k] = IF k = counter THEN next ELSE nvs[k]
  BY <1>2 DEF TypeOK
<1>4. \A r \in Records : displacedBy'[r] = IF nvs[counter] = r THEN next ELSE displacedBy[r]
  <2>1. CASE nvs[counter] = None
    BY <1>1, <2>1 DEF SaveSet, StoreAt
  <2>2. CASE nvs[counter] # None
    <3>1. displacedBy \in [Records -> Records \union {None}] /\ nvs[counter] \in Records
      BY <1>1, <2>2 DEF TypeOK
    <3>2. displacedBy' = [displacedBy EXCEPT ![nvs[counter]] = next]
      BY <2>2 DEF SaveSet, StoreAt
    <3>. QED BY <3>1, <3>2
  <2>. QED BY <2>1, <2>2
<1>5. /\ \A k \in Keys : nvs[k] < next /\ flash[k] < next
      /\ \A r \in acked : r < next
  BY <1>2 DEF WrapInv, Fresh
<1>6. Fresh'
  <2>1. \A r \in Records : displacedBy'[r] # None => r < next
    BY <1>1, <1>4, <1>5 DEF WrapInv, Fresh
  <2>. QED BY <1>1, <1>2, <1>3, <1>5, <2>1 DEF Fresh
<1>7. ASSUME ~startedOver PROVE OwnKey' /\ Around' /\ DisplacedOnlyAfterWrap'
  <2>1. OwnKey'
    BY <1>1, <1>2, <1>3, <1>5 DEF OwnKey
  <2>2. Past' = Past /\ Past = next - 1
    BY <1>2 DEF Past
  <2>3. ASSUME NEW r \in acked \ wiped, NEW k \in Keys, nvs'[k] = r \/ flash'[k] = r,
               NEW c \in {counter', storedCounter', flashCounter'}
        PROVE  Ahead(c, k) <= Past' - r
    <3>1. nvs[k] = r \/ flash[k] = r
      BY <1>1, <1>2, <1>3, <1>5, <2>3
    <3>. QED BY <1>2, <1>7, <2>2, <3>1 DEF WrapInv, Around
  <2>4. Around'
    BY <1>2, <2>3 DEF Around, Ahead
  <2>5. ASSUME NEW r \in acked \ wiped, nvs[counter] = r PROVE next - r > NVS_MAX_DATA_COUNTER
    <3>1. Ahead(counter, counter) <= Past - r
      BY <1>1, <1>7, <2>5 DEF WrapInv, Around
    <3>. QED BY <1>1, <2>2, <3>1, AheadSteps, CounterAssumption
  <2>6. DisplacedOnlyAfterWrap'
    BY <1>1, <1>2, <1>4, <1>7, <2>5 DEF WrapInv, DisplacedOnlyAfterWrap
  <2>. QED BY <2>1, <2>4, <2>6
<1>. QED BY <1>2, <1>6, <1>7 DEF WrapInv

LEMMA SaveCountWrap ==
  ASSUME TypeOK, WrapInv, SaveCount
  PROVE  WrapInv'
<1> USE DEF None
<1>1. /\ next \in Nat /\ counter \in Keys /\ storedCounter \in Keys /\ flashCounter \in Keys
      /\ \A r \in acked : r \in Nat
  BY DEF TypeOK, Records
<1> DEFINE d == IF counter = NVS_MAX_DATA_COUNTER THEN 0 ELSE counter + 1
<1>2. /\ cciPc = "count" /\ counter' = d /\ storedCounter' \in {d, storedCounter}
      /\ (cciPc' = "commit" /\ storedCounter' = counter') \/ cciPc' = "give"
      /\ UNCHANGED <<nvs, flash, flashCounter, next, acked, displacedBy, startedOver, wiped>>
  BY DEF SaveCount, history
<1> HIDE DEF d
<1>3. Fresh'
  BY <1>2 DEF WrapInv, Fresh
<1>4. ASSUME ~startedOver PROVE OwnKey' /\ Around' /\ DisplacedOnlyAfterWrap'
  <2>1. OwnKey'
    <3>1. ASSUME NEW k \in Keys, nvs[k] = next PROVE Ahead(d, k) = 0
      BY <1>1, <1>2, <1>4, <3>1, AheadSteps DEF WrapInv, OwnKey, d
    <3>2. \A k \in Keys : Ahead(d, k)' = Ahead(d', k)
      BY DEF Ahead
    <3>. QED BY <1>2, <3>1 DEF OwnKey, Ahead
  <2>2. DisplacedOnlyAfterWrap'
    BY <1>2, <1>4 DEF WrapInv, DisplacedOnlyAfterWrap
  <2>3. Past' = Past + 1 /\ Past = next - 1
    BY <1>1, <1>2 DEF Past
  <2>4. ASSUME NEW r \in acked \ wiped, NEW k \in Keys, nvs[k] = r \/ flash[k] = r,
               NEW c \in {counter', storedCounter', flashCounter'}
        PROVE  Ahead(c, k) <= Past' - r
    <3>1. \A e \in {counter, storedCounter, flashCounter} : Ahead(e, k) <= Past - r
      BY <1>4, <2>4 DEF WrapInv, Around
    <3>2. Ahead(d, k) <= Ahead(counter, k) + 1 /\ Ahead(counter, k) \in Nat
      BY <1>1, AheadSteps DEF d
    <3>3. Ahead(storedCounter, k) \in Nat /\ Ahead(flashCounter, k) \in Nat
      BY <1>1, AheadSteps
    <3>4. Ahead(d, k) \in Int
      BY <1>1, CounterAssumption DEF d, Ahead, Keys
    <3>. QED BY <1>1, <1>2, <2>3, <2>4, <3>1, <3>2, <3>3, <3>4
  <2>5. Around'
    BY <1>2, <2>4 DEF Around, Ahead
  <2>. QED BY <2>1, <2>2, <2>5
<1>. QED BY <1>2, <1>3, <1>4 DEF WrapInv

LEMMA SaveCommitWrap ==
  ASSUME TypeOK, WrapInv, SaveCommit
  PROVE  WrapInv'
<1> USE DEF None
<1>1. /\ next \in Nat /\ \A r \in acked : r \in Nat
      /\ \A k \in Keys : nvs[k] \in Nat /\ flash[k] \in Nat
  BY DEF TypeOK, Records
<1>2. /\ cciPc = "commit" /\ cciPc' = "give"
      /\ UNCHANGED <<nvs, counter, storedCounter, next, displacedBy, startedOver,
                     wiped>>
      /\ \/ flash' = nvs /\ flashCounter' = storedCounter /\ acked' = acked \union {next}
         \/ UNCHANGED <<flash, flashCounter, acked>>
  BY DEF SaveCommit, Commit
<1>3. Fresh'
  BY <1>1, <1>2 DEF WrapInv, Fresh
<1>4. ASSUME ~startedOver PROVE OwnKey' /\ Around' /\ DisplacedOnlyAfterWrap'
  <2>1. OwnKey'
    BY <1>2 DEF OwnKey
  <2>2. DisplacedOnlyAfterWrap'
    BY <1>1, <1>2, <1>4 DEF WrapInv, DisplacedOnlyAfterWrap, Fresh, TypeOK
  <2>3. Past' = Past /\ Past = next
    BY <1>2 DEF Past
  <2>4. ASSUME NEW r \in acked' \ wiped', NEW k \in Keys, nvs'[k] = r \/ flash'[k] = r,
               NEW c \in {counter', storedCounter', flashCounter'}
        PROVE  Ahead(c, k) <= Past' - r
    <3>1. CASE r \in acked
      BY <1>2, <1>4, <2>3, <2>4, <3>1 DEF WrapInv, Around
    <3>2. CASE r \notin acked
      <4>1. r = next /\ nvs[k] = next /\ flashCounter' = storedCounter
        BY <1>2, <2>4, <3>2
      <4>2. Ahead(c, k) = 0
        BY <1>2, <1>4, <2>4, <4>1 DEF WrapInv, OwnKey
      <4>. QED BY <1>1, <2>3, <4>1, <4>2
    <3>. QED BY <3>1, <3>2
  <2>5. Around'
    BY <2>4 DEF Around, Ahead
  <2>. QED BY <2>1, <2>2, <2>5
<1>. QED BY <1>2, <1>3, <1>4 DEF WrapInv

LEMMA CciWrap == TypeOK /\ WrapInv /\ (CciTake \/ CciWork) => WrapInv'
<1> SUFFICES ASSUME TypeOK, WrapInv, CciTake \/ CciWork PROVE WrapInv'
  OBVIOUS
<1> USE DEF None
<1>0. /\ next \in Nat /\ (\A r \in acked : r \in Nat) /\ \A r \in Records : r \in Nat
      /\ \A k \in Keys : nvs[k] \in Nat /\ flash[k] \in Nat
  BY DEF TypeOK, Records
<1>1. CASE SaveSetFull
  <2>1. /\ cciPc = "set" /\ cciPc' \in {"count", "give"} /\ startedOver'
        /\ UNCHANGED <<flash, next, acked, wiped>>
    BY <1>1 DEF SaveSetFull, StoreAt
  <2>2. \A k \in Keys : nvs'[k] \in {nvs[k], next}
    BY <1>1 DEF SaveSetFull, StoreAt, TypeOK
  <2>3. \A r \in Records : displacedBy'[r] = displacedBy[r] \/ r = nvs[0]
    BY <1>1 DEF SaveSetFull, StoreAt, TypeOK
  <2>4. 0 \in Keys
    BY CounterAssumption DEF Keys
  <2>5. Fresh'
    BY <1>0, <2>1, <2>2, <2>3, <2>4 DEF WrapInv, Fresh
  <2>. QED BY <2>1, <2>5 DEF WrapInv
<1>2. CASE CciTake \/ SaveSetFails \/ CciGive
  <2>1. /\ UNCHANGED <<nvs, flash, counter, storedCounter, flashCounter, acked,
                       displacedBy, startedOver, wiped>>
        /\ \/ cciPc = "idle" /\ cciPc' = "set" /\ next' = next
           \/ cciPc = "set" /\ cciPc' = "give" /\ next' = next
           \/ cciPc = "idle" /\ cciPc' = "nosave" /\ next' = next
           \/ cciPc = "nosave" /\ cciPc' = "idle" /\ next' = next
           \/ cciPc = "give" /\ cciPc' = "idle" /\ next' = next + 1
    BY <1>2 DEF CciTake, SaveSetFails, CciGive, cacheVars, history
  <2>2. Fresh'
    BY <1>0, <2>1 DEF WrapInv, Fresh
  <2>3. ASSUME ~startedOver PROVE OwnKey' /\ Around' /\ DisplacedOnlyAfterWrap'
    <3>1. OwnKey' /\ DisplacedOnlyAfterWrap'
      BY <2>1, <2>3 DEF WrapInv, OwnKey, DisplacedOnlyAfterWrap
    <3>2. Past \in Int /\ Past' \in Int /\ Past <= Past'
      BY <1>0, <2>1 DEF Past
    <3>3. ASSUME NEW r \in acked \ wiped, NEW k \in Keys, nvs[k] = r \/ flash[k] = r,
                 NEW c \in {counter, storedCounter, flashCounter}
          PROVE  Ahead(c, k) <= Past' - r
      <4>1. c \in Keys
        BY DEF TypeOK
      <4>2. Ahead(c, k) <= Past - r
        BY <2>3, <3>3 DEF WrapInv, Around
      <4>. QED BY <1>0, <3>2, <4>1, <4>2, AheadSteps
    <3>4. Around'
      BY <2>1, <3>3 DEF Around, Ahead
    <3>. QED BY <3>1, <3>4
  <2>. QED BY <2>1, <2>2, <2>3 DEF WrapInv
<1>. QED BY <1>1, <1>2, SaveSetWrap, SaveCountWrap, SaveCommitWrap DEF CciWork

(* A committed record is written over only when the counter has gone round, *)
(* unless a full partition made it start over: for every number of keys.    *)
THEOREM GoneRound == Spec => []DisplacedOnlyAfterWrap
<1>1. Init => WrapInv
  BY DEF Init, WrapInv, Fresh, OwnKey, Around, DisplacedOnlyAfterWrap, Empty, None
<1>2. TypeOK /\ WrapInv /\ [Next]_vars => WrapInv'
  <2> SUFFICES ASSUME TypeOK, WrapInv, [Next]_vars PROVE WrapInv'
    OBVIOUS
  <2>1. CASE UNCHANGED vars
    BY <2>1, CalmWrap DEF vars, cacheVars, cciVars, history
  <2>. QED BY <2>1, UncommittedWrap, CciWrap, SyncWrap DEF Next, PowerLoss, UnsavedReset
<1>3. TypeOK /\ WrapInv => DisplacedOnlyAfterWrap
  BY DEF WrapInv, DisplacedOnlyAfterWrap
<1>. QED BY <1>1, <1>2, <1>3, TypeCorrect, PTL DEF Spec
=============================================================================
