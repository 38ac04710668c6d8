----------------------- MODULE FirmwareUpdate_proofs -----------------------
(***************************************************************************)
(* For every wait, every number of file handles and every length of the     *)
(* download: the chip always has a whole image to boot, the running image   *)
(* is never written to, and the modem is never used by both tasks.          *)
(***************************************************************************)
EXTENDS FirmwareUpdate, TLAPS

(* The flag is up only while SyncTask waits; an open file has its handle.   *)
FlagInv     == /\ download_firmware => syncPc = "wait"
               /\ phase # "tasks" => syncPc = "off"
DownloadInv == ModemHandedOver /\ FlagInv /\ (opened => handles > 0)

Inv == TypeOK /\ SlotInv /\ DownloadInv

LEMMA TargetFree == TypeOK => Target \in Partitions /\ Target # running
  BY DEF TypeOK, Target, Partitions

LEMMA InitInv == Init => Inv
  <1> SUFFICES ASSUME Init PROVE Inv
    OBVIOUS
  <1> USE WaitAssumption, BoundAssumption DEF Init
  <1>1. TypeOK
    <2>1. slots \in [Partitions -> Images \cup {"junk"}]
      BY DEF Images
    <2>2. minutes \in 0 .. WAIT_MINUTES /\ handles \in Nat
      OBVIOUS
    <2>3. /\ contentLength \in 0 .. MaxContent
          /\ iterations \in 0 .. MaxContent + 1 /\ faults \in 0 .. MaxFaults
      OBVIOUS
    <2>4. phase \in Phases /\ cciPc \in CciPcs
      BY DEF Phases, CciPcs
    <2> QED
      BY <2>1, <2>2, <2>3, <2>4 DEF TypeOK, Partitions
  <1>2. SlotInv /\ DownloadInv
    BY DEF SlotInv, DownloadInv, ModemHandedOver, FlagInv, Partitions, Images
  <1> QED
    BY <1>1, <1>2 DEF Inv

(* A reset that leaves the flash as it is keeps the invariant.              *)
LEMMA ResetInv ==
  ASSUME Inv, Reset, UNCHANGED <<slots, boot>>,
         update_bin' \in {"absent", "partial", "image", "alien"},
         faults' \in 0 .. MaxFaults
  PROVE  Inv'
  <1> USE WaitAssumption, BoundAssumption DEF Inv, Reset
  <1>1. TypeOK'
    <2>1. (minutes \in 0 .. WAIT_MINUTES /\ handles \in Nat)'
      OBVIOUS
    <2>2. (contentLength \in 0 .. MaxContent /\ iterations \in 0 .. MaxContent + 1)'
      OBVIOUS
    <2>3. (phase \in Phases /\ cciPc \in CciPcs)'
      BY DEF Phases, CciPcs
    <2> QED
      BY <2>1, <2>2, <2>3 DEF TypeOK
  <1>2. SlotInv' /\ DownloadInv'
    BY DEF TypeOK, SlotInv, DownloadInv, ModemHandedOver, FlagInv
  <1> QED
    BY <1>1, <1>2

LEMMA FaultBound == TypeOK /\ Fault => faults' \in 0 .. MaxFaults
  BY BoundAssumption DEF TypeOK, Fault

(* A boot step that ends in the tasks keeps the invariant.                  *)
LEMMA StartInv ==
  ASSUME Inv, StartTasks, phase \notin {"remove", "tasks"},
         UNCHANGED update_bin, has_sd_card' \in BOOLEAN,
         handles' \in Nat, handles' >= handles, faults' \in 0 .. MaxFaults
  PROVE  Inv'
  <1> USE DEF Inv, StartTasks, flashVars
  <1>1. TypeOK'
    BY DEF TypeOK, Phases, CciPcs
  <1>2. SlotInv' /\ DownloadInv'
    BY DEF TypeOK, SlotInv, DownloadInv, ModemHandedOver, FlagInv, Target
  <1> QED
    BY <1>1, <1>2

LEMMA BootInv == Inv /\ BootStep => Inv'
  <1> SUFFICES ASSUME Inv, BootStep PROVE Inv'
    OBVIOUS
  <1> USE WaitAssumption, BoundAssumption
      DEF Inv, flashVars, taskVars, loadVars
  <1>1. CASE NoCard
    BY <1>1, StartInv, FaultBound DEF NoCard, TypeOK
  <1>2. CASE CardMounted
    <2>1. faults' \in 0 .. MaxFaults
      BY <1>2, FaultBound DEF CardMounted, TypeOK
    <2>2. TypeOK'
      BY <1>2, <2>1 DEF CardMounted, TypeOK, Phases
    <2>3. SlotInv' /\ DownloadInv'
      BY <1>2 DEF CardMounted, SlotInv, DownloadInv, ModemHandedOver, FlagInv
    <2> QED
      BY <2>2, <2>3
  <1>3. CASE OtaNoFile
    BY <1>3, StartInv DEF OtaNoFile, TypeOK
  <1>4. CASE OtaCannotStart
    <2>1. handles' \in Nat /\ handles' >= handles
      BY <1>4 DEF OtaCannotStart, TypeOK
    <2> QED
      BY <1>4, <2>1, StartInv, FaultBound DEF OtaCannotStart, TypeOK
  <1>5. CASE OtaBegin \/ OtaWrite
    <2>1. TypeOK'
      BY <1>5, TargetFree DEF OtaBegin, OtaWrite, TypeOK, Phases, Images
    <2>2. slots'[boot] = slots[boot] /\ boot' = boot
      BY <1>5, TargetFree DEF OtaBegin, OtaWrite, TypeOK, SlotInv
    <2>3. SlotInv' /\ DownloadInv'
      BY <1>5, <2>2 DEF OtaBegin, OtaWrite, SlotInv, DownloadInv,
                        ModemHandedOver, FlagInv
    <2> QED
      BY <2>1, <2>3
  <1>6. CASE OtaWriteAborts
    BY <1>6, ResetInv, FaultBound DEF OtaWriteAborts, TypeOK
  <1>7. CASE OtaEnd
    BY <1>7 DEF OtaEnd, TypeOK, Phases, SlotInv, Target, DownloadInv,
                ModemHandedOver, FlagInv
  <1>8. CASE OtaEndFails
    BY <1>8, StartInv, FaultBound DEF OtaEndFails, TypeOK
  <1>9. CASE OtaSetBoot
    <2>1. TypeOK'
      BY <1>9, TargetFree DEF OtaSetBoot, TypeOK, Phases
    <2>2. SlotInv' /\ DownloadInv'
      BY <1>9 DEF OtaSetBoot, SlotInv, DownloadInv, ModemHandedOver, FlagInv
    <2> QED
      BY <2>1, <2>2
  <1>10. CASE OtaSetBootFails
    BY <1>10, StartInv, FaultBound DEF OtaSetBootFails, TypeOK
  <1>11. CASE OtaRemove
    BY <1>11, ResetInv, FaultBound DEF OtaRemove, TypeOK
  <1> QED
    BY <1>1, <1>2, <1>3, <1>4, <1>5, <1>6, <1>7, <1>8, <1>9, <1>10, <1>11
    DEF BootStep

LEMMA SyncInv == Inv /\ SyncStep => Inv'
  <1> SUFFICES ASSUME Inv, SyncStep PROVE Inv'
    OBVIOUS
  <1> USE WaitAssumption, BoundAssumption DEF Inv, flashVars, loadVars
  <1>1. CASE SyncModem
    BY <1>1 DEF SyncModem, TypeOK, SlotInv, Target, DownloadInv,
                ModemHandedOver, FlagInv
  <1>2. CASE SyncPoll
    BY <1>2 DEF SyncPoll, TypeOK, CciPcs, SlotInv, Target, DownloadInv,
                ModemHandedOver, FlagInv
  <1>3. CASE SyncWait
    BY <1>3 DEF SyncWait, TypeOK, SlotInv, Target, DownloadInv,
                ModemHandedOver, FlagInv
  <1>4. CASE SyncGoesOn
    BY <1>4 DEF SyncGoesOn, TypeOK, SlotInv, Target, DownloadInv,
                ModemHandedOver, FlagInv
  <1>5. CASE SyncRestart
    BY <1>5, ResetInv DEF SyncRestart, TypeOK
  <1> QED
    BY <1>1, <1>2, <1>3, <1>4, <1>5 DEF SyncStep

LEMMA CciInv == Inv /\ CciStep => Inv'
  <1> SUFFICES ASSUME Inv, CciStep PROVE Inv'
    OBVIOUS
  <1> USE WaitAssumption, BoundAssumption DEF Inv, flashVars, taskVars
  <1>1. CASE CciStart
    <2>1. cciPc' \in CciPcs
      BY <1>1 DEF CciStart, CciPcs
    <2>2. TypeOK'
      BY <1>1, <2>1 DEF CciStart, TypeOK
    <2>3. syncPc = "wait"
      BY <1>1 DEF CciStart, DownloadInv, FlagInv
    <2>4. SlotInv' /\ DownloadInv'
      BY <1>1, <2>3 DEF CciStart, SlotInv, Target, DownloadInv, FlagInv,
                        ModemHandedOver
    <2> QED
      BY <2>2, <2>4
  <1>2. CASE ConnectFails
    BY <1>2 DEF ConnectFails, TypeOK, CciPcs, SlotInv, Target, DownloadInv,
                ModemHandedOver, FlagInv
  <1>3. CASE Connects
    BY <1>3 DEF Connects, TypeOK, CciPcs, SlotInv, Target, DownloadInv,
                ModemHandedOver, FlagInv
  <1>4. CASE RequestFails
    BY <1>4 DEF RequestFails, TypeOK, CciPcs, SlotInv, Target, DownloadInv,
                ModemHandedOver, FlagInv
  <1>5. CASE ReadHeader \/ MoreToRead \/ BurstEnds
    BY <1>5 DEF ReadHeader, MoreToRead, BurstEnds, TypeOK, CciPcs, SlotInv,
                Target, DownloadInv, ModemHandedOver, FlagInv
  <1>6. CASE ReadBlock
    <2>1. body' \in {"empty", "good", "spoilt", "alien"}
      BY <1>6 DEF ReadBlock, TypeOK
    <2>2. TypeOK'
      BY <1>6, <2>1 DEF ReadBlock, TypeOK
    <2>3. SlotInv' /\ DownloadInv'
      BY <1>6 DEF ReadBlock, SlotInv, Target, DownloadInv, ModemHandedOver, FlagInv
    <2> QED
      BY <2>2, <2>3
  <1>7. Stored \in {"absent", "partial", "image", "alien"}
    BY DEF Stored, TypeOK
  <1>8. CASE DownloadDone
    BY <1>7, <1>8, ResetInv DEF DownloadDone, TypeOK
  <1>9. CASE DownloadEnds
    <2>1. handles' \in Nat
      BY <1>9 DEF DownloadEnds, TypeOK, DownloadInv
    <2>2. TypeOK'
      BY <1>7, <1>9, <2>1 DEF DownloadEnds, TypeOK, CciPcs
    <2>3. SlotInv' /\ DownloadInv'
      BY <1>9 DEF DownloadEnds, SlotInv, Target, DownloadInv, ModemHandedOver, FlagInv
    <2> QED
      BY <2>2, <2>3
  <1>10. CASE NullFilePanics
    BY <1>10, ResetInv DEF NullFilePanics, TypeOK
  <1> QED
    BY <1>1, <1>2, <1>3, <1>4, <1>5, <1>6, <1>8, <1>9, <1>10 DEF CciStep

(* The strengthening holds in every reachable state.                        *)
THEOREM Updated == Spec => []Inv
  <1>1. Inv /\ PowerLoss => Inv'
    BY ResetInv, FaultBound DEF PowerLoss, Inv, TypeOK
  <1>2. Inv /\ UNCHANGED vars => Inv'
    BY DEF Inv, vars, flashVars, taskVars, loadVars, TypeOK, SlotInv, Target,
           DownloadInv, ModemHandedOver, FlagInv
  <1>3. Inv /\ [Next]_vars => Inv'
    BY <1>1, <1>2, BootInv, SyncInv, CciInv DEF Next
  <1> QED
    BY InitInv, <1>3, PTL DEF Spec

(* Every variable has its type.                                             *)
THEOREM TypeCorrect == Spec => []TypeOK
  BY Updated, PTL DEF Inv

(* Whatever update.bin holds and wherever power fails, there is a whole     *)
(* image to boot.                                                           *)
THEOREM AlwaysBootable == Spec => []BootSlotValid
  <1>1. Inv => BootSlotValid
    BY DEF Inv, SlotInv, BootSlotValid
  <1> QED
    BY Updated, <1>1, PTL

(* The download and SyncTask never use the modem at the same time.          *)
THEOREM ModemExclusive == Spec => []ModemHandedOver
  <1>1. Inv => ModemHandedOver
    BY DEF Inv, DownloadInv
  <1> QED
    BY Updated, <1>1, PTL

(* No step writes to the partition the chip runs from.                      *)
THEOREM RunningSafe == Spec => RunningUntouched
  <1>1. Inv /\ [Next]_vars => [slots'[running] = slots[running]]_vars
    <2> SUFFICES ASSUME Inv, Next PROVE slots'[running] = slots[running]
      OBVIOUS
    <2> USE TargetFree DEF Inv, flashVars
    <2>1. CASE PowerLoss
      BY <2>1 DEF PowerLoss
    <2>2. CASE BootStep
      <3>1. CASE OtaBegin \/ OtaWrite
        BY <3>1 DEF OtaBegin, OtaWrite, TypeOK
      <3>2. CASE ~(OtaBegin \/ OtaWrite)
        BY <2>2, <3>2 DEF BootStep, NoCard, CardMounted, OtaNoFile,
           OtaCannotStart, StartTasks, OtaWriteAborts, OtaEnd, OtaEndFails,
           OtaSetBoot, OtaSetBootFails, OtaRemove
      <3> QED
        BY <3>1, <3>2
    <2>3. CASE SyncStep
      BY <2>3 DEF SyncStep, SyncModem, SyncPoll, SyncWait, SyncGoesOn,
                  SyncRestart
    <2>4. CASE CciStep
      BY <2>4 DEF CciStep, CciStart, ConnectFails, Connects, RequestFails,
                  ReadHeader, MoreToRead, ReadBlock, BurstEnds, DownloadDone,
                  DownloadEnds, NullFilePanics
    <2> QED
      BY <2>1, <2>2, <2>3, <2>4 DEF Next
  <1> QED
    BY Updated, <1>1, PTL DEF Spec, RunningUntouched
=============================================================================
