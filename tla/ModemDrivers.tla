---------------------------- MODULE ModemDrivers ----------------------------
(***************************************************************************)
(* What drives the one modem: SyncTask's sim800, bringing it up (BringUp)   *)
(* and in its requests (HttpSession), and cci_task's TinyGSM client         *)
(* (GsmSocket).  Between two restarts of the chip a driver has the modem to *)
(* itself and finds the line empty, which is what ModemHandedOver of        *)
(* FirmwareUpdate is about.                                                 *)
(***************************************************************************)
EXTENDS GsmSocket, HttpSession, BringUp

VARIABLE user   (* what has the modem                                       *)

driversVars == <<vars, httpVars, bringUpVars, user>>

DriversInit ==
  /\ Init /\ HttpInit /\ BringUpInit
  /\ user \in {"gsm_init", "SyncTask", "cci_task"}
  /\ user # "SyncTask" => service = "off"
  /\ user # "gsm_init" => supply /\ chip = "ready" /\ good = Conditions

InGsmInit(A) == user = "gsm_init" /\ A /\ UNCHANGED <<vars, httpVars, user>>
InSyncTask(A) == user = "SyncTask" /\ A /\ UNCHANGED <<vars, bringUpVars, user>>
InCciTask(A) == user = "cci_task" /\ A /\ UNCHANGED <<httpVars, bringUpVars, user>>

DriversNext == InGsmInit(BringUpNext) \/ InSyncTask(HttpNext) \/ InCciTask(Next)

(* Both tasks run and the modem goes on executing commands; it comes on     *)
(* when it is switched on again and again; of available() two seconds       *)
(* without data come again and again.  Nothing need arrive from the server, *)
(* and the modem may forget every notice.                                   *)
DriversSpec ==
  /\ DriversInit /\ [][DriversNext]_driversVars
  /\ WF_driversVars(InGsmInit(Bring)) /\ SF_driversVars(InGsmInit(ComesOnAtKey))
  /\ WF_driversVars(InSyncTask(Drive)) /\ WF_driversVars(InSyncTask(Serve))
  /\ WF_driversVars(InCciTask(Task)) /\ WF_driversVars(InCciTask(Modem))
  /\ SF_driversVars(InCciTask(AvailablePolls))

DriversTypeOK == TypeOK /\ HttpTypeOK /\ BringUpTypeOK
=============================================================================
