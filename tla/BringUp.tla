------------------------------ MODULE BringUp -------------------------------
(***************************************************************************)
(* Bringing the modem up: gsm_init of sim800.cpp with wakeup, reset,        *)
(* check_sim_card, get_signal, registerNetwork and shutdown, as SyncTask    *)
(* calls it, and gsm_reboot of main.cpp.                                    *)
(*                                                                         *)
(* The modem is off, mute (SIM800_PS is HIGH and nothing is answered) or    *)
(* ready.  Of the key only the pin's direction is kept: a pulse on a pin    *)
(* that is no output has no effect.  A ready modem too may leave a command  *)
(* unanswered (it is late, or unsolicited lines stand in front of it).      *)
(***************************************************************************)
EXTENDS Naturals

CONSTANTS
  RegisterTries,  (* turns of registerNetwork's loop: 29                   *)
  PowerTries,     (* turns of wakeup's loop on SIM800_PS: 11               *)
  MaxMissed,      (* bound: commands a ready modem does not answer         *)
  MaxSilences     (* bound: times the modem falls silent of itself         *)

ASSUME TriesAssumption ==
  /\ RegisterTries \in Nat \ {0} /\ PowerTries \in Nat \ {0}
  /\ MaxMissed \in Nat /\ MaxSilences \in Nat

VARIABLES
  at,         (* where gsm_init is                                         *)
  back,       (* the caller of wakeup: "gsm_init" or "register"            *)
  tries,      (* turns of the loop it is in                                *)
  begun,      (* serial_worked                                             *)
  keyOut,     (* SIM800_KEY is an output                                   *)
  supply,     (* SIM800_POWER is LOW: the modem has power                  *)
  online,     (* gsm_no_problem                                            *)
  chip,       (* the modem: "off", "mute" or "ready"                       *)
  good,       (* what there is of a SIM card, a signal and a network       *)
  unanswered, (* history: commands a ready modem did not answer            *)
  silences,   (* history: times the modem fell silent                      *)
  unheard     (* history: one of them while only card and signal are asked *)

pins == <<begun, keyOut, supply>>
faults == <<unanswered, silences, unheard>>
bringUpVars == <<at, back, tries, pins, online, chip, good, faults>>

Conditions == {"card", "signal", "network"}

BringUpInit ==
  /\ at = "idle" /\ back = "gsm_init" /\ tries = 0
  /\ begun = FALSE /\ keyOut = FALSE /\ supply \in BOOLEAN /\ online = FALSE
  /\ chip \in {"off", "mute", "ready"} /\ (chip # "off" => supply)
  /\ good \in SUBSET Conditions
  /\ unanswered = 0 /\ silences = 0 /\ unheard = FALSE

-----------------------------------------------------------------------------
(* What becomes of a command whose answer depends on c.                     *)
Answering(c) == chip = "ready" /\ c
Yes(c) == Answering(c) /\ UNCHANGED faults
No(c) ==
  /\ IF Answering(c) THEN unanswered < MaxMissed /\ unanswered' = unanswered + 1
                     ELSE UNCHANGED unanswered
  /\ UNCHANGED <<silences, unheard>>

Goes(p) == at' = p /\ tries' = 0

(* begin() makes the key an output, the first time only.                    *)
GsmInit ==
  /\ at = "idle" /\ ~online
  /\ Goes("at") /\ back' = "gsm_init"
  /\ begun' = TRUE /\ keyOut' = (keyOut \/ ~begun)
  /\ UNCHANGED <<supply, online, chip, good, faults>>

(* gsm_reboot: disconnect() and shutdown(true), which leaves the modem      *)
(* without power, and gsm_init().                                           *)
GsmReboot ==
  /\ at = "idle" /\ begun
  /\ supply' = FALSE /\ chip' = "off" /\ online' = FALSE
  /\ Goes("at") /\ back' = "gsm_init"
  /\ UNCHANGED <<begun, keyOut, good, faults>>

(* wakeup has returned: registerNetwork comes next whatever it says, or     *)
(* gsm_init calls it again if it says false.                                *)
Woken(ok) ==
  Goes(CASE back = "register" -> "register" [] ok -> "configure" [] OTHER -> "at")

FirstAT ==
  /\ at = "at"
  /\ \/ Yes(TRUE) /\ Woken(TRUE)
     \/ No(TRUE) /\ Goes("atAgain")
  /\ UNCHANGED <<back, pins, online, chip, good>>

(* No answer: the modem is switched on if it is off, and off if it is on.   *)
SecondAT ==
  /\ at = "atAgain"
  /\ \/ Yes(TRUE) /\ Goes("reset") /\ UNCHANGED supply
     \/ No(TRUE) /\ chip = "off" /\ Goes("power") /\ supply' = TRUE
     \/ No(TRUE) /\ chip # "off" /\ Goes("pulse") /\ UNCHANGED supply
  /\ UNCHANGED <<back, begun, keyOut, online, chip, good>>

(* The procedure ends with the key pulled up and no output any more.        *)
PowerOn ==
  /\ at = "power"
  /\ IF chip = "off" /\ tries + 1 < PowerTries
     THEN tries' = tries + 1 /\ UNCHANGED <<at, keyOut>>
     ELSE Goes("reset") /\ keyOut' = FALSE
  /\ UNCHANGED <<back, begun, supply, online, chip, good, faults>>

(* Pulses until SIM800_PS is LOW; where the key is no output, for ever.     *)
PulseKey ==
  /\ at = "pulse" /\ (keyOut \/ chip = "off")
  /\ chip' = "off" /\ keyOut' = FALSE /\ Goes("reset")
  /\ UNCHANGED <<back, begun, supply, online, good, faults>>

(* reset() returns what the first AT+CFUN=1 is answered.                    *)
ResetModem ==
  /\ at = "reset"
  /\ \/ Yes(TRUE) /\ Woken(TRUE)
     \/ No(TRUE) /\ Woken(FALSE)
  /\ UNCHANGED <<back, pins, online, chip, good>>

(* Nine commands whose answers are not looked at.                           *)
Configure ==
  /\ at = "configure" /\ Goes("card")
  /\ UNCHANGED <<back, pins, online, chip, good, faults>>

CheckSimCard ==
  /\ at = "card"
  /\ \/ Yes("card" \in good) /\ Goes("signal")
     \/ No("card" \in good) /\ UNCHANGED <<at, tries>>
  /\ UNCHANGED <<back, pins, online, chip, good>>

GetSignal ==
  /\ at = "signal"
  /\ \/ Yes("signal" \in good) /\ Goes("register")
     \/ No("signal" \in good) /\ UNCHANGED <<at, tries>>
  /\ UNCHANGED <<back, pins, online, chip, good>>

RegisterNetwork ==
  /\ at = "register"
  /\ \/ Yes("network" \in good) /\ Goes("bearer")
     \/ /\ No("network" \in good)
        /\ IF tries + 1 < RegisterTries THEN tries' = tries + 1 /\ UNCHANGED at
                                        ELSE Goes("shutdown")
  /\ UNCHANGED <<back, pins, online, chip, good>>

(* Slip: wakeup is not called.                                              *)
ShutdownOnly ==
  /\ at = "shutdown"
  /\ \/ Yes(TRUE) /\ UNCHANGED <<chip, keyOut>>
     \/ /\ No(TRUE)
        /\ IF chip = "off" THEN UNCHANGED <<chip, keyOut>>
                           ELSE chip' = "off" /\ keyOut' = TRUE
  /\ Goes("register")
  /\ UNCHANGED <<back, begun, supply, online, good>>

(* shutdown() and wakeup(): the modem restarts itself, or is switched off.  *)
Shutdown ==
  /\ at = "shutdown"
  /\ \/ Yes(TRUE) /\ UNCHANGED <<chip, keyOut>>
     \/ /\ No(TRUE)
        /\ IF chip = "off" THEN UNCHANGED <<chip, keyOut>>
                           ELSE chip' = "off" /\ keyOut' = TRUE
  /\ Goes("at") /\ back' = "register"
  /\ UNCHANGED <<begun, supply, online, good>>

(* Of all that is asked about the bearer only the address counts.           *)
Bearer ==
  /\ at = "bearer" /\ Goes("idle")
  /\ online' \in BOOLEAN /\ (online' => chip = "ready")
  /\ UNCHANGED <<back, pins, chip, good, faults>>

Bring == \/ GsmInit \/ FirstAT \/ SecondAT \/ PowerOn \/ PulseKey \/ ResetModem
         \/ Configure \/ CheckSimCard \/ GetSignal \/ RegisterNetwork \/ Shutdown
         \/ Bearer

-----------------------------------------------------------------------------
(* The modem, the place it is at, and a restart of the ESP32.               *)

ComesOn ==
  /\ chip = "off" /\ supply /\ chip' = "ready"
  /\ UNCHANGED <<at, back, tries, pins, online, good, faults>>
ComesOnAtKey == at = "power" /\ ComesOn

FallsSilent ==
  /\ chip # "off" /\ chip' \in {"off", "mute"} \ {chip}
  /\ silences < MaxSilences /\ silences' = silences + 1
  /\ unheard' = (unheard \/ at \in {"configure", "card", "signal"})
  /\ UNCHANGED <<at, back, tries, pins, online, good, unanswered>>

Recovers ==
  /\ chip = "mute" /\ chip' = "ready"
  /\ UNCHANGED <<at, back, tries, pins, online, good, faults>>

Changes ==
  /\ good' \in SUBSET Conditions
  /\ UNCHANGED <<at, back, tries, pins, online, chip, faults>>

(* The pins are inputs; whether the modem keeps its power is open.          *)
ChipRestarts ==
  /\ Goes("idle") /\ online' = FALSE /\ begun' = FALSE /\ keyOut' = FALSE
  /\ supply' \in {supply, FALSE} /\ chip' = IF supply' THEN chip ELSE "off"
  /\ UNCHANGED <<back, good, faults>>

BringUpNext ==
  Bring \/ GsmReboot \/ ComesOn \/ FallsSilent \/ Recovers \/ Changes \/ ChipRestarts

BringUpSpec == BringUpInit /\ [][BringUpNext]_bringUpVars

-----------------------------------------------------------------------------
BringUpTypeOK ==
  /\ at \in {"idle", "at", "atAgain", "power", "pulse", "reset", "configure", "card",
             "signal", "register", "shutdown", "bearer"}
  /\ back \in {"gsm_init", "register"} /\ tries \in Nat
  /\ begun \in BOOLEAN /\ keyOut \in BOOLEAN /\ supply \in BOOLEAN /\ online \in BOOLEAN
  /\ chip \in {"off", "mute", "ready"} /\ (chip # "off" => supply)
  /\ good \subseteq Conditions
  /\ unanswered \in 0 .. MaxMissed /\ silences \in 0 .. MaxSilences /\ unheard \in BOOLEAN

(* wakeup pulses a key that is no output: an earlier wakeup has made it an  *)
(* input and begin() does not run again.  Only a restart ends that loop.    *)
Wedged == at = "pulse" /\ ~keyOut

(* gsm_init returns once card, signal and network are there, though the     *)
(* modem be off or mute, fall silent or leave commands unanswered: whatever *)
(* wakeup and shutdown switch off is switched on again.  Two cases are left *)
(* out, since the code has no way out of them: a key that is no output, and *)
(* a modem that falls silent while only card and signal are asked for.      *)
GsmInitEnds ==
  <>[](good = Conditions /\ ~Wedged /\ ~unheard) => []<>(at = "idle")
=============================================================================
