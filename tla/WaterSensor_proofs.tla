------------------------ MODULE WaterSensor_proofs ------------------------
(***************************************************************************)
(* For every array length, period and range of readings: the bound on the   *)
(* overrun, the freshness of a mean and the announcement of a mean hold in  *)
(* every reachable state of WaterSensor.                                    *)
(***************************************************************************)
EXTENDS WaterSensor, TLAPS

Inv == TypeOK /\ OverrunInv /\ RoundInv

LEMMA InitInv == Init => Inv
  <1> SUFFICES ASSUME Init PROVE Inv
    OBVIOUS
  <1> USE PpmAssumption, ReadingAssumption DEF Init, Cleared, StartPc, Contexts
  <1>1. TypeOK
    <2>1. /\ ppms \in [0 .. PPM_COUNT -> Readings] /\ fresh \subseteq 0 .. PPM_COUNT
          /\ water_counter \in 0 .. WATER_PERIOD + 1
      OBVIOUS
    <2>2. reg \in [Contexts -> Nat] /\ item \in Nat
      OBVIOUS
    <2>3. /\ pc \in [Contexts -> Pcs]
          /\ pc["timer"] \notin {"setup", "loop", "send", "count"}
          /\ pc["sync"] \notin {"off", "wait"}
      BY DEF Pcs
    <2> QED
      BY <2>1, <2>2, <2>3 DEF TypeOK
  <1>2. OverrunInv
    BY DEF OverrunInv, Reading, Other
  <1>3. RoundInv
    BY DEF RoundInv, Busy, Reading, Other, Before, Slots
  <1> QED
    BY <1>1, <1>2, <1>3 DEF Inv

(* The steps of SyncTask around the measurement leave the readings alone.   *)
LEMMA SyncInv == Inv /\ (Network \/ SyncStep) => Inv'
  <1> SUFFICES ASSUME Inv, Network \/ SyncStep PROVE Inv'
    OBVIOUS
  <1> USE PpmAssumption, ReadingAssumption
      DEF Inv, Contexts, Pcs, rest, readVars, Goto
  <1>1. CASE Network
    BY <1>1 DEF Network, sendVars, TypeOK, OverrunInv, RoundInv, Busy,
                Reading, Other, Before, Slots
  <1>2. CASE Setup
    <2>1. TypeOK'
      BY <1>2 DEF Setup, TypeOK
    <2>2. OverrunInv'
      BY <1>2 DEF Setup, OverrunInv, Reading, Other
    <2>3. RoundInv'
      BY <1>2 DEF Setup, RoundInv, Busy, Reading, Other, Before, Slots
    <2> QED
      BY <2>1, <2>2, <2>3
  <1>3. CASE SyncFlag \/ SyncSend \/ SyncCount
    <2>1. TypeOK'
      <3>1. CASE SyncFlag
        BY <3>1 DEF SyncFlag, TypeOK
      <3>2. CASE SyncSend
        BY <3>2 DEF SyncSend, TypeOK
      <3>3. CASE SyncCount
        BY <3>3 DEF SyncCount, TypeOK
      <3> QED
        BY <1>3, <3>1, <3>2, <3>3
    <2>2. OverrunInv'
      BY <1>3 DEF SyncFlag, SyncSend, SyncCount, TypeOK, OverrunInv, Reading,
                  Other
    <2>3. RoundInv'
      BY <1>3 DEF SyncFlag, SyncSend, SyncCount, TypeOK, RoundInv, Busy,
                  Reading, Other, Before, Slots
    <2> QED
      BY <2>1, <2>2, <2>3
  <1> QED
    BY <1>1, <1>2, <1>3 DEF SyncStep

(* The steps of a measurement, each against the three parts of Inv.         *)
LEMMA MeasureInv == ASSUME NEW c \in Contexts, Inv, Measure(c) PROVE Inv'
  <1> USE PpmAssumption, ReadingAssumption
      DEF Inv, Contexts, Pcs, rest, sendVars, readVars, Goto, Finished, Other
  <1>1. CASE Check(c)
    <2>1. TypeOK'
      BY <1>1 DEF Check, TypeOK
    <2>2. OverrunInv'
      BY <1>1 DEF Check, TypeOK, OverrunInv, Reading
    <2>3. RoundInv'
      <3>1. item >= PPM_COUNT => Before(item) = Slots
        BY DEF TypeOK, Before, Slots
      <3>2. CASE Busy(Other(c))
        BY <1>1, <3>2 DEF Check, RoundInv
      <3>3. CASE ~Busy(Other(c)) /\ item < PPM_COUNT
        BY <1>1, <3>3 DEF Check, TypeOK, RoundInv, Busy, Reading
      <3>4. CASE ~Busy(Other(c)) /\ item >= PPM_COUNT
        BY <1>1, <3>1, <3>4 DEF Check, TypeOK, RoundInv, Busy, Reading
      <3> QED
        BY <3>2, <3>3, <3>4 DEF TypeOK
    <2> QED
      BY <2>1, <2>2, <2>3
  <1>2. CASE Store(c)
    <2>1. TypeOK'
      BY <1>2 DEF Store, TypeOK, OverrunInv
    <2>2. OverrunInv'
      BY <1>2 DEF Store, TypeOK, OverrunInv, Reading
    <2>3. RoundInv'
      BY <1>2 DEF Store, TypeOK, RoundInv, Busy, Reading, Before, Slots
    <2> QED
      BY <2>1, <2>2, <2>3
  <1>3. CASE Load(c)
    <2>1. TypeOK'
      BY <1>3 DEF Load, TypeOK
    <2>2. OverrunInv'
      BY <1>3 DEF Load, TypeOK, OverrunInv, Reading
    <2>3. RoundInv'
      BY <1>3 DEF Load, TypeOK, RoundInv, Busy, Reading, Before, Slots
    <2> QED
      BY <2>1, <2>2, <2>3
  <1>4. CASE Increment(c)
    <2>1. TypeOK'
      BY <1>4 DEF Increment, TypeOK
    <2>2. OverrunInv'
      BY <1>4 DEF Increment, TypeOK, OverrunInv, Reading
    <2>3. RoundInv'
      BY <1>4 DEF Increment, TypeOK, RoundInv, Busy, Reading, Before, Slots
    <2> QED
      BY <2>1, <2>2, <2>3
  <1>5. CASE Mean(c)
    <2>1. TypeOK'
      BY <1>5 DEF Mean, TypeOK
    <2>2. OverrunInv'
      BY <1>5 DEF Mean, TypeOK, OverrunInv, Reading
    <2>3. RoundInv'
      BY <1>5 DEF Mean, TypeOK, RoundInv, Busy, Reading, Before, Slots
    <2> QED
      BY <2>1, <2>2, <2>3
  <1>6. CASE Panic(c)
    <2> USE <1>6 DEF Panic, Cleared, StartPc
    <2>1. TypeOK'
      <3>1. /\ (ppms \in [0 .. PPM_COUNT -> Readings])'
            /\ (fresh \subseteq 0 .. PPM_COUNT)'
            /\ (water_counter \in 0 .. WATER_PERIOD + 1)'
        OBVIOUS
      <3>2. (reg \in [Contexts -> Nat] /\ item \in Nat)'
        OBVIOUS
      <3>3. (/\ pc \in [Contexts -> Pcs]
             /\ pc["timer"] \notin {"setup", "loop", "send", "count"}
             /\ pc["sync"] \notin {"off", "wait"})'
        BY DEF Pcs
      <3> QED
        BY <3>1, <3>2, <3>3 DEF TypeOK
    <2>2. OverrunInv'
      BY DEF OverrunInv, Reading
    <2>3. RoundInv'
      BY DEF RoundInv, Busy, Reading, Before, Slots
    <2> QED
      BY <2>1, <2>2, <2>3
  <1>7. CASE Reset(c)
    <2>1. TypeOK'
      BY <1>7 DEF Reset, TypeOK
    <2>2. OverrunInv'
      BY <1>7 DEF Reset, TypeOK, OverrunInv, Reading
    <2>3. RoundInv'
      BY <1>7 DEF Reset, TypeOK, RoundInv, Busy, Reading, Before, Slots
    <2> QED
      BY <2>1, <2>2, <2>3
  <1>8. CASE Raise(c)
    <2>1. TypeOK'
      BY <1>8 DEF Raise, TypeOK
    <2>2. OverrunInv'
      BY <1>8 DEF Raise, TypeOK, OverrunInv, Reading
    <2>3. RoundInv'
      BY <1>8 DEF Raise, TypeOK, RoundInv, Busy, Reading, Before, Slots
    <2> QED
      BY <2>1, <2>2, <2>3
  <1>9. CASE Pass(c)
    <2>1. TypeOK'
      BY <1>9 DEF Pass, TypeOK
    <2>2. OverrunInv'
      BY <1>9 DEF Pass, TypeOK, OverrunInv, Reading
    <2>3. RoundInv'
      BY <1>9 DEF Pass, TypeOK, RoundInv, Busy, Reading, Before, Slots
    <2> QED
      BY <2>1, <2>2, <2>3
  <1> QED
    BY <1>1, <1>2, <1>3, <1>4, <1>5, <1>6, <1>7, <1>8, <1>9 DEF Measure

LEMMA StutterInv == Inv /\ UNCHANGED vars => Inv'
  BY DEF Inv, TypeOK, OverrunInv, RoundInv, Busy, Reading, Other, Before,
         Slots, vars, rest, readVars, sendVars

(* The measurement is type correct, and the two parts of the strengthening  *)
(* hold.                                                                    *)
THEOREM Measured == Spec => []Inv
  <1>1. Inv /\ [Next]_vars => Inv'
    BY SyncInv, MeasureInv, StutterInv DEF Next
  <1> QED
    BY InitInv, <1>1, PTL DEF Spec

(* Every variable has its type: no index leaves the modelled slots.         *)
THEOREM TypeCorrect == Spec => []TypeOK
  BY Measured, PTL DEF Inv

(* The timer and SyncTask together store at most one slot past the array.   *)
THEOREM OverrunBounded == Spec => []OneSlotPast
  <1>1. Inv => OneSlotPast
    BY DEF Inv, OverrunInv, OneSlotPast
  <1> QED
    BY Measured, <1>1, PTL

(* A mean of a round in which the contexts did not meet is over all of the  *)
(* round's readings and no others.                                          *)
THEOREM Fresh == Spec => []MeanIsFresh
  <1>1. Inv => MeanIsFresh
    BY DEF Inv, RoundInv, MeanIsFresh
  <1> QED
    BY Measured, <1>1, PTL

(* A mean that is not sent yet is never forgotten: send_ppm is set, or one  *)
(* of the contexts is about to set it or to send.                           *)
THEOREM Announced == Spec => []MeanAnnounced
  <1> DEFINE Told == MeanAnnounced /\ (pc["sync"] = "setup" => send_ppm)
  <1> USE DEF MeanAnnounced, Contexts
  <1>1. Init => Told
    BY DEF Init
  <1>2. TypeOK /\ Told /\ [Next]_vars => Told'
    <2> SUFFICES ASSUME TypeOK, Told, [Next]_vars
                 PROVE  Told'
      OBVIOUS
    <2> USE DEF TypeOK, Pcs, rest, readVars, sendVars, Goto, Finished
    <2>1. CASE Network \/ UNCHANGED vars
      BY <2>1 DEF Network, vars
    <2>2. CASE SyncStep
      <3>1. CASE Setup
        BY <3>1 DEF Setup
      <3>2. CASE SyncFlag
        BY <3>2 DEF SyncFlag
      <3>3. CASE SyncSend
        BY <3>3 DEF SyncSend
      <3>4. CASE SyncCount
        BY <3>4 DEF SyncCount
      <3> QED
        BY <2>2, <3>1, <3>2, <3>3, <3>4 DEF SyncStep
    <2>3. ASSUME NEW c \in Contexts, Measure(c) PROVE Told'
      <3>1. CASE Pass(c) \/ Check(c) \/ Store(c) \/ Load(c) \/ Increment(c)
        BY <3>1 DEF Pass, Check, Store, Load, Increment
      <3>2. CASE Mean(c) \/ Reset(c)
        BY <3>2 DEF Mean, Reset
      <3>3. CASE Panic(c) \/ Raise(c)
        BY <3>3 DEF Panic, Raise
      <3> QED
        BY <2>3, <3>1, <3>2, <3>3 DEF Measure
    <2> QED
      BY <2>1, <2>2, <2>3 DEF Next
  <1> HIDE DEF MeanAnnounced
  <1> QED
    BY <1>1, <1>2, TypeCorrect, PTL DEF Spec
=============================================================================
