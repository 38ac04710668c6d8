--------------------------- MODULE MCWaterSensor ---------------------------
(* Constants of WaterSensor for TLC: a saturated sensor reads 0.            *)
EXTENDS WaterSensor

MCReadings == {0, 1}
=============================================================================
