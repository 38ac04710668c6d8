---------------------------- MODULE MCRecordSync ----------------------------
(* Constants of RecordSync for TLC: records that do and do not fit in the   *)
(* required_size an earlier record left, and one that is too short to send. *)
EXTENDS RecordSync

MCSize == [r \in Records |-> CASE r % 3 = 0 -> 2
                               [] r % 3 = 1 -> 3
                               [] OTHER     -> 4]
=============================================================================
