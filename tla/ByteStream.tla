----------------------------- MODULE ByteStream -----------------------------
(***************************************************************************)
(* What TinyGsmFifo promises its users: a bounded queue of bytes.  Bytes    *)
(* are told apart by the order in which they are offered, 1, 2, 3, ...      *)
(***************************************************************************)
EXTENDS Naturals, Sequences

CONSTANT Cap  (* bytes the queue can hold *)

VARIABLES
  offered,  (* the next byte the writer offers   *)
  queue,    (* bytes put and not yet got         *)
  received  (* bytes got, in the order of arrival *)

Init == offered = 1 /\ queue = <<>> /\ received = <<>>

(* n bytes go in, as a block and only if there is room.                     *)
Put(n) ==
  /\ Len(queue) + n <= Cap
  /\ queue' = queue \o [k \in 1 .. n |-> offered + k - 1]
  /\ offered' = offered + n
  /\ UNCHANGED received

(* A byte is refused, and lost to a caller that does not look, only when    *)
(* the queue is full.                                                       *)
Refuse ==
  /\ Len(queue) = Cap
  /\ offered' = offered + 1
  /\ UNCHANGED <<queue, received>>

(* The n oldest bytes come out.                                             *)
Get(n) ==
  /\ received' = received \o SubSeq(queue, 1, n)
  /\ queue' = SubSeq(queue, n + 1, Len(queue))
  /\ UNCHANGED offered

Clear == queue' = <<>> /\ UNCHANGED <<offered, received>>

Next == \/ \E n \in 1 .. Cap : Put(n)
        \/ Refuse
        \/ \E n \in 1 .. Len(queue) : Get(n)
        \/ Clear

Spec == Init /\ [][Next]_<<offered, queue, received>>
=============================================================================
