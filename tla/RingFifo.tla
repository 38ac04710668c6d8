------------------------------ MODULE RingFifo ------------------------------
(***************************************************************************)
(* TinyGsmFifo<T, N>: a ring of N slots, one never used, with one writing   *)
(* and one reading context ("writing thread/context API", "reading          *)
(* thread/context API").  The two run at their own pace: each reads the     *)
(* other's index, copies, and only then publishes its own.  memcpy is one   *)
(* step: NoOverlap says that the other context never looks at its slots.    *)
(* Bytes are numbered in the order in which the writer offers them.         *)
(***************************************************************************)
EXTENDS Integers, Sequences

CONSTANTS
  N,        (* slots                                                       *)
  MaxItems  (* bound: bytes offered                                        *)

ASSUME SlotAssumption == N \in Nat /\ N >= 2
ASSUME ItemAssumption == MaxItems \in Nat \ {0}

Slots == 0 .. N - 1

VARIABLES
  _b, _w, _r,
  item,     (* the next byte offered                                       *)
  putPc,    (* where put is                                                *)
  putLeft,  (* c in put: bytes still to be put                             *)
  putChunk, (* f in put                                                    *)
  putWaits, (* t in put: wait for space                                    *)
  getPc, getLeft, getChunk, getWaits,
  getBuf,   (* bytes copied out and not yet published                      *)
  got       (* history: all bytes returned by get                          *)

putVars == <<_w, item, putPc, putLeft, putChunk, putWaits>>
getVars == <<_r, getPc, getLeft, getChunk, getWaits, getBuf, got>>
vars == <<_b, putVars, getVars>>

Inc(i, n) == (i + n) % N

(* Slip: the slot that is never used counts as free.                        *)
FreeAll == LET s == _r - _w IN IF s <= 0 THEN s + N ELSE s

Free == LET s == _r - _w IN (IF s <= 0 THEN s + N ELSE s) - 1

Size == LET s == _w - _r IN IF s < 0 THEN s + N ELSE s

Least(a, c) == IF a < c THEN a ELSE c

-----------------------------------------------------------------------------
Init ==
  /\ _b = [s \in Slots |-> 0] /\ _w = 0 /\ _r = 0
  /\ item = 1 /\ putPc = "idle" /\ putLeft = 0 /\ putChunk = 0
  /\ putWaits = FALSE
  /\ getPc = "idle" /\ getLeft = 0 /\ getChunk = 0 /\ getWaits = FALSE
  /\ getBuf = <<>> /\ got = <<>>

(* clear() is called between two uses, by the only task using the object.   *)
Clear ==
  /\ putPc = "idle" /\ getPc = "idle"
  /\ _r' = 0 /\ _w' = 0
  /\ UNCHANGED <<_b, item, putPc, putLeft, putChunk, putWaits,
                 getPc, getLeft, getChunk, getWaits, getBuf, got>>

(* put(c): refused when the ring is full; modemRead does not look.          *)
PutOneRefused ==
  /\ putPc = "idle" /\ item <= MaxItems
  /\ Inc(_w, 1) = _r
  /\ item' = item + 1
  /\ UNCHANGED <<_b, _w, putPc, putLeft, putChunk, putWaits, getVars>>

PutOne ==
  /\ putPc = "idle" /\ item <= MaxItems
  /\ Inc(_w, 1) # _r
  /\ putPc' = "copy" /\ putLeft' = 1 /\ putChunk' = 1 /\ putWaits' = FALSE
  /\ UNCHANGED <<_b, _w, item, getVars>>

(* put(p, n, t)                                                             *)
PutMany ==
  /\ putPc = "idle"
  /\ \E n \in 1 .. MaxItems + 1 - item, t \in BOOLEAN :
       putLeft' = n /\ putWaits' = t
  /\ putPc' = "space"
  /\ UNCHANGED <<_b, _w, item, putChunk, getVars>>

PutNoSpace ==
  /\ putPc = "space" /\ Free = 0 /\ ~putWaits
  /\ putPc' = "idle"
  /\ UNCHANGED <<_b, _w, item, putLeft, putChunk, putWaits, getVars>>

PutSpace ==
  /\ putPc = "space" /\ Free # 0
  /\ putChunk' = Least(Least(putLeft, Free), N - _w)
  /\ putPc' = "copy"
  /\ UNCHANGED <<_b, _w, item, putLeft, putWaits, getVars>>

PutCopy ==
  /\ putPc = "copy"
  /\ _b' = [s \in Slots |-> IF s \in _w .. _w + putChunk - 1
                            THEN item + (s - _w) ELSE _b[s]]
  /\ putPc' = "publish"
  /\ UNCHANGED <<_w, item, putLeft, putChunk, putWaits, getVars>>

(* Slip: the index is published before the bytes are there.                 *)
PutPublishEarly ==
  /\ putPc \in {"copy", "publish"}
  /\ _w' = Inc(_w, putChunk)
  /\ item' = item + putChunk /\ putLeft' = putLeft - putChunk
  /\ putPc' = IF putLeft' = 0 THEN "idle" ELSE "space"
  /\ UNCHANGED <<_b, putChunk, putWaits, getVars>>

PutPublish ==
  /\ putPc = "publish"
  /\ _w' = Inc(_w, putChunk)
  /\ item' = item + putChunk /\ putLeft' = putLeft - putChunk
  /\ putPc' = IF putLeft' = 0 THEN "idle" ELSE "space"
  /\ UNCHANGED <<_b, putChunk, putWaits, getVars>>

(* get(p): FALSE when there is nothing, which changes nothing.              *)
GetOne ==
  /\ getPc = "idle" /\ _r # _w
  /\ getPc' = "copy" /\ getLeft' = 1 /\ getChunk' = 1 /\ getWaits' = FALSE
  /\ UNCHANGED <<_b, putVars, _r, getBuf, got>>

(* get(p, n, t)                                                             *)
GetMany ==
  /\ getPc = "idle"
  /\ \E n \in 1 .. MaxItems, t \in BOOLEAN : getLeft' = n /\ getWaits' = t
  /\ getPc' = "data"
  /\ UNCHANGED <<_b, putVars, _r, getChunk, getBuf, got>>

GetNoData ==
  /\ getPc = "data" /\ Size = 0 /\ ~getWaits
  /\ getPc' = "idle"
  /\ UNCHANGED <<_b, putVars, _r, getLeft, getChunk, getWaits, getBuf, got>>

GetData ==
  /\ getPc = "data" /\ Size # 0
  /\ getChunk' = Least(Least(getLeft, Size), N - _r)
  /\ getPc' = "copy"
  /\ UNCHANGED <<_b, putVars, _r, getLeft, getWaits, getBuf, got>>

GetCopy ==
  /\ getPc = "copy"
  /\ getBuf' = [k \in 1 .. getChunk |-> _b[_r + k - 1]]
  /\ getPc' = "publish"
  /\ UNCHANGED <<_b, putVars, _r, getLeft, getChunk, getWaits, got>>

GetPublish ==
  /\ getPc = "publish"
  /\ _r' = Inc(_r, getChunk)
  /\ got' = got \o getBuf /\ getBuf' = <<>>
  /\ getLeft' = getLeft - getChunk
  /\ getPc' = IF getLeft' = 0 THEN "idle" ELSE "data"
  /\ UNCHANGED <<_b, putVars, getChunk, getWaits>>

Next == \/ Clear
        \/ PutOneRefused \/ PutOne \/ PutMany \/ PutNoSpace \/ PutSpace
        \/ PutCopy \/ PutPublish
        \/ GetOne \/ GetMany \/ GetNoData \/ GetData \/ GetCopy \/ GetPublish

Spec == Init /\ [][Next]_vars

-----------------------------------------------------------------------------
(* Every variable has its type.                                             *)
TypeOK ==
  /\ _b \in [Slots -> 0 .. MaxItems] /\ _w \in Slots /\ _r \in Slots
  /\ item \in 1 .. MaxItems + 1
  /\ putPc \in {"idle", "space", "copy", "publish"}
  /\ getPc \in {"idle", "data", "copy", "publish"}
  /\ putLeft \in 0 .. MaxItems /\ putChunk \in Nat /\ putWaits \in BOOLEAN
  /\ getLeft \in 0 .. MaxItems /\ getChunk \in Nat /\ getWaits \in BOOLEAN
  /\ getBuf \in Seq(0 .. MaxItems) /\ got \in Seq(0 .. MaxItems)
  /\ putPc # "idle" => putLeft > 0 /\ item + putLeft <= MaxItems + 1
  /\ getPc # "idle" => getLeft > 0

Copying(pc) == pc \in {"copy", "publish"}

(* While both contexts copy, no slot is written by the one and read by the  *)
(* other, and neither leaves the array: the check of free() or size() that  *)
(* a context made before copying still holds, whatever the other has done   *)
(* since, whether or not the block ends at the wrap.                        *)
NoOverlap ==
  /\ Copying(putPc) => _w + putChunk <= N
  /\ Copying(getPc) => _r + getChunk <= N
  /\ Copying(putPc) /\ Copying(getPc)
       => \A s \in Slots : ~ (/\ s \in _w .. _w + putChunk - 1
                              /\ s \in _r .. _r + getChunk - 1)

(* What NoOverlap and the refinement rest on: a context's block was free,   *)
(* or full, when it was chosen and still is; the bytes copied are the ones  *)
(* offered, or the ones at the front of the queue.                          *)
RingInv ==
  /\ Copying(putPc) => /\ putChunk \in 1 .. putLeft /\ putChunk <= Free
                       /\ _w + putChunk <= N
  /\ Copying(getPc) => /\ getChunk \in 1 .. getLeft /\ getChunk <= Size
                       /\ _r + getChunk <= N
  /\ putPc = "publish" => \A s \in _w .. _w + putChunk - 1 :
                            _b[s] = item + (s - _w)
  /\ getPc = "publish" => getBuf = [k \in 1 .. getChunk |-> _b[_r + k - 1]]

(* The ring implements the bounded queue of ByteStream: published bytes     *)
(* come out once, in order, and a byte is refused only by a full queue.     *)
Bytes(b, r, n) == [k \in 1 .. n |-> b[Inc(r, k - 1)]]
Contents == Bytes(_b, _r, Size)
Stream == INSTANCE ByteStream
            WITH Cap <- N - 1, offered <- item, queue <- Contents,
                 received <- got
StreamSpec == Stream!Spec
=============================================================================
