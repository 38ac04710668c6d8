--------------------------- MODULE RingFifo_proofs ---------------------------
(***************************************************************************)
(* Theorems about RingFifo, for every number of slots and bytes.            *)
(***************************************************************************)
EXTENDS RingFifo, SequenceTheorems, TLAPS

(* The modulus of _inc is one conditional subtraction: no index that the    *)
(* code advances goes round more than once.                                 *)
LEMMA IncValue ==
  ASSUME NEW i \in Slots, NEW n \in 0 .. N
  PROVE  Inc(i, n) = IF i + n < N THEN i + n ELSE i + n - N
<1>1. ASSUME NEW x \in Nat, x < N PROVE x % N = x
  BY <1>1, SlotAssumption
<1>2. ASSUME NEW x \in Nat, x >= N, x < 2 * N PROVE x % N = x - N
  BY <1>2, SlotAssumption
<1>. QED BY <1>1, <1>2, SlotAssumption DEF Inc, Slots

(* free() and size() always add up to the N - 1 usable slots.               *)
LEMMA FreePlusSize ==
  ASSUME _w \in Slots, _r \in Slots
  PROVE  /\ Free \in 0 .. N - 1 /\ Size \in 0 .. N - 1
         /\ Free + Size = N - 1
BY SlotAssumption DEF Slots, Free, Size

LEMMA InitInv == Init => TypeOK /\ RingInv
<1>. SUFFICES ASSUME Init PROVE TypeOK /\ RingInv
  OBVIOUS
<1>1. 0 \in Slots /\ 0 \in 0 .. MaxItems /\ 1 \in 1 .. MaxItems + 1
  BY SlotAssumption, ItemAssumption DEF Slots
<1>2. _b \in [Slots -> 0 .. MaxItems]
  BY <1>1 DEF Init
<1>. QED BY <1>1, <1>2 DEF Init, TypeOK, RingInv, Copying

(* The steps of put keep the types and RingInv: get only ever frees space,  *)
(* so a block that was free stays free until it is published.               *)
LEMMA PutInv ==
  ASSUME TypeOK, RingInv,
         PutOneRefused \/ PutOne \/ PutMany \/ PutNoSpace \/ PutSpace
           \/ PutCopy \/ PutPublish
  PROVE  TypeOK' /\ RingInv'
<1>. USE SlotAssumption, ItemAssumption DEF Copying
<1>1. CASE PutOneRefused
  BY <1>1 DEF PutOneRefused, TypeOK, RingInv, Free, Size, getVars
<1>2. CASE PutOne
  <2>1. Inc(_w, 1) = IF _w + 1 < N THEN _w + 1 ELSE 0
    BY IncValue DEF TypeOK, Slots
  <2>2. _r # IF _w + 1 < N THEN _w + 1 ELSE 0
    BY <1>2, <2>1 DEF PutOne
  <2>3. 1 <= Free /\ _w + 1 <= N
    BY <2>2 DEF Free, TypeOK, Slots
  <2>4. Free' = Free /\ Size' = Size
    BY <1>2 DEF PutOne, Free, Size, getVars
  <2>5. /\ putLeft' \in 0 .. MaxItems /\ putLeft' > 0 /\ putChunk' \in Nat
        /\ item' + putLeft' <= MaxItems + 1
    BY <1>2 DEF PutOne, TypeOK
  <2>6. TypeOK'
    BY <1>2, <2>5 DEF PutOne, TypeOK, getVars
  <2>. QED BY <1>2, <2>3, <2>4, <2>6 DEF PutOne, RingInv, getVars
<1>3. CASE PutMany
  BY <1>3 DEF PutMany, TypeOK, RingInv, Free, Size, getVars
<1>4. CASE PutNoSpace
  BY <1>4 DEF PutNoSpace, TypeOK, RingInv, Free, Size, getVars
<1>5. CASE PutSpace
  <2>1. Free \in 1 .. N - 1
    BY <1>5, FreePlusSize DEF PutSpace, TypeOK
  <2>2. putChunk' \in 1 .. putLeft /\ putChunk' <= Free /\ _w + putChunk' <= N
    BY <1>5, <2>1 DEF PutSpace, Least, TypeOK, Slots
  <2>3. Free' = Free /\ Size' = Size
    BY <1>5 DEF PutSpace, Free, Size, getVars
  <2>4. TypeOK'
    BY <1>5, <2>2 DEF PutSpace, TypeOK, getVars
  <2>. QED BY <1>5, <2>2, <2>3, <2>4 DEF PutSpace, RingInv, getVars
<1>6. CASE PutCopy
  <2>1. _b' \in [Slots -> 0 .. MaxItems]
    BY <1>6 DEF PutCopy, TypeOK, RingInv, Slots
  <2>2. TypeOK'
    BY <1>6, <2>1 DEF PutCopy, TypeOK, getVars
  <2>3. \A s \in _w .. _w + putChunk - 1 : s \in Slots /\ _b'[s] = item + (s - _w)
    BY <1>6 DEF PutCopy, TypeOK, RingInv, Slots
  <2>4. getPc = "publish" => \A k \in 1 .. getChunk : _b'[_r + k - 1] = _b[_r + k - 1]
    BY <1>6 DEF PutCopy, TypeOK, RingInv, Slots, Free, Size
  <2>5. getPc = "publish" => getBuf' = [k \in 1 .. getChunk' |-> _b'[_r' + k - 1]]
    BY <1>6, <2>4 DEF PutCopy, RingInv, getVars
  <2>. QED BY <1>6, <2>2, <2>3, <2>5 DEF PutCopy, RingInv, Free, Size, getVars
<1>7. CASE PutPublish
  <2>1. putChunk \in 1 .. putLeft /\ putChunk <= Free /\ putChunk \in 0 .. N
    BY <1>7, FreePlusSize DEF PutPublish, RingInv, TypeOK
  <2>2. _w' = IF _w + putChunk < N THEN _w + putChunk ELSE 0
    BY <1>7, <2>1, IncValue DEF PutPublish, TypeOK, RingInv, Slots
  <2>3. _w' \in Slots /\ Size \in Int /\ Size' \in Int /\ Size <= Size'
    BY <1>7, <2>1, <2>2 DEF PutPublish, TypeOK, RingInv, Slots, Free, Size, getVars
  <2>4. TypeOK'
    BY <1>7, <2>1, <2>3 DEF PutPublish, TypeOK, getVars
  <2>5. ~Copying(putPc')
    BY <1>7 DEF PutPublish
  <2>6. getChunk <= Size => getChunk <= Size'
    BY <2>3 DEF TypeOK
  <2>. QED BY <1>7, <2>4, <2>5, <2>6 DEF PutPublish, RingInv, getVars
<1>. QED BY <1>1, <1>2, <1>3, <1>4, <1>5, <1>6, <1>7

(* The steps of get keep them too: put only ever adds bytes at the far end. *)
LEMMA GetInv ==
  ASSUME TypeOK, RingInv,
         GetOne \/ GetMany \/ GetNoData \/ GetData \/ GetCopy \/ GetPublish
  PROVE  TypeOK' /\ RingInv'
<1>. USE SlotAssumption, ItemAssumption DEF Copying
<1>1. CASE GetOne
  <2>1. 1 <= Size /\ _r + 1 <= N
    BY <1>1 DEF GetOne, Size, TypeOK, Slots
  <2>2. Free' = Free /\ Size' = Size
    BY <1>1 DEF GetOne, Free, Size, putVars
  <2>3. getLeft' \in 0 .. MaxItems /\ getLeft' > 0 /\ getChunk' \in Nat
    BY <1>1 DEF GetOne
  <2>4. TypeOK'
    BY <1>1, <2>3 DEF GetOne, TypeOK, putVars
  <2>. QED BY <1>1, <2>1, <2>2, <2>4 DEF GetOne, RingInv, putVars
<1>2. CASE GetMany
  <2>1. Free' = Free /\ Size' = Size
    BY <1>2 DEF GetMany, Free, Size, putVars
  <2>. QED BY <1>2, <2>1 DEF GetMany, TypeOK, RingInv, putVars
<1>3. CASE GetNoData
  <2>1. Free' = Free /\ Size' = Size
    BY <1>3 DEF GetNoData, Free, Size, putVars
  <2>. QED BY <1>3, <2>1 DEF GetNoData, TypeOK, RingInv, putVars
<1>4. CASE GetData
  <2>1. Size \in 1 .. N - 1
    BY <1>4, FreePlusSize DEF GetData, TypeOK
  <2>2. getChunk' \in 1 .. getLeft /\ getChunk' <= Size /\ _r + getChunk' <= N
    BY <1>4, <2>1 DEF GetData, Least, TypeOK, Slots
  <2>3. Free' = Free /\ Size' = Size
    BY <1>4 DEF GetData, Free, Size, putVars
  <2>4. TypeOK'
    BY <1>4, <2>2 DEF GetData, TypeOK, putVars
  <2>. QED BY <1>4, <2>2, <2>3, <2>4 DEF GetData, RingInv, putVars
<1>5. CASE GetCopy
  <2>1. getBuf' = [k \in 1 .. getChunk |-> _b[_r + k - 1]]
    BY <1>5 DEF GetCopy
  <2>2. \A k \in 1 .. getChunk : _b[_r + k - 1] \in 0 .. MaxItems
    BY <1>5 DEF GetCopy, TypeOK, RingInv, Slots
  <2>3. getBuf' \in Seq(0 .. MaxItems)
    BY <2>1, <2>2 DEF TypeOK
  <2>4. Free' = Free /\ Size' = Size
    BY <1>5 DEF GetCopy, Free, Size, putVars
  <2>5. TypeOK'
    BY <1>5, <2>3 DEF GetCopy, TypeOK, putVars
  <2>. QED BY <1>5, <2>1, <2>4, <2>5 DEF GetCopy, RingInv, putVars
<1>6. CASE GetPublish
  <2>1. getChunk \in 1 .. getLeft /\ getChunk <= Size /\ getChunk \in 0 .. N
    BY <1>6, FreePlusSize DEF GetPublish, RingInv, TypeOK
  <2>2. _r' = IF _r + getChunk < N THEN _r + getChunk ELSE 0
    BY <1>6, <2>1, IncValue DEF GetPublish, TypeOK, RingInv, Slots
  <2>3. _r' \in Slots /\ Free \in Int /\ Free' \in Int /\ Free <= Free'
    BY <1>6, <2>1, <2>2 DEF GetPublish, TypeOK, RingInv, Slots, Free, Size, putVars
  <2>4. got' \in Seq(0 .. MaxItems) /\ getBuf' \in Seq(0 .. MaxItems)
    BY <1>6 DEF GetPublish, TypeOK
  <2>5. TypeOK'
    BY <1>6, <2>1, <2>3, <2>4 DEF GetPublish, TypeOK, putVars
  <2>6. ~Copying(getPc')
    BY <1>6 DEF GetPublish
  <2>7. putChunk <= Free => putChunk <= Free'
    BY <2>3 DEF TypeOK
  <2>. QED BY <1>6, <2>5, <2>6, <2>7 DEF GetPublish, RingInv, putVars
<1>. QED BY <1>1, <1>2, <1>3, <1>4, <1>5, <1>6

(* RingInv is inductive.                                                    *)
THEOREM Ring == Spec => [](TypeOK /\ RingInv)
<1>1. TypeOK /\ RingInv /\ [Next]_vars => TypeOK' /\ RingInv'
  <2>. SUFFICES ASSUME TypeOK, RingInv, [Next]_vars PROVE TypeOK' /\ RingInv'
    OBVIOUS
  <2>1. CASE Clear
    BY <2>1, SlotAssumption DEF Clear, TypeOK, RingInv, Copying, Slots
  <2>2. CASE UNCHANGED vars
    BY <2>2 DEF vars, putVars, getVars, TypeOK, RingInv, Copying, Free, Size
  <2>. QED BY <2>1, <2>2, PutInv, GetInv DEF Next
<1>. QED BY <1>1, InitInv, PTL DEF Spec

(* The two contexts never touch one slot at the same time, and neither      *)
(* leaves the array: "writing thread/context" and "reading thread/context"  *)
(* need no lock.                                                            *)
THEOREM RaceFree == Spec => []NoOverlap
<1>1. TypeOK /\ RingInv => NoOverlap
  BY SlotAssumption
  DEF TypeOK, RingInv, NoOverlap, Copying, Slots, Free, Size
<1>. QED BY <1>1, Ring, PTL

-----------------------------------------------------------------------------
(* The k-th of n bytes of the queue is k - 1 slots after r.                 *)
LEMMA BytesValue ==
  ASSUME NEW b \in [Slots -> 0 .. MaxItems], NEW r \in Slots,
         NEW n \in 0 .. N - 1
  PROVE  /\ Bytes(b, r, n) \in Seq(Nat) /\ Len(Bytes(b, r, n)) = n
         /\ \A k \in 1 .. n :
              /\ Inc(r, k - 1) = IF r + k - 1 < N THEN r + k - 1
                                                  ELSE r + k - 1 - N
              /\ Inc(r, k - 1) \in Slots
              /\ Bytes(b, r, n)[k] = b[Inc(r, k - 1)]
<1>1. ASSUME NEW k \in 1 .. n
      PROVE  /\ Inc(r, k - 1) = IF r + k - 1 < N THEN r + k - 1
                                                 ELSE r + k - 1 - N
             /\ Inc(r, k - 1) \in Slots
  <2>1. k - 1 \in 0 .. N
    BY SlotAssumption
  <2>2. Inc(r, k - 1) = IF r + (k - 1) < N THEN r + (k - 1)
                                           ELSE r + (k - 1) - N
    BY <2>1, IncValue
  <2>. QED BY <2>1, <2>2, SlotAssumption DEF Slots
<1>. QED BY <1>1 DEF Bytes

(* Publishing a block appends it to the queue.                              *)
LEMMA PutPublishes ==
  ASSUME TypeOK, RingInv, PutPublish
  PROVE  Stream!Put(putChunk) /\ putChunk \in 1 .. N - 1
<1>. DEFINE block == [k \in 1 .. putChunk |-> item + k - 1]
            before == Bytes(_b, _r, Size)
            after == Bytes(_b, _r, Size + putChunk)
<1>. USE SlotAssumption
<1>0. /\ _b \in [Slots -> 0 .. MaxItems] /\ _r \in Slots /\ _w \in Slots
      /\ Size \in 0 .. N - 1 /\ item \in Nat
  BY FreePlusSize DEF TypeOK
<1>1. /\ putChunk \in 1 .. N - 1 /\ putChunk <= Free /\ _w + putChunk <= N
      /\ \A s \in _w .. _w + putChunk - 1 : _b[s] = item + (s - _w)
  BY FreePlusSize DEF PutPublish, RingInv, Copying, TypeOK
<1>2. _w' = IF _w + putChunk < N THEN _w + putChunk ELSE 0
  <2>1. putChunk \in 0 .. N /\ _w' = Inc(_w, putChunk)
    BY <1>1 DEF PutPublish
  <2>2. Inc(_w, putChunk) = IF _w + putChunk < N THEN _w + putChunk
                                                 ELSE _w + putChunk - N
    BY <1>0, <2>1, IncValue
  <2>. QED BY <1>0, <1>1, <2>1, <2>2 DEF Slots
<1>3. Size + putChunk \in 0 .. N - 1 /\ Size' = Size + putChunk
  BY <1>0, <1>1, <1>2 DEF PutPublish, Slots, Free, Size, getVars
<1>4. block \in Seq(Nat) /\ Len(block) = putChunk
      /\ \A k \in 1 .. putChunk : block[k] = item + k - 1
  BY <1>0, <1>1
<1>5. Contents' = after /\ Contents = before
  BY <1>3 DEF Contents, PutPublish, getVars
<1>6. /\ before \in Seq(Nat) /\ Len(before) = Size
      /\ \A k \in 1 .. Size : before[k] = _b[Inc(_r, k - 1)]
  BY <1>0, BytesValue
<1>7. /\ after \in Seq(Nat) /\ Len(after) = Size + putChunk
      /\ \A k \in 1 .. Size + putChunk :
           /\ Inc(_r, k - 1) = IF _r + k - 1 < N THEN _r + k - 1
                                                 ELSE _r + k - 1 - N
           /\ after[k] = _b[Inc(_r, k - 1)]
  BY <1>0, <1>3, BytesValue
<1>. HIDE DEF before, after, block
<1>8. ASSUME NEW k \in 1 .. Size + putChunk
      PROVE  after[k] = IF k <= Size THEN before[k] ELSE block[k - Size]
  <2>1. CASE k <= Size
    <3>1. k \in 1 .. Size
      BY <1>0, <2>1
    <3>. QED BY <1>6, <1>7, <2>1, <3>1
  <2>2. CASE k > Size
    <3>1. k - Size \in 1 .. putChunk
      BY <1>0, <1>1, <2>2
    <3>2. Inc(_r, k - 1) = _w + (k - Size - 1)
      <4>1. Inc(_r, k - 1) = IF _r + k - 1 < N THEN _r + k - 1
                                                ELSE _r + k - 1 - N
        BY <1>7
      <4>2. Size = IF _w < _r THEN _w - _r + N ELSE _w - _r
        BY <1>0 DEF Slots, Size
      <4>3. CASE _w < _r
        <5>1. _r + k - 1 = _w + (k - Size - 1) + N
          BY <1>0, <4>2, <4>3 DEF Slots
        <5>. QED BY <1>0, <1>1, <3>1, <4>1, <5>1 DEF Slots
      <4>4. CASE ~(_w < _r)
        <5>1. _r + k - 1 = _w + (k - Size - 1)
          BY <1>0, <4>2, <4>4 DEF Slots
        <5>2. _r + k - 1 < N
          BY <1>0, <1>1, <3>1, <5>1 DEF Slots
        <5>. QED BY <4>1, <5>1, <5>2
      <4>. QED BY <4>3, <4>4
    <3>3. _b[_w + (k - Size - 1)] = item + ((_w + (k - Size - 1)) - _w)
      BY <1>0, <1>1, <3>1 DEF Slots
    <3>4. item + ((_w + (k - Size - 1)) - _w) = item + (k - Size) - 1
      BY <1>0, <3>1 DEF Slots
    <3>5. after[k] = item + (k - Size) - 1
      BY <1>7, <3>2, <3>3, <3>4
    <3>6. block[k - Size] = item + (k - Size) - 1
      BY <1>4, <3>1
    <3>7. ~(k <= Size)
      BY <1>0, <2>2
    <3>. QED BY <3>5, <3>6, <3>7
  <2>. QED BY <1>0, <1>1, <2>1, <2>2
<1>9. after = before \o block
  <2>1. /\ before \o block \in Seq(Nat)
        /\ Len(before \o block) = Size + putChunk
        /\ \A k \in 1 .. Size + putChunk :
             (before \o block)[k] = IF k <= Size THEN before[k] ELSE block[k - Size]
    BY <1>4, <1>6, ConcatProperties
  <2>. QED BY <1>7, <1>8, <2>1, SeqEqual
<1>10. Stream!Put(putChunk)
  <2>1. Len(Contents) + putChunk <= N - 1
    BY <1>3, <1>5, <1>6
  <2>2. Contents' = Contents \o [k \in 1 .. putChunk |-> item + k - 1]
    BY <1>5, <1>9 DEF block
  <2>. QED BY <2>1, <2>2 DEF Stream!Put, PutPublish, getVars
<1>. QED BY <1>1, <1>10

(* Publishing what was copied out takes it from the front of the queue.     *)
LEMMA GetPublishes ==
  ASSUME TypeOK, RingInv, GetPublish
  PROVE  Stream!Get(getChunk) /\ getChunk \in 1 .. Len(Contents)
<1>. DEFINE before == Bytes(_b, _r, Size)
            after == Bytes(_b, _r', Size')
            rest == SubSeq(before, getChunk + 1, Size)
            front == SubSeq(before, 1, getChunk)
<1>. USE SlotAssumption
<1>0. /\ _b \in [Slots -> 0 .. MaxItems] /\ _r \in Slots /\ _w \in Slots
      /\ Size \in 0 .. N - 1
  BY FreePlusSize DEF TypeOK
<1>1. /\ getChunk \in 1 .. Size /\ _r + getChunk <= N
      /\ getBuf = [k \in 1 .. getChunk |-> _b[_r + k - 1]]
  BY <1>0 DEF GetPublish, RingInv, Copying, TypeOK
<1>2. _r' = IF _r + getChunk < N THEN _r + getChunk ELSE 0
  <2>1. getChunk \in 0 .. N /\ _r' = Inc(_r, getChunk)
    BY <1>0, <1>1 DEF GetPublish
  <2>2. Inc(_r, getChunk) = IF _r + getChunk < N THEN _r + getChunk
                                                 ELSE _r + getChunk - N
    BY <1>0, <2>1, IncValue
  <2>. QED BY <1>0, <1>1, <2>1, <2>2 DEF Slots
<1>3. /\ Size' = Size - getChunk /\ Size - getChunk \in 0 .. N - 1
      /\ _r' \in Slots
  BY <1>0, <1>1, <1>2 DEF GetPublish, Slots, Size, putVars
<1>4. Contents' = after /\ Contents = before
  BY DEF Contents, GetPublish
<1>5. /\ before \in Seq(Nat) /\ Len(before) = Size
      /\ \A k \in 1 .. Size :
           /\ Inc(_r, k - 1) = IF _r + k - 1 < N THEN _r + k - 1
                                                 ELSE _r + k - 1 - N
           /\ before[k] = _b[Inc(_r, k - 1)]
  BY <1>0, BytesValue
<1>6. /\ after \in Seq(Nat) /\ Len(after) = Size - getChunk
      /\ \A k \in 1 .. Size - getChunk :
           /\ Inc(_r', k - 1) = IF _r' + k - 1 < N THEN _r' + k - 1
                                                   ELSE _r' + k - 1 - N
           /\ after[k] = _b[Inc(_r', k - 1)]
  BY <1>0, <1>3, BytesValue
<1>. HIDE DEF before, after
<1>7. /\ rest \in Seq(Nat) /\ Len(rest) = Size - getChunk
      /\ \A k \in 1 .. Size - getChunk : rest[k] = before[getChunk + k]
  <2>1. \A k \in getChunk + 1 .. Size : before[k] \in Nat
    BY <1>0, <1>1, <1>5
  <2>2. getChunk + 1 \in Int /\ Size \in Int
    BY <1>0, <1>1
  <2>3. /\ rest \in Seq(Nat)
        /\ Len(rest) = IF getChunk + 1 <= Size THEN Size - (getChunk + 1) + 1 ELSE 0
        /\ \A k \in 1 .. Size - (getChunk + 1) + 1 :
             rest[k] = before[getChunk + 1 + k - 1]
    BY <2>1, <2>2, SubSeqProperties
  <2>4. Size - (getChunk + 1) + 1 = Size - getChunk
        /\ (getChunk + 1 <= Size \/ Size - getChunk = 0)
    BY <1>0, <1>1
  <2>5. \A k \in 1 .. Size - getChunk : getChunk + 1 + k - 1 = getChunk + k
    BY <1>0, <1>1
  <2>6. Len(rest) = Size - getChunk
    BY <2>3, <2>4, <1>0, <1>1
  <2>7. \A k \in 1 .. Size - getChunk : rest[k] = before[getChunk + k]
    <3>1. \A k \in 1 .. Size - getChunk : rest[k] = before[getChunk + 1 + k - 1]
      BY <2>3, <2>4
    <3>. QED BY <2>5, <3>1
  <2>. QED BY <2>3, <2>6, <2>7
<1>8. front = getBuf
  <2>1. \A k \in 1 .. getChunk : before[k] \in Nat
    BY <1>0, <1>1, <1>5
  <2>2. /\ front \in Seq(Nat)
        /\ Len(front) = IF 1 <= getChunk THEN getChunk - 1 + 1 ELSE 0
        /\ \A k \in 1 .. getChunk - 1 + 1 : front[k] = before[1 + k - 1]
    BY <1>0, <1>1, <2>1, SubSeqProperties
  <2>3. ASSUME NEW k \in 1 .. getChunk
        PROVE  front[k] = getBuf[k] /\ getBuf[k] \in Nat
    <3>0. k \in 1 .. Size /\ _r + k - 1 < N
      BY <1>0, <1>1 DEF Slots
    <3>1. before[k] = _b[Inc(_r, k - 1)] /\ Inc(_r, k - 1) = _r + k - 1
      BY <1>5, <3>0
    <3>. QED BY <1>0, <1>1, <1>5, <2>2, <3>1
  <2>4. getBuf \in Seq(Nat) /\ Len(getBuf) = getChunk
    BY <1>0, <1>1, LenProperties DEF TypeOK
  <2>5. Len(front) = Len(getBuf) /\ \A k \in 1 .. Len(front) : front[k] = getBuf[k]
    BY <1>0, <1>1, <2>2, <2>3, <2>4
  <2>. QED BY <2>2, <2>4, <2>5, SeqEqual
<1>9. after = rest
  <2>1. ASSUME NEW k \in 1 .. Size - getChunk PROVE after[k] = rest[k]
    <3>1. PICK j \in 1 .. Size : j = getChunk + k
      BY <1>0, <1>1
    <3>2. Inc(_r, j - 1) = IF _r + j - 1 < N THEN _r + j - 1
                                            ELSE _r + j - 1 - N
      BY <1>5
    <3>3. Inc(_r', k - 1) = IF _r' + k - 1 < N THEN _r' + k - 1
                                              ELSE _r' + k - 1 - N
      BY <1>6
    <3>4. Inc(_r', k - 1) = Inc(_r, j - 1)
      <4>1. CASE _r + getChunk < N
        <5>1. _r' + k - 1 = _r + j - 1 /\ _r' + k - 1 - N = _r + j - 1 - N
          BY <1>0, <1>1, <1>2, <3>1, <4>1 DEF Slots
        <5>2. CASE _r + j - 1 < N
          BY <3>2, <3>3, <5>1, <5>2
        <5>3. CASE ~(_r + j - 1 < N)
          BY <3>2, <3>3, <5>1, <5>3
        <5>. QED BY <5>2, <5>3
      <4>2. CASE _r + getChunk = N
        <5>1. _r' + k - 1 = k - 1 /\ k - 1 < N /\ k - 1 \in Nat
          BY <1>0, <1>1, <1>2, <4>2 DEF Slots
        <5>2. _r + j - 1 - N = k - 1 /\ ~(_r + j - 1 < N)
          BY <1>0, <1>1, <3>1, <4>2 DEF Slots
        <5>. QED BY <3>2, <3>3, <5>1, <5>2
      <4>. QED BY <1>0, <1>1, <4>1, <4>2 DEF Slots
    <3>5. after[k] = _b[Inc(_r', k - 1)] /\ rest[k] = before[j]
      BY <1>6, <1>7, <3>1
    <3>. QED BY <1>5, <3>4, <3>5
  <2>2. Len(after) = Len(rest) /\ \A k \in 1 .. Len(after) : after[k] = rest[k]
    BY <1>6, <1>7, <2>1
  <2>. QED BY <1>6, <1>7, <2>2, SeqEqual
<1>. QED BY <1>0, <1>1, <1>4, <1>5, <1>8, <1>9 DEF Stream!Get, GetPublish, putVars

(* The ring implements the bounded queue ByteStream, for every number of    *)
(* slots: what is put comes out once, in order, and a byte is refused only  *)
(* when N - 1 bytes are waiting.                                            *)
THEOREM Implements == Spec => StreamSpec
<1>. USE SlotAssumption
<1>1. Init => Stream!Init
  BY DEF Init, Stream!Init, Contents, Bytes, Size
<1>2. TypeOK /\ RingInv /\ [Next]_vars
        => [Stream!Next]_<<item, Contents, got>>
  <2>. SUFFICES ASSUME TypeOK, RingInv, [Next]_vars
                PROVE  Stream!Next \/ UNCHANGED <<item, Contents, got>>
    OBVIOUS
  <2>0. Size \in 0 .. N - 1 /\ Len(Contents) = Size
    BY FreePlusSize, BytesValue DEF TypeOK, Contents
  <2>1. CASE Clear
    <3>1. Contents' = <<>>
      BY <2>1 DEF Clear, Contents, Bytes, Size
    <3>. QED BY <2>1, <3>1 DEF Clear, Stream!Next, Stream!Clear
  <2>2. CASE PutOneRefused
    <3>1. Size = N - 1
      <4>1. Inc(_w, 1) = IF _w + 1 < N THEN _w + 1 ELSE _w + 1 - N
        BY IncValue DEF TypeOK
      <4>. QED BY <2>2, <4>1 DEF PutOneRefused, TypeOK, Slots, Size
    <3>2. Contents' = Contents
      BY <2>2 DEF PutOneRefused, Contents, Bytes, Size, getVars
    <3>. QED BY <2>0, <2>2, <3>1, <3>2
             DEF PutOneRefused, Stream!Next, Stream!Refuse, getVars
  <2>3. CASE PutPublish
    BY <2>3, PutPublishes DEF Stream!Next
  <2>4. CASE GetPublish
    BY <2>4, GetPublishes DEF Stream!Next
  <2>5. CASE PutCopy
    <3>1. ASSUME NEW k \in 1 .. Size PROVE _b'[Inc(_r, k - 1)] = _b[Inc(_r, k - 1)]
      <4>1. /\ Inc(_r, k - 1) = IF _r + k - 1 < N THEN _r + k - 1
                                                  ELSE _r + k - 1 - N
            /\ Inc(_r, k - 1) \in Slots
        BY <2>0, BytesValue DEF TypeOK
      <4>2. Inc(_r, k - 1) \notin _w .. _w + putChunk - 1
        <5>1. /\ putChunk \in Nat /\ putChunk <= N - 1 - Size
              /\ _w + putChunk <= N /\ _w \in 0 .. N - 1 /\ _r \in 0 .. N - 1
          BY <2>5, FreePlusSize DEF PutCopy, RingInv, Copying, TypeOK, Slots
        <5>2. Size = IF _w < _r THEN _w - _r + N ELSE _w - _r
          BY <5>1 DEF Size
        <5>. QED BY <2>0, <4>1, <5>1, <5>2
      <4>. QED BY <2>5, <4>1, <4>2 DEF PutCopy
    <3>2. Contents' = Contents
      BY <2>5, <3>1 DEF PutCopy, Contents, Bytes, Size, getVars
    <3>. QED BY <2>5, <3>2 DEF PutCopy, getVars
  <2>6. CASE PutOne \/ PutMany \/ PutNoSpace \/ PutSpace
    BY <2>6 DEF PutOne, PutMany, PutNoSpace, PutSpace, Contents, Bytes, Size,
                getVars
  <2>7. CASE GetOne \/ GetMany \/ GetNoData \/ GetData \/ GetCopy
    BY <2>7 DEF GetOne, GetMany, GetNoData, GetData, GetCopy, Contents, Bytes,
                Size, putVars
  <2>8. CASE UNCHANGED vars
    BY <2>8 DEF vars, putVars, getVars, Contents, Bytes, Size
  <2>. QED BY <2>1, <2>2, <2>3, <2>4, <2>5, <2>6, <2>7, <2>8 DEF Next
<1>. QED BY <1>1, <1>2, Ring, PTL DEF Spec, StreamSpec, Stream!Spec
=============================================================================
