------------------------- MODULE BlockCheckProofs -------------------------
(***************************************************************************)
(* Proofs about BlockCheck, for every size of chunk up to 255, every file  *)
(* and every block number.                                                 *)
(*                                                                         *)
(* The argument: a shift of the CRC register can be undone, so registers   *)
(* that differ stay different while both peers shift in the same bits; and *)
(* the eight unequal bits of a complemented character leave exactly the    *)
(* low eight bits of the registers different.  The checksums of the two    *)
(* peers then have an odd difference, because 255 - c and c differ by an   *)
(* odd number, and addition modulo 256 keeps parity.                       *)
(***************************************************************************)
EXTENDS BlockCheck, TLAPS

(* Bits k and above of the two registers agree, those below k do not.       *)
DifferBelow(r, s, k) == \A i \in Bits : ((i \in r) # (i \in s)) <=> i < k

(* The medium has complemented one of the characters dealt with.            *)
InChunk == DATA_POS <= hit /\ hit < DATA_POS + ii

(* What genBlk has yet to add for the padding that the receiver summed.     *)
PendingOf(w, p, i, n) ==
    IF i > n /\ w # "refit" /\ (w = "crc" \/ p = "chunk") THEN CTRL_Z * (i - n) ELSE 0
Pending == PendingOf(way, pc, ii, bytesRd)

CrcsAgree == sndCrc = rcvCrc <=> ~InChunk
SumsAgree ==
    /\ ~InChunk => (sndSum + Pending) % 256 = rcvSum
    /\ InChunk => (sndSum + Pending + rcvSum) % 2 = 1
WholeChunk == pc # "chunk" => ii = CHUNK_SZ
NoVerdictYet == pc # "done" => ~goodBlk1st /\ ~syncLoss

(* The inductive invariant.                                                 *)
BlockInv ==
    /\ TypeOK
    /\ CrcsAgree
    /\ SumsAgree
    /\ WholeChunk
    /\ NoVerdictYet
    /\ DamageDetected
    /\ SyncLossIsReal

-----------------------------------------------------------------------------
(* The register.                                                            *)

(* Complementing a character inverts each of its bits.                      *)
LEMMA ComplementBit ==
    ASSUME NEW c \in 0 .. 255, NEW k \in 0 .. 7
    PROVE  Bit(255 - c, k) <=> ~Bit(c, k)
<1>1. CASE k = 0 BY <1>1 DEF Bit
<1>2. CASE k = 1 BY <1>2 DEF Bit
<1>3. CASE k = 2 BY <1>3 DEF Bit
<1>4. CASE k = 3 BY <1>4 DEF Bit
<1>5. CASE k = 4 BY <1>5 DEF Bit
<1>6. CASE k = 5 BY <1>6 DEF Bit
<1>7. CASE k = 6 BY <1>7 DEF Bit
<1>8. CASE k = 7 BY <1>8 DEF Bit
<1> QED BY <1>1, <1>2, <1>3, <1>4, <1>5, <1>6, <1>7, <1>8

(* updcrc returns a register.                                               *)
LEMMA UpdcrcType ==
    ASSUME NEW c \in 0 .. 255, NEW r \in Register
    PROVE  updcrc(c, r) \in Register
BY DEF updcrc, Shift, Register

(* A shift can be undone: different registers stay different.               *)
LEMMA ShiftKeeps ==
    ASSUME NEW r \in Register, NEW s \in Register, NEW b \in BOOLEAN, r # s
    PROVE  Shift(r, b) # Shift(s, b)
<1>1. PICK i \in Bits : (i \in r) # (i \in s)
  BY DEF Register
<1>2. CASE (15 \in r) # (15 \in s)
  <2>1. (0 \in Shift(r, b)) # (0 \in Shift(s, b))
    BY <1>2 DEF Shift, Bits
  <2> QED BY <2>1
<1>3. CASE (15 \in r) = (15 \in s)
  <2>1. i + 1 \in Bits /\ i + 1 # 0 /\ (i + 1) - 1 = i
    BY <1>1, <1>3 DEF Bits
  <2>2. (i + 1 \in Shift(r, b)) # (i + 1 \in Shift(s, b))
    BY <1>1, <1>3, <2>1 DEF Shift
  <2> QED BY <2>2
<1> QED BY <1>2, <1>3

(* A shift gives a register.                                                *)
LEMMA ShiftType ==
    ASSUME NEW r, NEW b
    PROVE  Shift(r, b) \in Register
BY DEF Shift, Register

(* So do registers that take in the same character.                         *)
LEMMA UpdcrcKeeps ==
    ASSUME NEW c, NEW r \in Register, NEW s \in Register, r # s
    PROVE  updcrc(c, r) # updcrc(c, s)
<1> DEFINE r7 == Shift(r, Bit(c, 7))  s7 == Shift(s, Bit(c, 7))
           r6 == Shift(r7, Bit(c, 6)) s6 == Shift(s7, Bit(c, 6))
           r5 == Shift(r6, Bit(c, 5)) s5 == Shift(s6, Bit(c, 5))
           r4 == Shift(r5, Bit(c, 4)) s4 == Shift(s5, Bit(c, 4))
           r3 == Shift(r4, Bit(c, 3)) s3 == Shift(s4, Bit(c, 3))
           r2 == Shift(r3, Bit(c, 2)) s2 == Shift(s3, Bit(c, 2))
           r1 == Shift(r2, Bit(c, 1)) s1 == Shift(s2, Bit(c, 1))
           r0 == Shift(r1, Bit(c, 0)) s0 == Shift(s1, Bit(c, 0))
<1>0. \A k : Bit(c, k) \in BOOLEAN
  BY DEF Bit
<1>t. /\ r7 \in Register /\ r6 \in Register /\ r5 \in Register /\ r4 \in Register
      /\ r3 \in Register /\ r2 \in Register /\ r1 \in Register
      /\ s7 \in Register /\ s6 \in Register /\ s5 \in Register /\ s4 \in Register
      /\ s3 \in Register /\ s2 \in Register /\ s1 \in Register
  BY ShiftType
<1> USE <1>0, <1>t
<1>7. r7 # s7 BY ShiftKeeps
<1> HIDE DEF r7, s7
<1>6. r6 # s6 BY <1>7, ShiftKeeps
<1> HIDE DEF r6, s6
<1>5. r5 # s5 BY <1>6, ShiftKeeps
<1> HIDE DEF r5, s5
<1>4. r4 # s4 BY <1>5, ShiftKeeps
<1> HIDE DEF r4, s4
<1>3. r3 # s3 BY <1>4, ShiftKeeps
<1> HIDE DEF r3, s3
<1>2. r2 # s2 BY <1>3, ShiftKeeps
<1> HIDE DEF r2, s2
<1>1. r1 # s1 BY <1>2, ShiftKeeps
<1> HIDE DEF r1, s1
<1>8. r0 # s0 BY <1>1, ShiftKeeps
<1> QED BY <1>8 DEF updcrc, r0, s0, r1, s1, r2, s2, r3, s3, r4, s4, r5, s5, r6, s6, r7, s7

(* Two unequal bits shifted in: the difference grows by the lowest bit.     *)
LEMMA ShiftSpreads ==
    ASSUME NEW r, NEW s, NEW a \in BOOLEAN, NEW k \in 0 .. 7, DifferBelow(r, s, k)
    PROVE  DifferBelow(Shift(r, a), Shift(s, ~a), k + 1)
<1> SUFFICES ASSUME NEW i \in Bits
             PROVE  ((i \in Shift(r, a)) # (i \in Shift(s, ~a))) <=> i < k + 1
  BY DEF DifferBelow
<1>1. (15 \in r) = (15 \in s)
  BY DEF DifferBelow, Bits
<1>2. CASE i = 0
  BY <1>1, <1>2 DEF Shift, Bits
<1>3. CASE i # 0
  <2>1. i - 1 \in Bits /\ (i - 1 < k <=> i < k + 1)
    BY <1>3 DEF Bits
  <2>2. ((i - 1 \in r) # (i - 1 \in s)) <=> i < k + 1
    BY <2>1 DEF DifferBelow
  <2> QED BY <1>1, <1>3, <2>2 DEF Shift
<1> QED BY <1>2, <1>3

(* A complemented character on equal registers leaves different ones.       *)
LEMMA UpdcrcDamaged ==
    ASSUME NEW c \in 0 .. 255, NEW r \in Register
    PROVE  updcrc(c, r) # updcrc(255 - c, r)
<1> DEFINE d == 255 - c
           r7 == Shift(r, Bit(c, 7))  s7 == Shift(r, ~Bit(c, 7))
           r6 == Shift(r7, Bit(c, 6)) s6 == Shift(s7, ~Bit(c, 6))
           r5 == Shift(r6, Bit(c, 5)) s5 == Shift(s6, ~Bit(c, 5))
           r4 == Shift(r5, Bit(c, 4)) s4 == Shift(s5, ~Bit(c, 4))
           r3 == Shift(r4, Bit(c, 3)) s3 == Shift(s4, ~Bit(c, 3))
           r2 == Shift(r3, Bit(c, 2)) s2 == Shift(s3, ~Bit(c, 2))
           r1 == Shift(r2, Bit(c, 1)) s1 == Shift(s2, ~Bit(c, 1))
           r0 == Shift(r1, Bit(c, 0)) s0 == Shift(s1, ~Bit(c, 0))
<1>0. /\ \A k : Bit(c, k) \in BOOLEAN
      /\ \A k \in 0 .. 7 : Bit(d, k) = ~Bit(c, k)
  <2>1. \A k : Bit(c, k) \in BOOLEAN /\ Bit(d, k) \in BOOLEAN
    BY DEF Bit
  <2> QED BY <2>1, ComplementBit
<1>a. DifferBelow(r, r, 0)
  BY DEF DifferBelow, Bits
<1>7. DifferBelow(r7, s7, 1) BY <1>0, <1>a, ShiftSpreads
<1> HIDE DEF r7, s7
<1>6. DifferBelow(r6, s6, 2) BY <1>0, <1>7, ShiftSpreads
<1> HIDE DEF r6, s6
<1>5. DifferBelow(r5, s5, 3) BY <1>0, <1>6, ShiftSpreads
<1> HIDE DEF r5, s5
<1>4. DifferBelow(r4, s4, 4) BY <1>0, <1>5, ShiftSpreads
<1> HIDE DEF r4, s4
<1>3. DifferBelow(r3, s3, 5) BY <1>0, <1>4, ShiftSpreads
<1> HIDE DEF r3, s3
<1>2. DifferBelow(r2, s2, 6) BY <1>0, <1>3, ShiftSpreads
<1> HIDE DEF r2, s2
<1>1. DifferBelow(r1, s1, 7) BY <1>0, <1>2, ShiftSpreads
<1> HIDE DEF r1, s1
<1>8. DifferBelow(r0, s0, 8) BY <1>0, <1>1, ShiftSpreads
<1> HIDE DEF r0, s0
<1>9. r0 # s0
  BY <1>8 DEF DifferBelow, Bits
<1>10. updcrc(c, r) = r0
  BY DEF updcrc, r0, r1, r2, r3, r4, r5, r6, r7
<1>11. updcrc(d, r) = s0
  <2> HIDE DEF d
  <2>1. /\ Bit(d, 7) = ~Bit(c, 7) /\ Bit(d, 6) = ~Bit(c, 6) /\ Bit(d, 5) = ~Bit(c, 5)
        /\ Bit(d, 4) = ~Bit(c, 4) /\ Bit(d, 3) = ~Bit(c, 3) /\ Bit(d, 2) = ~Bit(c, 2)
        /\ Bit(d, 1) = ~Bit(c, 1) /\ Bit(d, 0) = ~Bit(c, 0)
    BY <1>0
  <2> QED BY <2>1 DEF updcrc, s0, s1, s2, s3, s4, s5, s6, s7
<1> QED BY <1>9, <1>10, <1>11

(* The two zero characters at the end keep both equality and difference.    *)
LEMMA AugmentedKeeps ==
    ASSUME NEW r \in Register, NEW s \in Register
    PROVE  Augmented(r) = Augmented(s) <=> r = s
<1>1. updcrc(0, r) \in Register /\ updcrc(0, s) \in Register
  BY UpdcrcType
<1> QED BY <1>1, UpdcrcKeeps DEF Augmented

-----------------------------------------------------------------------------
(* The checksum.                                                            *)

(* += on a uint8_t is addition modulo 256, and keeps parity.                *)
LEMMA PlusMod ==
    ASSUME NEW a \in Int, NEW b \in Int
    PROVE  /\ Plus(a, b) \in 0 .. 255
           /\ Plus(a, b) % 2 = (a + b) % 2
BY DEF Plus

(* The padding still to be summed is a number.                              *)
LEMMA PendingType ==
    ASSUME NEW w, NEW p, NEW i \in Nat, NEW n \in Nat
    PROVE  PendingOf(w, p, i, n) \in Int
BY DEF PendingOf, CTRL_Z

(* Sums of numbers of equal parity have equal parity.                       *)
LEMMA Parity ==
    ASSUME NEW x \in Int, NEW y \in Int, NEW u \in Int, NEW v \in Int,
           x % 2 = y % 2, u % 2 = v % 2
    PROVE  (x + u) % 2 = (y + v) % 2
OBVIOUS

-----------------------------------------------------------------------------
(* The invariant.                                                           *)

(* The invariant holds before the first character.                          *)
LEMMA InitInv == Init => BlockInv
<1> SUFFICES ASSUME Init PROVE BlockInv
  OBVIOUS
<1> USE BlockAssumption
<1>1. TypeOK
  <2>1. LastPos(way) \in Nat
    BY DEF LastPos, PAST_CHUNK, DATA_POS
  <2>2. hit \in 0 .. LastPos(way)
    BY <2>1 DEF Init
  <2>3. blkNum \in 0 .. 255 /\ numLastGoodBlk \in 0 .. 255 /\ ii \in 0 .. CHUNK_SZ
    BY DEF Init
  <2>4. sndCrc \in Register /\ rcvCrc \in Register
    BY DEF Init, Register
  <2>5. goodBlk \in BOOLEAN /\ goodBlk1st \in BOOLEAN /\ syncLoss \in BOOLEAN
    BY DEF Init
  <2>6. sndSum \in 0 .. 255 /\ rcvSum \in 0 .. 255
    BY DEF Init
  <2>7. /\ way \in {"crc", "sum", "refit"} /\ pc \in {"chunk", "check", "done"}
        /\ bytesRd \in 1 .. CHUNK_SZ /\ firstBlock \in BOOLEAN
    BY DEF Init
  <2> HIDE BlockAssumption
  <2> QED BY <2>2, <2>3, <2>4, <2>5, <2>6, <2>7 DEF TypeOK
<1>2. ~InChunk /\ Pending = 0
  BY DEF Init, InChunk, Pending, PendingOf, DATA_POS, LastPos, PAST_CHUNK
<1>3. CrcsAgree /\ SumsAgree
  BY <1>2 DEF Init, CrcsAgree, SumsAgree
<1>4. WholeChunk /\ NoVerdictYet /\ DamageDetected /\ SyncLossIsReal
  BY DEF Init, WholeChunk, NoVerdictYet, DamageDetected, SyncLossIsReal
<1> QED BY <1>1, <1>3, <1>4 DEF BlockInv

(* One character into both CRCs and both checksums.                         *)
LEMMA NextCharStep == BlockInv /\ NextChar => BlockInv'
<1> SUFFICES ASSUME BlockInv, NextChar PROVE BlockInv'
  OBVIOUS
<1> USE BlockAssumption
<1>0. TypeOK /\ CrcsAgree /\ SumsAgree /\ NoVerdictYet
  BY DEF BlockInv
<1>1. PICK c \in IF ii < bytesRd THEN Chars ELSE {CTRL_Z} :
        LET r == Received(DATA_POS + ii, c)
        IN  /\ sndCrc' = updcrc(c, sndCrc)
            /\ rcvCrc' = updcrc(r, rcvCrc)
            /\ sndSum' = IF Summed THEN Plus(sndSum, c) ELSE sndSum
            /\ rcvSum' = Plus(rcvSum, r)
  BY DEF NextChar
<1> DEFINE r == Received(DATA_POS + ii, c)
<1>2. /\ pc = "chunk" /\ ii < CHUNK_SZ /\ ii' = ii + 1
      /\ UNCHANGED <<block, pc, verdict>>
  BY DEF NextChar
<1>3. c \in 0 .. 255 /\ (ii >= bytesRd => c = CTRL_Z)
  BY <1>0 DEF TypeOK, CTRL_Z
<1>4. /\ r \in 0 .. 255
      /\ hit = DATA_POS + ii => r = 255 - c
      /\ hit # DATA_POS + ii => r = c
  BY <1>3 DEF Received
<1> HIDE DEF r
<1>5. TypeOK'
  <2>1. sndCrc' \in Register /\ rcvCrc' \in Register
    BY <1>0, <1>1, <1>3, <1>4, UpdcrcType DEF TypeOK, r
  <2>2. sndSum' \in 0 .. 255 /\ rcvSum' \in 0 .. 255
    <3>1. sndSum \in Int /\ rcvSum \in Int /\ c \in Int /\ r \in Int
      BY <1>0, <1>3, <1>4 DEF TypeOK
    <3>2. Plus(sndSum, c) \in 0 .. 255 /\ Plus(rcvSum, r) \in 0 .. 255
      BY <3>1, PlusMod
    <3>3. (sndSum' = Plus(sndSum, c) \/ sndSum' = sndSum) /\ rcvSum' = Plus(rcvSum, r)
      BY <1>1 DEF r
    <3> QED BY <1>0, <3>2, <3>3 DEF TypeOK
  <2>3. ii' \in 0 .. CHUNK_SZ
    BY <1>0, <1>2 DEF TypeOK
  <2> QED BY <1>0, <1>2, <2>1, <2>2, <2>3 DEF TypeOK, block, verdict, LastPos, PAST_CHUNK
<1>6. InChunk' <=> InChunk \/ hit = DATA_POS + ii
  BY <1>0, <1>2 DEF InChunk, TypeOK, block, DATA_POS, LastPos, PAST_CHUNK
<1>7. ~(InChunk /\ hit = DATA_POS + ii)
  BY <1>0 DEF InChunk, TypeOK, DATA_POS
<1>8. CrcsAgree'
  <2>0. sndCrc' = updcrc(c, sndCrc) /\ rcvCrc' = updcrc(r, rcvCrc)
    BY <1>1 DEF r
  <2>t. sndCrc \in Register /\ rcvCrc \in Register
    BY <1>0 DEF TypeOK
  <2>1. CASE hit = DATA_POS + ii
    BY <1>0, <1>3, <1>4, <1>6, <1>7, <2>0, <2>1, <2>t, UpdcrcDamaged DEF CrcsAgree
  <2>2. CASE hit # DATA_POS + ii
    BY <1>0, <1>4, <1>6, <2>0, <2>2, <2>t, UpdcrcKeeps DEF CrcsAgree
  <2> QED BY <2>1, <2>2
<1>9. SumsAgree'
  <2> DEFINE p == Pending
             q == PendingOf(way, "chunk", ii + 1, bytesRd)
  <2>0. /\ sndSum' = IF Summed THEN Plus(sndSum, c) ELSE sndSum
        /\ rcvSum' = Plus(rcvSum, r)
    BY <1>1 DEF r
  <2>t. /\ sndSum \in Nat /\ rcvSum \in Nat /\ rcvSum < 256
        /\ ii \in Nat /\ bytesRd \in Nat /\ c \in Nat /\ c < 256 /\ r \in Nat
    BY <1>0, <1>3, <1>4 DEF TypeOK
  <2>p. p \in Int /\ q \in Int
    BY <2>t, PendingType DEF Pending
  <2>q. Pending' = q
    BY <1>2 DEF Pending, block
  <2>1. sndSum' + q = Plus(sndSum, c) + p \/ (sndSum' = sndSum /\ q = p + c)
    <3>1. CASE Summed
      BY <1>2, <2>0, <2>t, <3>1 DEF Summed, Pending, PendingOf
    <3>2. CASE ~Summed
      <4>1. way # "refit" /\ ii >= bytesRd /\ c = 26 /\ sndSum' = sndSum
        BY <1>3, <2>0, <2>t, <3>2 DEF Summed, CTRL_Z
      <4>2. p = 26 * (ii - bytesRd)
        BY <1>2, <2>t, <4>1 DEF Pending, PendingOf, CTRL_Z
      <4>3. q = 26 * (ii + 1 - bytesRd)
        BY <2>t, <4>1 DEF PendingOf, CTRL_Z
      <4> QED BY <2>t, <4>1, <4>2, <4>3
    <3> QED BY <3>1, <3>2
  <2>s. sndSum' \in Int /\ rcvSum' \in Int
    BY <1>5 DEF TypeOK
  <2>o. p = Pending
    OBVIOUS
  <2> HIDE DEF p, q
  <2>2. /\ (sndSum' + q) % 256 = (sndSum + c + p) % 256
        /\ (sndSum' + q) % 2 = (sndSum + c + p) % 2
    <3>1. /\ (Plus(sndSum, c) + p) % 256 = (sndSum + c + p) % 256
          /\ (Plus(sndSum, c) + p) % 2 = (sndSum + c + p) % 2
      BY <2>p, <2>t DEF Plus
    <3>2. q = p + c => sndSum + q = sndSum + c + p
      BY <2>p, <2>t
    <3> QED BY <2>1, <3>1, <3>2
  <2>3. CASE ~InChunk'
    <3>1. (sndSum + p) % 256 = rcvSum /\ r = c
      BY <1>0, <1>4, <1>6, <2>3, <2>o DEF SumsAgree
    <3>2. (sndSum + c + p) % 256 = (rcvSum + c) % 256
      BY <2>p, <2>t, <3>1
    <3> QED BY <2>0, <2>2, <2>3, <2>q, <3>1, <3>2 DEF SumsAgree, Plus
  <2>4. CASE InChunk'
    <3>1. rcvSum' % 2 = (rcvSum + r) % 2
      BY <2>0, <2>t, PlusMod
    <3>2. (sndSum + c + p + (rcvSum + r)) % 2 = 1
      <4>1. CASE hit = DATA_POS + ii
        <5>1. (sndSum + p) % 256 = rcvSum /\ r = 255 - c
          BY <1>0, <1>4, <1>7, <2>o, <4>1 DEF SumsAgree
        <5> QED BY <2>p, <2>t, <5>1
      <4>2. CASE hit # DATA_POS + ii
        <5>1. (sndSum + p + rcvSum) % 2 = 1 /\ r = c
          BY <1>0, <1>4, <1>6, <2>4, <2>o, <4>2 DEF SumsAgree
        <5> QED BY <2>p, <2>t, <5>1
      <4> QED BY <4>1, <4>2
    <3>3. (sndSum' + q + rcvSum') % 2 = 1
      <4>1. /\ sndSum' + q \in Int /\ sndSum + c + p \in Int /\ rcvSum + r \in Int
        BY <2>p, <2>t, <2>s
      <4>2. ((sndSum' + q) + rcvSum') % 2 = ((sndSum + c + p) + (rcvSum + r)) % 2
        BY <2>2, <2>s, <3>1, <4>1, Parity
      <4> QED BY <2>p, <2>t, <2>s, <3>2, <4>2
    <3> QED BY <2>4, <2>q, <3>3 DEF SumsAgree
  <2> QED BY <2>3, <2>4
<1>10. WholeChunk' /\ NoVerdictYet' /\ DamageDetected' /\ SyncLossIsReal'
  BY <1>0, <1>2 DEF WholeChunk, NoVerdictYet, DamageDetected, SyncLossIsReal, verdict
<1> QED BY <1>5, <1>8, <1>9, <1>10 DEF BlockInv

(* The end of both CRCs, and genBlk's sum for its padding.                  *)
LEMMA EndChunkStep == BlockInv /\ EndChunk => BlockInv'
<1> SUFFICES ASSUME BlockInv, EndChunk PROVE BlockInv'
  OBVIOUS
<1> USE BlockAssumption
<1>0. TypeOK /\ CrcsAgree /\ SumsAgree /\ NoVerdictYet
  BY DEF BlockInv
<1>1. /\ pc = "chunk" /\ pc' = "check" /\ ii = CHUNK_SZ
      /\ UNCHANGED <<block, ii, rcvSum, verdict>>
  BY DEF EndChunk
<1>2. sndCrc \in Register /\ rcvCrc \in Register
  BY <1>0 DEF TypeOK
<1>3. /\ sndSum \in 0 .. 255 /\ rcvSum \in 0 .. 255 /\ bytesRd \in 1 .. CHUNK_SZ
  BY <1>0 DEF TypeOK
<1> DEFINE p == Pending
           q == PendingOf(way, "check", ii, bytesRd)
<1>q. Pending' = q /\ Pending = p
  BY <1>1 DEF Pending, block
<1>4. PadSum \in Int /\ p \in Int /\ q \in Int /\ p = PadSum + q
  <2>1. way \in {"crc", "sum", "refit"}
    BY <1>0 DEF TypeOK
  <2>2. ii \in Nat /\ bytesRd \in Nat
    BY <1>0 DEF TypeOK
  <2> QED BY <1>1, <1>3, <2>1, <2>2, PendingType DEF PadSum, Pending, PendingOf, CTRL_Z
<1> HIDE DEF p, q
<1>a. /\ sndSum \in Int /\ rcvSum \in Int
      /\ sndSum' = Plus(sndSum, PadSum)
  BY <1>3 DEF EndChunk
<1>b. /\ sndSum' \in 0 .. 255 /\ sndSum' \in Int
      /\ (sndSum' + q) % 256 = (sndSum + PadSum + q) % 256
      /\ (sndSum' + q) % 2 = (sndSum + PadSum + q) % 2
  <2>1. Plus(sndSum, PadSum) \in 0 .. 255
    BY <1>4, <1>a, PlusMod
  <2>2. /\ (Plus(sndSum, PadSum) + q) % 256 = (sndSum + PadSum + q) % 256
        /\ (Plus(sndSum, PadSum) + q) % 2 = (sndSum + PadSum + q) % 2
    BY <1>4, <1>a DEF Plus
  <2> QED BY <1>a, <2>1, <2>2
<1>5. TypeOK'
  <2>1. sndCrc' \in Register /\ rcvCrc' \in Register
    BY <1>2, UpdcrcType DEF EndChunk, Augmented
  <2>2. sndSum' \in 0 .. 255
    BY <1>b
  <2> QED BY <1>0, <1>1, <2>1, <2>2 DEF TypeOK, block, verdict, LastPos, PAST_CHUNK
<1>6. InChunk' <=> InChunk
  BY <1>1 DEF InChunk, block
<1>7. CrcsAgree'
  BY <1>0, <1>2, <1>6, AugmentedKeeps DEF EndChunk, CrcsAgree
<1>8. SumsAgree'
  <2>1. sndSum + p = sndSum + PadSum + q
    BY <1>4, <1>a
  <2>2. (sndSum' + q + rcvSum) % 2 = (sndSum + p + rcvSum) % 2
    <3>1. sndSum' + q \in Int /\ sndSum + PadSum + q \in Int
      BY <1>4, <1>a, <1>b
    <3> QED BY <1>a, <1>b, <2>1, <3>1, Parity
  <2>3. rcvSum' = rcvSum
    BY <1>1
  <2>4. CASE InChunk
    BY <1>0, <1>6, <1>q, <2>2, <2>3, <2>4 DEF SumsAgree
  <2>5. CASE ~InChunk
    BY <1>0, <1>6, <1>b, <1>q, <2>1, <2>3, <2>5 DEF SumsAgree
  <2> QED BY <2>4, <2>5
<1>9. WholeChunk' /\ NoVerdictYet' /\ DamageDetected' /\ SyncLossIsReal'
  BY <1>0, <1>1 DEF WholeChunk, NoVerdictYet, DamageDetected, SyncLossIsReal, verdict
<1> QED BY <1>5, <1>7, <1>8, <1>9 DEF BlockInv

-----------------------------------------------------------------------------
(* The verdict.                                                             *)

(* What the sender appended is what the receiver computes, or not, as the   *)
(* medium has left the chunk and the check alone or has not.                *)
LEMMA CheckExact ==
    ASSUME TypeOK, CrcsAgree, SumsAgree, WholeChunk, pc = "check",
           hit \notin {1, 2}
    PROVE  CheckOk <=> hit = 0
<1> USE BlockAssumption
<1>0. PAST_CHUNK \in Nat /\ PAST_CHUNK > 3 /\ DATA_POS = 3
  BY DEF PAST_CHUNK, DATA_POS
<1>1. InChunk <=> DATA_POS <= hit /\ hit < PAST_CHUNK
  BY DEF InChunk, WholeChunk, PAST_CHUNK
<1>2. /\ hit \in Nat /\ way \in {"crc", "sum", "refit"}
      /\ hit <= PAST_CHUNK + 1 /\ (way # "crc" => hit <= PAST_CHUNK)
  <2>1. PAST_CHUNK \in Nat /\ LastPos(way) \in Nat
    BY DEF PAST_CHUNK, DATA_POS, LastPos
  <2> QED BY <2>1 DEF TypeOK, LastPos
<1>3. CASE way = "crc"
  <2>1. sndCrc \in Register /\ rcvCrc \in Register
    BY DEF TypeOK
  <2>2. CASE hit < PAST_CHUNK
    <3>1. CrcReceived = sndCrc
      BY <1>2, <2>1, <2>2 DEF CrcReceived, Register, PAST_CHUNK, DATA_POS
    <3> QED BY <1>1, <1>2, <1>3, <2>2, <3>1 DEF CheckOk, CrcsAgree, DATA_POS
  <2>3. CASE hit = PAST_CHUNK
    <3>1. sndCrc = rcvCrc
      BY <1>0, <1>1, <2>3 DEF CrcsAgree
    <3>2. (15 \in CrcReceived) # (15 \in sndCrc)
      BY <2>3 DEF CrcReceived, Bits
    <3> QED BY <1>3, <2>3, <3>1, <3>2 DEF CheckOk, PAST_CHUNK, DATA_POS
  <2>4. CASE hit = PAST_CHUNK + 1
    <3>1. sndCrc = rcvCrc
      BY <1>0, <1>1, <2>4 DEF CrcsAgree
    <3>2. (0 \in CrcReceived) # (0 \in sndCrc)
      BY <2>4 DEF CrcReceived, Bits
    <3> QED BY <1>3, <2>4, <3>1, <3>2 DEF CheckOk, PAST_CHUNK, DATA_POS
  <2> QED BY <1>2, <2>2, <2>3, <2>4 DEF PAST_CHUNK, DATA_POS
<1>4. CASE way # "crc"
  <2>1. /\ sndSum \in 0 .. 255 /\ rcvSum \in 0 .. 255
        /\ ii = CHUNK_SZ /\ bytesRd \in 1 .. CHUNK_SZ
    BY DEF TypeOK, WholeChunk
  <2>2. Pending = 0
    BY <1>2, <1>4, <2>1 DEF Pending, PendingOf
  <2>3. CASE hit = 0
    <3>1. sndSum % 256 = rcvSum
      BY <1>0, <1>1, <2>1, <2>2, <2>3 DEF SumsAgree
    <3>2. PAST_CHUNK # hit /\ sndSum = rcvSum
      <4>1. sndSum \in Int /\ 0 <= sndSum /\ sndSum < 256
        BY <2>1
      <4>2. sndSum = rcvSum
        BY <3>1, <4>1
      <4> QED BY <1>0, <2>3, <4>2
    <3> QED BY <1>4, <2>3, <3>2 DEF CheckOk, Received
  <2>4. CASE InChunk
    <3>1. (sndSum + rcvSum) % 2 = 1
      BY <2>1, <2>2, <2>4 DEF SumsAgree
    <3> QED BY <1>0, <1>1, <1>2, <1>4, <2>1, <2>4, <3>1 DEF CheckOk, Received
  <2>5. CASE hit = PAST_CHUNK
    <3>1. sndSum % 256 = rcvSum
      BY <1>0, <1>1, <2>1, <2>2, <2>5 DEF SumsAgree
    <3> QED BY <1>0, <1>4, <2>1, <2>5, <3>1 DEF CheckOk, Received
  <2> QED BY <1>1, <1>2, <1>4, <2>3, <2>4, <2>5 DEF PAST_CHUNK, DATA_POS
<1> QED BY <1>3, <1>4

(* A damaged number or complement does not match the other.                 *)
LEMMA NumsExact ==
    ASSUME TypeOK
    PROVE  /\ blkNumsOk <=> hit \notin {1, 2}
           /\ hit # 1 => rcvNum = nextBlkNum
           /\ rcvNum \in 0 .. 255
<1>1. nextBlkNum \in 0 .. 255
  BY DEF TypeOK, nextBlkNum
<1> QED BY <1>1 DEF blkNumsOk, rcvNum, rcvComp, Received

(* The verdict of the receiver.                                             *)
LEMMA GetRestBlkStep == BlockInv /\ getRestBlk => BlockInv'
<1> SUFFICES ASSUME BlockInv, getRestBlk PROVE BlockInv'
  OBVIOUS
<1>0. TypeOK /\ CrcsAgree /\ SumsAgree /\ WholeChunk
  BY DEF BlockInv
<1>1. /\ pc = "check" /\ pc' = "done"
      /\ UNCHANGED <<way, bytesRd, blkNum, hit, ii, sndCrc, sndSum, rcvCrc, rcvSum>>
  BY DEF getRestBlk
<1>2. /\ blkNumsOk <=> hit \notin {1, 2}
      /\ hit # 1 => rcvNum = nextBlkNum
      /\ rcvNum \in 0 .. 255
  BY <1>0, NumsExact
<1>3. hit \notin {1, 2} => (CheckOk <=> hit = 0)
  BY <1>0, <1>1, CheckExact
<1>4. TypeOK'
  <2>1. /\ goodBlk' \in BOOLEAN /\ goodBlk1st' \in BOOLEAN /\ syncLoss' \in BOOLEAN
        /\ firstBlock' \in BOOLEAN /\ numLastGoodBlk' \in 0 .. 255
    BY <1>0, <1>2 DEF getRestBlk, TypeOK, CheckOk
  <2> QED BY <1>0, <1>1, <2>1 DEF TypeOK, LastPos, PAST_CHUNK
<1>5. CrcsAgree'
  BY <1>0, <1>1 DEF CrcsAgree, InChunk
<1>6. SumsAgree'
  <2>1. UNCHANGED <<InChunk, sndSum, rcvSum>>
    BY <1>1 DEF InChunk
  <2>2. Pending' = Pending
    <3>1. way \in {"crc", "sum", "refit"}
      BY <1>0 DEF TypeOK
    <3> QED BY <1>1, <3>1 DEF Pending, PendingOf
  <2> QED BY <1>0, <2>1, <2>2 DEF SumsAgree
<1>7. WholeChunk' /\ NoVerdictYet'
  BY <1>0, <1>1 DEF WholeChunk, NoVerdictYet
<1>8. DamageDetected'
  BY <1>1, <1>2, <1>3 DEF DamageDetected, getRestBlk
<1>9. SyncLossIsReal'
  BY <1>1, <1>2 DEF SyncLossIsReal, getRestBlk, newExpectedBlk, nextBlkNum
<1> QED BY <1>4, <1>5, <1>6, <1>7, <1>8, <1>9 DEF BlockInv

-----------------------------------------------------------------------------
(* BlockInv holds in every reachable state.                                 *)
THEOREM BlockInvariant == Spec => []BlockInv
<1>1. BlockInv /\ [Next]_vars => BlockInv'
  <2> SUFFICES ASSUME BlockInv, [Next]_vars PROVE BlockInv'
    OBVIOUS
  <2>1. CASE NextChar BY <2>1, NextCharStep
  <2>2. CASE EndChunk BY <2>2, EndChunkStep
  <2>3. CASE getRestBlk BY <2>3, GetRestBlkStep
  <2>4. CASE UNCHANGED vars
    BY <2>4 DEF vars, BlockInv, TypeOK, CrcsAgree, SumsAgree, WholeChunk, NoVerdictYet,
                DamageDetected, SyncLossIsReal, InChunk, Pending, nextBlkNum
  <2> QED BY <2>1, <2>2, <2>3, <2>4 DEF Next, Done
<1> QED BY <1>1, InitInv, PTL DEF Spec

(* One complemented character, anywhere in the block, is always noticed.    *)
THEOREM DamageSafe == Spec => []DamageDetected
BY BlockInvariant, PTL DEF BlockInv

(* An intact block with the expected number is always accepted: the padded  *)
(* checksum of genBlk, that of cs1stBlk and the CRC are the receiver's.     *)
THEOREM IntactSafe == Spec => []IntactAccepted
<1>1. BlockInv => IntactAccepted
  <2> SUFFICES ASSUME BlockInv, pc = "check", hit = 0,
                      nextBlkNum = (numLastGoodBlk + 1) % 256
               PROVE  blkNumsOk /\ newExpectedBlk /\ CheckOk
    BY DEF IntactAccepted
  <2> QED BY CheckExact, NumsExact DEF BlockInv, newExpectedBlk
<1> QED BY <1>1, BlockInvariant, PTL

(* Damage is never taken for a loss of synchronization.                     *)
THEOREM SyncLossSafe == Spec => []SyncLossIsReal
BY BlockInvariant, PTL DEF BlockInv

(* Types: sums and numbers stay in a uint8_t, the CRC in 16 bits.           *)
THEOREM BlockTypeCorrect == Spec => []TypeOK
BY BlockInvariant, PTL DEF BlockInv
=============================================================================
