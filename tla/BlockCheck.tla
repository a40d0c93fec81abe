---------------------------- MODULE BlockCheck ----------------------------
(***************************************************************************)
(* One block from SenderX::genBlk to ReceiverX::getRestBlk with the        *)
(* arithmetic of its number, CRC and checksum (PeerX.cpp), over a medium   *)
(* that complements at most one of its characters (Medium.cpp).  The loops *)
(* of the two peers over the chunk run in step here, one character in each *)
(* action.  The module Transfer takes a damaged character for one that is  *)
(* noticed: this one shows why it may.                                     *)
(***************************************************************************)
EXTENDS Integers

CONSTANTS
    CHUNK_SZ,    \* 128 in the program
    Chars,       \* the characters that a file may have
    Nums         \* the values of blkNum and numLastGoodBlk to consider

ASSUME BlockAssumption ==
    /\ CHUNK_SZ \in 1 .. 255
    /\ Chars \subseteq 0 .. 255
    /\ Nums \subseteq 0 .. 255

CTRL_Z     == 26
DATA_POS   == 3
PAST_CHUNK == DATA_POS + CHUNK_SZ

(* The last position of a block: two characters of CRC, one of checksum.    *)
LastPos(w) == IF w = "crc" THEN PAST_CHUNK + 1 ELSE PAST_CHUNK

-----------------------------------------------------------------------------
(* The CRC register, as the set of its bits that are 1: the low 16 bits of  *)
(* an unsigned int, which are all that updcrc returns.                      *)
Bits     == 0 .. 15
Register == SUBSET Bits

Bit(c, k) ==    \* bit k of a character, by its weight
    LET w == <<1, 2, 4, 8, 16, 32, 64, 128>>[k + 1]
    IN  (c \div w) % 2 = 1

(* crc <<= 1, plus the next bit of c, and ^= 0x1021 if a bit fell out.      *)
Shift(crc, b) ==
    {i \in Bits : (IF i = 0 THEN b ELSE i - 1 \in crc)
                     # (15 \in crc /\ i \in {0, 5, 12})}

updcrc(c, crc) ==
    LET r7 == Shift(crc, Bit(c, 7))
        r6 == Shift(r7, Bit(c, 6))
        r5 == Shift(r6, Bit(c, 5))
        r4 == Shift(r5, Bit(c, 4))
        r3 == Shift(r4, Bit(c, 3))
        r2 == Shift(r3, Bit(c, 2))
        r1 == Shift(r2, Bit(c, 1))
    IN  Shift(r1, Bit(c, 0))

(* += on a uint8_t.                                                         *)
PlusWide(a, b) == a + b    \* into an int
Plus(a, b) == (a + b) % 256

(* The end of crc16ns: two characters of zero.                              *)
Augmented(crc) == updcrc(0, updcrc(0, crc))

-----------------------------------------------------------------------------
VARIABLES
    way,         \* "crc"; "sum": genBlk's checksum; "refit": cs1stBlk's
    bytesRd,     \* what genBlk read from the file
    blkNum,      \* of the sender, before this block
    numLastGoodBlk, firstBlock,    \* of the receiver
    hit,         \* the position that the medium complements, 0 for none
    pc,          \* "chunk", "check" or "done"
    ii,          \* characters of the chunk dealt with
    sndCrc, sndSum,                \* of the chunk as it was sent ...
    rcvCrc, rcvSum,                \* ... and as it was received
    goodBlk, goodBlk1st, syncLoss  \* the verdict of getRestBlk

vars == <<way, bytesRd, blkNum, numLastGoodBlk, firstBlock, hit, pc, ii,
          sndCrc, sndSum, rcvCrc, rcvSum, goodBlk, goodBlk1st, syncLoss>>

block   == <<way, bytesRd, blkNum, numLastGoodBlk, firstBlock, hit>>
verdict == <<goodBlk, goodBlk1st, syncLoss>>

Init ==
    /\ way \in {"crc", "sum", "refit"}
    /\ bytesRd \in 1 .. CHUNK_SZ
    /\ blkNum \in Nums /\ numLastGoodBlk \in Nums
    /\ firstBlock \in BOOLEAN
    /\ hit \in {0} \cup 1 .. LastPos(way)
    /\ pc = "chunk" /\ ii = 0
    /\ sndCrc = {} /\ rcvCrc = {}
    /\ sndSum = 0 /\ rcvSum = 0
    /\ goodBlk = FALSE /\ goodBlk1st = FALSE /\ syncLoss = FALSE

(* What the medium makes of character c at position p.                      *)
Received(p, c) == IF p = hit THEN 255 - c ELSE c

(* genBlk sums what it read and leaves the padding for later; checksum(),   *)
(* by which cs1stBlk refits the first block, goes over the whole chunk.     *)
Summed == way = "refit" \/ ii < bytesRd

NextChar ==
    /\ pc = "chunk" /\ ii < CHUNK_SZ
    /\ \E c \in IF ii < bytesRd THEN Chars ELSE {CTRL_Z} :
         LET r == Received(DATA_POS + ii, c)
         IN  /\ sndCrc' = updcrc(c, sndCrc)
             /\ rcvCrc' = updcrc(r, rcvCrc)
             /\ sndSum' = IF Summed THEN Plus(sndSum, c) ELSE sndSum
             /\ rcvSum' = Plus(rcvSum, r)
    /\ ii' = ii + 1
    /\ UNCHANGED <<block, pc, verdict>>

(* blkBuf[PAST_CHUNK] += CTRL_Z * padSize, in a uint8_t.                    *)
PadSumTwice == CTRL_Z * (CHUNK_SZ - bytesRd)    \* cs1stBlk adding it as well
PadSum == IF way = "sum" THEN CTRL_Z * (CHUNK_SZ - bytesRd) ELSE 0

EndChunk ==
    /\ pc = "chunk" /\ ii = CHUNK_SZ
    /\ sndCrc' = Augmented(sndCrc)
    /\ rcvCrc' = Augmented(rcvCrc)
    /\ sndSum' = Plus(sndSum, PadSum)
    /\ pc' = "check"
    /\ UNCHANGED <<block, ii, rcvSum, verdict>>

-----------------------------------------------------------------------------
nextBlkNum == (blkNum + 1) % 256

(* rcvBlk[1] and rcvBlk[2]; the sender wrote nextBlkNum and ~nextBlkNum.    *)
rcvNum  == Received(1, nextBlkNum)
rcvComp == Received(2, 255 - nextBlkNum)

NumsUnchecked == rcvNum \in 0 .. 255    \* the comparison forgotten
blkNumsOk == rcvComp = 255 - rcvNum

newExpectedBlk == rcvNum = (numLastGoodBlk + 1) % 256

(* The two characters after the chunk are the CRC in network byte order.    *)
CrcReceived ==
    {i \in Bits : (i \in sndCrc) # (hit = IF i >= 8 THEN PAST_CHUNK ELSE PAST_CHUNK + 1)}

HighByteOk ==    \* one character of the CRC compared
    IF way = "crc" THEN CrcReceived \cap 8 .. 15 = rcvCrc \cap 8 .. 15
                   ELSE Received(PAST_CHUNK, sndSum) = rcvSum
CheckOk ==
    IF way = "crc" THEN CrcReceived = rcvCrc ELSE Received(PAST_CHUNK, sndSum) = rcvSum

getRestBlk ==
    /\ pc = "check"
    /\ pc' = "done"
    /\ \/ /\ ~blkNumsOk
          /\ goodBlk' = FALSE /\ goodBlk1st' = FALSE /\ syncLoss' = FALSE
       \/ /\ blkNumsOk /\ ~newExpectedBlk
          /\ goodBlk1st' = FALSE
          /\ syncLoss' = (firstBlock \/ rcvNum # numLastGoodBlk)
          /\ goodBlk' = ~syncLoss'
       \/ /\ blkNumsOk /\ newExpectedBlk
          /\ syncLoss' = FALSE
          /\ goodBlk1st' = CheckOk
          /\ goodBlk' = CheckOk
    /\ numLastGoodBlk' = IF goodBlk1st' THEN rcvNum ELSE numLastGoodBlk
    /\ firstBlock' = (firstBlock /\ ~goodBlk1st')
    /\ UNCHANGED <<way, bytesRd, blkNum, hit, ii, sndCrc, sndSum, rcvCrc, rcvSum>>

Done == pc = "done" /\ UNCHANGED vars

Next == NextChar \/ EndChunk \/ getRestBlk \/ Done

Spec == Init /\ [][Next]_vars

-----------------------------------------------------------------------------
TypeOK ==
    /\ way \in {"crc", "sum", "refit"}
    /\ bytesRd \in 1 .. CHUNK_SZ
    /\ blkNum \in 0 .. 255 /\ numLastGoodBlk \in 0 .. 255
    /\ firstBlock \in BOOLEAN
    /\ hit \in 0 .. LastPos(way)
    /\ pc \in {"chunk", "check", "done"}
    /\ ii \in 0 .. CHUNK_SZ
    /\ sndCrc \in Register /\ rcvCrc \in Register
    /\ sndSum \in 0 .. 255 /\ rcvSum \in 0 .. 255
    /\ goodBlk \in BOOLEAN /\ goodBlk1st \in BOOLEAN /\ syncLoss \in BOOLEAN

(* A block with a complemented character, wherever it is (number, data,     *)
(* padding or check), is never stored: getRestBlk does not take it for a    *)
(* good block that came for the first time.                                 *)
DamageDetected == pc = "done" /\ hit # 0 => ~goodBlk1st

(* The checks of the two peers agree on every block, short or whole, CRC,   *)
(* checksum or refitted: the expected block is accepted if it came intact.  *)
IntactAccepted ==
    pc = "check" /\ hit = 0 /\ nextBlkNum = (numLastGoodBlk + 1) % 256
        => blkNumsOk /\ newExpectedBlk /\ CheckOk

(* A transfer is cancelled for a loss of synchronization only if the sender *)
(* really sent a block other than the next one or the last one: no damage   *)
(* to a number can look like it.                                            *)
SyncLossIsReal ==
    pc = "done" /\ syncLoss =>
        /\ nextBlkNum # (numLastGoodBlk + 1) % 256
        /\ firstBlock \/ nextBlkNum # numLastGoodBlk
=============================================================================
