---------------------------- MODULE TransferInv ----------------------------
(***************************************************************************)
(* The inductive invariant of the transfer, and what its proof needs to    *)
(* know about characters, blocks, block numbers and queues.                *)
(*                                                                         *)
(* The protocol is half duplex: at any time one message is under way, from *)
(* the sender (a block, an EOT, CANs) or from the receiver (what it asks   *)
(* for or answers), in one of the places that messages pass: the queue     *)
(* into the medium, the medium's buffer, the queue out of it.  Only an     *)
(* extra ACK of the medium may be there besides.  The invariant names the  *)
(* message that is under way (Phase) and relates it to what the peers know *)
(* (Base).                                                                 *)
(***************************************************************************)
EXTENDS Transfer, TLAPS, SequenceTheorems

(* The places that messages pass.                                           *)
inT1 == queue["T1"]
inM1 == queue["M1"]
inM2 == queue["M2"]
inT2 == queue["T2"]
toT1 == IF mPc = "write2" THEN mBuf ELSE <<>>
toT2 == IF mPc = "write1" THEN mBuf ELSE <<>>

(* The messages of one character.                                           *)
Ask == <<Ctl(IF par.crc THEN "C" ELSE "NAK")>>
ACK == <<Ctl("ACK")>>
NAK == <<Ctl("NAK")>>
EOT == <<Ctl("EOT")>>

NoFwd  == inM2 = <<>> /\ toT1 = <<>> /\ inT1 = <<>>
NoBack == inM1 = <<>> /\ toT2 = <<>> /\ inT2 = <<>>

(* Nothing but the message m on the way to the receiver; to the sender,     *)
(* where x has come before it.                                              *)
OneFwd(m) ==
    \/ inM2 = m    /\ toT1 = <<>> /\ inT1 = <<>>
    \/ inM2 = <<>> /\ toT1 = m    /\ inT1 = <<>>
    \/ inM2 = <<>> /\ toT1 = <<>> /\ inT1 = m
BackAfter(x, m) ==
    \/ inM1 = m    /\ toT2 = <<>> /\ inT2 = x
    \/ inM1 = <<>> /\ toT2 = m    /\ inT2 = x
    \/ inM1 = <<>> /\ toT2 = <<>> /\ inT2 = x \o m
OneBack(m) == BackAfter(<<>>, m)

AllCan(s) == \A i \in 1 .. Len(s) : s[i].c = "CAN"

(* The characters from position from on of the block with chunk k and       *)
(* number n, the SOH undamaged.                                             *)
Run(s, k, n, from) ==
    \A i \in 1 .. Len(s) :
        /\ s[i].c = "blk" /\ s[i].chunk = k /\ s[i].num = n
        /\ s[i].pos = from + i - 1
        /\ s[i].pos = 0 => ~s[i].bad

-----------------------------------------------------------------------------
(* What the peers know.                                                     *)

NextNum(n) == (n + 1) % NumMod
CurBlk  == blkBufs[blkNum % 2]
NextBlk == blkBufs[(blkNum + 1) % 2]

(* The receiver has the sender's block, or the one before it.               *)
Caught == Good = Current /\ numLastGoodBlk = blkNum
Behind == Good = Current - 1 /\ blkNum = NextNum(numLastGoodBlk)
Steps ==
    /\ Caught \/ Behind
    /\ firstBlock <=> Good = 0
    /\ rPc = "store" => Chunk = Good

(* The two blocks in the sender, and how far it has read the file.          *)
Buffers ==
    /\ CurBlk.chunk = Current /\ CurBlk.num = blkNum
    /\ Current > 0 => CurBlk.crc = par.crc
    /\ bytesRd = -2 => sState = "START" /\ chunksRd = 0 /\ sPc # "read"
    /\ bytesRd = ChunkSz =>
         /\ chunksRd = Current + 1
         /\ NextBlk = [chunk |-> Current + 1, num |-> NextNum(blkNum),
                       crc |-> sState = "START" \/ par.crc]
    /\ bytesRd = 0 => chunksRd = Current /\ par.chunks = Current
    /\ sState = "START" => Current = 0 /\ blkNum = 0
    /\ sState = "ACKNAK" => Current > 0 /\ sCrc = par.crc
    /\ Current <= chunksRd

SenderPcs ==
    /\ sPc \in {"close", "done"} <=> sResult # "ResultNotSet"
    /\ sState = "Final" => sPc \in {"close", "done"}
    /\ sPc = "open" => sState = "START" /\ bytesRd = -2
    /\ sPc = "can" => sCans < CAN_LEN \div 2

ReceiverPcs ==
    /\ rPc \in {"close", "done"} <=> rState = "Final"
    /\ rState = "Final" <=> rResult # "ResultNotSet"
    /\ rResult # "LossOfSynchronization"
    /\ rState # "Final" => rErrCnt < ErrB

MediumPcs ==
    /\ mPc \in {"write1", "write2"} <=> mBuf # <<>>
    /\ sendExtraAck => par.drainWaits /\ par.extraPeriod > 0
    /\ par.extraPeriod > 0 => ACKforwarded < par.extraPeriod

(* Ends are closed in the order of the program, and the medium only after   *)
(* one of the peers.                                                        *)
Closings ==
    /\ "T1" \in closed <=> rPc = "done"
    /\ "T2" \in closed <=> sPc = "done"
    /\ "M1" \in closed <=> mPc \in {"close2", "done"}
    /\ "M2" \in closed <=> mPc = "done"
    /\ finished \/ mPc \in {"close1", "close2", "done"} => rPc = "done" \/ sPc = "done"

Base ==
    TypeOK /\ Steps /\ Buffers /\ SenderPcs /\ ReceiverPcs /\ MediumPcs /\ Closings

-----------------------------------------------------------------------------
(* The message under way.                                                   *)

Ready == rState = "FIRSTBYTE" /\ rPc \in {"read", "store"}

(* The receiver asks for the first block.                                   *)
Opening ==
    /\ sState = "START" /\ sPc \in {"open", "read"}
    /\ rState = "FIRSTBYTE" /\ rPc \in {"start", "read"}
    /\ NoFwd /\ ~sendExtraAck
    /\ IF rPc = "start" THEN NoBack ELSE OneBack(Ask)

(* A receiver to which nobody sends: at the end of file it takes the        *)
(* character of the read before for a new one.                              *)
Cut == rState \in {"FIRSTBYTE", "CAN", "Final"} /\ rResult \in {"ResultNotSet", "SndCancelled"}

(* There is no file, and the sender never sends.                            *)
NoFile ==
    /\ sState = "START" /\ sResult = "OpenError"
    /\ Cut
    /\ NoFwd
    /\ NoBack \/ (OneBack(Ask) /\ rPc # "start")
    /\ rPc = "rest" => rcvBlk = <<>>

(* The characters of the block that the receiver has taken, and those that  *)
(* are sent before the last one.                                            *)
TakenNow == IF rPc = "rest" THEN 1 + Len(rcvBlk) ELSE 0
Most == BlkSz(par.crc) - 1

BlockUnderWay ==
    /\ sState = "ACKNAK" /\ sPc \in {"last", "read"}
    /\ rState = "FIRSTBYTE" /\ rPc \in {"read", "rest", "store"}
    /\ inM1 = <<>> /\ toT2 = <<>>
    /\ inT2 = <<>> \/ (inT2 = ACK /\ sPc = "last" /\ ~sendExtraAck)
    /\ sendExtraAck =>    \* is sent, and thrown away, before the last character
         sPc = "last" /\ Len(toT1) + Len(inM2) = Most /\ inM2 # <<>>
    /\ rPc = "rest" => Run(rcvBlk, Current, blkNum, 1)
    /\ Run(inT1, Current, blkNum, TakenNow)
    /\ Run(toT1, Current, blkNum, TakenNow + Len(inT1))
    /\ Run(inM2, Current, blkNum, TakenNow + Len(inT1) + Len(toT1))
    /\ TakenNow + Len(inT1) + Len(toT1) + Len(inM2) =
         IF sPc = "last" THEN Most ELSE Most + 1

(* An ACK may have become a NAK, a NAK is never made an ACK.                *)
AnswerUnderWay ==
    /\ sState = "ACKNAK" /\ sPc = "read"
    /\ Ready /\ NoFwd
    /\ \/ OneBack(ACK) /\ Caught /\ (sendExtraAck => inM1 = <<>>)
       \/ OneBack(NAK) /\ ~sendExtraAck

SenderGaveUp ==
    /\ \/ sState = "ACKNAK" /\ sPc = "can"
       \/ sState = "Final" /\ sResult = "ExcessiveNAKs"
    /\ AllCan(inM2) /\ AllCan(toT1) /\ AllCan(inT1)
    /\ Len(inM2) + Len(toT1) + Len(inT1) <= 2 * sCans
    /\ NoBack /\ ~sendExtraAck
    /\ Cut /\ rPc # "start"
    /\ rPc = "rest" => rcvBlk = <<>> /\ "M1" \in closed /\ inT1 = <<>>

ReceiverGaveUp ==
    /\ rResult = "ExcessiveErrors"
    /\ \/ sState \in {"ACKNAK", "CAN"} /\ sPc = "read"
       \/ sState = "Final" /\ sResult = "RcvCancelled"
    /\ NoFwd
    /\ AllCan(inM1) /\ AllCan(toT2) /\ AllCan(inT2)
    /\ Len(inM1) + Len(toT2) + Len(inT2) <= CAN_LEN

(* The whole file has arrived.                                              *)
AtEnd == Caught /\ bytesRd = 0

(* An extra ACK comes after the EOT was passed on.                          *)
FirstEot ==
    /\ sState = "EOT1" /\ sPc = "read" /\ AtEnd
    /\ Ready /\ OneFwd(EOT)
    /\ inM1 = <<>> /\ toT2 = <<>>
    /\ inT2 = <<>> \/ (inT2 = ACK /\ inT1 = EOT)
    /\ inT1 = EOT => ~sendExtraAck

FirstEotAnswered ==
    /\ sState = "EOT1" /\ sPc = "read" /\ AtEnd
    /\ rState = "EOT" /\ rPc = "read"
    /\ NoFwd /\ ~sendExtraAck
    /\ BackAfter(<<>>, NAK) \/ BackAfter(ACK, NAK)

(* The sender takes an extra ACK for the answer to its first EOT.           *)
SenderEndsEarly ==
    /\ sState = "Final" /\ sResult = "1st EOT ACK'd" /\ AtEnd
    /\ ~sendExtraAck
    /\ inM2 = <<>> /\ toT1 = <<>>
    /\ \/ Ready /\ inT1 = EOT /\ NoBack
       \/ rState = "EOT" /\ rPc = "read" /\ inT1 = <<>> /\ (NoBack \/ OneBack(NAK))

SecondEot ==
    /\ sState = "EOTEOT" /\ sPc = "read" /\ AtEnd
    /\ rState = "EOT" /\ rPc = "read"
    /\ OneFwd(EOT) /\ NoBack /\ ~sendExtraAck

Complete ==
    /\ rResult = "Done" /\ AtEnd
    /\ NoFwd
    /\ \/ sState = "EOTEOT" /\ sPc = "read" /\ (NoBack \/ OneBack(ACK) \/ OneBack(NAK))
       \/ sState = "Final" /\ sResult = "Done" /\ NoBack

Phase ==
    \/ Opening \/ NoFile \/ BlockUnderWay \/ AnswerUnderWay
    \/ SenderGaveUp \/ ReceiverGaveUp
    \/ FirstEot \/ FirstEotAnswered \/ SenderEndsEarly \/ SecondEot \/ Complete

Inv == Base /\ Phase

-----------------------------------------------------------------------------
(* Characters and block numbers.                                            *)

(* The constants of the program: what NumMod and the sizes are for.         *)
LEMMA Sizes ==
    /\ ChunkSz \in Nat /\ ChunkSz > 0 /\ ErrB \in Nat /\ ErrB > 0
    /\ NumMod \in Nat /\ NumMod >= 2 /\ NumMod % 2 = 0
    /\ CAN_LEN = 8 /\ CAN_LEN \div 2 = 4
    /\ \A crc \in BOOLEAN : BlkSz(crc) \in Nat /\ BlkSz(crc) > 4 /\ BlkSz(crc) <= BlkSz(TRUE)
    /\ BlkSz(TRUE) = ChunkSz + 5 /\ BlkSz(FALSE) = ChunkSz + 4
    /\ HalfBlk \in Nat /\ HalfBlk > 0
    /\ \A crc \in BOOLEAN : HalfBlk < BlkSz(crc) - 1
    /\ HalfBlk < ChunkSz + 5
BY XmodemAssumption DEF CAN_LEN, BlkSz, PAST_CHUNK, DATA_POS, HalfBlk

(* The parameters of the transfer.                                          *)
LEMMA ParType ==
    ASSUME NetTypeOK
    PROVE  /\ par.crc \in BOOLEAN /\ par.drainWaits \in BOOLEAN
           /\ par.chunks \in Nat \cup {-1}
           /\ par.period \in Nat /\ par.ackPeriod \in Nat /\ par.extraPeriod \in Nat
           /\ par.ackPeriod > 0 /\ par.period > HalfBlk
           /\ par.extraPeriod > 0 => par.drainWaits
<1>1. par \in Params /\ par \in Param
  BY XmodemAssumption DEF NetTypeOK
<1>2. par.ackPeriod > 0 /\ par.period >= ChunkSz + 5
  BY <1>1, XmodemAssumption DEF BlkSz, PAST_CHUNK, DATA_POS
<1>3. par.extraPeriod > 0 => par.drainWaits
  BY <1>1, ExtraAcksAssumption
<1>4. /\ par.crc \in BOOLEAN /\ par.drainWaits \in BOOLEAN
      /\ par.chunks \in Nat \cup {-1}
      /\ par.period \in Nat /\ par.ackPeriod \in Nat /\ par.extraPeriod \in Nat
  BY <1>1 DEF Param
<1>5. HalfBlk \in Nat /\ HalfBlk < ChunkSz + 5
  BY Sizes
<1>6. par.period > HalfBlk
  BY <1>2, <1>4, <1>5, Sizes
<1> QED BY <1>2, <1>3, <1>4, <1>6

(* Block numbers go round, the two buffers take turns.                      *)
LEMMA Turns ==
    ASSUME NEW n \in 0 .. NumMod - 1
    PROVE  /\ NextNum(n) \in 0 .. NumMod - 1
           /\ NextNum(n) # n
           /\ n % 2 \in 0 .. 1 /\ (n + 1) % 2 \in 0 .. 1 /\ (n + 1) % 2 # n % 2
           /\ NextNum(n) % 2 = (n + 1) % 2
           /\ (NextNum(n) + 1) % 2 = n % 2
<1>1. NumMod \in Nat /\ NumMod >= 2 /\ NumMod % 2 = 0
  BY Sizes
<1>2. n % 2 \in 0 .. 1 /\ (n + 1) % 2 \in 0 .. 1 /\ (n + 1) % 2 # n % 2 /\ (n + 2) % 2 = n % 2
  OBVIOUS
<1>3. CASE n + 1 = NumMod
  <2>1. NextNum(n) = 0
    BY <1>1, <1>3 DEF NextNum
  <2> QED BY <1>1, <1>2, <1>3, <2>1
<1>4. CASE n + 1 < NumMod
  <2>1. NextNum(n) = n + 1
    BY <1>1, <1>4 DEF NextNum
  <2> QED BY <1>1, <1>2, <1>4, <2>1
<1> QED BY <1>1, <1>3, <1>4

(* Control characters and the messages made of them.                        *)
LEMMA CtlType ==
    /\ \A c \in Control : Ctl(c) \in Char
    /\ \A c : Ctl(c).c = c /\ ~Ctl(c).bad
    /\ Ask \in Seq(Char) /\ ACK \in Seq(Char) /\ NAK \in Seq(Char) /\ EOT \in Seq(Char)
    /\ Len(Ask) = 1 /\ Len(ACK) = 1 /\ Len(NAK) = 1 /\ Len(EOT) = 1
<1> DEFINE whole == BlkSz(TRUE)
<1>0. NumMod \in Nat /\ NumMod >= 2 /\ whole \in Nat /\ whole > 4
  BY Sizes
<1>1. 0 \in 0 .. NumMod - 1 /\ 0 \in 0 .. BlkSz(TRUE) - 1
  <2> HIDE DEF whole
  <2>1. 0 \in 0 .. NumMod - 1 /\ 0 \in 0 .. whole - 1
    BY <1>0
  <2> QED BY <2>1 DEF whole
<1>2. \A c \in Control : Ctl(c) \in Char
  BY <1>1 DEF Ctl, Char
<1>3. \A c : Ctl(c).c = c /\ ~Ctl(c).bad
  BY DEF Ctl
<1>4. \A c \in Control : <<Ctl(c)>> \in Seq(Char) /\ Len(<<Ctl(c)>>) = 1
  BY <1>2
<1> QED BY <1>2, <1>3, <1>4 DEF Control, Ask, ACK, NAK, EOT

-----------------------------------------------------------------------------
(* Sequences of characters.                                                 *)

(* Messages of one character.                                               *)
LEMMA OneChar ==
    ASSUME NEW x \in Char
    PROVE  /\ <<x>> \in Seq(Char) /\ Len(<<x>>) = 1 /\ Head(<<x>>) = x /\ <<x>> # <<>>
           /\ <<>> \o <<x>> = <<x>> /\ <<x>> \o <<>> = <<x>>
OBVIOUS

(* The empty message.                                                       *)
LEMMA NoChar ==
    ASSUME NEW s \in Seq(Char)
    PROVE  /\ <<>> \in Seq(Char) /\ Len(<<>>) = 0
           /\ <<>> \o s = s /\ s \o <<>> = s
           /\ Len(s) \in Nat
           /\ s = <<>> <=> Len(s) = 0
           /\ s # <<>> => Len(s) >= 1 /\ Head(s) = s[1] /\ Head(s) \in Char
OBVIOUS

(* What a read of up to n characters takes, and what it leaves.             *)
LEMMA TakeType ==
    ASSUME NEW s \in Seq(Char), NEW n \in Nat
    PROVE  LET m == Least(n, Len(s)) IN
           /\ m \in 0 .. Len(s) /\ m <= n /\ (m = n \/ m = Len(s))
           /\ SubSeq(s, 1, m) \in Seq(Char) /\ Len(SubSeq(s, 1, m)) = m
           /\ SubSeq(s, m + 1, Len(s)) \in Seq(Char)
           /\ Len(SubSeq(s, m + 1, Len(s))) = Len(s) - m
           /\ \A i \in 1 .. m : SubSeq(s, 1, m)[i] = s[i]
           /\ \A i \in 1 .. Len(s) - m : SubSeq(s, m + 1, Len(s))[i] = s[m + i]
<1> DEFINE m == Least(n, Len(s))
<1>1. m \in 0 .. Len(s) /\ m <= n /\ (m = n \/ m = Len(s))
  BY DEF Least
<1> HIDE DEF m
<1>2. /\ SubSeq(s, 1, m) \in Seq(Char) /\ Len(SubSeq(s, 1, m)) = m
      /\ \A i \in 1 .. m : SubSeq(s, 1, m)[i] = s[i]
  BY <1>1
<1>3. /\ SubSeq(s, m + 1, Len(s)) \in Seq(Char)
      /\ Len(SubSeq(s, m + 1, Len(s))) = Len(s) - m
      /\ \A i \in 1 .. Len(s) - m : SubSeq(s, m + 1, Len(s))[i] = s[m + i]
  BY <1>1
<1> QED BY <1>1, <1>2, <1>3 DEF m

(* A read that takes all there is.                                          *)
LEMMA TakeAll ==
    ASSUME NEW s \in Seq(Char), NEW n \in Nat, Len(s) <= n
    PROVE  /\ SubSeq(s, 1, Least(n, Len(s))) = s
           /\ SubSeq(s, Least(n, Len(s)) + 1, Len(s)) = <<>>
<1>1. Least(n, Len(s)) = Len(s)
  BY DEF Least
<1> QED BY <1>1, SubSeqFull, SubSeqEmpty

(* The same of one character out of one or two.                             *)
LEMMA TakeOne ==
    ASSUME NEW x \in Char, NEW y \in Char
    PROVE  /\ SubSeq(<<x>>, Least(1, Len(<<x>>)) + 1, Len(<<x>>)) = <<>>
           /\ SubSeq(<<x, y>>, Least(1, Len(<<x, y>>)) + 1, Len(<<x, y>>)) = <<y>>
<1>1. /\ <<x>> \in Seq(Char) /\ Len(<<x>>) = 1
      /\ <<x, y>> \in Seq(Char) /\ Len(<<x, y>>) = 2
      /\ Least(1, 1) = 1 /\ Least(1, 2) = 1
  BY DEF Least
<1>2. SubSeq(<<x>>, 2, 1) = <<>>
  BY SubSeqEmpty
<1>3. SubSeq(<<x, y>>, 2, 2) = <<y>>
  <2>1. /\ SubSeq(<<x, y>>, 2, 2) \in Seq(Char)
        /\ Len(SubSeq(<<x, y>>, 2, 2)) = 1
        /\ SubSeq(<<x, y>>, 2, 2)[1] = y
    BY <1>1
  <2>2. <<y>> \in Seq(Char) /\ Len(<<y>>) = 1 /\ <<y>>[1] = y
    OBVIOUS
  <2>3. \A t, u \in Seq(Char) : Len(t) = 1 /\ Len(u) = 1 /\ t[1] = u[1] => t = u
    <3>1. SUFFICES ASSUME NEW t \in Seq(Char), NEW u \in Seq(Char),
                          Len(t) = 1, Len(u) = 1, t[1] = u[1]
                   PROVE  t = u
      OBVIOUS
    <3>2. \A i \in 1 .. Len(t) : t[i] = u[i]
      BY <3>1
    <3> QED BY <3>1, <3>2, SeqEqual
  <2> QED BY <2>1, <2>2, <2>3
<1> QED BY <1>1, <1>2, <1>3

(* What is appended to a part of a block continues it.                      *)
LEMMA RunConcat ==
    ASSUME NEW s \in Seq(Char), NEW t \in Seq(Char), NEW k, NEW n, NEW from \in Nat,
           Run(s, k, n, from), Run(t, k, n, from + Len(s))
    PROVE  Run(s \o t, k, n, from) /\ Len(s \o t) = Len(s) + Len(t) /\ s \o t \in Seq(Char)
<1>1. /\ Len(s \o t) = Len(s) + Len(t) /\ s \o t \in Seq(Char)
      /\ Len(s) \in Nat /\ Len(t) \in Nat
  OBVIOUS
<1>2. /\ \A i \in 1 .. Len(s) : (s \o t)[i] = s[i]
      /\ \A i \in Len(s) + 1 .. Len(s) + Len(t) : (s \o t)[i] = t[i - Len(s)]
  OBVIOUS
<1>3. SUFFICES ASSUME NEW i \in 1 .. Len(s) + Len(t)
               PROVE  LET x == (s \o t)[i] IN
                      /\ x.c = "blk" /\ x.chunk = k /\ x.num = n
                      /\ x.pos = from + i - 1 /\ (x.pos = 0 => ~x.bad)
  BY <1>1 DEF Run
<1>4. CASE i <= Len(s)
  <2>1. i \in 1 .. Len(s) /\ (s \o t)[i] = s[i]
    BY <1>1, <1>2, <1>4
  <2> HIDE DEF Run
  <2>2. \A j \in 1 .. Len(s) :
          /\ s[j].c = "blk" /\ s[j].chunk = k /\ s[j].num = n
          /\ s[j].pos = from + j - 1 /\ (s[j].pos = 0 => ~s[j].bad)
    BY DEF Run
  <2> QED BY <2>1, <2>2
<1>5. CASE i > Len(s)
  <2>1. i - Len(s) \in 1 .. Len(t) /\ (s \o t)[i] = t[i - Len(s)]
    BY <1>1, <1>2, <1>5
  <2>2. from + Len(s) + (i - Len(s)) - 1 = from + i - 1
    BY <1>1
  <2> QED BY <2>1, <2>2 DEF Run
<1> QED BY <1>1, <1>4, <1>5

(* What a read takes from a part of a block, and what it leaves.            *)
LEMMA RunTake ==
    ASSUME NEW s \in Seq(Char), NEW n \in Nat, NEW k, NEW num, NEW from \in Nat,
           Run(s, k, num, from)
    PROVE  LET m == Least(n, Len(s)) IN
           /\ Run(SubSeq(s, 1, m), k, num, from)
           /\ Run(SubSeq(s, m + 1, Len(s)), k, num, from + m)
<1> DEFINE m == Least(n, Len(s))
<1>1. /\ m \in 0 .. Len(s)
      /\ Len(SubSeq(s, 1, m)) = m /\ Len(SubSeq(s, m + 1, Len(s))) = Len(s) - m
      /\ \A i \in 1 .. m : SubSeq(s, 1, m)[i] = s[i]
      /\ \A i \in 1 .. Len(s) - m : SubSeq(s, m + 1, Len(s))[i] = s[m + i]
  BY TakeType
<1> HIDE DEF m
<1>2. Run(SubSeq(s, 1, m), k, num, from)
  BY <1>1 DEF Run
<1>3. Run(SubSeq(s, m + 1, Len(s)), k, num, from + m)
  <2>1. \A i \in 1 .. Len(s) - m : m + i \in 1 .. Len(s) /\ from + (m + i) - 1 = from + m + i - 1
    BY <1>1
  <2>2. \A i \in 1 .. Len(s) - m :
          /\ s[m + i].c = "blk" /\ s[m + i].chunk = k /\ s[m + i].num = num
          /\ s[m + i].pos = from + m + i - 1 /\ (s[m + i].pos = 0 => ~s[m + i].bad)
    BY <2>1 DEF Run
  <2> QED BY <1>1, <2>2 DEF Run
<1> QED BY <1>2, <1>3 DEF m

(* The same of CANs.                                                        *)
LEMMA CanConcat ==
    ASSUME NEW s \in Seq(Char), NEW t \in Seq(Char), AllCan(s), AllCan(t)
    PROVE  AllCan(s \o t) /\ Len(s \o t) = Len(s) + Len(t) /\ s \o t \in Seq(Char)
BY DEF AllCan

LEMMA CanTake ==
    ASSUME NEW s \in Seq(Char), NEW n \in Nat, AllCan(s)
    PROVE  LET m == Least(n, Len(s)) IN
           AllCan(SubSeq(s, 1, m)) /\ AllCan(SubSeq(s, m + 1, Len(s)))
<1> DEFINE m == Least(n, Len(s))
<1>1. /\ m \in 0 .. Len(s)
      /\ Len(SubSeq(s, 1, m)) = m /\ Len(SubSeq(s, m + 1, Len(s))) = Len(s) - m
      /\ \A i \in 1 .. m : SubSeq(s, 1, m)[i] = s[i]
      /\ \A i \in 1 .. Len(s) - m : SubSeq(s, m + 1, Len(s))[i] = s[m + i]
  BY TakeType
<1> HIDE DEF m
<1>2. AllCan(SubSeq(s, 1, m)) /\ AllCan(SubSeq(s, m + 1, Len(s)))
  BY <1>1 DEF AllCan
<1> QED BY <1>2 DEF m

(* What can8() writes.                                                      *)
LEMMA CansType ==
    ASSUME NEW n \in Nat
    PROVE  Ctls("CAN", n) \in Seq(Char) /\ Len(Ctls("CAN", n)) = n /\ AllCan(Ctls("CAN", n))
BY CtlType DEF Ctls, AllCan, Control

(* The medium damages no first character, so no SOH and no single one.      *)
LEMMA CorruptedType ==
    ASSUME NEW s \in Seq(Char), NEW i \in 0 .. Len(s) - 1
    PROVE  /\ Corrupted(s, i) \in Seq(Char)
           /\ Len(Corrupted(s, i)) = Len(s)
           /\ Len(s) = 1 => Corrupted(s, i) = s
           /\ AllCan(s) => AllCan(Corrupted(s, i))
           /\ \A k, n : \A from \in Nat : Run(s, k, n, from) => Run(Corrupted(s, i), k, n, from)
<1>1. CASE i = 0
  BY <1>1 DEF Corrupted
<1>2. CASE i # 0
  <2> DEFINE c == Corrupted(s, i)
  <2>1. s[i + 1] \in Char /\ [s[i + 1] EXCEPT !.bad = TRUE] \in Char
    <3>1. s[i + 1] \in Char
      OBVIOUS
    <3> QED BY <3>1 DEF Char
  <2>2. c = [s EXCEPT ![i + 1] = [s[i + 1] EXCEPT !.bad = TRUE]]
    BY <1>2 DEF Corrupted
  <2>3. c \in Seq(Char) /\ Len(c) = Len(s) /\ Len(s) # 1
    BY <1>2, <2>1, <2>2
  <2>4. \A j \in 1 .. Len(s) :
          /\ j # i + 1 => c[j] = s[j]
          /\ c[j].c = s[j].c /\ c[j].chunk = s[j].chunk /\ c[j].num = s[j].num
          /\ c[j].pos = s[j].pos
    BY <2>1, <2>2 DEF Char
  <2>5. AllCan(s) => AllCan(c)
    BY <2>3, <2>4 DEF AllCan
  <2>6. ASSUME NEW k, NEW n, NEW from \in Nat, Run(s, k, n, from)
        PROVE  Run(c, k, n, from)
    <3>1. s[i + 1].pos = from + i /\ from + i > 0
      BY <1>2, <2>6 DEF Run
    <3>2. \A j \in 1 .. Len(s) :
            /\ c[j].c = "blk" /\ c[j].chunk = k /\ c[j].num = n
            /\ c[j].pos = from + j - 1
      BY <2>4, <2>6 DEF Run
    <3>3. \A j \in 1 .. Len(s) : j # i + 1 => (c[j].pos = 0 => ~c[j].bad)
      BY <2>4, <2>6 DEF Run
    <3>4. \A j \in 1 .. Len(s) : j = i + 1 => c[j].pos # 0
      BY <2>4, <3>1
    <3> HIDE DEF c
    <3> QED BY <2>3, <3>2, <3>3, <3>4 DEF Run
  <2> QED BY <2>3, <2>5, <2>6
<1> QED BY <1>1, <1>2

(* The characters of a block.                                               *)
LEMMA BlkCharType ==
    ASSUME NEW blk \in Blk, NEW crc \in BOOLEAN, NEW p \in 0 .. BlkSz(crc) - 1
    PROVE  BlkChar(blk, p, crc) \in Char
<1>1. p \in 0 .. BlkSz(TRUE) - 1
  BY XmodemAssumption DEF BlkSz, PAST_CHUNK, DATA_POS
<1> QED BY <1>1 DEF BlkChar, Char, Blk

(* A block goes in two messages, all but the last character and that one.   *)
LEMMA BlkRuns ==
    ASSUME NEW blk \in Blk, NEW crc \in BOOLEAN
    PROVE  /\ MostBlk(blk, crc) \in Seq(Char)
           /\ Len(MostBlk(blk, crc)) = BlkSz(crc) - 1
           /\ Run(MostBlk(blk, crc), blk.chunk, blk.num, 0)
           /\ LastByte(blk, crc) \in Seq(Char)
           /\ Len(LastByte(blk, crc)) = 1
           /\ Run(LastByte(blk, crc), blk.chunk, blk.num, BlkSz(crc) - 1)
<1>1. BlkSz(crc) \in Nat /\ BlkSz(crc) > 4
  BY Sizes
<1>2. \A i \in 1 .. BlkSz(crc) - 1 : BlkChar(blk, i - 1, crc) \in Char
  BY <1>1, BlkCharType
<1>3. BlkChar(blk, BlkSz(crc) - 1, crc) \in Char
  BY <1>1, BlkCharType
<1>4. MostBlk(blk, crc) \in Seq(Char) /\ Len(MostBlk(blk, crc)) = BlkSz(crc) - 1
  BY <1>1, <1>2 DEF MostBlk
<1>5. Run(MostBlk(blk, crc), blk.chunk, blk.num, 0)
  <2>1. \A i \in 1 .. BlkSz(crc) - 1 : MostBlk(blk, crc)[i] = BlkChar(blk, i - 1, crc)
    BY DEF MostBlk
  <2>2. \A i \in 1 .. BlkSz(crc) - 1 :
          LET x == BlkChar(blk, i - 1, crc) IN
          /\ x.c = "blk" /\ x.chunk = blk.chunk /\ x.num = blk.num
          /\ x.pos = 0 + i - 1 /\ ~x.bad
    <3>1. SUFFICES ASSUME NEW i \in 1 .. BlkSz(crc) - 1
                   PROVE  /\ 0 + i - 1 = i - 1 /\ i - 1 # BlkSz(crc) - 1
      BY DEF BlkChar
    <3> QED BY <1>1
  <2> QED BY <1>4, <2>1, <2>2 DEF Run
<1>6. LastByte(blk, crc) \in Seq(Char) /\ Len(LastByte(blk, crc)) = 1
  BY <1>3 DEF LastByte
<1>7. Run(LastByte(blk, crc), blk.chunk, blk.num, BlkSz(crc) - 1)
  BY <1>1, <1>6 DEF LastByte, Run, BlkChar
<1> QED BY <1>4, <1>5, <1>6, <1>7

-----------------------------------------------------------------------------
(* The queues.                                                              *)

(* The two socket pairs.                                                    *)
LEMMA Lines ==
    /\ Peer["T1"] = "M1" /\ Peer["M1"] = "T1" /\ Peer["M2"] = "T2" /\ Peer["T2"] = "M2"
    /\ Ends = {"T1", "M1", "M2", "T2"}
    /\ "T1" \in Ends /\ "M1" \in Ends /\ "M2" \in Ends /\ "T2" \in Ends
BY DEF Peer, Ends

(* What is left of a queue when up to n characters are read from it.        *)
Left(s, n) == SubSeq(s, Least(n, Len(s)) + 1, Len(s))

(* The four queues hold characters.                                         *)
LEMMA QueueType ==
    ASSUME NetTypeOK
    PROVE  /\ inT1 \in Seq(Char) /\ inM1 \in Seq(Char) /\ inM2 \in Seq(Char) /\ inT2 \in Seq(Char)
           /\ queue \in [Ends -> Seq(Char)]
           /\ queue["T1"] = inT1 /\ queue["M1"] = inM1 /\ queue["M2"] = inM2 /\ queue["T2"] = inT2
BY DEF NetTypeOK, Ends, inT1, inM1, inM2, inT2

(* A read takes characters from the front of its queue.                     *)
LEMMA WithoutIs ==
    ASSUME NetTypeOK, NEW e \in Ends, NEW n \in Nat
    PROVE  /\ Without(e, n) = [queue EXCEPT ![e] = Left(queue[e], n)]
           /\ Left(queue[e], n) \in Seq(Char)
           /\ Without(e, n) \in [Ends -> Seq(Char)]
<1>1. queue[e] \in Seq(Char) /\ queue \in [Ends -> Seq(Char)]
  BY DEF NetTypeOK
<1>2. Left(queue[e], n) \in Seq(Char)
  BY <1>1, TakeType DEF Left
<1>3. Without(e, n) = [queue EXCEPT ![e] = Left(queue[e], n)]
  BY <1>1 DEF Without, Left
<1> QED BY <1>1, <1>2, <1>3

(* A write appends to the queue at the other end.                           *)
LEMMA PlusIs ==
    ASSUME NEW q \in [Ends -> Seq(Char)], NEW e \in Ends, NEW s \in Seq(Char)
    PROVE  /\ Plus(q, e, s) = [q EXCEPT ![Peer[e]] = q[Peer[e]] \o s]
           /\ Plus(q, e, s) \in [Ends -> Seq(Char)]
<1>1. Peer[e] \in Ends /\ q[Peer[e]] \o s \in Seq(Char)
  BY Lines
<1> QED BY <1>1 DEF Plus

(* Reads by the peers take one character, by the medium a message.          *)
LEMMA WithoutAt ==
    ASSUME NetTypeOK, NEW n \in Nat
    PROVE  /\ Without("T1", n) = [queue EXCEPT !["T1"] = Left(inT1, n)]
           /\ Without("T2", n) = [queue EXCEPT !["T2"] = Left(inT2, n)]
           /\ Without("M1", n) = [queue EXCEPT !["M1"] = Left(inM1, n)]
           /\ Without("M2", n) = [queue EXCEPT !["M2"] = Left(inM2, n)]
           /\ Left(inT1, n) \in Seq(Char) /\ Left(inM1, n) \in Seq(Char)
           /\ Left(inT2, n) \in Seq(Char) /\ Left(inM2, n) \in Seq(Char)
BY WithoutIs, Lines DEF inT1, inT2, inM1, inM2

(* The calls, as what they do to the four queues.                           *)
Queues(t1, m1, m2, t2) ==
    /\ inT1' = t1 /\ inM1' = m1 /\ inM2' = m2 /\ inT2' = t2
    /\ queue' \in [Ends -> Seq(Char)]

LEMMA QueuesAt ==
    ASSUME NetTypeOK, NEW s \in Seq(Char), NEW t \in Seq(Char)
    PROVE  /\ queue' = [queue EXCEPT !["T2"] = s, !["M2"] = t] => Queues(inT1, inM1, t, s)
           /\ queue' = [queue EXCEPT !["T1"] = s, !["M1"] = t] => Queues(s, t, inM2, inT2)
           /\ queue' = [queue EXCEPT !["T1"] = s, !["T2"] = t] => Queues(s, inM1, inM2, t)
           /\ queue' = [queue EXCEPT !["T1"] = s] => Queues(s, inM1, inM2, inT2)
           /\ queue' = [queue EXCEPT !["M1"] = s] => Queues(inT1, s, inM2, inT2)
           /\ queue' = [queue EXCEPT !["M2"] = s] => Queues(inT1, inM1, s, inT2)
           /\ queue' = [queue EXCEPT !["T2"] = s] => Queues(inT1, inM1, inM2, s)
BY QueueType, Lines DEF Queues, inT1, inT2, inM1, inM2

LEMMA SenderAnswersAt ==
    ASSUME NetTypeOK, NEW s \in Seq(Char), SenderAnswers(s), par' = par
    PROVE  /\ NetTypeOK' /\ closed' = closed
           /\ Queues(inT1, inM1, inM2 \o s, Left(inT2, 1))
<1>1. /\ queue' = Plus(Without("T2", 1), "T2", s)
      /\ closed' = closed /\ reset' = reset /\ exited' = exited
  BY DEF SenderAnswers
<1>2. Without("T2", 1) = [queue EXCEPT !["T2"] = Left(inT2, 1)] /\ Left(inT2, 1) \in Seq(Char)
  BY WithoutAt
<1>3. queue' = [queue EXCEPT !["T2"] = Left(inT2, 1), !["M2"] = inM2 \o s]
  BY <1>1, <1>2, QueueType, Lines DEF Plus, inM2
<1> inM2 \o s \in Seq(Char)
  BY QueueType
<1>4. Queues(inT1, inM1, inM2 \o s, Left(inT2, 1))
  BY <1>2, <1>3, QueueType, QueuesAt
<1> QED BY <1>1, <1>4 DEF NetTypeOK, Queues

LEMMA SenderConsumesAt ==
    ASSUME NetTypeOK, SenderConsumes, par' = par
    PROVE  /\ NetTypeOK' /\ closed' = closed
           /\ Queues(inT1, inM1, inM2, Left(inT2, 1))
<1>1. queue' = Without("T2", 1) /\ closed' = closed /\ reset' = reset /\ exited' = exited
  BY DEF SenderConsumes
<1>2. Without("T2", 1) = [queue EXCEPT !["T2"] = Left(inT2, 1)] /\ Left(inT2, 1) \in Seq(Char)
  BY WithoutAt
<1>3. Queues(inT1, inM1, inM2, Left(inT2, 1))
  BY <1>1, <1>2, QueuesAt
<1> QED BY <1>1, <1>3 DEF NetTypeOK, Queues

LEMMA ReceiverWritesAt ==
    ASSUME NetTypeOK, NEW s \in Seq(Char), ReceiverWrites(queue, s), par' = par
    PROVE  /\ NetTypeOK' /\ closed' = closed
           /\ Queues(inT1, inM1 \o s, inM2, inT2)
<1>1. /\ queue' = Plus(queue, "T1", s)
      /\ closed' = closed /\ reset' = reset /\ exited' = exited
  BY DEF ReceiverWrites
<1>2. queue' = [queue EXCEPT !["M1"] = inM1 \o s]
  BY <1>1, QueueType, Lines DEF Plus, inM1
<1> inM1 \o s \in Seq(Char)
  BY QueueType
<1>3. Queues(inT1, inM1 \o s, inM2, inT2)
  BY <1>2, QueueType, QueuesAt
<1> QED BY <1>1, <1>3 DEF NetTypeOK, Queues

LEMMA ReceiverAnswersAt ==
    ASSUME NetTypeOK, NEW s \in Seq(Char), ReceiverWrites(Without("T1", 1), s), par' = par
    PROVE  /\ NetTypeOK' /\ closed' = closed
           /\ Queues(Left(inT1, 1), inM1 \o s, inM2, inT2)
<1>1. /\ queue' = Plus(Without("T1", 1), "T1", s)
      /\ closed' = closed /\ reset' = reset /\ exited' = exited
  BY DEF ReceiverWrites
<1>2. Without("T1", 1) = [queue EXCEPT !["T1"] = Left(inT1, 1)] /\ Left(inT1, 1) \in Seq(Char)
  BY WithoutAt
<1>3. queue' = [queue EXCEPT !["T1"] = Left(inT1, 1), !["M1"] = inM1 \o s]
  BY <1>1, <1>2, QueueType, Lines DEF Plus, inM1
<1> inM1 \o s \in Seq(Char)
  BY QueueType
<1>4. Queues(Left(inT1, 1), inM1 \o s, inM2, inT2)
  BY <1>2, <1>3, QueueType, QueuesAt
<1> QED BY <1>1, <1>4 DEF NetTypeOK, Queues

LEMMA ReceiverConsumesAt ==
    ASSUME NetTypeOK, NEW n \in Nat, queue' = Without("T1", n),
           UNCHANGED <<closed, reset, exited, par>>
    PROVE  /\ NetTypeOK'
           /\ Queues(Left(inT1, n), inM1, inM2, inT2)
<1>1. Without("T1", n) = [queue EXCEPT !["T1"] = Left(inT1, n)] /\ Left(inT1, n) \in Seq(Char)
  BY WithoutAt
<1>2. Queues(Left(inT1, n), inM1, inM2, inT2)
  BY <1>1, QueuesAt
<1> QED BY <1>2 DEF NetTypeOK, Queues

LEMMA MediumReadsAt ==
    ASSUME NetTypeOK, NEW n \in Nat, UNCHANGED <<closed, reset, exited, par>>
    PROVE  /\ queue' = Without("M1", n) => NetTypeOK' /\ Queues(inT1, Left(inM1, n), inM2, inT2)
           /\ queue' = Without("M2", n) => NetTypeOK' /\ Queues(inT1, inM1, Left(inM2, n), inT2)
<1>1. /\ Without("M1", n) = [queue EXCEPT !["M1"] = Left(inM1, n)] /\ Left(inM1, n) \in Seq(Char)
      /\ Without("M2", n) = [queue EXCEPT !["M2"] = Left(inM2, n)] /\ Left(inM2, n) \in Seq(Char)
  BY WithoutAt
<1>2. queue' = Without("M1", n) => Queues(inT1, Left(inM1, n), inM2, inT2)
  BY <1>1, QueuesAt
<1>3. queue' = Without("M2", n) => Queues(inT1, inM1, Left(inM2, n), inT2)
  BY <1>1, QueuesAt
<1> QED BY <1>2, <1>3 DEF NetTypeOK, Queues

LEMMA MediumWritesAt ==
    ASSUME NetTypeOK, NEW s \in Seq(Char), NEW t \in Seq(Char),
           UNCHANGED <<closed, reset, exited, par>>
    PROVE  /\ queue' = Plus(queue, "M2", t) =>
                 NetTypeOK' /\ Queues(inT1, inM1, inM2, inT2 \o t)
           /\ queue' = Plus(queue, "M1", s) =>
                 NetTypeOK' /\ Queues(inT1 \o s, inM1, inM2, inT2)
           /\ queue' = Plus(Plus(queue, "M2", t), "M1", s) =>
                 NetTypeOK' /\ Queues(inT1 \o s, inM1, inM2, inT2 \o t)
<1>1. inT2 \o t \in Seq(Char) /\ inT1 \o s \in Seq(Char)
  BY QueueType
<1>2. Plus(queue, "M2", t) = [queue EXCEPT !["T2"] = inT2 \o t]
  BY QueueType, Lines DEF Plus
<1>3. Plus(queue, "M1", s) = [queue EXCEPT !["T1"] = inT1 \o s]
  BY QueueType, Lines DEF Plus
<1>4. Plus(Plus(queue, "M2", t), "M1", s) =
        [queue EXCEPT !["T1"] = inT1 \o s, !["T2"] = inT2 \o t]
  BY <1>1, <1>2, QueueType, Lines DEF Plus
<1>5. queue' = Plus(queue, "M2", t) => Queues(inT1, inM1, inM2, inT2 \o t)
  BY <1>1, <1>2, QueuesAt
<1>6. queue' = Plus(queue, "M1", s) => Queues(inT1 \o s, inM1, inM2, inT2)
  BY <1>1, <1>3, QueuesAt
<1>7. queue' = Plus(Plus(queue, "M2", t), "M1", s) =>
        Queues(inT1 \o s, inM1, inM2, inT2 \o t)
  BY <1>1, <1>4, QueuesAt
<1> QED BY <1>5, <1>6, <1>7 DEF NetTypeOK, Queues

(* A close empties the end's own queue.                                     *)
LEMMA CloseAt ==
    ASSUME NetTypeOK, NEW e \in Ends, CloseEnd(e), UNCHANGED <<par, exited>>
    PROVE  /\ NetTypeOK' /\ closed' = closed \cup {e}
           /\ Queues(IF e = "T1" THEN <<>> ELSE inT1, IF e = "M1" THEN <<>> ELSE inM1,
                     IF e = "M2" THEN <<>> ELSE inM2, IF e = "T2" THEN <<>> ELSE inT2)
<1>1. /\ queue' = [queue EXCEPT ![e] = <<>>] /\ closed' = closed \cup {e}
      /\ reset' = reset \/ reset' = reset \cup {Peer[e]}
  BY DEF CloseEnd
<1>2. Peer[e] \in Ends /\ <<>> \in Seq(Char)
  BY Lines
<1>3. queue' \in [Ends -> Seq(Char)] /\ closed' \subseteq Ends /\ reset' \subseteq Ends
  BY <1>1, <1>2 DEF NetTypeOK
<1>4. queue'[e] = <<>> /\ \A x \in Ends : x # e => queue'[x] = queue[x]
  BY <1>1 DEF NetTypeOK
<1>5. Queues(IF e = "T1" THEN <<>> ELSE inT1, IF e = "M1" THEN <<>> ELSE inM1,
             IF e = "M2" THEN <<>> ELSE inM2, IF e = "T2" THEN <<>> ELSE inT2)
  BY <1>3, <1>4, Lines DEF Queues, inT1, inM1, inM2, inT2
<1> QED BY <1>1, <1>3, <1>5 DEF NetTypeOK
=============================================================================
