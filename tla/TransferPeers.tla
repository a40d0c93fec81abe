---------------------------- MODULE TransferPeers --------------------------
(***************************************************************************)
(* Every step of the sender and every step of the receiver keeps the       *)
(* invariant of the transfer.  There is one lemma per action.  Each finds  *)
(* the phases in which the action is possible (SenderHearsWhat and         *)
(* ReceiverHearsWhat do it for those that hear a character), says what it  *)
(* does to the four queues, and names the phase that follows.              *)
(***************************************************************************)
EXTENDS TransferInv

-----------------------------------------------------------------------------
(* What Base says of the types.                                             *)
LEMMA BaseTypes ==
    ASSUME Base
    PROVE  /\ NetTypeOK
           /\ Current \in Nat /\ blkNum \in 0 .. NumMod - 1
           /\ CurBlk \in Blk /\ NextBlk \in Blk
           /\ Good \in Nat
           /\ mBuf \in Seq(Char) /\ toT1 \in Seq(Char) /\ toT2 \in Seq(Char)
           /\ rcvBlk \in Seq(Char) /\ TakenNow \in Nat
           /\ Most \in Nat /\ Most > 3 /\ Most = BlkSz(par.crc) - 1 /\ HalfBlk < Most
<1>1. /\ NetTypeOK /\ blkNum \in 0 .. NumMod - 1 /\ blkBufs \in [0 .. 1 -> Blk]
      /\ mBuf \in Seq(Char) /\ rcvBlk \in Seq(Char) /\ written \in Seq(Nat)
  BY DEF Base, TypeOK, SenderTypeOK, ReceiverTypeOK, MediumTypeOK
<1>2. CurBlk \in Blk /\ NextBlk \in Blk
  BY <1>1, Turns DEF CurBlk, NextBlk
<1>3. Current \in Nat
  BY <1>2 DEF Current, CurBlk, Blk
<1>4. Good \in Nat
  BY <1>1 DEF Good
<1>5. toT1 \in Seq(Char) /\ toT2 \in Seq(Char) /\ TakenNow \in Nat
  BY <1>1 DEF toT1, toT2, TakenNow
<1>6. Most \in Nat /\ Most > 3 /\ Most = BlkSz(par.crc) - 1 /\ HalfBlk < Most
  <2>1. ChunkSz \in Nat /\ ChunkSz > 0 /\ HalfBlk = (ChunkSz + 6) \div 2 /\ par.crc \in BOOLEAN
    BY <1>1, Sizes, ParType DEF HalfBlk, BlkSz, PAST_CHUNK, DATA_POS
  <2>2. (ChunkSz + 6) \div 2 \in Nat /\ (ChunkSz + 6) \div 2 < ChunkSz + 3
    BY <2>1
  <2>3. Most = BlkSz(par.crc) - 1 /\ (Most = ChunkSz + 4 \/ Most = ChunkSz + 3)
    BY <2>1 DEF Most, BlkSz, PAST_CHUNK, DATA_POS
  <2> QED BY <2>1, <2>2, <2>3
<1> QED BY <1>1, <1>2, <1>3, <1>4, <1>5, <1>6

(* What a step of the sender leaves alone.                                  *)
LEMMA SenderFrame ==
    ASSUME Base, UNCHANGED <<par, rVars, mVars>>
    PROVE  /\ ReceiverTypeOK' /\ MediumTypeOK' /\ ReceiverPcs' /\ MediumPcs'
           /\ Good' = Good /\ Chunk' = Chunk
           /\ toT1' = toT1 /\ toT2' = toT2 /\ Ask' = Ask /\ TakenNow' = TakenNow /\ Most' = Most
           /\ (Ready' <=> Ready) /\ (Cut' <=> Cut)
<1> USE DEF Base, TypeOK, rVars, mVars
<1>1. ReceiverTypeOK'
  BY DEF ReceiverTypeOK
<1>2. MediumTypeOK'
  BY DEF MediumTypeOK
<1>3. ReceiverPcs' /\ MediumPcs'
  BY DEF ReceiverPcs, MediumPcs
<1>4. Good' = Good /\ Chunk' = Chunk
  BY DEF Good, Chunk, Intact
<1>5. /\ toT1' = toT1 /\ toT2' = toT2 /\ Ask' = Ask /\ TakenNow' = TakenNow /\ Most' = Most
      /\ (Ready' <=> Ready) /\ (Cut' <=> Cut)
  BY DEF toT1, toT2, Ask, TakenNow, Most, Ready, Cut
<1> QED BY <1>1, <1>2, <1>3, <1>4, <1>5

(* What the sender can hear.                                                *)
LEMMA SenderHearsWhat ==
    ASSUME Inv, SenderHears
    PROVE  /\ sState = "START" => Opening /\ inT2 = Ask
           /\ sState = "ACKNAK" /\ Heard = "ACK" => AnswerUnderWay /\ inT2 = ACK /\ Caught
           /\ sState = "ACKNAK" /\ Heard = "NAK" => AnswerUnderWay /\ inT2 = NAK /\ ~sendExtraAck
           /\ Heard = "CAN" => ReceiverGaveUp /\ sState \in {"ACKNAK", "CAN"}
           /\ sState = "EOT1" /\ Heard = "ACK" =>
                (FirstEot \/ FirstEotAnswered) /\ inT2 # NAK
           /\ sState = "EOT1" /\ Heard = "NAK" => FirstEotAnswered /\ inT2 = NAK
           /\ sState = "EOTEOT" /\ Heard = "ACK" => Complete /\ inT2 = ACK
<1>1. /\ Base /\ Phase /\ sPc = "read" /\ inT2 # <<>> /\ Heard = Head(inT2).c
  BY DEF Inv, SenderHears, Readable, Heard, inT2
<1>2. inT2 \in Seq(Char) /\ inT2 # <<>> /\ Head(inT2) = inT2[1] /\ Len(inT2) >= 1
  BY <1>1, BaseTypes, QueueType, NoChar
<1>3. sResult = "ResultNotSet"
  BY <1>1 DEF Base, SenderPcs
<1>4. ~NoFile /\ ~BlockUnderWay /\ ~SenderGaveUp /\ ~SenderEndsEarly /\ ~SecondEot
  BY <1>1, <1>3 DEF NoFile, BlockUnderWay, SenderGaveUp, SenderEndsEarly, SecondEot, NoBack
<1>5. \/ Opening \/ AnswerUnderWay \/ ReceiverGaveUp \/ FirstEot \/ FirstEotAnswered \/ Complete
  BY <1>1, <1>4 DEF Phase
<1>6. /\ Head(ACK).c = "ACK" /\ Head(NAK).c = "NAK"
      /\ Head(Ask).c \in {"C", "NAK"} /\ Head(ACK \o NAK).c = "ACK"
      /\ <<>> \o Ask = Ask /\ <<>> \o ACK = ACK /\ <<>> \o NAK = NAK
  BY DEF ACK, NAK, Ask, Ctl
<1>7. CASE Opening
  BY <1>1, <1>6, <1>7 DEF Opening, OneBack, BackAfter, NoBack
<1>8. CASE AnswerUnderWay
  BY <1>1, <1>6, <1>8 DEF AnswerUnderWay, OneBack, BackAfter
<1>9. CASE ReceiverGaveUp
  BY <1>1, <1>2, <1>3, <1>9 DEF ReceiverGaveUp, AllCan
<1>10. CASE FirstEot
  BY <1>1, <1>6, <1>10 DEF FirstEot
<1>11. CASE FirstEotAnswered
  BY <1>1, <1>6, <1>11 DEF FirstEotAnswered, BackAfter
<1>12. CASE Complete
  BY <1>1, <1>3, <1>6, <1>12 DEF Complete, OneBack, BackAfter, NoBack
<1> QED BY <1>5, <1>7, <1>8, <1>9, <1>10, <1>11, <1>12

(* A step of the sender that closes nothing keeps Base when it keeps the    *)
(* parts of it that are about the sender.                                   *)
LEMMA SenderMoves ==
    ASSUME Base, UNCHANGED <<par, rVars, mVars>>,
           NetTypeOK', SenderTypeOK', Steps', Buffers', SenderPcs',
           closed' = closed, sPc # "done", sPc' # "done"
    PROVE  Base'
<1>1. ReceiverTypeOK' /\ MediumTypeOK' /\ ReceiverPcs' /\ MediumPcs'
  BY SenderFrame
<1>2. TypeOK'
  BY <1>1 DEF TypeOK
<1>3. Closings'
  BY DEF Base, Closings, rVars, mVars
<1> QED BY <1>1, <1>2, <1>3 DEF Base

(* A step of the sender that reads no file and sends no new block.          *)
LEMMA SenderKeeps ==
    ASSUME Base, UNCHANGED <<par, rVars, mVars>>,
           UNCHANGED <<blkNum, blkBufs, bytesRd, chunksRd, sCrc>>,
           \/ sState' = sState
           \/ sState' \notin {"START", "ACKNAK"} /\ (sState = "START" => bytesRd = 0),
           sPc' # "read" \/ bytesRd # -2
    PROVE  /\ Current' = Current /\ CurBlk' = CurBlk /\ NextBlk' = NextBlk
           /\ (Caught' <=> Caught) /\ (AtEnd' <=> AtEnd)
           /\ Steps' /\ Buffers'
<1>1. Steps /\ Buffers
  BY DEF Base
<1>2. CurBlk' = CurBlk /\ NextBlk' = NextBlk
  BY DEF CurBlk, NextBlk
<1>3. Current' = Current
  BY <1>1, <1>2 DEF Current, CurBlk, Buffers
<1>4. Good' = Good /\ Chunk' = Chunk
  BY SenderFrame
<1>5. (Caught' <=> Caught) /\ (Behind' <=> Behind)
  BY <1>3, <1>4 DEF Caught, Behind, NextNum, rVars
<1>6. Steps'
  BY <1>1, <1>4, <1>5 DEF Steps, rVars
<1>7. Buffers'
  BY <1>1, <1>2, <1>3 DEF Buffers, NextNum
<1>8. AtEnd' <=> AtEnd
  BY <1>5 DEF AtEnd
<1> QED BY <1>2, <1>3, <1>5, <1>6, <1>7, <1>8

(* The process ends in the middle of things.                                *)
LEMMA OnlyExited ==
    ASSUME Inv, UNCHANGED <<par, netVars, sVars, rVars, mVars>>,
           exited' \in {"no", "exit", "sigpipe"}
    PROVE  Inv'
<1> USE DEF netVars, sVars, rVars, mVars
<1>1. TypeOK'
  <2>1. NetTypeOK'
    BY DEF Inv, Base, TypeOK, NetTypeOK
  <2>2. SenderTypeOK'
    BY DEF Inv, Base, TypeOK, SenderTypeOK
  <2>3. ReceiverTypeOK' /\ MediumTypeOK'
    BY SenderFrame DEF Inv
  <2> QED BY <2>1, <2>2, <2>3 DEF TypeOK
<1>2. /\ Current' = Current /\ CurBlk' = CurBlk /\ NextBlk' = NextBlk /\ Good' = Good
      /\ Chunk' = Chunk
      /\ toT1' = toT1 /\ toT2' = toT2 /\ Ask' = Ask /\ TakenNow' = TakenNow /\ Most' = Most
      /\ inT1' = inT1 /\ inT2' = inT2 /\ inM1' = inM1 /\ inM2' = inM2
  BY DEF Current, CurBlk, NextBlk, Good, Chunk, Intact, toT1, toT2, Ask, TakenNow, Most,
         inT1, inT2, inM1, inM2
<1>3. (Caught' <=> Caught) /\ (Behind' <=> Behind)
  BY <1>2 DEF Caught, Behind, NextNum
<1>4. Steps' /\ Buffers'
  BY <1>2, <1>3 DEF Inv, Base, Steps, Buffers, NextNum
<1>5. SenderPcs' /\ ReceiverPcs' /\ MediumPcs' /\ Closings'
  BY DEF Inv, Base, SenderPcs, ReceiverPcs, MediumPcs, Closings
<1>6. /\ (NoFwd' <=> NoFwd) /\ (NoBack' <=> NoBack)
      /\ (Ready' <=> Ready) /\ (Cut' <=> Cut) /\ (AtEnd' <=> AtEnd)
      /\ \A m : OneFwd(m)' <=> OneFwd(m)
      /\ \A x, m : BackAfter(x, m)' <=> BackAfter(x, m)
  BY <1>2, <1>3 DEF NoFwd, NoBack, Ready, Cut, AtEnd, OneFwd, BackAfter
<1>7. Phase'
  <2>1. Opening => Opening'
    BY <1>2, <1>6 DEF Opening, OneBack
  <2>2. NoFile => NoFile'
    BY <1>2, <1>6 DEF NoFile, OneBack
  <2>3. BlockUnderWay => BlockUnderWay'
    BY <1>2 DEF BlockUnderWay
  <2>4. AnswerUnderWay => AnswerUnderWay'
    BY <1>2, <1>3, <1>6 DEF AnswerUnderWay, OneBack
  <2>5. SenderGaveUp => SenderGaveUp'
    BY <1>2, <1>6 DEF SenderGaveUp
  <2>6. ReceiverGaveUp => ReceiverGaveUp'
    BY <1>2, <1>6 DEF ReceiverGaveUp
  <2>7. FirstEot => FirstEot'
    BY <1>2, <1>6 DEF FirstEot
  <2>8. FirstEotAnswered => FirstEotAnswered'
    BY <1>2, <1>6 DEF FirstEotAnswered
  <2>9. SenderEndsEarly => SenderEndsEarly'
    BY <1>2, <1>6 DEF SenderEndsEarly, OneBack
  <2>10. SecondEot => SecondEot'
    BY <1>2, <1>6 DEF SecondEot
  <2>11. Complete => Complete'
    BY <1>2, <1>6 DEF Complete, OneBack
  <2> QED BY <2>1, <2>2, <2>3, <2>4, <2>5, <2>6, <2>7, <2>8, <2>9, <2>10, <2>11 DEF Inv, Phase
<1> QED BY <1>1, <1>4, <1>5, <1>7 DEF Inv, Base

-----------------------------------------------------------------------------
(* The sender.                                                              *)

(* What is left of a message of one character, or of two.                   *)
LEMMA LeftIs ==
    /\ Left(Ask, 1) = <<>> /\ Left(ACK, 1) = <<>> /\ Left(NAK, 1) = <<>> /\ Left(EOT, 1) = <<>>
    /\ Left(ACK \o NAK, 1) = NAK
    /\ <<>> \o Ask = Ask /\ <<>> \o ACK = ACK /\ <<>> \o NAK = NAK /\ <<>> \o EOT = EOT
    /\ ACK # NAK /\ ACK \o NAK # NAK /\ ACK \o NAK # ACK
    /\ ACK # <<>> /\ NAK # <<>> /\ Ask # <<>> /\ EOT # <<>>
    /\ Head(ACK) = Ctl("ACK") /\ Head(NAK) = Ctl("NAK") /\ Head(EOT) = Ctl("EOT")
    /\ Head(ACK \o NAK) = Ctl("ACK")
<1>1. \A c \in Control : Ctl(c) \in Char
  BY CtlType
<1>2. \A x, y \in Char : Left(<<x>>, 1) = <<>> /\ Left(<<x, y>>, 1) = <<y>>
  BY TakeOne DEF Left
<1>3. \A x, y \in Char : /\ <<x>> \o <<y>> = <<x, y>> /\ <<>> \o <<x>> = <<x>>
                         /\ <<x, y>> # <<x>> /\ <<x, y>> # <<y>> /\ <<x>> # <<>>
                         /\ Head(<<x>>) = x /\ Head(<<x, y>>) = x
  <2> SUFFICES ASSUME NEW x \in Char, NEW y \in Char
               PROVE  /\ <<x>> \o <<y>> = <<x, y>> /\ <<>> \o <<x>> = <<x>>
                      /\ <<x, y>> # <<x>> /\ <<x, y>> # <<y>> /\ <<x>> # <<>>
                      /\ Head(<<x>>) = x /\ Head(<<x, y>>) = x
    OBVIOUS
  <2>1. <<x>> # <<>> /\ Head(<<x>>) = x /\ Head(<<x, y>>) = x /\ <<>> \o <<x>> = <<x>>
    OBVIOUS
  <2>2. /\ <<x>> \in Seq(Char) /\ Len(<<x>>) = 1 /\ <<y>> \in Seq(Char) /\ Len(<<y>>) = 1
        /\ <<x, y>> \in Seq(Char) /\ Len(<<x, y>>) = 2
    OBVIOUS
  <2>3. <<x>> \o <<y>> = <<x, y>>
    <3>1. (<<x>> \o <<y>>)[1] = <<x>>[1] /\ (<<x>> \o <<y>>)[2] = <<y>>[2 - 1]
      BY <2>2
    <3>2. \A i \in 1 .. 2 : (<<x>> \o <<y>>)[i] = <<x, y>>[i]
      BY <3>1
    <3>3. <<x>> \o <<y>> \in Seq(Char) /\ Len(<<x>> \o <<y>>) = 2
      BY <2>2
    <3> QED BY <2>2, <3>2, <3>3, SeqEqual
  <2> QED BY <2>1, <2>2, <2>3
<1>4. Ctl("ACK") # Ctl("NAK")
  BY DEF Ctl
<1>5. Left(Ask, 1) = <<>> /\ Left(ACK, 1) = <<>> /\ Left(NAK, 1) = <<>> /\ Left(EOT, 1) = <<>>
  BY <1>1, <1>2 DEF Ask, ACK, NAK, EOT, Control
<1>6. ACK \o NAK = <<Ctl("ACK"), Ctl("NAK")>>
  BY <1>1, <1>3 DEF ACK, NAK, Control
<1>7. Left(ACK \o NAK, 1) = NAK
  BY <1>1, <1>2, <1>6 DEF NAK, Control
<1>8. ACK # NAK
  BY <1>4 DEF ACK, NAK
<1> QED BY <1>1, <1>3, <1>5, <1>6, <1>7, <1>8 DEF Ask, ACK, NAK, EOT, Control

(* The sender opens the file and reads the first chunk, or finds no file.   *)
LEMMA SenderOpenKeeps ==
    ASSUME Inv, SenderOpen, UNCHANGED <<par, rVars, mVars>>
    PROVE  Inv'
<1>1. Base /\ sPc = "open" /\ sState = "START" /\ bytesRd = -2 /\ sResult = "ResultNotSet"
      /\ sState' = sState /\ blkNum' = blkNum /\ sCrc' = sCrc /\ sCans' = sCans /\ sErrCnt' = sErrCnt
  BY DEF Inv, Base, SenderPcs, SenderOpen
<1>2. Opening
  BY <1>1 DEF Inv, Phase, NoFile, BlockUnderWay, AnswerUnderWay, SenderGaveUp, ReceiverGaveUp,
       FirstEot, FirstEotAnswered, SenderEndsEarly, SecondEot, Complete
<1>3. /\ UNCHANGED <<queue, closed, reset, exited>>
      /\ inT1' = inT1 /\ inT2' = inT2 /\ inM1' = inM1 /\ inM2' = inM2
      /\ NetTypeOK' /\ closed' = closed
  BY <1>1 DEF SenderOpen, netVars, inT1, inT2, inM1, inM2, NetTypeOK, Base, TypeOK
<1>4. /\ Current = 0 /\ blkNum = 0 /\ chunksRd = 0 /\ CurBlk.chunk = 0 /\ CurBlk.num = 0
      /\ CurBlk = blkBufs[0] /\ Current' = 0
      /\ Steps
  BY <1>1 DEF Base, Buffers, CurBlk, Current
<1>5. SenderTypeOK /\ ReceiverPcs /\ par.chunks \in Nat \cup {-1} /\ blkBufs \in [0 .. 1 -> Blk]
  BY <1>1, ParType DEF Base, TypeOK, SenderTypeOK
<1>6. /\ Ask' = Ask /\ toT1' = toT1 /\ toT2' = toT2 /\ Good' = Good /\ Chunk' = Chunk
      /\ (Cut' <=> Cut)
  BY <1>1, SenderFrame
<1>7. Steps'
  BY <1>1, <1>4, <1>6 DEF Steps, Caught, Behind, NextNum, rVars
<1>8. CASE par.chunks < 0
  <2>1. /\ sResult' = "OpenError" /\ sPc' = "close"
        /\ UNCHANGED <<chunksRd, bytesRd, blkBufs>>
    BY <1>8 DEF SenderOpen
  <2>2. SenderTypeOK' /\ Buffers' /\ SenderPcs'
    BY <1>1, <1>4, <1>5, <2>1 DEF SenderTypeOK, Buffers, SenderPcs, CurBlk, NextBlk, NextNum, Base
  <2>3. Base'
    BY <1>1, <1>3, <1>7, <2>1, <2>2, SenderMoves
  <2>4. NoFile'
    BY <1>1, <1>2, <1>3, <1>5, <1>6, <2>1
       DEF NoFile, Opening, NoFwd, NoBack, OneBack, BackAfter, Cut, ReceiverPcs, rVars
  <2> QED BY <2>3, <2>4 DEF Inv, Phase
<1>9. CASE ~(par.chunks < 0)
  <2>1. GenBlk(blkBufs, 1, 0, TRUE) /\ sPc' = "read" /\ sResult' = sResult
    BY <1>4, <1>9 DEF SenderOpen
  <2>2. [chunk |-> 1, num |-> NextNum(0), crc |-> TRUE] \in Blk
    BY Sizes, Turns DEF Blk, NextNum
  <2>3. \/ /\ chunksRd' = 1 /\ bytesRd' = ChunkSz /\ 0 < par.chunks
           /\ blkBufs' = [blkBufs EXCEPT ![1] = [chunk |-> 1, num |-> NextNum(0), crc |-> TRUE]]
        \/ chunksRd' = 0 /\ bytesRd' = 0 /\ blkBufs' = blkBufs /\ par.chunks = 0
    BY <1>4, <1>5, <1>9, <2>1 DEF GenBlk, NextNum
  <2>4. blkBufs' \in [0 .. 1 -> Blk]
    BY <1>5, <2>2, <2>3
  <2> chunksRd' \in 0 .. par.chunks /\ par.chunks >= 0 /\ ChunkSz \in Nat /\ ChunkSz > 0
    BY <1>5, <2>3, Sizes
  <2>5. SenderTypeOK'
    BY <1>1, <1>5, <2>1, <2>3, <2>4 DEF SenderTypeOK
  <2>6. CurBlk' = CurBlk /\ NextBlk' = blkBufs'[1]
    BY <1>1, <1>4, <1>5, <2>3 DEF CurBlk, NextBlk
  <2>7. /\ bytesRd' = ChunkSz =>
              /\ chunksRd' = Current' + 1
              /\ NextBlk' = [chunk |-> Current' + 1, num |-> NextNum(blkNum'),
                             crc |-> sState' = "START" \/ par.crc']
        /\ bytesRd' = 0 => chunksRd' = Current' /\ par.chunks' = Current'
    <3> DEFINE nb == [chunk |-> 1, num |-> NextNum(0), crc |-> TRUE]
    <3>1. [chunk |-> Current' + 1, num |-> NextNum(blkNum'),
           crc |-> sState' = "START" \/ par.crc'] = nb
      <4>1. /\ Current' + 1 = 1 /\ NextNum(blkNum') = NextNum(0)
            /\ (sState' = "START" \/ par.crc') = TRUE
        BY <1>1, <1>4
      <4> QED BY <4>1
    <3>2. \/ chunksRd' = 1 /\ bytesRd' = ChunkSz /\ blkBufs' = [blkBufs EXCEPT ![1] = nb]
          \/ chunksRd' = 0 /\ bytesRd' = 0 /\ par.chunks = 0
      BY <2>3
    <3> HIDE DEF nb
    <3>3. bytesRd' = ChunkSz => NextBlk' = nb
      BY <1>5, <2>6, <3>2
    <3> QED BY <1>4, <3>1, <3>2, <3>3
  <2>8. Buffers'
    <3>1. /\ CurBlk'.chunk = Current' /\ CurBlk'.num = blkNum' /\ Current' = 0
          /\ bytesRd' # -2 /\ sState' = "START" /\ blkNum' = 0 /\ Current' <= chunksRd'
      BY <1>1, <1>4, <2>3, <2>6
    <3> QED BY <2>7, <3>1 DEF Buffers
  <2>9. SenderPcs'
    BY <1>1, <2>1, <2>3 DEF SenderPcs, Base
  <2>10. Base'
    BY <1>1, <1>3, <1>7, <2>1, <2>5, <2>8, <2>9, SenderMoves
  <2>11. Opening'
    BY <1>1, <1>2, <1>3, <1>6, <2>1 DEF Opening, NoFwd, NoBack, OneBack, BackAfter, rVars, mVars
  <2> QED BY <2>10, <2>11 DEF Inv, Phase
<1> QED BY <1>8, <1>9

(* A new block goes: the sender is a block ahead until the receiver has it. *)
LEMMA SendBlkKeeps ==
    ASSUME Base, UNCHANGED <<par, rVars, mVars>>,
           NEW bufs \in [0 .. 1 -> Blk],
           bufs[(blkNum + 1) % 2] =
               [chunk |-> Current + 1, num |-> NextNum(blkNum), crc |-> par.crc],
           bytesRd = ChunkSz, chunksRd = Current + 1, Caught,
           SendBlkPrepNext(bufs, par.crc),
           sPc = "read", sState' = "ACKNAK", sCrc' = par.crc, sErrCnt' \in 0 .. ErrB,
           sResult' = "ResultNotSet", sCans' = sCans,
           Ready, NoFwd, inM1 = <<>>, toT2 = <<>>, Left(inT2, 1) = <<>>
    PROVE  Inv'
<1> DEFINE n == NextNum(blkNum)
           cur == [chunk |-> Current + 1, num |-> NextNum(blkNum), crc |-> par.crc]
           new == [chunk |-> Current + 2, num |-> NextNum(n), crc |-> par.crc]
<1>1. /\ NetTypeOK /\ Current \in Nat /\ blkNum \in 0 .. NumMod - 1
      /\ Most = BlkSz(par.crc) - 1 /\ Most \in Nat /\ Most > 3
      /\ ReceiverTypeOK /\ MediumTypeOK /\ SenderTypeOK /\ Steps /\ Good \in Nat
      /\ MediumPcs /\ sPc # "done"
  BY BaseTypes DEF Base, TypeOK
<1>2. /\ par.crc \in BOOLEAN /\ par.chunks \in Nat \cup {-1}
      /\ ChunkSz \in Nat /\ ChunkSz > 0
  BY <1>1, ParType, Sizes
<1>3. /\ n \in 0 .. NumMod - 1 /\ n % 2 \in 0 .. 1 /\ (n + 1) % 2 \in 0 .. 1
      /\ n % 2 = (blkNum + 1) % 2 /\ (n + 1) % 2 # n % 2
      /\ NextNum(n) \in 0 .. NumMod - 1
  <2>1. n \in 0 .. NumMod - 1 /\ n % 2 = (blkNum + 1) % 2
    BY <1>1, Turns
  <2> QED BY <2>1, Turns
<1>4. cur \in Blk /\ new \in Blk /\ bufs[n % 2] = cur
  BY <1>1, <1>2, <1>3 DEF Blk
<1>5. /\ blkNum' = n /\ sPc' = "last"
      /\ SenderAnswers(MostBlk(bufs[n % 2], par.crc))
      /\ GenBlk(bufs, (n + 1) % 2, n, par.crc)
  BY DEF SendBlkPrepNext, NextNum
<1>6. /\ MostBlk(cur, par.crc) \in Seq(Char) /\ Len(MostBlk(cur, par.crc)) = Most
      /\ Run(MostBlk(cur, par.crc), Current + 1, n, 0)
  <2>1. /\ MostBlk(cur, par.crc) \in Seq(Char)
        /\ Len(MostBlk(cur, par.crc)) = BlkSz(par.crc) - 1
        /\ Run(MostBlk(cur, par.crc), cur.chunk, cur.num, 0)
    BY <1>2, <1>4, BlkRuns
  <2> QED BY <1>1, <2>1
<1>7. /\ NetTypeOK' /\ closed' = closed
      /\ inT1' = <<>> /\ inM1' = <<>> /\ inT2' = <<>>
      /\ inM2' = MostBlk(cur, par.crc)
  <2>1. /\ NetTypeOK' /\ closed' = closed
        /\ Queues(inT1, inM1, inM2 \o MostBlk(cur, par.crc), Left(inT2, 1))
    BY <1>1, <1>4, <1>5, <1>6, SenderAnswersAt
  <2>2. <<>> \o MostBlk(cur, par.crc) = MostBlk(cur, par.crc)
    BY <1>6, NoChar
  <2> QED BY <2>1, <2>2 DEF Queues, NoFwd
<1>8. \/ /\ chunksRd' = Current + 2 /\ bytesRd' = ChunkSz /\ Current + 1 < par.chunks
         /\ blkBufs' = [bufs EXCEPT ![(n + 1) % 2] = new]
      \/ /\ chunksRd' = Current + 1 /\ bytesRd' = 0 /\ blkBufs' = bufs
         /\ ~(Current + 1 < par.chunks)
  <2>1. chunksRd + 1 = Current + 2
    BY <1>1
  <2> QED BY <1>5, <2>1 DEF GenBlk, NextNum
<1> HIDE DEF new, cur, n
<1>9. /\ blkBufs' \in [0 .. 1 -> Blk] /\ blkBufs'[n % 2] = cur
      /\ bytesRd' = ChunkSz => blkBufs'[(n + 1) % 2] = new
  BY <1>2, <1>3, <1>4, <1>8
<1>10. CurBlk' = cur /\ NextBlk' = blkBufs'[(n + 1) % 2]
  BY <1>5, <1>9 DEF CurBlk, NextBlk
<1>11. Current' = Current + 1
  <2>1. Current' = CurBlk'.chunk
    BY DEF Current, CurBlk
  <2> QED BY <1>10, <2>1 DEF cur
<1>12. chunksRd \in 0 .. par.chunks /\ par.chunks \in Nat /\ par.chunks >= Current + 1
  <2>1. chunksRd \in 0 .. (IF par.chunks < 0 THEN 0 ELSE par.chunks) /\ chunksRd = Current + 1
    BY <1>1 DEF SenderTypeOK
  <2> QED BY <1>1, <1>2, <2>1
<1>13. SenderTypeOK'
  <2>1. chunksRd' \in 0 .. (IF par.chunks < 0 THEN 0 ELSE par.chunks)
    BY <1>1, <1>8, <1>12
  <2> QED BY <1>1, <1>2, <1>3, <1>5, <1>8, <1>9, <2>1 DEF SenderTypeOK
<1>14. Buffers'
  <2>1. CurBlk'.chunk = Current' /\ CurBlk'.num = blkNum' /\ CurBlk'.crc = par.crc'
    BY <1>5, <1>10, <1>11 DEF cur, n
  <2>2. bytesRd' # -2 /\ sState' = "ACKNAK" /\ Current' > 0 /\ sCrc' = par.crc'
        /\ Current' <= chunksRd'
    BY <1>1, <1>2, <1>8, <1>11
  <2>3. bytesRd' = ChunkSz =>
          /\ chunksRd' = Current' + 1
          /\ NextBlk' = [chunk |-> Current' + 1, num |-> NextNum(blkNum'),
                         crc |-> sState' = "START" \/ par.crc']
    <3>1. [chunk |-> Current' + 1, num |-> NextNum(blkNum'),
           crc |-> sState' = "START" \/ par.crc'] = new
      <4>1. /\ Current' + 1 = Current + 2 /\ NextNum(blkNum') = NextNum(n)
            /\ (sState' = "START" \/ par.crc') = par.crc
        BY <1>1, <1>2, <1>5, <1>11
      <4> QED BY <4>1 DEF new
    <3>2. bytesRd' = ChunkSz => chunksRd' = Current + 2
      BY <1>2, <1>8
    <3> QED BY <1>1, <1>9, <1>10, <1>11, <3>1, <3>2
  <2>4. bytesRd' = 0 => chunksRd' = Current' /\ par.chunks' = Current'
    BY <1>1, <1>2, <1>8, <1>11, <1>12
  <2> QED BY <2>1, <2>2, <2>3, <2>4 DEF Buffers
<1>15. Steps'
  <2>1. Good' = Good /\ Chunk' = Chunk
    BY SenderFrame
  <2>2. Behind'
    BY <1>1, <1>5, <1>11, <2>1 DEF Caught, Behind, n, NextNum, rVars
  <2> QED BY <1>1, <2>1, <2>2 DEF Steps, rVars
<1>16. SenderPcs'
  BY <1>5, <1>8, <1>2 DEF SenderPcs
<1>17. Base'
  BY <1>1, <1>5, <1>7, <1>13, <1>14, <1>15, <1>16, SenderMoves
<1>18. BlockUnderWay'
  <2>1. /\ toT1' = <<>> /\ toT2' = <<>> /\ TakenNow' = TakenNow /\ Most' = Most
        /\ rState' = "FIRSTBYTE" /\ rPc' \in {"read", "store"} /\ TakenNow = 0
    BY SenderFrame DEF Ready, NoFwd, TakenNow, rVars
  <2>2. Len(<<>>) = 0 /\ inM2' # <<>>
    BY <1>1, <1>6, <1>7
  <2>3. Run(inT1', Current', blkNum', 0) /\ Run(toT1', Current', blkNum', 0)
    BY <1>7, <2>1, <2>2 DEF Run
  <2>4. Run(inM2', Current', blkNum', 0)
    BY <1>5, <1>6, <1>7, <1>11
  <2>5. Len(inT1') = 0 /\ Len(toT1') = 0 /\ Len(inM2') = Most
    BY <1>6, <1>7, <2>1
  <2> QED BY <1>1, <1>5, <1>7, <2>1, <2>2, <2>3, <2>4, <2>5 DEF BlockUnderWay
<1> QED BY <1>17, <1>18 DEF Inv, Phase

(* It hears what the receiver asks for and sends the first block.           *)
LEMMA SenderFirstBlkKeeps ==
    ASSUME Inv, SenderFirstBlk, UNCHANGED <<par, rVars, mVars>>
    PROVE  Inv'
<1>1. PICK c \in {"C", "NAK"} :
        /\ SenderGets("START", c) /\ bytesRd # 0
        /\ sCrc' = (c = "C") /\ SendBlkPrepNext(Refitted(c), c = "C")
  BY DEF SenderFirstBlk
<1>2. /\ sState' = "ACKNAK" /\ sResult' = sResult /\ sErrCnt' = sErrCnt /\ sCans' = sCans
      /\ SenderHears /\ sState = "START" /\ sPc = "read" /\ Heard = c
  BY <1>1 DEF SenderFirstBlk, SenderGets, SenderHears
<1>3. Opening /\ inT2 = Ask /\ Base
  BY <1>2, SenderHearsWhat DEF Inv
<1>4. /\ SenderTypeOK /\ NetTypeOK /\ Steps /\ Buffers /\ sResult = "ResultNotSet"
      /\ par.crc \in BOOLEAN
  BY <1>2, <1>3, ParType DEF Base, TypeOK, SenderPcs
<1>5. (c = "C") = par.crc
  BY <1>1, <1>2, <1>3, <1>4 DEF Heard, inT2, Ask, Ctl
<1>6. bytesRd = ChunkSz
  BY <1>1, <1>2, <1>4 DEF SenderTypeOK, Buffers
<1>7. /\ Current = 0 /\ blkNum = 0 /\ chunksRd = Current + 1
      /\ blkBufs \in [0 .. 1 -> Blk]
      /\ blkBufs[1] = [chunk |-> 1, num |-> NextNum(0), crc |-> TRUE]
  <2>1. Current = 0 /\ blkNum = 0 /\ chunksRd = Current + 1 /\ blkBufs \in [0 .. 1 -> Blk]
    BY <1>2, <1>4, <1>6 DEF Buffers, SenderTypeOK
  <2>2. NextBlk = [chunk |-> 0 + 1, num |-> NextNum(0), crc |-> TRUE]
    BY <1>2, <1>4, <1>6, <2>1 DEF Buffers
  <2>3. NextBlk = blkBufs[1]
    BY <2>1 DEF NextBlk
  <2> QED BY <2>1, <2>2, <2>3
<1>8. /\ Refitted(c) \in [0 .. 1 -> Blk]
      /\ Refitted(c)[1] = [chunk |-> 1, num |-> NextNum(0), crc |-> par.crc]
  <2>1. [chunk |-> 1, num |-> NextNum(0), crc |-> FALSE] \in Blk
    BY Sizes, Turns DEF Blk
  <2>2. [blkBufs[1] EXCEPT !.crc = FALSE] = [chunk |-> 1, num |-> NextNum(0), crc |-> FALSE]
    <3> DEFINE t == [blkBufs[1] EXCEPT !.crc = FALSE]
               u == [chunk |-> 1, num |-> NextNum(0), crc |-> FALSE]
    <3>1. blkBufs[1] \in Blk
      BY <1>4 DEF SenderTypeOK
    <3>2. /\ t \in Blk /\ t.chunk = blkBufs[1].chunk /\ t.num = blkBufs[1].num
          /\ t.crc = FALSE
      BY <3>1 DEF Blk
    <3>3. t \in Blk /\ t.chunk = 1 /\ t.num = NextNum(0) /\ t.crc = FALSE
      BY <1>7, <3>2
    <3>4. u \in Blk /\ u.chunk = 1 /\ u.num = NextNum(0) /\ u.crc = FALSE
      BY <2>1
    <3> HIDE DEF t, u
    <3>5. t = u
      BY <3>3, <3>4 DEF Blk
    <3> QED BY <3>5 DEF t, u
  <2>3. CASE c = "C"
    BY <1>5, <1>7, <2>3 DEF Refitted
  <2>4. CASE c = "NAK"
    <3>1. Refitted(c) = [blkBufs EXCEPT ![1] = [blkBufs[1] EXCEPT !.crc = FALSE]]
      BY <2>4 DEF Refitted
    <3>2. par.crc = FALSE
      BY <1>4, <1>5, <2>4
    <3> DEFINE b == [chunk |-> 1, num |-> NextNum(0), crc |-> FALSE]
    <3>3. Refitted(c) = [blkBufs EXCEPT ![1] = b] /\ b \in Blk
      BY <2>1, <2>2, <3>1
    <3> HIDE DEF b
    <3>4. Refitted(c) \in [0 .. 1 -> Blk] /\ Refitted(c)[1] = b
      BY <1>7, <3>3
    <3> QED BY <3>2, <3>4 DEF b
  <2> QED BY <1>1, <2>3, <2>4
<1>9. Good = 0 /\ Caught
  BY <1>3, <1>4, <1>7, BaseTypes DEF Steps, Caught, Behind
<1>10. /\ Ready /\ NoFwd /\ inM1 = <<>> /\ toT2 = <<>> /\ Left(inT2, 1) = <<>>
  BY <1>3, LeftIs DEF Opening, OneBack, BackAfter, NoBack, Ready
<1>11. SendBlkPrepNext(Refitted(c), par.crc) /\ sCrc' = par.crc
  BY <1>1, <1>5
<1>12. (blkNum + 1) % 2 = 1 /\ Current + 1 = 1 /\ NextNum(blkNum) = NextNum(0)
  BY <1>7
<1>13. Refitted(c)[(blkNum + 1) % 2] =
         [chunk |-> Current + 1, num |-> NextNum(blkNum), crc |-> par.crc]
  BY <1>8, <1>12
<1>14. sErrCnt' \in 0 .. ErrB
  BY <1>2, <1>4 DEF SenderTypeOK
<1> QED BY <1>2, <1>3, <1>4, <1>6, <1>7, <1>8, <1>9, <1>10, <1>11, <1>13, <1>14, SendBlkKeeps

(* It hears an ACK and sends the next block: the receiver has the last one. *)
LEMMA SenderNextBlkKeeps ==
    ASSUME Inv, SenderNextBlk, UNCHANGED <<par, rVars, mVars>>
    PROVE  Inv'
<1>1. /\ SenderHears /\ sState = "ACKNAK" /\ Heard = "ACK" /\ sPc = "read" /\ bytesRd # 0
      /\ SendBlkPrepNext(blkBufs, sCrc)
      /\ sErrCnt' = 0 /\ sState' = sState /\ sResult' = sResult /\ sCrc' = sCrc /\ sCans' = sCans
  BY DEF SenderNextBlk, SenderGets, SenderHears
<1>2. AnswerUnderWay /\ inT2 = ACK /\ Caught /\ Base
  BY <1>1, SenderHearsWhat DEF Inv
<1>3. /\ SenderTypeOK /\ NetTypeOK /\ Steps /\ Buffers /\ sResult = "ResultNotSet"
      /\ par.crc \in BOOLEAN /\ sCrc = par.crc /\ ErrB \in Nat
  BY <1>1, <1>2, ParType, Sizes DEF Base, TypeOK, SenderPcs, Buffers
<1>4. bytesRd = ChunkSz
  BY <1>1, <1>3 DEF SenderTypeOK, Buffers
<1>5. /\ chunksRd = Current + 1 /\ blkBufs \in [0 .. 1 -> Blk]
      /\ NextBlk = [chunk |-> Current + 1, num |-> NextNum(blkNum),
                    crc |-> sState = "START" \/ par.crc]
  BY <1>3, <1>4 DEF Buffers, SenderTypeOK
<1>6. blkBufs[(blkNum + 1) % 2] =
        [chunk |-> Current + 1, num |-> NextNum(blkNum), crc |-> par.crc]
  <2>1. (sState = "START" \/ par.crc) = par.crc
    BY <1>1, <1>3
  <2> QED BY <1>5, <2>1 DEF NextBlk
<1>7. /\ Ready /\ NoFwd /\ inM1 = <<>> /\ toT2 = <<>> /\ Left(inT2, 1) = <<>>
  BY <1>2, LeftIs DEF AnswerUnderWay, OneBack, BackAfter
<1>8. sErrCnt' \in 0 .. ErrB
  BY <1>1, <1>3
<1>9. SendBlkPrepNext(blkBufs, par.crc) /\ sCrc' = par.crc
  BY <1>1, <1>3
<1> QED BY <1>1, <1>2, <1>3, <1>4, <1>5, <1>6, <1>7, <1>8, <1>9, SendBlkKeeps

(* It hears a NAK and sends the block again.                                *)
LEMMA SenderResendKeeps ==
    ASSUME Inv, SenderResend, UNCHANGED <<par, rVars, mVars>>
    PROVE  Inv'
<1>1. /\ SenderHears /\ sState = "ACKNAK" /\ Heard = "NAK" /\ sPc = "read" /\ sErrCnt < ErrB
      /\ SenderAnswers(MostBlk(CurBlk, sCrc))
      /\ sErrCnt' = sErrCnt + 1 /\ sPc' = "last"
      /\ UNCHANGED <<sState, sResult, sCrc, bytesRd, blkNum, blkBufs, chunksRd, sCans>>
  BY DEF SenderResend, SenderGets, SenderHears, CurBlk
<1>2. AnswerUnderWay /\ inT2 = NAK /\ ~sendExtraAck /\ Base
  BY <1>1, SenderHearsWhat DEF Inv
<1>3. /\ SenderTypeOK /\ NetTypeOK /\ Buffers /\ sResult = "ResultNotSet"
      /\ sCrc = par.crc /\ par.crc \in BOOLEAN /\ ErrB \in Nat
      /\ CurBlk.chunk = Current /\ CurBlk.num = blkNum /\ CurBlk \in Blk
      /\ Most = BlkSz(par.crc) - 1 /\ Most \in Nat /\ Most > 3
  BY <1>1, <1>2, ParType, Sizes, BaseTypes DEF Base, TypeOK, SenderPcs, Buffers
<1>4. /\ Current' = Current /\ CurBlk' = CurBlk /\ Steps' /\ Buffers'
  BY <1>1, <1>2, SenderKeeps
<1>5. /\ NoFwd /\ inM1 = <<>> /\ toT2 = <<>> /\ Left(inT2, 1) = <<>> /\ Ready
  BY <1>2, LeftIs DEF AnswerUnderWay, OneBack, BackAfter
<1>6. /\ MostBlk(CurBlk, par.crc) \in Seq(Char) /\ Len(MostBlk(CurBlk, par.crc)) = Most
      /\ Run(MostBlk(CurBlk, par.crc), Current, blkNum, 0)
  BY <1>3, BlkRuns
<1>7. /\ NetTypeOK' /\ closed' = closed
      /\ inT1' = <<>> /\ inM1' = <<>> /\ inT2' = <<>> /\ inM2' = MostBlk(CurBlk, par.crc)
  <2>1. /\ NetTypeOK' /\ closed' = closed
        /\ Queues(inT1, inM1, inM2 \o MostBlk(CurBlk, par.crc), Left(inT2, 1))
    BY <1>1, <1>3, <1>6, SenderAnswersAt
  <2>2. <<>> \o MostBlk(CurBlk, par.crc) = MostBlk(CurBlk, par.crc)
    BY <1>6, NoChar
  <2> QED BY <1>5, <2>1, <2>2 DEF Queues, NoFwd
<1>8. SenderTypeOK'
  BY <1>1, <1>3 DEF SenderTypeOK
<1>9. SenderPcs'
  BY <1>1, <1>2 DEF Base, SenderPcs
<1>10. Base'
  BY <1>1, <1>2, <1>4, <1>7, <1>8, <1>9, SenderMoves
<1>11. BlockUnderWay'
  <2>1. /\ toT1' = <<>> /\ toT2' = <<>> /\ TakenNow' = TakenNow /\ Most' = Most
        /\ rState' = "FIRSTBYTE" /\ rPc' \in {"read", "store"} /\ TakenNow = 0
        /\ sendExtraAck' = sendExtraAck
    BY <1>2, <1>5, SenderFrame DEF Ready, NoFwd, TakenNow, rVars, mVars
  <2>2. Len(<<>>) = 0
    OBVIOUS
  <2>3. Run(inT1', Current', blkNum', 0) /\ Run(toT1', Current', blkNum', 0)
    BY <1>7, <2>1, <2>2 DEF Run
  <2>4. Run(inM2', Current', blkNum', 0)
    BY <1>1, <1>4, <1>6, <1>7
  <2>5. Len(inT1') = 0 /\ Len(toT1') = 0 /\ Len(inM2') = Most
    BY <1>6, <1>7, <2>1
  <2> QED BY <1>1, <1>2, <1>3, <1>7, <2>1, <2>3, <2>4, <2>5 DEF BlockUnderWay
<1> QED BY <1>10, <1>11 DEF Inv, Phase

(* It hears a NAK too many and sends the first CANs.                        *)
LEMMA SenderGivesUpKeeps ==
    ASSUME Inv, SenderGivesUp, UNCHANGED <<par, rVars, mVars>>
    PROVE  Inv'
<1>1. /\ SenderHears /\ sState = "ACKNAK" /\ Heard = "NAK" /\ sPc = "read"
      /\ SenderAnswers(Ctls("CAN", 2)) /\ sCans' = 1 /\ sPc' = "can"
      /\ UNCHANGED <<sState, sResult, sErrCnt, sCrc, bytesRd, blkNum, blkBufs, chunksRd>>
  BY DEF SenderGivesUp, SenderGets, SenderHears
<1>2. AnswerUnderWay /\ inT2 = NAK /\ ~sendExtraAck /\ Base
  BY <1>1, SenderHearsWhat DEF Inv
<1>3. SenderTypeOK /\ NetTypeOK /\ sResult = "ResultNotSet" /\ CAN_LEN \div 2 = 4
  BY <1>1, <1>2, Sizes DEF Base, TypeOK, SenderPcs
<1>4. Steps' /\ Buffers'
  BY <1>1, <1>2, SenderKeeps
<1>5. /\ NoFwd /\ inM1 = <<>> /\ toT2 = <<>> /\ Left(inT2, 1) = <<>> /\ Ready
  BY <1>2, LeftIs DEF AnswerUnderWay, OneBack, BackAfter
<1>6. Ctls("CAN", 2) \in Seq(Char) /\ Len(Ctls("CAN", 2)) = 2 /\ AllCan(Ctls("CAN", 2))
  BY CansType
<1>7. /\ NetTypeOK' /\ closed' = closed
      /\ inT1' = <<>> /\ inM1' = <<>> /\ inT2' = <<>> /\ inM2' = Ctls("CAN", 2)
  <2>1. /\ NetTypeOK' /\ closed' = closed
        /\ Queues(inT1, inM1, inM2 \o Ctls("CAN", 2), Left(inT2, 1))
    BY <1>1, <1>3, <1>6, SenderAnswersAt
  <2>2. <<>> \o Ctls("CAN", 2) = Ctls("CAN", 2)
    BY <1>6, NoChar
  <2> QED BY <1>5, <2>1, <2>2 DEF Queues, NoFwd
<1>8. SenderTypeOK'
  BY <1>1, <1>3 DEF SenderTypeOK
<1>9. SenderPcs'
  BY <1>1, <1>2, <1>3 DEF Base, SenderPcs, Buffers
<1>10. Base'
  BY <1>1, <1>2, <1>4, <1>7, <1>8, <1>9, SenderMoves
<1>11. SenderGaveUp'
  <2>1. /\ toT1' = <<>> /\ toT2' = <<>> /\ Cut' /\ rPc' \notin {"start", "rest"}
        /\ sendExtraAck' = sendExtraAck
    BY <1>2, <1>5, SenderFrame DEF Ready, NoFwd, rVars, mVars, Cut, Base, ReceiverPcs
  <2>2. AllCan(inM2') /\ AllCan(toT1') /\ AllCan(inT1')
    BY <1>6, <1>7, <2>1 DEF AllCan
  <2>3. Len(inM2') + Len(toT1') + Len(inT1') <= 2 * sCans'
    <3>1. Len(inM2') = 2 /\ Len(toT1') = 0 /\ Len(inT1') = 0
      BY <1>6, <1>7, <2>1
    <3> QED BY <1>1, <3>1
  <2> QED BY <1>1, <1>2, <1>7, <2>1, <2>2, <2>3 DEF SenderGaveUp, NoBack
<1> QED BY <1>10, <1>11 DEF Inv, Phase

(* The last character of a block, after an extra ACK was thrown away.       *)
LEMMA SenderLastByteKeeps ==
    ASSUME Inv, SenderLastByte, UNCHANGED <<par, rVars, mVars>>
    PROVE  Inv'
<1>1. /\ sPc = "last" /\ Drained("T2") /\ sPc' = "read"
      /\ queue' = Plus([queue EXCEPT !["T2"] = <<>>], "T2", LastByte(CurBlk, sCrc))
      /\ UNCHANGED <<sState, sResult, sErrCnt, sCrc, bytesRd, blkNum, blkBufs,
                     chunksRd, sCans, closed, reset, exited>>
  BY DEF SenderLastByte, CurBlk
<1>2. Base /\ sResult = "ResultNotSet" /\ sState # "Final"
  BY <1>1 DEF Inv, Base, SenderPcs
<1>3. BlockUnderWay
  BY <1>1, <1>2 DEF Inv, Phase, Opening, NoFile, AnswerUnderWay, SenderGaveUp, ReceiverGaveUp,
       FirstEot, FirstEotAnswered, SenderEndsEarly, SecondEot, Complete
<1>4. /\ SenderTypeOK /\ NetTypeOK /\ Buffers /\ sState = "ACKNAK"
      /\ sCrc = par.crc /\ par.crc \in BOOLEAN
      /\ CurBlk.chunk = Current /\ CurBlk.num = blkNum /\ CurBlk \in Blk
      /\ Most = BlkSz(par.crc) - 1 /\ Most \in Nat
      /\ TakenNow \in Nat /\ toT1 \in Seq(Char)
  BY <1>2, <1>3, ParType, BaseTypes DEF Base, TypeOK, Buffers, BlockUnderWay
<1>5. ~sendExtraAck
  <2>1. sendExtraAck => inM2 = <<>>
    BY <1>1, <1>2, Lines DEF Base, MediumPcs, Drained, inM2
  <2> QED BY <1>3, <2>1 DEF BlockUnderWay
<1>6. Current' = Current /\ CurBlk' = CurBlk /\ Steps' /\ Buffers'
  <2>1. bytesRd # -2
    BY <1>4 DEF Buffers
  <2> QED BY <1>1, <1>2, <2>1, SenderKeeps
<1> DEFINE last == LastByte(CurBlk, par.crc)
<1>7. last \in Seq(Char) /\ Len(last) = 1 /\ Run(last, Current, blkNum, Most)
  BY <1>4, BlkRuns
<1>8. /\ NetTypeOK' /\ closed' = closed
      /\ inT1' = inT1 /\ inM1' = inM1 /\ inT2' = <<>> /\ inM2' = inM2 \o last
      /\ inM2 \in Seq(Char) /\ inT1 \in Seq(Char)
  <2>1. queue' = [queue EXCEPT !["T2"] = <<>>, !["M2"] = inM2 \o last]
    BY <1>1, <1>4, QueueType, Lines DEF Plus
  <2>2. inM2 \in Seq(Char) /\ inM2 \o last \in Seq(Char) /\ <<>> \in Seq(Char) /\ inT1 \in Seq(Char)
    BY <1>4, <1>7, QueueType
  <2>3. Queues(inT1, inM1, inM2 \o last, <<>>)
    BY <1>4, <2>1, <2>2, QueuesAt
  <2> QED BY <1>1, <1>2, <2>2, <2>3 DEF Queues, NetTypeOK, Base, TypeOK
<1> HIDE DEF last
<1>9. SenderTypeOK'
  BY <1>1, <1>4 DEF SenderTypeOK
<1>10. SenderPcs'
  BY <1>1, <1>2 DEF Base, SenderPcs
<1>11. Base'
  BY <1>1, <1>2, <1>6, <1>8, <1>9, <1>10, SenderMoves
<1>12. BlockUnderWay'
  <2>1. /\ toT1' = toT1 /\ toT2' = toT2 /\ TakenNow' = TakenNow /\ Most' = Most
        /\ rState' = rState /\ rPc' = rPc /\ rcvBlk' = rcvBlk
        /\ sendExtraAck' = sendExtraAck
    BY <1>2, SenderFrame DEF rVars, mVars
  <2>2. /\ Run(inM2, Current, blkNum, TakenNow + Len(inT1) + Len(toT1))
        /\ TakenNow + Len(inT1) + Len(toT1) + Len(inM2) = Most
        /\ Run(inT1, Current, blkNum, TakenNow)
        /\ Run(toT1, Current, blkNum, TakenNow + Len(inT1))
        /\ rPc = "rest" => Run(rcvBlk, Current, blkNum, 1)
    BY <1>1, <1>3 DEF BlockUnderWay
  <2>3. TakenNow + Len(inT1) + Len(toT1) \in Nat /\ Len(inM2) \in Nat
    BY <1>4, <1>8
  <2>4. Run(inM2 \o last, Current, blkNum, TakenNow + Len(inT1) + Len(toT1))
        /\ Len(inM2 \o last) = Len(inM2) + 1
    <3>1. Run(last, Current, blkNum, TakenNow + Len(inT1) + Len(toT1) + Len(inM2))
      BY <1>7, <2>2
    <3> DEFINE from == TakenNow + Len(inT1) + Len(toT1)
    <3>2. from \in Nat /\ Run(last, Current, blkNum, from + Len(inM2)) /\ Run(inM2, Current, blkNum, from)
      BY <2>2, <2>3, <3>1
    <3> HIDE DEF from
    <3>3. Run(inM2 \o last, Current, blkNum, from) /\ Len(inM2 \o last) = Len(inM2) + Len(last)
      BY <1>7, <1>8, <3>2, RunConcat
    <3> QED BY <1>7, <3>3 DEF from
  <2>5. TakenNow + Len(inT1) + Len(toT1) + Len(inM2 \o last) = Most + 1
    BY <1>4, <2>2, <2>3, <2>4
  <2>6. /\ Run(inT1', Current', blkNum', TakenNow')
        /\ Run(toT1', Current', blkNum', TakenNow' + Len(inT1'))
        /\ Run(inM2', Current', blkNum', TakenNow' + Len(inT1') + Len(toT1'))
        /\ TakenNow' + Len(inT1') + Len(toT1') + Len(inM2') = Most' + 1
        /\ rPc' = "rest" => Run(rcvBlk', Current', blkNum', 1)
    BY <1>1, <1>6, <1>8, <2>1, <2>2, <2>4, <2>5
  <2> QED BY <1>1, <1>3, <1>5, <1>8, <2>1, <2>6 DEF BlockUnderWay
<1> QED BY <1>11, <1>12 DEF Inv, Phase

(* The other CANs.                                                          *)
LEMMA SenderCanKeeps ==
    ASSUME Inv, SenderCan, UNCHANGED <<par, rVars, mVars>>
    PROVE  Inv'
<1>1. /\ sPc = "can" /\ queue' = Plus(queue, "T2", Ctls("CAN", 2)) /\ sCans' = sCans + 1
      /\ IF 2 * sCans' < CAN_LEN
         THEN UNCHANGED <<sPc, sState, sResult>>
         ELSE sState' = "Final" /\ sResult' = "ExcessiveNAKs" /\ sPc' = "close"
      /\ UNCHANGED <<sErrCnt, sCrc, bytesRd, blkNum, blkBufs, chunksRd, closed, reset, exited>>
  BY DEF SenderCan, SenderFinal
<1>2. /\ Base /\ sResult = "ResultNotSet" /\ sState # "Final" /\ sCans < 4
      /\ CAN_LEN \div 2 = 4 /\ CAN_LEN = 8
  BY <1>1, Sizes DEF Inv, Base, SenderPcs
<1>3. SenderGaveUp
  BY <1>1, <1>2 DEF Inv, Phase, Opening, NoFile, AnswerUnderWay, BlockUnderWay, ReceiverGaveUp,
       FirstEot, FirstEotAnswered, SenderEndsEarly, SecondEot, Complete
<1>4. /\ SenderTypeOK /\ NetTypeOK /\ sState = "ACKNAK" /\ sCans \in 0 .. 4
      /\ toT1 \in Seq(Char) /\ inM2 \in Seq(Char) /\ inT1 \in Seq(Char)
  BY <1>1, <1>2, <1>3, BaseTypes, QueueType DEF Base, TypeOK, SenderGaveUp, SenderTypeOK
<1>5. Steps' /\ Buffers'
  BY <1>1, <1>2, <1>4, SenderKeeps DEF Base, Buffers
<1> DEFINE cans == Ctls("CAN", 2)
<1>6. cans \in Seq(Char) /\ Len(cans) = 2 /\ AllCan(cans)
  BY CansType
<1>7. /\ NetTypeOK' /\ closed' = closed
      /\ inT1' = inT1 /\ inM1' = inM1 /\ inT2' = inT2 /\ inM2' = inM2 \o cans
  <2>1. queue' = [queue EXCEPT !["M2"] = inM2 \o cans]
    BY <1>1, <1>4, QueueType, Lines DEF Plus
  <2>2. inM2 \o cans \in Seq(Char)
    BY <1>4, <1>6
  <2>3. Queues(inT1, inM1, inM2 \o cans, inT2)
    BY <1>4, <2>1, <2>2, QueuesAt
  <2> QED BY <1>1, <1>2, <2>3 DEF Queues, NetTypeOK, Base, TypeOK
<1> HIDE DEF cans
<1>8. \/ sPc' = "can" /\ sState' = "ACKNAK" /\ sResult' = "ResultNotSet"
      \/ sPc' = "close" /\ sState' = "Final" /\ sResult' = "ExcessiveNAKs"
  <2>1. CASE 2 * sCans' < CAN_LEN
    BY <1>1, <1>2, <1>4, <2>1
  <2>2. CASE ~(2 * sCans' < CAN_LEN)
    BY <1>1, <2>2
  <2> QED BY <2>1, <2>2
<1>9. SenderTypeOK'
  <2>1. sCans' \in 0 .. CAN_LEN \div 2
    BY <1>1, <1>2, <1>4
  <2>2. /\ sPc' \in {"can", "close"} /\ sState' \in {"ACKNAK", "Final"}
        /\ sResult' \in {"ResultNotSet", "ExcessiveNAKs"}
    BY <1>1, <1>2, <1>8
  <2> QED BY <1>1, <1>4, <2>1, <2>2 DEF SenderTypeOK
<1>10. SenderPcs'
  BY <1>1, <1>2, <1>4 DEF Base, SenderPcs
<1>11. Base'
  BY <1>1, <1>2, <1>5, <1>7, <1>9, <1>10, SenderMoves
<1>12. SenderGaveUp'
  <2>1. /\ toT1' = toT1 /\ toT2' = toT2 /\ (Cut' <=> Cut) /\ rPc' = rPc /\ rcvBlk' = rcvBlk
        /\ sendExtraAck' = sendExtraAck
    BY <1>2, SenderFrame DEF rVars, mVars
  <2>2. AllCan(inM2 \o cans) /\ Len(inM2 \o cans) = Len(inM2) + 2
    <3>1. AllCan(inM2)
      BY <1>3 DEF SenderGaveUp
    <3>2. AllCan(inM2 \o cans) /\ Len(inM2 \o cans) = Len(inM2) + Len(cans)
      BY <1>4, <1>6, <3>1, CanConcat
    <3> QED BY <1>6, <3>2
  <2>3. AllCan(inM2') /\ AllCan(toT1') /\ AllCan(inT1')
    BY <1>3, <1>7, <2>1, <2>2 DEF SenderGaveUp
  <2>4. Len(inM2') + Len(toT1') + Len(inT1') <= 2 * sCans'
    <3>1. Len(inM2) \in Nat /\ Len(toT1) \in Nat /\ Len(inT1) \in Nat
      BY <1>4
    <3>2. Len(inM2) + Len(toT1) + Len(inT1) <= 2 * sCans
      BY <1>3 DEF SenderGaveUp
    <3>3. Len(inM2') = Len(inM2) + 2 /\ Len(toT1') = Len(toT1) /\ Len(inT1') = Len(inT1)
      BY <1>7, <2>1, <2>2
    <3> QED BY <1>1, <1>4, <3>1, <3>2, <3>3
  <2>5. NoBack' /\ ~sendExtraAck' /\ Cut' /\ rPc' # "start"
        /\ (rPc' = "rest" => rcvBlk' = <<>> /\ "M1" \in closed' /\ inT1' = <<>>)
    BY <1>3, <1>7, <2>1 DEF SenderGaveUp, NoBack
  <2>6. \/ sState' = "ACKNAK" /\ sPc' = "can"
        \/ sState' = "Final" /\ sResult' = "ExcessiveNAKs"
    BY <1>8
  <2> QED BY <2>3, <2>4, <2>5, <2>6 DEF SenderGaveUp
<1> QED BY <1>11, <1>12 DEF Inv, Phase

(* The first EOT: the receiver has all of the file.                         *)
LEMMA SenderEotKeeps ==
    ASSUME Inv, SenderEot, UNCHANGED <<par, rVars, mVars>>
    PROVE  Inv'
<1>1. /\ SenderHears /\ sPc = "read" /\ bytesRd = 0
      /\ SenderAnswers(EOT) /\ sState' = "EOT1"
      /\ \/ sState = "START" /\ sErrCnt' = sErrCnt
         \/ sState = "ACKNAK" /\ Heard = "ACK" /\ sErrCnt' = 0
      /\ UNCHANGED <<sPc, sResult, sCrc, bytesRd, blkNum, blkBufs, chunksRd, sCans>>
  BY DEF SenderEot, SenderGets, SenderHears, EOT
<1>2. /\ Base /\ inT2 \in {Ask, ACK}
      /\ sState = "START" => Opening /\ inT2 = Ask
      /\ sState = "ACKNAK" => AnswerUnderWay /\ inT2 = ACK /\ Caught
  BY <1>1, SenderHearsWhat DEF Inv
<1>3. SenderTypeOK /\ NetTypeOK /\ Steps /\ Buffers /\ sResult = "ResultNotSet" /\ ErrB \in Nat
  BY <1>1, <1>2, Sizes DEF Base, TypeOK, SenderPcs
<1>4. Caught
  <2>1. CASE sState = "START"
    <3>1. Current = 0 /\ Good \in Nat
      BY <1>2, <1>3, <2>1, BaseTypes DEF Buffers
    <3> QED BY <1>3, <3>1 DEF Steps, Behind
  <2> QED BY <1>1, <1>2, <2>1
<1>5. /\ NoFwd /\ inM1 = <<>> /\ toT2 = <<>> /\ Left(inT2, 1) = <<>> /\ Ready
  BY <1>1, <1>2, LeftIs DEF Opening, AnswerUnderWay, OneBack, BackAfter, NoBack, Ready
<1>6. EOT \in Seq(Char) /\ <<>> \o EOT = EOT /\ EOT # <<>>
  BY CtlType, LeftIs
<1>7. /\ NetTypeOK' /\ closed' = closed
      /\ inT1' = <<>> /\ inM1' = <<>> /\ inT2' = <<>> /\ inM2' = EOT
  <2>1. /\ NetTypeOK' /\ closed' = closed /\ Queues(inT1, inM1, inM2 \o EOT, Left(inT2, 1))
    BY <1>1, <1>3, <1>6, SenderAnswersAt
  <2> QED BY <1>5, <1>6, <2>1 DEF Queues, NoFwd
<1>8. Steps' /\ Buffers' /\ (Caught' <=> Caught) /\ (AtEnd' <=> AtEnd)
  BY <1>1, <1>2, SenderKeeps
<1>9. SenderTypeOK' /\ SenderPcs'
  BY <1>1, <1>2, <1>3 DEF SenderTypeOK, Base, SenderPcs
<1>10. Base'
  BY <1>1, <1>2, <1>7, <1>8, <1>9, SenderMoves
<1>11. FirstEot'
  <2>1. toT1' = <<>> /\ toT2' = <<>> /\ Ready'
    BY <1>2, <1>5, SenderFrame DEF NoFwd
  <2>2. AtEnd'
    BY <1>1, <1>4, <1>8 DEF AtEnd
  <2> QED BY <1>1, <1>6, <1>7, <2>1, <2>2 DEF FirstEot, OneFwd
<1> QED BY <1>10, <1>11 DEF Inv, Phase

(* The second EOT, after the NAK of the first.                              *)
LEMMA SenderSecondEotKeeps ==
    ASSUME Inv, SenderSecondEot, UNCHANGED <<par, rVars, mVars>>
    PROVE  Inv'
<1>1. /\ SenderHears /\ sPc = "read" /\ sState = "EOT1" /\ Heard = "NAK"
      /\ SenderAnswers(EOT) /\ sState' = "EOTEOT"
      /\ UNCHANGED <<sPc, sResult, sErrCnt, sCrc, bytesRd, blkNum, blkBufs, chunksRd, sCans>>
  BY DEF SenderSecondEot, SenderGets, SenderHears, EOT
<1>2. Base /\ FirstEotAnswered /\ inT2 = NAK
  BY <1>1, SenderHearsWhat DEF Inv
<1>3. SenderTypeOK /\ NetTypeOK /\ sResult = "ResultNotSet"
  BY <1>1, <1>2 DEF Base, TypeOK, SenderPcs
<1>4. inM1 = <<>> /\ toT2 = <<>> /\ Left(inT2, 1) = <<>> /\ NoFwd
  BY <1>2, LeftIs DEF FirstEotAnswered, BackAfter
<1>5. EOT \in Seq(Char) /\ <<>> \o EOT = EOT
  BY CtlType, LeftIs
<1>6. /\ NetTypeOK' /\ closed' = closed
      /\ inT1' = <<>> /\ inM1' = <<>> /\ inT2' = <<>> /\ inM2' = EOT
  <2>1. /\ NetTypeOK' /\ closed' = closed /\ Queues(inT1, inM1, inM2 \o EOT, Left(inT2, 1))
    BY <1>1, <1>3, <1>5, SenderAnswersAt
  <2> QED BY <1>4, <1>5, <2>1 DEF Queues, NoFwd
<1>7. Steps' /\ Buffers' /\ (AtEnd' <=> AtEnd)
  BY <1>1, <1>2, SenderKeeps DEF Base, Buffers
<1>8. SenderTypeOK' /\ SenderPcs'
  BY <1>1, <1>2, <1>3 DEF SenderTypeOK, Base, SenderPcs, Buffers
<1>9. Base'
  BY <1>1, <1>2, <1>6, <1>7, <1>8, SenderMoves
<1>10. SecondEot'
  <2>1. /\ toT1' = <<>> /\ toT2' = <<>> /\ rState' = rState /\ rPc' = rPc
        /\ sendExtraAck' = sendExtraAck
    BY <1>2, <1>4, SenderFrame DEF NoFwd, rVars, mVars
  <2> QED BY <1>1, <1>2, <1>6, <1>7, <2>1 DEF SecondEot, FirstEotAnswered, OneFwd, NoBack
<1> QED BY <1>9, <1>10 DEF Inv, Phase

(* A run of CANs loses one at the front.                                    *)
LEMMA LeftCans ==
    ASSUME NEW s \in Seq(Char), AllCan(s)
    PROVE  AllCan(Left(s, 1)) /\ Left(s, 1) \in Seq(Char) /\ Len(Left(s, 1)) <= Len(s)
<1>1. AllCan(Left(s, 1))
  BY CanTake DEF Left
<1>2. /\ Left(s, 1) \in Seq(Char) /\ Least(1, Len(s)) \in 0 .. Len(s)
      /\ Len(Left(s, 1)) = Len(s) - Least(1, Len(s))
  BY TakeType DEF Left
<1> QED BY <1>1, <1>2

(* The sender ends on an ACK of an EOT, or on a second CAN.                 *)
LEMMA SenderEndsKeeps ==
    ASSUME Inv, SenderEnds, UNCHANGED <<par, rVars, mVars>>
    PROVE  Inv'
<1>1. /\ SenderHears /\ sPc = "read" /\ SenderConsumes
      /\ sState' = "Final" /\ sPc' = "close"
      /\ \/ sState = "EOT1" /\ Heard = "ACK" /\ sResult' = "1st EOT ACK'd"
         \/ sState = "EOTEOT" /\ Heard = "ACK" /\ sResult' = "Done"
         \/ sState = "CAN" /\ Heard = "CAN" /\ sResult' = "RcvCancelled"
      /\ UNCHANGED <<sErrCnt, sCrc, bytesRd, blkNum, blkBufs, chunksRd, sCans>>
  BY DEF SenderEnds, SenderGets, SenderHears, SenderFinal
<1>2. /\ Base
      /\ sState = "EOT1" => (FirstEot \/ FirstEotAnswered) /\ inT2 # NAK
      /\ sState = "EOTEOT" => Complete /\ inT2 = ACK
      /\ sState = "CAN" => ReceiverGaveUp
      /\ inT2 # <<>>
  BY <1>1, SenderHearsWhat DEF Inv, SenderHears, Readable, inT2
<1>3. /\ SenderTypeOK /\ NetTypeOK /\ sResult = "ResultNotSet" /\ Buffers
      /\ toT2 \in Seq(Char) /\ inT2 \in Seq(Char) /\ inM1 \in Seq(Char)
  BY <1>1, <1>2, BaseTypes, QueueType DEF Base, TypeOK, SenderPcs
<1>4. /\ NetTypeOK' /\ closed' = closed
      /\ inT1' = inT1 /\ inM1' = inM1 /\ inM2' = inM2 /\ inT2' = Left(inT2, 1)
  BY <1>1, <1>3, SenderConsumesAt DEF Queues
<1>5. /\ Steps' /\ Buffers' /\ (AtEnd' <=> AtEnd) /\ (Caught' <=> Caught)
  BY <1>1, <1>2, <1>3, SenderKeeps DEF Buffers
<1>6. SenderTypeOK' /\ SenderPcs'
  <2>1. bytesRd # -2
    BY <1>1, <1>3 DEF Buffers
  <2> QED BY <1>1, <1>3, <2>1 DEF SenderTypeOK, SenderPcs
<1>7. Base'
  BY <1>1, <1>2, <1>4, <1>5, <1>6, SenderMoves
<1>8. /\ toT1' = toT1 /\ toT2' = toT2 /\ (Ready' <=> Ready)
      /\ rState' = rState /\ rPc' = rPc /\ rResult' = rResult /\ sendExtraAck' = sendExtraAck
  BY <1>2, SenderFrame DEF rVars, mVars
<1>9. CASE sState = "EOT1"
  <2>1. sResult' = "1st EOT ACK'd"
    BY <1>1, <1>9
  <2>2. CASE FirstEot
    <3>1. inT2 = ACK /\ inT1 = EOT /\ inM1 = <<>> /\ toT2 = <<>> /\ ~sendExtraAck
          /\ inM2 = <<>> /\ toT1 = <<>> /\ Ready /\ AtEnd
      BY <1>2, <2>2, LeftIs DEF FirstEot, OneFwd
    <3>2. inT2' = <<>>
      BY <1>4, <3>1, LeftIs
    <3> QED BY <1>1, <1>4, <1>5, <1>7, <1>8, <2>1, <3>1, <3>2
            DEF SenderEndsEarly, NoBack, Inv, Phase
  <2>3. CASE FirstEotAnswered
    <3>1. /\ rState = "EOT" /\ rPc = "read" /\ inM2 = <<>> /\ toT1 = <<>> /\ inT1 = <<>>
          /\ ~sendExtraAck /\ AtEnd
      BY <2>3 DEF FirstEotAnswered, NoFwd
    <3>2. BackAfter(ACK, NAK)
      BY <1>2, <1>9, <2>3, LeftIs DEF FirstEotAnswered, BackAfter
    <3>3. BackAfter(<<>>, NAK)'
      BY <1>4, <1>8, <3>2, LeftIs DEF BackAfter
    <3> QED BY <1>1, <1>4, <1>5, <1>7, <1>8, <2>1, <3>1, <3>3
            DEF SenderEndsEarly, OneBack, Inv, Phase
  <2> QED BY <1>2, <1>9, <2>2, <2>3
<1>10. CASE sState = "EOTEOT"
  <2>1. sResult' = "Done"
    BY <1>1, <1>10
  <2>2. rResult = "Done" /\ AtEnd /\ NoFwd /\ inT2 = ACK /\ inM1 = <<>> /\ toT2 = <<>>
    BY <1>2, <1>3, <1>10, LeftIs DEF Complete, OneBack, BackAfter, NoBack
  <2>3. NoBack' /\ NoFwd'
    BY <1>4, <1>8, <2>2, LeftIs DEF NoBack, NoFwd
  <2> QED BY <1>1, <1>5, <1>7, <1>8, <2>1, <2>2, <2>3 DEF Complete, Inv, Phase
<1>11. CASE sState = "CAN"
  <2>1. sResult' = "RcvCancelled"
    BY <1>1, <1>11
  <2>2. /\ AllCan(Left(inT2, 1)) /\ Len(Left(inT2, 1)) <= Len(inT2) /\ Left(inT2, 1) \in Seq(Char)
    BY <1>2, <1>3, <1>11, LeftCans DEF ReceiverGaveUp
  <2>3. Len(inM1') + Len(toT2') + Len(inT2') <= CAN_LEN
    <3>1. Len(inM1) + Len(toT2) + Len(inT2) <= 8 /\ CAN_LEN = 8
      BY <1>2, <1>11, Sizes DEF ReceiverGaveUp
    <3>2. Len(inM1) \in Nat /\ Len(toT2) \in Nat /\ Len(inT2) \in Nat /\ Len(Left(inT2, 1)) \in Nat
      BY <1>3, <2>2
    <3> QED BY <1>4, <1>8, <2>2, <3>1, <3>2
  <2>4. AllCan(inM1') /\ AllCan(toT2') /\ AllCan(inT2') /\ NoFwd' /\ rResult' = "ExcessiveErrors"
    BY <1>2, <1>4, <1>8, <1>11, <2>2 DEF ReceiverGaveUp, NoFwd
  <2> QED BY <1>1, <1>7, <2>1, <2>3, <2>4 DEF ReceiverGaveUp, Inv, Phase
<1> QED BY <1>1, <1>9, <1>10, <1>11

(* It hears the first CAN of a receiver that gave up.                       *)
LEMMA SenderFirstCanKeeps ==
    ASSUME Inv, SenderFirstCan, UNCHANGED <<par, rVars, mVars>>
    PROVE  Inv'
<1>1. /\ SenderHears /\ sPc = "read" /\ SenderConsumes
      /\ sState = "ACKNAK" /\ Heard = "CAN" /\ sState' = "CAN"
      /\ UNCHANGED <<sPc, sResult, sErrCnt, sCrc, bytesRd, blkNum, blkBufs, chunksRd, sCans>>
  BY DEF SenderFirstCan, SenderGets, SenderHears
<1>2. Base /\ ReceiverGaveUp
  BY <1>1, SenderHearsWhat DEF Inv
<1>3. /\ SenderTypeOK /\ NetTypeOK /\ sResult = "ResultNotSet" /\ Buffers
      /\ toT2 \in Seq(Char) /\ inT2 \in Seq(Char) /\ inM1 \in Seq(Char)
  BY <1>1, <1>2, BaseTypes, QueueType DEF Base, TypeOK, SenderPcs
<1>4. /\ NetTypeOK' /\ closed' = closed
      /\ inT1' = inT1 /\ inM1' = inM1 /\ inM2' = inM2 /\ inT2' = Left(inT2, 1)
  BY <1>1, <1>3, SenderConsumesAt DEF Queues
<1>5. Steps' /\ Buffers'
  BY <1>1, <1>2, <1>3, SenderKeeps DEF Buffers
<1>6. SenderTypeOK' /\ SenderPcs'
  <2>1. bytesRd # -2
    BY <1>1, <1>3 DEF Buffers
  <2> QED BY <1>1, <1>3, <2>1 DEF SenderTypeOK, SenderPcs
<1>7. Base'
  BY <1>1, <1>2, <1>4, <1>5, <1>6, SenderMoves
<1>8. /\ toT1' = toT1 /\ toT2' = toT2 /\ rResult' = rResult
  BY <1>2, SenderFrame DEF rVars
<1>9. /\ AllCan(Left(inT2, 1)) /\ Len(Left(inT2, 1)) <= Len(inT2) /\ Left(inT2, 1) \in Seq(Char)
  BY <1>2, <1>3, LeftCans DEF ReceiverGaveUp
<1>10. Len(inM1') + Len(toT2') + Len(inT2') <= CAN_LEN
  <2>1. Len(inM1) + Len(toT2) + Len(inT2) <= 8 /\ CAN_LEN = 8
    BY <1>2, Sizes DEF ReceiverGaveUp
  <2>2. Len(inM1) \in Nat /\ Len(toT2) \in Nat /\ Len(inT2) \in Nat /\ Len(Left(inT2, 1)) \in Nat
    BY <1>3, <1>9
  <2> QED BY <1>4, <1>8, <1>9, <2>1, <2>2
<1>11. AllCan(inM1') /\ AllCan(toT2') /\ AllCan(inT2') /\ NoFwd' /\ rResult' = "ExcessiveErrors"
  BY <1>2, <1>4, <1>8, <1>9 DEF ReceiverGaveUp, NoFwd
<1>12. ReceiverGaveUp'
  BY <1>1, <1>10, <1>11 DEF ReceiverGaveUp
<1> QED BY <1>7, <1>12 DEF Inv, Phase

(* It closes its end, which throws away what it has not read.               *)
LEMMA SenderCloseKeeps ==
    ASSUME Inv, SenderClose, UNCHANGED <<par, rVars, mVars>>
    PROVE  Inv'
<1>1. /\ sPc = "close" /\ CloseEnd("T2") /\ sPc' = "done"
      /\ UNCHANGED <<sState, sResult, sErrCnt, sCrc, bytesRd, blkNum, blkBufs,
                     chunksRd, sCans, exited>>
  BY DEF SenderClose
<1>2. Base /\ sResult # "ResultNotSet" /\ SenderTypeOK /\ NetTypeOK
  BY <1>1 DEF Inv, Base, TypeOK, SenderPcs
<1>3. NoFile \/ SenderGaveUp \/ ReceiverGaveUp \/ SenderEndsEarly \/ Complete
  BY <1>1 DEF Inv, Phase, Opening, BlockUnderWay, AnswerUnderWay, FirstEot, FirstEotAnswered,
       SecondEot
<1>4. /\ NetTypeOK' /\ closed' = closed \cup {"T2"}
      /\ inT1' = inT1 /\ inM1' = inM1 /\ inM2' = inM2 /\ inT2' = <<>>
  BY <1>1, <1>2, CloseAt, Lines DEF Queues
<1>5. /\ Steps' /\ Buffers' /\ (AtEnd' <=> AtEnd)
  BY <1>1, <1>2, SenderKeeps
<1>6. SenderTypeOK' /\ SenderPcs'
  BY <1>1, <1>2 DEF SenderTypeOK, Base, SenderPcs
<1>7. Base'
  <2>1. ReceiverTypeOK' /\ MediumTypeOK' /\ ReceiverPcs' /\ MediumPcs'
    BY <1>2, SenderFrame
  <2>2. TypeOK'
    BY <1>4, <1>6, <2>1 DEF TypeOK
  <2>3. Closings'
    BY <1>1, <1>2, <1>4 DEF Base, Closings, rVars, mVars
  <2> QED BY <1>5, <1>6, <2>1, <2>2, <2>3 DEF Base
<1>8. /\ toT1' = toT1 /\ toT2' = toT2 /\ (Ready' <=> Ready) /\ (Cut' <=> Cut) /\ Ask' = Ask
      /\ rState' = rState /\ rPc' = rPc /\ rResult' = rResult /\ sendExtraAck' = sendExtraAck
      /\ rcvBlk' = rcvBlk
  BY <1>2, SenderFrame DEF rVars, mVars
<1>9. Ask # <<>> /\ NAK # <<>> /\ <<>> \o Ask = Ask /\ <<>> \o NAK = NAK
  BY LeftIs
<1>10. CASE NoFile
  BY <1>1, <1>4, <1>7, <1>8, <1>9, <1>10 DEF NoFile, NoFwd, NoBack, OneBack, BackAfter, Inv, Phase
<1>11. CASE SenderGaveUp
  BY <1>1, <1>4, <1>7, <1>8, <1>11 DEF SenderGaveUp, NoBack, Inv, Phase
<1>12. CASE ReceiverGaveUp
  <2>1. Len(inM1') + Len(toT2') + Len(inT2') <= CAN_LEN
    <3>1. Len(inM1) + Len(toT2) + Len(inT2) <= 8 /\ CAN_LEN = 8
      BY <1>12, Sizes DEF ReceiverGaveUp
    <3>2. Len(inM1) \in Nat /\ Len(toT2) \in Nat /\ Len(inT2) \in Nat /\ Len(<<>>) = 0
      BY <1>2, BaseTypes, QueueType
    <3> QED BY <1>4, <1>8, <3>1, <3>2
  <2>2. AllCan(inT2')
    BY <1>4 DEF AllCan
  <2> QED BY <1>1, <1>4, <1>7, <1>8, <1>12, <2>1, <2>2 DEF ReceiverGaveUp, NoFwd, Inv, Phase
<1>13. CASE SenderEndsEarly
  BY <1>1, <1>4, <1>5, <1>7, <1>8, <1>9, <1>13
     DEF SenderEndsEarly, NoBack, OneBack, BackAfter, Inv, Phase
<1>14. CASE Complete
  BY <1>1, <1>4, <1>5, <1>7, <1>8, <1>14 DEF Complete, NoFwd, NoBack, Inv, Phase
<1> QED BY <1>3, <1>10, <1>11, <1>12, <1>13, <1>14

(* So every step of the sender keeps the invariant.                         *)
LEMMA SenderKeepsInv ==
    ASSUME Inv, SenderThread
    PROVE  Inv'
<1>1. SenderStep /\ UNCHANGED <<par, rVars, mVars>>
  BY DEF SenderThread
<1>2. ASSUME SenderExits \/ SenderKilled PROVE Inv'
  BY <1>1, <1>2, OnlyExited DEF SenderExits, SenderKilled
<1> QED
  BY <1>1, <1>2, SenderOpenKeeps, SenderFirstBlkKeeps, SenderNextBlkKeeps, SenderResendKeeps,
     SenderGivesUpKeeps, SenderLastByteKeeps, SenderCanKeeps, SenderEotKeeps,
     SenderSecondEotKeeps, SenderEndsKeeps, SenderFirstCanKeeps, SenderCloseKeeps
     DEF SenderStep

-----------------------------------------------------------------------------
(* The receiver.                                                            *)

(* What a step of the receiver leaves alone.                                *)
LEMMA ReceiverFrame ==
    ASSUME Base, UNCHANGED <<par, sVars, mVars>>
    PROVE  /\ SenderTypeOK' /\ MediumTypeOK' /\ SenderPcs' /\ MediumPcs' /\ Buffers'
           /\ Current' = Current /\ CurBlk' = CurBlk
           /\ toT1' = toT1 /\ toT2' = toT2 /\ Ask' = Ask /\ Most' = Most
<1> USE DEF Base, TypeOK, sVars, mVars
<1>1. SenderTypeOK'
  BY DEF SenderTypeOK
<1>2. MediumTypeOK'
  BY DEF MediumTypeOK
<1>3. SenderPcs' /\ MediumPcs'
  BY DEF SenderPcs, MediumPcs
<1>4. Current' = Current /\ CurBlk' = CurBlk /\ NextBlk' = NextBlk
  BY DEF Current, CurBlk, NextBlk
<1>5. Buffers'
  BY <1>4 DEF Buffers, NextNum
<1>6. toT1' = toT1 /\ toT2' = toT2 /\ Ask' = Ask /\ Most' = Most
  BY DEF toT1, toT2, Ask, Most
<1> QED BY <1>1, <1>2, <1>3, <1>4, <1>5, <1>6

(* A step of the receiver that closes nothing keeps Base when it keeps the  *)
(* parts of it that are about the receiver.                                 *)
LEMMA ReceiverMoves ==
    ASSUME Base, UNCHANGED <<par, sVars, mVars>>,
           NetTypeOK', ReceiverTypeOK', Steps', ReceiverPcs',
           closed' = closed, rPc # "done", rPc' # "done"
    PROVE  Base'
<1>1. SenderTypeOK' /\ MediumTypeOK' /\ SenderPcs' /\ MediumPcs' /\ Buffers'
  BY ReceiverFrame
<1>2. TypeOK'
  BY <1>1 DEF TypeOK
<1>3. Closings'
  BY DEF Base, Closings, sVars, mVars
<1> QED BY <1>1, <1>2, <1>3 DEF Base

(* A step of the receiver that takes no block for a good one.               *)
LEMMA ReceiverKeeps ==
    ASSUME Base, UNCHANGED <<par, sVars, mVars>>,
           UNCHANGED <<numLastGoodBlk, firstBlock, written>>,
           rPc # "store", rPc' # "store"
    PROVE  Good' = Good /\ Steps' /\ (Caught' <=> Caught) /\ (AtEnd' <=> AtEnd)
<1>1. Good' = Good
  BY DEF Good
<1>2. Current' = Current
  BY ReceiverFrame
<1>3. (Caught' <=> Caught) /\ (Behind' <=> Behind)
  BY <1>1, <1>2 DEF Caught, Behind, NextNum, sVars
<1>4. Steps'
  BY <1>1, <1>3 DEF Base, Steps
<1>5. AtEnd' <=> AtEnd
  BY <1>3 DEF AtEnd, sVars
<1> QED BY <1>1, <1>3, <1>4, <1>5

(* What the receiver can hear: the first character of a block, EOT, CAN.    *)
LEMMA ReceiverHearsWhat ==
    ASSUME Inv, ReceiverHears, NEW c \in Means(HeardByte)
    PROVE  /\ rPc = "read" /\ rState # "Final" /\ HeardByte \in Char
           /\ c = "SOH" /\ inT1 # <<>> => BlockUnderWay
           /\ c = "EOT" /\ inT1 # <<>> /\ rState = "FIRSTBYTE" =>
                (FirstEot \/ SenderEndsEarly) /\ inT1 = EOT
           /\ c = "EOT" /\ inT1 # <<>> /\ rState = "EOT" => SecondEot /\ inT1 = EOT
           /\ c = "CAN" /\ inT1 # <<>> => SenderGaveUp
           /\ inT1 = <<>> => "M1" \in closed
           /\ inT1 = <<>> /\ rState # "EOT" => NoFile \/ SenderGaveUp
           /\ inT1 # <<>> /\ BlockUnderWay => inT1[1].pos = 0 /\ ~inT1[1].bad
<1>1. /\ Base /\ Phase /\ rPc = "read" /\ NetTypeOK /\ rState # "Final"
      /\ rResult = "ResultNotSet"
  BY DEF Inv, Base, TypeOK, ReceiverHears, ReceiverPcs
<1>2. /\ inT1 \in Seq(Char)
      /\ inT1 # <<>> => Len(inT1) >= 1 /\ Head(inT1) = inT1[1] /\ inT1[1] \in Char
  BY <1>1, QueueType, NoChar
<1>3. HeardByte \in Char
  BY <1>1, <1>2 DEF HeardByte, Readable, Base, TypeOK, ReceiverTypeOK, inT1
<1>4. ~ReceiverGaveUp /\ ~Complete
  BY <1>1 DEF ReceiverGaveUp, Complete
<1>5. ASSUME inT1 # <<>>
      PROVE  /\ c = "SOH" => BlockUnderWay
             /\ c = "EOT" /\ rState = "FIRSTBYTE" => (FirstEot \/ SenderEndsEarly) /\ inT1 = EOT
             /\ c = "EOT" /\ rState = "EOT" => SecondEot /\ inT1 = EOT
             /\ c = "CAN" => SenderGaveUp
             /\ BlockUnderWay => inT1[1].pos = 0 /\ ~inT1[1].bad
  <2>1. c \in Means(inT1[1])
    BY <1>2, <1>5 DEF HeardByte, Readable, inT1
  <2>2. BlockUnderWay \/ SenderGaveUp \/ FirstEot \/ SenderEndsEarly \/ SecondEot
    BY <1>1, <1>4, <1>5 DEF Phase, Opening, NoFile, AnswerUnderWay, FirstEotAnswered, NoFwd
  <2>3. BlockUnderWay => Means(inT1[1]) = {"SOH"} /\ inT1[1].pos = 0 /\ ~inT1[1].bad
    <3>1. ASSUME BlockUnderWay
          PROVE  inT1[1].c = "blk" /\ inT1[1].pos = 0 /\ ~inT1[1].bad
      <4>1. Run(inT1, Current, blkNum, 0)
        BY <1>1, <3>1 DEF BlockUnderWay, TakenNow
      <4> QED BY <1>2, <1>5, <4>1 DEF Run
    <3> QED BY <3>1 DEF Means
  <2>4. SenderGaveUp => Means(inT1[1]) \subseteq {"CAN", "other"}
    <3>1. SenderGaveUp => inT1[1].c = "CAN"
      BY <1>2, <1>5 DEF SenderGaveUp, AllCan
    <3> QED BY <3>1 DEF Means
  <2>5. inT1 = EOT => Means(inT1[1]) = {"EOT"}
    <3>1. inT1 = EOT => inT1[1] = Ctl("EOT")
      BY DEF EOT
    <3> QED BY <3>1 DEF Means, Ctl
  <2>6. FirstEot \/ SecondEot \/ SenderEndsEarly => inT1 = EOT
    BY <1>5 DEF FirstEot, SecondEot, SenderEndsEarly, OneFwd
  <2>7. (FirstEot => rState = "FIRSTBYTE") /\ (SecondEot => rState = "EOT")
        /\ (SenderEndsEarly => rState = "FIRSTBYTE")
    BY <1>5 DEF FirstEot, SecondEot, SenderEndsEarly, Ready
  <2> QED BY <2>1, <2>2, <2>3, <2>4, <2>5, <2>6, <2>7
<1>6. ASSUME inT1 = <<>>
      PROVE  "M1" \in closed /\ (rState # "EOT" => NoFile \/ SenderGaveUp)
  <2>1. "M1" \in closed
    BY <1>6, Lines DEF ReceiverHears, Readable, AtEof, inT1
  <2>2. sPc = "done"
    BY <1>1, <2>1 DEF Base, Closings
  <2>3. sResult # "ResultNotSet"
    BY <1>1, <2>2 DEF Base, SenderPcs
  <2>4. NoFile \/ SenderGaveUp \/ SenderEndsEarly
    BY <1>1, <1>4, <2>2 DEF Phase, Opening, BlockUnderWay, AnswerUnderWay, FirstEot,
         FirstEotAnswered, SecondEot
  <2>5. SenderEndsEarly => rState = "EOT"
    BY <1>6, LeftIs DEF SenderEndsEarly
  <2> QED BY <2>1, <2>4, <2>5
<1> QED BY <1>1, <1>3, <1>5, <1>6

(* The receiver asks for the first block.                                   *)
LEMMA ReceiverStartKeeps ==
    ASSUME Inv, ReceiverStart, UNCHANGED <<par, sVars, mVars>>
    PROVE  Inv'
<1>1. /\ rPc = "start" /\ ReceiverWrites(queue, Ask) /\ rPc' = "read"
      /\ UNCHANGED <<rState, rResult, rErrCnt, rcvBlk, numLastGoodBlk, firstBlock,
                     byteToReceive, written>>
  BY DEF ReceiverStart, Ask
<1>2. /\ Base /\ NetTypeOK /\ ReceiverTypeOK /\ rState # "Final" /\ rResult = "ResultNotSet"
      /\ Ask \in Seq(Char) /\ <<>> \o Ask = Ask
  BY <1>1, CtlType, LeftIs DEF Inv, Base, TypeOK, ReceiverPcs
<1>3. Opening \/ NoFile
  BY <1>1, <1>2 DEF Inv, Phase, BlockUnderWay, AnswerUnderWay, SenderGaveUp, ReceiverGaveUp,
       FirstEot, FirstEotAnswered, SenderEndsEarly, SecondEot, Complete, Ready
<1>4. NoBack /\ NoFwd
  BY <1>1, <1>3 DEF Opening, NoFile
<1>5. /\ NetTypeOK' /\ closed' = closed
      /\ inT1' = inT1 /\ inM1' = Ask /\ inM2' = inM2 /\ inT2' = inT2
  <2>1. NetTypeOK' /\ closed' = closed /\ Queues(inT1, inM1 \o Ask, inM2, inT2)
    BY <1>1, <1>2, ReceiverWritesAt
  <2> QED BY <1>2, <1>4, <2>1 DEF Queues, NoBack
<1>6. Steps'
  BY <1>1, <1>2, ReceiverKeeps
<1>7. ReceiverTypeOK' /\ ReceiverPcs'
  BY <1>1, <1>2 DEF ReceiverTypeOK, Base, ReceiverPcs
<1>8. Base'
  BY <1>1, <1>2, <1>5, <1>6, <1>7, ReceiverMoves
<1>9. /\ toT1' = toT1 /\ toT2' = toT2 /\ Ask' = Ask /\ sState' = sState /\ sPc' = sPc
      /\ sResult' = sResult /\ sendExtraAck' = sendExtraAck
  BY <1>2, ReceiverFrame DEF sVars, mVars
<1>10. NoFwd' /\ OneBack(Ask)'
  BY <1>4, <1>5, <1>9 DEF NoFwd, NoBack, OneBack, BackAfter
<1>11. CASE Opening
  BY <1>1, <1>8, <1>9, <1>10, <1>11 DEF Opening, Inv, Phase
<1>12. CASE NoFile
  BY <1>1, <1>8, <1>9, <1>10, <1>12 DEF NoFile, Cut, Inv, Phase
<1> QED BY <1>3, <1>11, <1>12

(* It hears an SOH, which is the first character of the block under way.    *)
LEMMA ReceiverSohKeeps ==
    ASSUME Inv, ReceiverSoh, UNCHANGED <<par, sVars, mVars>>
    PROVE  Inv'
<1>1. /\ ReceiverHears /\ rState = "FIRSTBYTE" /\ "SOH" \in Means(HeardByte)
      /\ byteToReceive' = HeardByte /\ queue' = Without("T1", 1)
      /\ UNCHANGED <<closed, reset, exited>>
      /\ rPc' = "rest" /\ rcvBlk' = <<>>
      /\ UNCHANGED <<rState, rResult, rErrCnt, numLastGoodBlk, firstBlock, written>>
  BY DEF ReceiverSoh, ReceiverGets, ReceiverConsumes
<1>2. /\ Base /\ NetTypeOK /\ ReceiverTypeOK /\ rPc = "read" /\ rState # "Final"
      /\ HeardByte \in Char
      /\ inT1 # <<>> => BlockUnderWay
      /\ inT1 = <<>> => (NoFile \/ SenderGaveUp) /\ "M1" \in closed
  BY <1>1, ReceiverHearsWhat DEF Inv, Base, TypeOK
<1>3. /\ NetTypeOK' /\ closed' = closed
      /\ inT1' = Left(inT1, 1) /\ inM1' = inM1 /\ inM2' = inM2 /\ inT2' = inT2
  BY <1>1, <1>2, ReceiverConsumesAt DEF Queues
<1>4. Steps'
  BY <1>1, <1>2, ReceiverKeeps
<1>5. ReceiverTypeOK' /\ ReceiverPcs'
  <2>1. <<>> \in Seq(Char) /\ Len(<<>>) < BlkSz(par.crc)
    <3>1. par.crc \in BOOLEAN
      BY <1>2, ParType
    <3>2. BlkSz(par.crc) \in Nat /\ BlkSz(par.crc) > 4
      BY <3>1, Sizes
    <3> QED BY <3>2
  <2> QED BY <1>1, <1>2, <2>1 DEF ReceiverTypeOK, Base, ReceiverPcs
<1>6. Base'
  BY <1>1, <1>2, <1>3, <1>4, <1>5, ReceiverMoves
<1>7. /\ toT1' = toT1 /\ toT2' = toT2 /\ Ask' = Ask /\ Most' = Most
      /\ Current' = Current /\ blkNum' = blkNum /\ sCans' = sCans
      /\ sState' = sState /\ sPc' = sPc /\ sResult' = sResult /\ sendExtraAck' = sendExtraAck
  BY <1>2, ReceiverFrame DEF sVars, mVars
<1>8. inT1 \in Seq(Char) /\ toT1 \in Seq(Char) /\ inM2 \in Seq(Char)
  BY <1>2, QueueType, BaseTypes
<1>9. CASE inT1 # <<>>
  <2>1. BlockUnderWay /\ Len(inT1) >= 1 /\ TakenNow = 0
    BY <1>2, <1>8, <1>9, NoChar DEF TakenNow
  <2>2. Least(1, Len(inT1)) = 1
    <3>1. Len(inT1) \in Nat /\ Len(inT1) >= 1
      BY <1>8, <2>1
    <3>2. \A n \in Nat : n >= 1 => Least(1, n) = 1
      BY DEF Least
    <3> QED BY <3>1, <3>2
  <2>3. Run(inT1, Current, blkNum, 0)
    BY <2>1 DEF BlockUnderWay
  <2>4. /\ Run(Left(inT1, 1), Current, blkNum, 0 + 1)
        /\ Len(Left(inT1, 1)) = Len(inT1) - 1
    BY <1>8, <2>2, <2>3, RunTake, TakeType DEF Left
  <2>5. TakenNow' = 1
    BY <1>1 DEF TakenNow
  <2>6. /\ Run(inT1', Current', blkNum', TakenNow')
        /\ Run(rcvBlk', Current', blkNum', 1)
    BY <1>1, <1>3, <1>7, <2>4, <2>5 DEF Run
  <2>7. TakenNow' + Len(inT1') = TakenNow + Len(inT1)
    BY <1>3, <1>8, <2>1, <2>4, <2>5
  <2>8. /\ Run(toT1', Current', blkNum', TakenNow' + Len(inT1'))
        /\ Run(inM2', Current', blkNum', TakenNow' + Len(inT1') + Len(toT1'))
        /\ TakenNow' + Len(inT1') + Len(toT1') + Len(inM2') =
              IF sPc' = "last" THEN Most' ELSE Most' + 1
    BY <1>3, <1>7, <2>1, <2>7 DEF BlockUnderWay
  <2>9. BlockUnderWay'
    BY <1>1, <1>3, <1>7, <2>1, <2>6, <2>8 DEF BlockUnderWay
  <2> QED BY <1>6, <2>9 DEF Inv, Phase
<1>10. CASE inT1 = <<>>
  <2>1. Left(inT1, 1) = <<>>
    <3>1. Len(inT1) <= 1
      BY <1>10
    <3> QED BY <1>8, <3>1, TakeAll DEF Left
  <2>2. CASE NoFile
    BY <1>1, <1>2, <1>3, <1>6, <1>7, <2>1, <2>2
       DEF NoFile, Cut, NoFwd, NoBack, OneBack, BackAfter, Inv, Phase
  <2>3. CASE SenderGaveUp
    <3>1. AllCan(inM2') /\ AllCan(toT1') /\ AllCan(inT1')
      BY <1>3, <1>7, <2>1, <2>3 DEF SenderGaveUp, AllCan
    <3>2. Len(inM2') + Len(toT1') + Len(inT1') <= 2 * sCans'
      BY <1>3, <1>7, <1>10, <2>1, <2>3 DEF SenderGaveUp
    <3>3. Cut' /\ NoBack' /\ ~sendExtraAck' /\ inT1' = <<>> /\ "M1" \in closed'
      BY <1>1, <1>2, <1>3, <1>7, <1>10, <2>1, <2>3 DEF SenderGaveUp, Cut, NoBack
    <3>4. \/ sState' = "ACKNAK" /\ sPc' = "can"
          \/ sState' = "Final" /\ sResult' = "ExcessiveNAKs"
      BY <1>7, <2>3 DEF SenderGaveUp
    <3>5. SenderGaveUp'
      BY <1>1, <3>1, <3>2, <3>3, <3>4 DEF SenderGaveUp
    <3> QED BY <1>6, <3>5 DEF Inv, Phase
  <2> QED BY <1>2, <1>10, <2>2, <2>3
<1> QED BY <1>9, <1>10

(* It answers the first EOT with NAK.                                       *)
LEMMA ReceiverEotKeeps ==
    ASSUME Inv, ReceiverEot, UNCHANGED <<par, sVars, mVars>>
    PROVE  Inv'
<1>1. /\ ReceiverHears /\ rState = "FIRSTBYTE" /\ "EOT" \in Means(HeardByte)
      /\ byteToReceive' = HeardByte
      /\ ReceiverWrites(Without("T1", 1), NAK) /\ Writable("T1")
      /\ rState' = "EOT"
      /\ UNCHANGED <<rPc, rResult, rErrCnt, rcvBlk, numLastGoodBlk, firstBlock, written>>
  BY DEF ReceiverEot, ReceiverGets, ReceiverWrites, NAK
<1>2. "M1" \notin closed
  BY <1>1, Lines DEF Writable
<1>3. /\ Base /\ NetTypeOK /\ ReceiverTypeOK /\ rPc = "read" /\ rState # "Final"
      /\ HeardByte \in Char
      /\ FirstEot \/ SenderEndsEarly
      /\ inT1 = EOT
  BY <1>1, <1>2, ReceiverHearsWhat DEF Inv, Base, TypeOK
<1>4. NAK \in Seq(Char) /\ <<>> \o NAK = NAK /\ Left(EOT, 1) = <<>> /\ EOT # <<>>
  BY CtlType, LeftIs
<1>5. inM1 = <<>> /\ toT2 = <<>> /\ inM2 = <<>> /\ toT1 = <<>> /\ ~sendExtraAck /\ AtEnd
  BY <1>3, <1>4, LeftIs DEF FirstEot, SenderEndsEarly, OneFwd, NoBack
<1>6. /\ NetTypeOK' /\ closed' = closed
      /\ inT1' = <<>> /\ inM1' = NAK /\ inM2' = <<>> /\ inT2' = inT2
  <2>1. NetTypeOK' /\ closed' = closed /\ Queues(Left(inT1, 1), inM1 \o NAK, inM2, inT2)
    BY <1>1, <1>3, <1>4, ReceiverAnswersAt
  <2> QED BY <1>3, <1>4, <1>5, <2>1 DEF Queues
<1>7. Steps' /\ (AtEnd' <=> AtEnd)
  BY <1>1, <1>3, ReceiverKeeps
<1>8. ReceiverTypeOK' /\ ReceiverPcs'
  BY <1>1, <1>3 DEF ReceiverTypeOK, Base, ReceiverPcs
<1>9. Base'
  BY <1>1, <1>3, <1>6, <1>7, <1>8, ReceiverMoves
<1>10. /\ toT1' = <<>> /\ toT2' = <<>> /\ sState' = sState /\ sPc' = sPc
       /\ sResult' = sResult /\ ~sendExtraAck'
  BY <1>3, <1>5, ReceiverFrame DEF sVars, mVars
<1>11. CASE FirstEot
  <2>1. inT2 \in {<<>>, ACK}
    BY <1>11 DEF FirstEot
  <2>2. (BackAfter(<<>>, NAK) \/ BackAfter(ACK, NAK))'
    BY <1>6, <1>10, <2>1 DEF BackAfter
  <2>3. FirstEotAnswered'
    BY <1>1, <1>3, <1>5, <1>6, <1>7, <1>10, <1>11, <2>2 DEF FirstEotAnswered, FirstEot, NoFwd
  <2> QED BY <1>9, <2>3 DEF Inv, Phase
<1>12. CASE SenderEndsEarly
  <2>1. inT2 = <<>>
    BY <1>3, <1>12, LeftIs DEF SenderEndsEarly, NoBack
  <2>2. OneBack(NAK)'
    BY <1>6, <1>10, <2>1 DEF OneBack, BackAfter
  <2>3. SenderEndsEarly'
    BY <1>1, <1>3, <1>5, <1>6, <1>7, <1>10, <1>12, <2>2 DEF SenderEndsEarly
  <2> QED BY <1>9, <2>3 DEF Inv, Phase
<1> QED BY <1>3, <1>11, <1>12

(* It answers the second EOT with ACK: it has all of the file.              *)
LEMMA ReceiverSecondEotKeeps ==
    ASSUME Inv, ReceiverSecondEot, UNCHANGED <<par, sVars, mVars>>
    PROVE  Inv' /\ AtEnd
<1>1. /\ ReceiverHears /\ rState = "EOT" /\ "EOT" \in Means(HeardByte)
      /\ byteToReceive' = HeardByte
      /\ ReceiverWrites(Without("T1", 1), ACK) /\ Writable("T1")
      /\ rState' = "Final" /\ rResult' = "Done" /\ rPc' = "close"
      /\ UNCHANGED <<rErrCnt, rcvBlk, numLastGoodBlk, firstBlock, written>>
  BY DEF ReceiverSecondEot, ReceiverGets, ReceiverWrites, ReceiverFinal, ACK
<1>2. "M1" \notin closed
  BY <1>1, Lines DEF Writable
<1>3. /\ Base /\ NetTypeOK /\ ReceiverTypeOK /\ rPc = "read"
      /\ HeardByte \in Char /\ SecondEot /\ inT1 = EOT
  BY <1>1, <1>2, ReceiverHearsWhat DEF Inv, Base, TypeOK
<1>4. ACK \in Seq(Char) /\ <<>> \o ACK = ACK /\ Left(EOT, 1) = <<>> /\ EOT # <<>>
  BY CtlType, LeftIs
<1>5. inM1 = <<>> /\ toT2 = <<>> /\ inT2 = <<>> /\ inM2 = <<>> /\ toT1 = <<>> /\ AtEnd
  BY <1>3, <1>4 DEF SecondEot, OneFwd, NoBack
<1>6. /\ NetTypeOK' /\ closed' = closed
      /\ inT1' = <<>> /\ inM1' = ACK /\ inM2' = <<>> /\ inT2' = <<>>
  <2>1. NetTypeOK' /\ closed' = closed /\ Queues(Left(inT1, 1), inM1 \o ACK, inM2, inT2)
    BY <1>1, <1>3, <1>4, ReceiverAnswersAt
  <2> QED BY <1>3, <1>4, <1>5, <2>1 DEF Queues
<1>7. Steps' /\ (AtEnd' <=> AtEnd)
  BY <1>1, <1>3, ReceiverKeeps
<1>8. ReceiverTypeOK' /\ ReceiverPcs'
  BY <1>1, <1>3 DEF ReceiverTypeOK, Base, ReceiverPcs
<1>9. Base'
  BY <1>1, <1>3, <1>6, <1>7, <1>8, ReceiverMoves
<1>10. toT1' = <<>> /\ toT2' = <<>> /\ sState' = sState /\ sPc' = sPc
  BY <1>3, <1>5, ReceiverFrame DEF sVars
<1>11. Complete'
  BY <1>1, <1>3, <1>5, <1>6, <1>7, <1>10 DEF Complete, SecondEot, NoFwd, OneBack, BackAfter
<1> QED BY <1>5, <1>9, <1>11 DEF Inv, Phase

(* It hears the CANs of a sender that gave up, or at the end of file the    *)
(* character of the read before.                                            *)
LEMMA ReceiverCanKeeps ==
    ASSUME Inv, ReceiverCan, UNCHANGED <<par, sVars, mVars>>
    PROVE  Inv'
<1>1. /\ ReceiverHears /\ "CAN" \in Means(HeardByte) /\ byteToReceive' = HeardByte
      /\ queue' = Without("T1", 1) /\ UNCHANGED <<closed, reset, exited>>
      /\ \/ rState = "FIRSTBYTE" /\ rState' = "CAN" /\ rPc' = rPc /\ rResult' = rResult
         \/ rState = "CAN" /\ rState' = "Final" /\ rResult' = "SndCancelled" /\ rPc' = "close"
      /\ UNCHANGED <<rErrCnt, rcvBlk, numLastGoodBlk, firstBlock, written>>
  BY DEF ReceiverCan, ReceiverGets, ReceiverConsumes, ReceiverFinal
<1>2. /\ Base /\ NetTypeOK /\ ReceiverTypeOK /\ rPc = "read" /\ HeardByte \in Char
      /\ NoFile \/ SenderGaveUp
  BY <1>1, ReceiverHearsWhat DEF Inv, Base, TypeOK
<1>3. /\ NetTypeOK' /\ closed' = closed
      /\ inT1' = Left(inT1, 1) /\ inM1' = inM1 /\ inM2' = inM2 /\ inT2' = inT2
  BY <1>1, <1>2, ReceiverConsumesAt DEF Queues
<1>4. Steps'
  BY <1>1, <1>2, ReceiverKeeps
<1>5. /\ rResult = "ResultNotSet" /\ rState # "Final"
  BY <1>2 DEF Base, ReceiverPcs
<1>6. ReceiverTypeOK' /\ ReceiverPcs' /\ rPc' \in {"read", "close"} /\ Cut'
  BY <1>1, <1>2, <1>5 DEF ReceiverTypeOK, Base, ReceiverPcs, Cut
<1>7. Base'
  BY <1>1, <1>2, <1>3, <1>4, <1>6, ReceiverMoves
<1>8. /\ toT1' = toT1 /\ toT2' = toT2 /\ Ask' = Ask /\ sCans' = sCans
      /\ sState' = sState /\ sPc' = sPc /\ sResult' = sResult /\ sendExtraAck' = sendExtraAck
  BY <1>2, ReceiverFrame DEF sVars, mVars
<1>9. inT1 \in Seq(Char) /\ toT1 \in Seq(Char) /\ inM2 \in Seq(Char)
  BY <1>2, QueueType, BaseTypes
<1>10. CASE NoFile
  <2>1. inT1 = <<>> /\ Len(inT1) <= 1
    BY <1>10 DEF NoFile, NoFwd
  <2>2. Left(inT1, 1) = <<>>
    BY <1>9, <2>1, TakeAll DEF Left
  <2> QED BY <1>3, <1>6, <1>7, <1>8, <1>10, <2>1, <2>2
          DEF NoFile, NoFwd, NoBack, OneBack, BackAfter, Inv, Phase
<1>11. CASE SenderGaveUp
  <2>1. /\ AllCan(Left(inT1, 1)) /\ Left(inT1, 1) \in Seq(Char)
        /\ Len(Left(inT1, 1)) <= Len(inT1)
    BY <1>9, <1>11, LeftCans DEF SenderGaveUp
  <2>2. AllCan(inM2') /\ AllCan(toT1') /\ AllCan(inT1')
    BY <1>3, <1>8, <1>11, <2>1 DEF SenderGaveUp
  <2>3. Len(inM2') + Len(toT1') + Len(inT1') <= 2 * sCans'
    <3>1. /\ Len(inM2) \in Nat /\ Len(toT1) \in Nat /\ Len(inT1) \in Nat
          /\ Len(Left(inT1, 1)) \in Nat /\ sCans \in Nat
      <4>1. sCans \in 0 .. CAN_LEN \div 2 /\ CAN_LEN \div 2 = 4
        BY <1>2, Sizes DEF Base, TypeOK, SenderTypeOK
      <4> QED BY <1>9, <2>1, <4>1
    <3>2. Len(inM2) + Len(toT1) + Len(inT1) <= 2 * sCans
      BY <1>11 DEF SenderGaveUp
    <3> QED BY <1>3, <1>8, <2>1, <3>1, <3>2
  <2>4. NoBack' /\ ~sendExtraAck'
    BY <1>3, <1>8, <1>11 DEF SenderGaveUp, NoBack
  <2>5. \/ sState' = "ACKNAK" /\ sPc' = "can"
        \/ sState' = "Final" /\ sResult' = "ExcessiveNAKs"
    BY <1>8, <1>11 DEF SenderGaveUp
  <2>6. SenderGaveUp'
    BY <1>6, <2>2, <2>3, <2>4, <2>5 DEF SenderGaveUp
  <2> QED BY <1>7, <2>6 DEF Inv, Phase
<1> QED BY <1>2, <1>10, <1>11

(* A receiver with characters of a block, or with one to come.              *)
LEMMA RestIsBlock ==
    ASSUME Inv, rPc = "rest", rcvBlk # <<>> \/ inT1 # <<>>
    PROVE  BlockUnderWay
<1>1. rState # "Final" /\ rResult = "ResultNotSet"
  BY DEF Inv, Base, ReceiverPcs
<1>2. ~NoFile /\ ~SenderGaveUp
  BY DEF NoFile, SenderGaveUp, NoFwd
<1> QED BY <1>1, <1>2 DEF Inv, Phase, Opening, AnswerUnderWay, ReceiverGaveUp, FirstEot,
        FirstEotAnswered, SenderEndsEarly, SecondEot, Complete, Ready

(* It collects what there is of the rest of the block.                      *)
LEMMA ReceiverCollectsKeeps ==
    ASSUME Inv, ReceiverCollects, UNCHANGED <<par, sVars, mVars>>
    PROVE  Inv'
<1> DEFINE n == RestSz - Len(rcvBlk)
           got == SubSeq(inT1, 1, Least(n, Len(inT1)))
<1>1. /\ rPc = "rest" /\ Len(rcvBlk) < RestSz /\ inT1 # <<>>
      /\ rcvBlk' = rcvBlk \o got /\ queue' = Without("T1", n)
      /\ UNCHANGED <<rPc, rState, rResult, rErrCnt, numLastGoodBlk, firstBlock,
                     byteToReceive, written, closed, reset, exited>>
  BY DEF ReceiverCollects, Taken, Readable, inT1
<1>2. BlockUnderWay /\ Base /\ NetTypeOK /\ ReceiverTypeOK
  BY <1>1, RestIsBlock DEF Inv, Base, TypeOK
<1>3. /\ RestSz = Most /\ Most \in Nat /\ inT1 \in Seq(Char) /\ rcvBlk \in Seq(Char)
      /\ toT1 \in Seq(Char) /\ inM2 \in Seq(Char) /\ Most = BlkSz(par.crc) - 1
  BY <1>2, QueueType, BaseTypes DEF RestSz, Most
<1>4. n \in Nat /\ Len(rcvBlk) \in Nat /\ Len(rcvBlk) + n = Most
  BY <1>1, <1>3
<1> HIDE DEF n
<1>5. /\ got \in Seq(Char) /\ Len(got) <= n /\ Len(got) \in Nat
      /\ Left(inT1, n) \in Seq(Char) /\ Len(Left(inT1, n)) = Len(inT1) - Len(got)
      /\ Least(n, Len(inT1)) = Len(got)
  <2>1. inT1 \in Seq(Char) /\ n \in Nat /\ Len(inT1) \in Nat
    BY <1>3, <1>4
  <2>2. /\ Least(n, Len(inT1)) \in 0 .. Len(inT1) /\ Least(n, Len(inT1)) <= n
        /\ got \in Seq(Char) /\ Len(got) = Least(n, Len(inT1))
        /\ Left(inT1, n) \in Seq(Char)
        /\ Len(Left(inT1, n)) = Len(inT1) - Least(n, Len(inT1))
    BY <2>1, TakeType DEF Left
  <2> HIDE DEF got
  <2> QED BY <2>1, <2>2
<1>6. /\ NetTypeOK' /\ closed' = closed
      /\ inT1' = Left(inT1, n) /\ inM1' = inM1 /\ inM2' = inM2 /\ inT2' = inT2
  BY <1>1, <1>2, <1>4, ReceiverConsumesAt DEF Queues
<1>7. /\ TakenNow = 1 + Len(rcvBlk) /\ TakenNow \in Nat
      /\ Run(rcvBlk, Current, blkNum, 1) /\ Run(inT1, Current, blkNum, TakenNow)
  BY <1>1, <1>2, <1>4 DEF BlockUnderWay, TakenNow
<1>8. /\ Run(got, Current, blkNum, TakenNow)
      /\ Run(Left(inT1, n), Current, blkNum, TakenNow + Len(got))
  <2>1. /\ Run(SubSeq(inT1, 1, Least(n, Len(inT1))), Current, blkNum, TakenNow)
        /\ Run(SubSeq(inT1, Least(n, Len(inT1)) + 1, Len(inT1)), Current, blkNum,
               TakenNow + Least(n, Len(inT1)))
    BY <1>3, <1>4, <1>7, RunTake
  <2> QED BY <1>5, <2>1 DEF Left
<1> HIDE DEF got
<1>9. /\ rcvBlk' \in Seq(Char) /\ Len(rcvBlk') = Len(rcvBlk) + Len(got)
      /\ Run(rcvBlk', Current, blkNum, 1)
  <2>1. Run(got, Current, blkNum, 1 + Len(rcvBlk))
    BY <1>7, <1>8
  <2> QED BY <1>1, <1>3, <1>5, <1>7, <2>1, RunConcat
<1>10. Steps'
  BY <1>1, <1>2, ReceiverKeeps
<1>11. ReceiverTypeOK' /\ ReceiverPcs'
  <2>1. Len(rcvBlk') < BlkSz(par.crc)
    <3>1. BlkSz(par.crc) \in Nat
      BY <1>2, ParType, Sizes
    <3> QED BY <1>3, <1>4, <1>5, <1>9, <3>1
  <2> QED BY <1>1, <1>2, <1>9, <2>1 DEF ReceiverTypeOK, Base, ReceiverPcs
<1>12. Base'
  BY <1>1, <1>2, <1>6, <1>10, <1>11, ReceiverMoves
<1>13. /\ toT1' = toT1 /\ toT2' = toT2 /\ Most' = Most /\ Current' = Current /\ blkNum' = blkNum
       /\ sState' = sState /\ sPc' = sPc /\ sendExtraAck' = sendExtraAck
  BY <1>2, ReceiverFrame DEF sVars, mVars
<1>14. TakenNow' = TakenNow + Len(got) /\ TakenNow' + Len(inT1') = TakenNow + Len(inT1)
  <2>1. TakenNow' = 1 + Len(rcvBlk')
    BY <1>1 DEF TakenNow
  <2>2. Len(inT1) \in Nat
    BY <1>3
  <2>3. Len(inT1') = Len(inT1) - Len(got) /\ Len(got) \in Nat
    BY <1>5, <1>6
  <2>4. TakenNow' = 1 + (Len(rcvBlk) + Len(got)) /\ TakenNow = 1 + Len(rcvBlk) /\ Len(rcvBlk) \in Nat
    BY <1>4, <1>7, <1>9, <2>1
  <2> QED BY <2>2, <2>3, <2>4
<1>15. /\ Run(rcvBlk', Current', blkNum', 1)
       /\ Run(inT1', Current', blkNum', TakenNow')
       /\ Run(toT1', Current', blkNum', TakenNow' + Len(inT1'))
       /\ Run(inM2', Current', blkNum', TakenNow' + Len(inT1') + Len(toT1'))
       /\ TakenNow' + Len(inT1') + Len(toT1') + Len(inM2') =
             IF sPc' = "last" THEN Most' ELSE Most' + 1
  BY <1>2, <1>6, <1>8, <1>9, <1>13, <1>14 DEF BlockUnderWay
<1>16. BlockUnderWay'
  BY <1>1, <1>2, <1>6, <1>13, <1>15 DEF BlockUnderWay
<1> QED BY <1>12, <1>16 DEF Inv, Phase

(* A whole block has come: nothing else is under way, and the block is what *)
(* the sender sent, some characters damaged.                                *)
LEMMA WholeBlock ==
    ASSUME Inv, HasBlk
    PROVE  /\ BlockUnderWay /\ sPc = "read" /\ rState = "FIRSTBYTE"
           /\ NoFwd /\ NoBack /\ ~sendExtraAck
           /\ Current > 0 /\ RestSz = Most /\ RestSz >= PAST_CHUNK /\ RestSz \in Nat
           /\ \A i \in 1 .. RestSz :
                /\ rcvBlk[i].chunk = Current /\ rcvBlk[i].num = blkNum
                /\ Intact(i) <=> ~rcvBlk[i].bad
           /\ NewExpectedBlk <=> Behind
           /\ ~SyncLoss
           /\ GoodBlkRpt => Caught
<1>1. /\ Base /\ NetTypeOK /\ rPc = "rest" /\ Len(rcvBlk) = RestSz /\ RestSz = Most
      /\ Most \in Nat /\ Most > 3 /\ TakenNow \in Nat
      /\ rcvBlk \in Seq(Char) /\ inT1 \in Seq(Char) /\ toT1 \in Seq(Char) /\ inM2 \in Seq(Char)
  BY BaseTypes, QueueType DEF Inv, Base, TypeOK, HasBlk, RestSz, Most
<1>2. BlockUnderWay
  BY <1>1, RestIsBlock
<1>3. TakenNow = 1 + Most
  BY <1>1 DEF TakenNow
<1>4. sPc = "read" /\ inT1 = <<>> /\ toT1 = <<>> /\ inM2 = <<>>
  <2>1. Len(inT1) \in Nat /\ Len(toT1) \in Nat /\ Len(inM2) \in Nat
    BY <1>1
  <2>2. TakenNow + Len(inT1) + Len(toT1) + Len(inM2) = IF sPc = "last" THEN Most ELSE Most + 1
    BY <1>2 DEF BlockUnderWay
  <2>3. sPc # "last" /\ Len(inT1) = 0 /\ Len(toT1) = 0 /\ Len(inM2) = 0
    BY <1>1, <1>3, <2>1, <2>2
  <2> QED BY <1>1, <1>2, <2>3, NoChar DEF BlockUnderWay
<1>5. NoFwd /\ NoBack /\ ~sendExtraAck /\ rState = "FIRSTBYTE" /\ Current > 0
  BY <1>1, <1>2, <1>4 DEF BlockUnderWay, NoFwd, NoBack, Base, Buffers
<1>6. \A i \in 1 .. RestSz :
        /\ rcvBlk[i].chunk = Current /\ rcvBlk[i].num = blkNum /\ rcvBlk[i].pos = i
  <2>1. Run(rcvBlk, Current, blkNum, 1)
    BY <1>1, <1>2 DEF BlockUnderWay
  <2>2. \A i \in 1 .. RestSz : 1 + i - 1 = i
    BY <1>1
  <2> QED BY <1>1, <2>1, <2>2 DEF Run
<1>7. \A i \in 1 .. RestSz :
        /\ rcvBlk[i].chunk = Current /\ rcvBlk[i].num = blkNum
        /\ Intact(i) <=> ~rcvBlk[i].bad
  <2>1. 1 \in 1 .. RestSz
    BY <1>1
  <2> QED BY <1>6, <2>1 DEF Intact
<1>8. RestSz >= PAST_CHUNK /\ RestSz \in Nat
  <2>1. ChunkSz \in Nat /\ par.crc \in BOOLEAN
    BY <1>1, ParType, Sizes
  <2> QED BY <2>1 DEF RestSz, BlkSz, PAST_CHUNK, DATA_POS
<1>9. rcvBlk[1].num = blkNum
  BY <1>1, <1>6
<1>10. Steps /\ blkNum \in 0 .. NumMod - 1 /\ numLastGoodBlk \in 0 .. NumMod - 1
       /\ Current \in Nat /\ Good \in Nat
  BY <1>1, BaseTypes DEF Base, TypeOK, ReceiverTypeOK
<1>11. NewExpectedBlk <=> blkNum = NextNum(numLastGoodBlk)
  BY <1>9 DEF NewExpectedBlk, NextNum
<1>12. NewExpectedBlk <=> Behind
  <2>1. Caught => ~NewExpectedBlk
    BY <1>10, <1>11, Turns DEF Caught
  <2> QED BY <1>10, <1>11, <2>1 DEF Steps, Behind
<1>13. ~SyncLoss
  <2>1. SUFFICES ASSUME BlkNumsOk, ~NewExpectedBlk PROVE GoodBlkRpt
    BY DEF SyncLoss
  <2>2. Caught
    BY <1>10, <1>12, <2>1 DEF Steps
  <2>3. ~firstBlock
    BY <1>5, <1>10, <2>2 DEF Steps, Caught
  <2> QED BY <1>9, <2>1, <2>2, <2>3 DEF GoodBlkRpt, Caught
<1>14. GoodBlkRpt => Caught
  BY <1>10, <1>12 DEF GoodBlkRpt, Steps
<1> QED BY <1>1, <1>2, <1>4, <1>5, <1>7, <1>8, <1>12, <1>13, <1>14

(* It answers a block: with ACK only one that it then has, the first time   *)
(* or again; with NAK one that was damaged.                                 *)
LEMMA ReceiverAnswersKeeps ==
    ASSUME Inv, ReceiverAnswers, UNCHANGED <<par, sVars, mVars>>
    PROVE  Inv'
<1> DEFINE answer == <<Ctl(IF GoodBlk1st \/ GoodBlkRpt THEN "ACK" ELSE "NAK")>>
<1>1. /\ HasBlk /\ rPc = "rest" /\ ErrCntNow < ErrB /\ ReceiverWrites(queue, answer)
      /\ rErrCnt' = ErrCntNow
      /\ UNCHANGED <<rState, rResult, byteToReceive, written>>
  BY DEF ReceiverAnswers, HasBlk
<1>2. /\ BlockUnderWay /\ sPc = "read" /\ rState = "FIRSTBYTE"
      /\ NoFwd /\ NoBack /\ ~sendExtraAck
      /\ Current > 0 /\ RestSz = Most /\ RestSz >= PAST_CHUNK /\ RestSz \in Nat
      /\ \A i \in 1 .. RestSz : rcvBlk[i].chunk = Current /\ rcvBlk[i].num = blkNum
      /\ NewExpectedBlk <=> Behind
      /\ GoodBlkRpt => Caught
  BY <1>1, WholeBlock
<1>3. /\ Base /\ NetTypeOK /\ ReceiverTypeOK /\ Steps /\ ReceiverPcs
      /\ Current \in Nat /\ Good \in Nat /\ blkNum \in 0 .. NumMod - 1
      /\ ErrB \in Nat /\ ErrB > 0
  BY BaseTypes, Sizes DEF Inv, Base, TypeOK
<1>4. answer \in Seq(Char) /\ <<>> \o answer = answer
      /\ answer = (IF GoodBlk1st \/ GoodBlkRpt THEN ACK ELSE NAK)
  BY CtlType, LeftIs DEF ACK, NAK
<1> HIDE DEF answer
<1>5. /\ NetTypeOK' /\ closed' = closed
      /\ inT1' = <<>> /\ inM1' = answer /\ inM2' = <<>> /\ inT2' = <<>>
  <2>1. NetTypeOK' /\ closed' = closed /\ Queues(inT1, inM1 \o answer, inM2, inT2)
    BY <1>1, <1>3, <1>4, ReceiverWritesAt
  <2> QED BY <1>2, <1>4, <2>1 DEF Queues, NoFwd, NoBack
<1>6. /\ toT1' = <<>> /\ toT2' = <<>> /\ Current' = Current /\ blkNum' = blkNum
      /\ sState' = "ACKNAK" /\ sPc' = "read" /\ ~sendExtraAck'
  BY <1>2, <1>3, ReceiverFrame DEF sVars, mVars, BlockUnderWay, NoFwd, NoBack
<1>7. /\ NoFwd'
      /\ answer = ACK => OneBack(ACK)'
      /\ answer = NAK => OneBack(NAK)'
  BY <1>5, <1>6 DEF NoFwd, OneBack, BackAfter
<1>8. rErrCnt' \in 0 .. ErrB /\ rErrCnt' < ErrB
  BY <1>1, <1>3 DEF ErrCntNow, ReceiverTypeOK
<1>9. CASE GoodBlk1st
  <2>1. /\ numLastGoodBlk' = rcvBlk[1].num /\ firstBlock' = FALSE /\ rPc' = "store"
        /\ rcvBlk' = rcvBlk
    BY <1>9 DEF ReceiverAnswers
  <2>2. rcvBlk[1].num = blkNum /\ 1 \in 1 .. RestSz
    <3>1. 1 \in 1 .. RestSz
      BY <1>2, <1>3, BaseTypes
    <3> QED BY <1>2, <3>1
  <2>3. Behind
    BY <1>2, <1>9 DEF GoodBlk1st
  <2>4. Good' = Current /\ Good' > 0
    <3>1. Good = Len(written) /\ Good' = Len(written) + 1
      BY <1>1, <2>1 DEF Good
    <3> QED BY <1>2, <1>3, <2>3, <3>1 DEF Behind
  <2>5. Chunk' = Current
    <3>1. /\ DATA_POS = 3 /\ PAST_CHUNK = 3 + ChunkSz /\ ChunkSz \in Nat /\ ChunkSz > 0
      BY Sizes DEF DATA_POS, PAST_CHUNK
    <3>2. \A i \in DATA_POS .. PAST_CHUNK - 1 : Intact(i) /\ i \in 1 .. RestSz
      BY <1>2, <1>9, <3>1 DEF GoodBlk1st, CheckOk
    <3>3. DATA_POS \in DATA_POS .. PAST_CHUNK - 1
      BY <3>1
    <3>4. Chunk = Current
      BY <1>2, <3>2, <3>3 DEF Chunk
    <3> QED BY <2>1, <3>4 DEF Chunk, Intact
  <2>6. Caught'
    BY <1>6, <2>1, <2>2, <2>4 DEF Caught
  <2>7. Steps'
    BY <1>6, <2>1, <2>4, <2>5, <2>6 DEF Steps
  <2>8. ReceiverTypeOK' /\ ReceiverPcs'
    BY <1>1, <1>2, <1>3, <1>8, <2>1, <2>2 DEF ReceiverTypeOK, ReceiverPcs
  <2>9. Base'
    BY <1>1, <1>3, <1>5, <2>1, <2>7, <2>8, ReceiverMoves
  <2>10. AnswerUnderWay'
    BY <1>1, <1>2, <1>4, <1>6, <1>7, <1>9, <2>1, <2>6 DEF AnswerUnderWay, Ready
  <2> QED BY <2>9, <2>10 DEF Inv, Phase
<1>10. CASE ~GoodBlk1st
  <2>1. UNCHANGED <<numLastGoodBlk, firstBlock>> /\ rPc' = "read" /\ rcvBlk' = <<>>
    BY <1>10 DEF ReceiverAnswers
  <2>2. Steps' /\ (Caught' <=> Caught)
    BY <1>1, <1>3, <2>1, ReceiverKeeps
  <2>3. ReceiverTypeOK' /\ ReceiverPcs'
    <3>1. <<>> \in Seq(Char) /\ Len(<<>>) < BlkSz(par.crc)
      <4>1. BlkSz(par.crc) \in Nat /\ BlkSz(par.crc) > 4
        BY <1>3, ParType, Sizes
      <4> QED BY <4>1
    <3> QED BY <1>1, <1>2, <1>3, <1>8, <2>1, <3>1 DEF ReceiverTypeOK, ReceiverPcs
  <2>4. Base'
    BY <1>1, <1>3, <1>5, <2>1, <2>2, <2>3, ReceiverMoves
  <2>5. AnswerUnderWay'
    BY <1>1, <1>2, <1>4, <1>6, <1>7, <1>10, <2>1, <2>2 DEF AnswerUnderWay, Ready
  <2> QED BY <2>4, <2>5 DEF Inv, Phase
<1> QED BY <1>9, <1>10

(* It gives up after too many bad blocks, never for a loss of               *)
(* synchronization.                                                         *)
LEMMA ReceiverCancelsKeeps ==
    ASSUME Inv, ReceiverCancels, UNCHANGED <<par, sVars, mVars>>
    PROVE  Inv' /\ rResult' = "ExcessiveErrors"
<1> DEFINE cans == Ctls("CAN", CAN_LEN)
<1>1. /\ HasBlk /\ rPc = "rest" /\ ReceiverWrites(queue, cans) /\ rErrCnt' = ErrCntNow
      /\ SyncLoss \/ ErrCntNow >= ErrB
      /\ rState' = "Final" /\ rPc' = "close" /\ rcvBlk' = <<>>
      /\ rResult' = IF SyncLoss THEN "LossOfSynchronization" ELSE "ExcessiveErrors"
      /\ UNCHANGED <<numLastGoodBlk, firstBlock, byteToReceive, written>>
  BY DEF ReceiverCancels, ReceiverFinal, HasBlk
<1>2. /\ BlockUnderWay /\ sPc = "read" /\ NoFwd /\ NoBack /\ ~SyncLoss
  BY <1>1, WholeBlock
<1>3. /\ Base /\ NetTypeOK /\ ReceiverTypeOK /\ ReceiverPcs /\ sState = "ACKNAK"
      /\ ErrB \in Nat /\ ErrB > 0 /\ CAN_LEN = 8 /\ rState = "FIRSTBYTE"
  BY <1>2, Sizes DEF Inv, Base, TypeOK, BlockUnderWay
<1>4. cans \in Seq(Char) /\ Len(cans) = 8 /\ AllCan(cans) /\ <<>> \o cans = cans
  <2>1. Ctls("CAN", 8) \in Seq(Char) /\ Len(Ctls("CAN", 8)) = 8 /\ AllCan(Ctls("CAN", 8))
    BY CansType
  <2>2. cans \in Seq(Char) /\ Len(cans) = 8 /\ AllCan(cans)
    BY <1>3, <2>1
  <2> QED BY <2>2, NoChar
<1> HIDE DEF cans
<1>5. /\ NetTypeOK' /\ closed' = closed
      /\ inT1' = <<>> /\ inM1' = cans /\ inM2' = <<>> /\ inT2' = <<>>
  <2>1. NetTypeOK' /\ closed' = closed /\ Queues(inT1, inM1 \o cans, inM2, inT2)
    BY <1>1, <1>3, <1>4, ReceiverWritesAt
  <2> QED BY <1>2, <1>4, <2>1 DEF Queues, NoFwd, NoBack
<1>6. Steps'
  BY <1>1, <1>3, ReceiverKeeps
<1>7. rErrCnt' \in 0 .. ErrB
  <2>1. rErrCnt \in 0 .. ErrB /\ rErrCnt < ErrB
    BY <1>3 DEF ReceiverTypeOK, ReceiverPcs
  <2> QED BY <1>1, <1>3, <2>1 DEF ErrCntNow
<1>8. ReceiverTypeOK' /\ ReceiverPcs'
  <2>1. <<>> \in Seq(Char) /\ Len(<<>>) < BlkSz(par.crc)
    <3>1. BlkSz(par.crc) \in Nat /\ BlkSz(par.crc) > 4
      BY <1>3, ParType, Sizes
    <3> QED BY <3>1
  <2> QED BY <1>1, <1>2, <1>3, <1>7, <2>1 DEF ReceiverTypeOK, ReceiverPcs
<1>9. Base'
  BY <1>1, <1>3, <1>5, <1>6, <1>8, ReceiverMoves
<1>10. toT1' = <<>> /\ toT2' = <<>> /\ sState' = "ACKNAK" /\ sPc' = "read"
  BY <1>2, <1>3, ReceiverFrame DEF sVars, NoFwd, NoBack
<1>11. Len(inM1') + Len(toT2') + Len(inT2') <= CAN_LEN
  <2>1. Len(inM1') = 8 /\ Len(toT2') = 0 /\ Len(inT2') = 0
    BY <1>4, <1>5, <1>10
  <2> QED BY <1>3, <2>1
<1>12. AllCan(inM1') /\ AllCan(toT2') /\ AllCan(inT2')
  <2>1. AllCan(<<>>)
    BY DEF AllCan
  <2> QED BY <1>4, <1>5, <1>10, <2>1
<1>13. ReceiverGaveUp'
  BY <1>1, <1>2, <1>5, <1>10, <1>11, <1>12 DEF ReceiverGaveUp, NoFwd
<1> QED BY <1>1, <1>2, <1>9, <1>13 DEF Inv, Phase

(* The block that was acknowledged is the next of the file.                 *)
LEMMA ReceiverStoreKeeps ==
    ASSUME Inv, ReceiverStore, UNCHANGED <<par, sVars, mVars>>
    PROVE  /\ Inv'
           /\ written' = Append(written, Len(written) + 1) /\ Len(written) < par.chunks
<1>1. /\ rPc = "store" /\ written' = Append(written, Chunk) /\ rcvBlk' = <<>> /\ rPc' = "read"
      /\ UNCHANGED <<rState, rResult, rErrCnt, numLastGoodBlk, firstBlock, byteToReceive,
                     queue, closed, reset, exited>>
  BY DEF ReceiverStore, netVars
<1>2. /\ Base /\ Phase /\ NetTypeOK /\ ReceiverTypeOK /\ ReceiverPcs /\ Steps /\ Buffers
      /\ written \in Seq(Nat) /\ Good \in Nat /\ Current \in Nat /\ SenderTypeOK
      /\ par.chunks \in Nat \cup {-1}
  BY BaseTypes, ParType DEF Inv, Base, TypeOK, ReceiverTypeOK
<1>3. Good = Len(written) + 1 /\ Chunk = Good
  BY <1>1, <1>2 DEF Good, Steps
<1>4. Len(written) < par.chunks
  <2>1. chunksRd \in 0 .. (IF par.chunks < 0 THEN 0 ELSE par.chunks) /\ Current <= chunksRd
    BY <1>2 DEF SenderTypeOK, Buffers
  <2>2. Good <= Current
    BY <1>2 DEF Steps, Caught, Behind
  <2>3. Len(written) \in Nat
    BY <1>2
  <2> QED BY <1>2, <1>3, <2>1, <2>2, <2>3
<1>5. written' = Append(written, Len(written) + 1) /\ written' \in Seq(Nat)
      /\ Len(written') = Len(written) + 1
  BY <1>1, <1>2, <1>3
<1>6. /\ NetTypeOK' /\ closed' = closed
      /\ inT1' = inT1 /\ inM1' = inM1 /\ inM2' = inM2 /\ inT2' = inT2
  BY <1>1, <1>2 DEF NetTypeOK, inT1, inM1, inM2, inT2
<1>7. Good' = Good
  BY <1>1, <1>3, <1>5 DEF Good
<1>8. /\ toT1' = toT1 /\ toT2' = toT2 /\ Most' = Most /\ Current' = Current /\ Ask' = Ask
      /\ blkNum' = blkNum /\ bytesRd' = bytesRd /\ sCans' = sCans
      /\ sState' = sState /\ sPc' = sPc /\ sResult' = sResult /\ sendExtraAck' = sendExtraAck
  BY <1>2, ReceiverFrame DEF sVars, mVars
<1>9. (Caught' <=> Caught) /\ (Behind' <=> Behind) /\ (AtEnd' <=> AtEnd)
  BY <1>1, <1>7, <1>8 DEF Caught, Behind, NextNum, AtEnd
<1>10. Steps'
  BY <1>1, <1>2, <1>7, <1>9 DEF Steps
<1>11. ReceiverTypeOK' /\ ReceiverPcs'
  <2>1. <<>> \in Seq(Char) /\ Len(<<>>) < BlkSz(par.crc)
    <3>1. BlkSz(par.crc) \in Nat /\ BlkSz(par.crc) > 4
      BY <1>2, ParType, Sizes
    <3> QED BY <3>1
  <2> QED BY <1>1, <1>2, <1>5, <2>1 DEF ReceiverTypeOK, ReceiverPcs
<1>12. Base'
  BY <1>1, <1>2, <1>6, <1>10, <1>11, ReceiverMoves
<1>13. /\ TakenNow' = TakenNow /\ (Ready' <=> Ready) /\ (Cut' <=> Cut)
       /\ rState' = rState /\ rResult' = rResult
  BY <1>1 DEF TakenNow, Ready, Cut
<1>14. /\ (NoFwd' <=> NoFwd) /\ (NoBack' <=> NoBack)
       /\ \A m : OneFwd(m)' <=> OneFwd(m)
       /\ \A x, m : BackAfter(x, m)' <=> BackAfter(x, m)
  BY <1>6, <1>8 DEF NoFwd, NoBack, OneFwd, BackAfter
<1>15. rState # "Final" /\ rResult = "ResultNotSet"
  BY <1>1, <1>2 DEF ReceiverPcs
<1>16. NoFile \/ BlockUnderWay \/ AnswerUnderWay \/ SenderGaveUp \/ FirstEot \/ SenderEndsEarly
  BY <1>1, <1>2, <1>15 DEF Phase, Opening, ReceiverGaveUp, FirstEotAnswered, SecondEot, Complete
<1>17. NoFile => NoFile'
  BY <1>1, <1>8, <1>13, <1>14 DEF NoFile, OneBack
<1>18. BlockUnderWay => BlockUnderWay'
  BY <1>1, <1>6, <1>8, <1>13 DEF BlockUnderWay
<1>19. AnswerUnderWay => AnswerUnderWay'
  BY <1>6, <1>8, <1>9, <1>13, <1>14 DEF AnswerUnderWay, OneBack
<1>20. SenderGaveUp => SenderGaveUp'
  BY <1>1, <1>6, <1>8, <1>13, <1>14 DEF SenderGaveUp
<1>21. FirstEot => FirstEot'
  BY <1>6, <1>8, <1>9, <1>13, <1>14 DEF FirstEot
<1>22. SenderEndsEarly => SenderEndsEarly'
  BY <1>1, <1>6, <1>8, <1>9, <1>13, <1>14 DEF SenderEndsEarly, OneBack
<1> QED BY <1>4, <1>5, <1>12, <1>16, <1>17, <1>18, <1>19, <1>20, <1>21, <1>22 DEF Inv, Phase

(* It closes its end.                                                       *)
LEMMA ReceiverCloseKeeps ==
    ASSUME Inv, ReceiverClose, UNCHANGED <<par, sVars, mVars>>
    PROVE  Inv'
<1>1. /\ rPc = "close" /\ CloseEnd("T1") /\ rPc' = "done"
      /\ UNCHANGED <<rState, rResult, rErrCnt, rcvBlk, numLastGoodBlk, firstBlock,
                     byteToReceive, written, exited>>
  BY DEF ReceiverClose
<1>2. /\ Base /\ NetTypeOK /\ ReceiverTypeOK /\ ReceiverPcs /\ rState = "Final"
      /\ rResult # "ResultNotSet"
  BY <1>1 DEF Inv, Base, TypeOK, ReceiverPcs
<1>3. NoFile \/ SenderGaveUp \/ ReceiverGaveUp \/ Complete
  BY <1>1, <1>2 DEF Inv, Phase, Opening, BlockUnderWay, AnswerUnderWay, FirstEot,
     FirstEotAnswered, SecondEot, SenderEndsEarly, Ready
<1>4. /\ NetTypeOK' /\ closed' = closed \cup {"T1"}
      /\ inT1' = <<>> /\ inM1' = inM1 /\ inM2' = inM2 /\ inT2' = inT2
  BY <1>1, <1>2, CloseAt, Lines DEF Queues
<1>5. Steps' /\ (AtEnd' <=> AtEnd)
  BY <1>1, <1>2, ReceiverKeeps
<1>6. ReceiverTypeOK' /\ ReceiverPcs'
  BY <1>1, <1>2 DEF ReceiverTypeOK, ReceiverPcs
<1>7. Base'
  <2>1. SenderTypeOK' /\ MediumTypeOK' /\ SenderPcs' /\ MediumPcs' /\ Buffers'
    BY <1>2, ReceiverFrame
  <2>2. TypeOK'
    BY <1>4, <1>6, <2>1 DEF TypeOK
  <2>3. Closings'
    BY <1>1, <1>2, <1>4 DEF Base, Closings, sVars, mVars
  <2> QED BY <1>5, <1>6, <2>1, <2>2, <2>3 DEF Base
<1>8. /\ toT1' = toT1 /\ toT2' = toT2 /\ Ask' = Ask /\ sCans' = sCans
      /\ sState' = sState /\ sPc' = sPc /\ sResult' = sResult /\ sendExtraAck' = sendExtraAck
      /\ rState' = rState /\ rResult' = rResult
  BY <1>1, <1>2, ReceiverFrame DEF sVars, mVars
<1>9. /\ (NoBack' <=> NoBack) /\ (NoFwd => NoFwd') /\ (Cut' <=> Cut)
      /\ \A m : OneBack(m)' <=> OneBack(m)
  BY <1>4, <1>8 DEF NoFwd, NoBack, OneBack, BackAfter, Cut
<1>10. NoFile => NoFile'
  BY <1>1, <1>8, <1>9 DEF NoFile
<1>11. SenderGaveUp => SenderGaveUp'
  <2>1. SUFFICES ASSUME SenderGaveUp PROVE SenderGaveUp'
    OBVIOUS
  <2>2. AllCan(inM2') /\ AllCan(toT1') /\ AllCan(inT1')
    BY <1>4, <1>8, <2>1 DEF SenderGaveUp, AllCan
  <2>3. Len(inM2') + Len(toT1') + Len(inT1') <= 2 * sCans'
    <3>1. /\ Len(inM2) \in Nat /\ Len(toT1) \in Nat /\ Len(inT1) \in Nat /\ Len(<<>>) = 0
      BY <1>2, BaseTypes, QueueType
    <3>2. sCans \in 0 .. CAN_LEN \div 2 /\ CAN_LEN \div 2 = 4
      BY <1>2, Sizes DEF Base, TypeOK, SenderTypeOK
    <3>3. Len(inM2) + Len(toT1) + Len(inT1) <= 2 * sCans
      BY <2>1 DEF SenderGaveUp
    <3> QED BY <1>4, <1>8, <3>1, <3>2, <3>3
  <2> QED BY <1>1, <1>8, <1>9, <2>1, <2>2, <2>3 DEF SenderGaveUp
<1>12. ReceiverGaveUp => ReceiverGaveUp'
  BY <1>4, <1>8, <1>9 DEF ReceiverGaveUp
<1>13. Complete => Complete'
  BY <1>5, <1>8, <1>9 DEF Complete
<1> QED BY <1>3, <1>7, <1>10, <1>11, <1>12, <1>13 DEF Inv, Phase

(* So every step of the receiver keeps the invariant.                       *)
LEMMA ReceiverKeepsInv ==
    ASSUME Inv, ReceiverThread
    PROVE  Inv'
<1>1. ReceiverStep /\ UNCHANGED <<par, sVars, mVars>>
  BY DEF ReceiverThread
<1>2. ASSUME ReceiverExits \/ ReceiverKilled PROVE Inv'
  BY <1>1, <1>2, OnlyExited DEF ReceiverExits, ReceiverKilled
<1> QED
  BY <1>1, <1>2, ReceiverStartKeeps, ReceiverSohKeeps, ReceiverEotKeeps, ReceiverSecondEotKeeps,
     ReceiverCanKeeps, ReceiverCollectsKeeps, ReceiverAnswersKeeps, ReceiverCancelsKeeps,
     ReceiverStoreKeeps, ReceiverCloseKeeps
     DEF ReceiverStep
=============================================================================
