--------------------------- MODULE TransferProofs -------------------------
(***************************************************************************)
(* The theorems about the transfer.  The steps of the medium keep the      *)
(* invariant too, one lemma per action; so it holds always, the properties *)
(* of Transfer follow from it, and every step of the transfer is a step of *)
(* FileTransfer or is not seen by it.                                      *)
(***************************************************************************)
EXTENDS TransferPeers

-----------------------------------------------------------------------------
(* The medium.                                                              *)

(* What a step of the medium leaves alone.                                  *)
LEMMA MediumFrame ==
    ASSUME Base, UNCHANGED <<par, sVars, rVars>>
    PROVE  /\ SenderTypeOK' /\ ReceiverTypeOK' /\ SenderPcs' /\ ReceiverPcs'
           /\ Steps' /\ Buffers'
           /\ Current' = Current /\ Ask' = Ask /\ Most' = Most /\ TakenNow' = TakenNow
           /\ (Caught' <=> Caught) /\ (AtEnd' <=> AtEnd)
           /\ (Ready' <=> Ready) /\ (Cut' <=> Cut)
<1> USE DEF Base, TypeOK, sVars, rVars
<1>1. SenderTypeOK'
  BY DEF SenderTypeOK
<1>2. ReceiverTypeOK'
  BY DEF ReceiverTypeOK
<1>3. SenderPcs' /\ ReceiverPcs'
  BY DEF SenderPcs, ReceiverPcs
<1>4. Current' = Current /\ CurBlk' = CurBlk /\ NextBlk' = NextBlk /\ Good' = Good /\ Chunk' = Chunk
  BY DEF Current, CurBlk, NextBlk, Good, Chunk, Intact
<1>5. (Caught' <=> Caught) /\ (Behind' <=> Behind)
  BY <1>4 DEF Caught, Behind, NextNum
<1>6. Steps' /\ Buffers'
  BY <1>4, <1>5 DEF Steps, Buffers, NextNum
<1>7. /\ Ask' = Ask /\ Most' = Most /\ TakenNow' = TakenNow
      /\ (AtEnd' <=> AtEnd) /\ (Ready' <=> Ready) /\ (Cut' <=> Cut)
  BY <1>5 DEF Ask, Most, TakenNow, AtEnd, Ready, Cut
<1> QED BY <1>1, <1>2, <1>3, <1>4, <1>5, <1>6, <1>7

(* A step of the medium keeps Base when it keeps the parts of it that are   *)
(* about the medium.                                                        *)
LEMMA MediumMoves ==
    ASSUME Base, UNCHANGED <<par, sVars, rVars>>,
           NetTypeOK', MediumTypeOK', MediumPcs', Closings'
    PROVE  Base'
<1>1. SenderTypeOK' /\ ReceiverTypeOK' /\ SenderPcs' /\ ReceiverPcs' /\ Steps' /\ Buffers'
  BY MediumFrame
<1>2. TypeOK'
  BY <1>1 DEF TypeOK
<1> QED BY <1>1, <1>2 DEF Base

(* A step of the medium that moves no character.                            *)
LEMMA MediumIdles ==
    ASSUME Inv, UNCHANGED <<par, sVars, rVars, queue, closed, sendExtraAck>>,
           mPc \notin {"write1", "write2"}, mPc' \notin {"write1", "write2"}
    PROVE  Phase'
<1>1. Base
  BY DEF Inv
<1>2. /\ inT1' = inT1 /\ inM1' = inM1 /\ inM2' = inM2 /\ inT2' = inT2
      /\ toT1' = toT1 /\ toT2' = toT2
  BY DEF inT1, inM1, inM2, inT2, toT1, toT2
<1>3. /\ Current' = Current /\ Ask' = Ask /\ Most' = Most /\ TakenNow' = TakenNow
      /\ (Caught' <=> Caught) /\ (AtEnd' <=> AtEnd)
      /\ (Ready' <=> Ready) /\ (Cut' <=> Cut)
  BY <1>1, MediumFrame
<1>4. /\ (NoFwd' <=> NoFwd) /\ (NoBack' <=> NoBack)
      /\ \A m : OneFwd(m)' <=> OneFwd(m)
      /\ \A x, m : BackAfter(x, m)' <=> BackAfter(x, m)
  BY <1>2 DEF NoFwd, NoBack, OneFwd, BackAfter
<1> USE DEF sVars, rVars
<1>5. Opening => Opening'
  BY <1>3, <1>4 DEF Opening, OneBack
<1>6. NoFile => NoFile'
  BY <1>3, <1>4 DEF NoFile, OneBack
<1>7. BlockUnderWay => BlockUnderWay'
  BY <1>2, <1>3 DEF BlockUnderWay
<1>8. AnswerUnderWay => AnswerUnderWay'
  BY <1>2, <1>3, <1>4 DEF AnswerUnderWay, OneBack
<1>9. SenderGaveUp => SenderGaveUp'
  BY <1>2, <1>3, <1>4 DEF SenderGaveUp
<1>10. ReceiverGaveUp => ReceiverGaveUp'
  BY <1>2, <1>4 DEF ReceiverGaveUp
<1>11. FirstEot => FirstEot'
  BY <1>2, <1>3, <1>4 DEF FirstEot
<1>12. FirstEotAnswered => FirstEotAnswered'
  BY <1>3, <1>4 DEF FirstEotAnswered
<1>13. SenderEndsEarly => SenderEndsEarly'
  BY <1>2, <1>3, <1>4 DEF SenderEndsEarly, OneBack
<1>14. SecondEot => SecondEot'
  BY <1>3, <1>4 DEF SecondEot
<1>15. Complete => Complete'
  BY <1>3, <1>4 DEF Complete, OneBack
<1> QED BY <1>5, <1>6, <1>7, <1>8, <1>9, <1>10, <1>11, <1>12, <1>13, <1>14, <1>15 DEF Inv, Phase

(* select(), the wait for the receiver to read, an end of file.             *)
LEMMA MediumIdleKeeps ==
    ASSUME Inv, MediumSelect \/ MediumDrain \/ MediumEof1 \/ MediumEof2,
           UNCHANGED <<par, sVars, rVars>>
    PROVE  Inv'
<1>1. /\ UNCHANGED <<queue, closed, reset, exited>>
      /\ UNCHANGED <<mBuf, byteCount, ACKreceived, ACKforwarded, sendExtraAck>>
      /\ mPc \in {"select", "drain", "read1", "read2"}
      /\ mPc' \in {"select", "read1", "read2", "close1"}
      /\ term2Set' \in BOOLEAN
      /\ finished' \in BOOLEAN /\ (finished => finished')
      /\ finished' => finished \/ rPc = "done" \/ sPc = "done"
      /\ mPc' = "close1" => finished'
  <2>1. Base /\ term2Set \in BOOLEAN /\ finished \in BOOLEAN
    BY DEF Inv, Base, TypeOK, MediumTypeOK
  <2>2. CASE MediumSelect
    BY <2>1, <2>2 DEF MediumSelect, netVars, CanRead, Readable, Fails, AtEof
  <2>3. CASE MediumDrain
    BY <2>1, <2>3 DEF MediumDrain, netVars, LoopEnd
  <2>4. CASE MediumEof1
    BY <2>1, <2>4, Lines DEF MediumEof1, netVars, AtEof, Base, Closings
  <2>5. CASE MediumEof2
    BY <2>1, <2>5, Lines DEF MediumEof2, netVars, AtEof, Base, Closings
  <2> QED BY <2>2, <2>3, <2>4, <2>5
<1>2. Base /\ MediumTypeOK /\ NetTypeOK
  BY DEF Inv, Base, TypeOK
<1>3. NetTypeOK'
  BY <1>1, <1>2 DEF NetTypeOK
<1>4. MediumTypeOK'
  BY <1>1, <1>2 DEF MediumTypeOK
<1>5. MediumPcs'
  BY <1>1, <1>2 DEF Base, MediumPcs
<1>6. Closings'
  BY <1>1, <1>2 DEF Base, Closings, sVars, rVars
<1>7. Phase'
  BY <1>1, MediumIdles
<1> QED BY <1>2, <1>3, <1>4, <1>5, <1>6, <1>7, MediumMoves DEF Inv

(* What MsgFromTerm1 passes on: what it took, but for an ACK that may have  *)
(* become a NAK; an extra ACK is due only after an ACK that was passed on.  *)
LEMMA Read1Passes ==
    ASSUME Inv, MediumRead1
    PROVE  /\ inM1 # <<>> /\ inM1' = Left(inM1, CAN_LEN)
           /\ toT1 = <<>> /\ toT1' = <<>> /\ toT2 = <<>> /\ toT2' = mBuf'
           /\ mBuf' \in Seq(Char) /\ mBuf' # <<>>
           /\ \A c \in Control :
                inM1 = <<Ctl(c)>> =>
                   /\ inM1' = <<>>
                   /\ \/ mBuf' = inM1 /\ (sendExtraAck' => sendExtraAck \/ c = "ACK")
                      \/ c = "ACK" /\ mBuf' = NAK /\ sendExtraAck' = sendExtraAck
           /\ AllCan(inM1) =>
                /\ AllCan(inM1') /\ AllCan(mBuf') /\ sendExtraAck' = sendExtraAck
                /\ Len(inM1') + Len(mBuf') = Len(inM1)
           /\ ACKreceived' \in 0 .. par.ackPeriod - 1
           /\ ACKforwarded' \in 0 .. par.extraPeriod
           /\ par.extraPeriod > 0 => ACKforwarded' < par.extraPeriod
           /\ sendExtraAck' \in BOOLEAN
           /\ sendExtraAck' => sendExtraAck \/ par.extraPeriod > 0
<1> DEFINE m      == Least(CAN_LEN, Len(inM1))
           msg    == SubSeq(inM1, 1, m)
           isAck  == Head(msg).c = "ACK"
           count  == ACKreceived + 1
           damage == isAck /\ count % par.ackPeriod = 0
           passed == isAck /\ ~damage /\ par.extraPeriod > 0
           extra  == passed /\ (ACKforwarded + 1) % par.extraPeriod = 0
<1>1. /\ mPc = "read1" /\ mPc' = "write1" /\ inM1 # <<>>
      /\ mBuf' = IF damage THEN [msg EXCEPT ![1] = Ctl("NAK")] ELSE msg
      /\ ACKreceived' = IF damage THEN 0 ELSE IF isAck THEN count ELSE ACKreceived
      /\ ACKforwarded' = IF extra THEN 0 ELSE IF passed THEN ACKforwarded + 1 ELSE ACKforwarded
      /\ sendExtraAck' = (sendExtraAck \/ extra)
      /\ queue' = Without("M1", CAN_LEN) /\ UNCHANGED <<closed, reset, exited>>
  BY DEF MediumRead1, Readable, Taken, inM1
<1>2. /\ Base /\ NetTypeOK /\ MediumTypeOK /\ MediumPcs /\ inM1 \in Seq(Char)
      /\ CAN_LEN = 8
  BY QueueType, Sizes DEF Inv, Base, TypeOK
<1>3. /\ m \in 0 .. Len(inM1) /\ m >= 1 /\ Len(inM1) \in Nat
      /\ msg \in Seq(Char) /\ Len(msg) = m /\ msg # <<>> /\ Head(msg) = inM1[1]
      /\ Left(inM1, CAN_LEN) \in Seq(Char) /\ Len(Left(inM1, CAN_LEN)) = Len(inM1) - m
  <2>1. Len(inM1) \in Nat /\ Len(inM1) >= 1 /\ CAN_LEN \in Nat
    BY <1>1, <1>2, NoChar
  <2>2. m \in 0 .. Len(inM1) /\ (m = CAN_LEN \/ m = Len(inM1))
    BY <1>2, <2>1, TakeType
  <2>3. m >= 1
    BY <1>2, <2>1, <2>2
  <2>4. /\ msg \in Seq(Char) /\ Len(msg) = m /\ \A i \in 1 .. m : msg[i] = inM1[i]
        /\ Left(inM1, CAN_LEN) \in Seq(Char) /\ Len(Left(inM1, CAN_LEN)) = Len(inM1) - m
    BY <1>2, <2>1, TakeType DEF Left
  <2> HIDE DEF m, msg
  <2>5. msg # <<>> /\ Head(msg) = msg[1] /\ msg[1] = inM1[1]
    BY <2>2, <2>3, <2>4, NoChar
  <2> QED BY <2>1, <2>2, <2>3, <2>4, <2>5
<1>4. inM1' = Left(inM1, CAN_LEN)
  <2>1. Without("M1", CAN_LEN) = [queue EXCEPT !["M1"] = Left(inM1, CAN_LEN)]
    BY <1>2, WithoutAt
  <2> QED BY <1>1, <1>2, <2>1, QueueType, Lines DEF inM1
<1> HIDE DEF m, msg
<1>5. toT1 = <<>> /\ toT1' = <<>> /\ toT2 = <<>> /\ toT2' = mBuf'
  BY <1>1 DEF toT1, toT2
<1>6. mBuf' \in Seq(Char) /\ Len(mBuf') = m /\ mBuf' # <<>>
  <2>1. Ctl("NAK") \in Char
    BY CtlType DEF Control
  <2>2. [msg EXCEPT ![1] = Ctl("NAK")] \in Seq(Char) /\ Len([msg EXCEPT ![1] = Ctl("NAK")]) = m
    BY <1>3, <2>1
  <2>3. mBuf' \in Seq(Char) /\ Len(mBuf') = m
    BY <1>1, <1>3, <2>2
  <2> QED BY <1>3, <2>3, NoChar
<1>7. ASSUME NEW c \in Control, inM1 = <<Ctl(c)>>
      PROVE  /\ inM1' = <<>>
             /\ \/ mBuf' = inM1 /\ (sendExtraAck' => sendExtraAck \/ c = "ACK")
                \/ c = "ACK" /\ mBuf' = NAK /\ sendExtraAck' = sendExtraAck
  <2>1. Len(inM1) = 1 /\ inM1[1] = Ctl(c) /\ Ctl(c).c = c
    BY <1>7, CtlType
  <2>2. msg = inM1 /\ inM1' = <<>>
    <3>1. CAN_LEN \in Nat /\ Len(inM1) <= CAN_LEN
      BY <1>2, <2>1
    <3>2. msg = inM1 /\ Left(inM1, CAN_LEN) = <<>>
      BY <1>2, <3>1, TakeAll DEF msg, m, Left
    <3> QED BY <1>4, <3>2
  <2>3. isAck <=> c = "ACK"
    BY <1>3, <2>1
  <2>4. CASE damage
    <3> DEFINE d == [msg EXCEPT ![1] = Ctl("NAK")]
    <3>1. d \in Seq(Char) /\ Len(d) = 1 /\ d[1] = Ctl("NAK")
      <4>1. Ctl("NAK") \in Char
        BY CtlType DEF Control
      <4> QED BY <1>3, <2>1, <2>2, <4>1
    <3>2. NAK \in Seq(Char) /\ Len(NAK) = 1 /\ NAK[1] = Ctl("NAK")
      BY CtlType DEF NAK
    <3>3. mBuf' = d
      BY <1>1, <2>4
    <3> HIDE DEF d
    <3>4. \A i \in 1 .. Len(d) : d[i] = NAK[i]
      BY <3>1, <3>2
    <3>5. d = NAK
      BY <3>1, <3>2, <3>4, SeqEqual
    <3>6. sendExtraAck' = sendExtraAck
      <4>1. sendExtraAck \in BOOLEAN /\ ~extra
        BY <1>2, <2>4 DEF MediumTypeOK
      <4> QED BY <1>1, <4>1
    <3> QED BY <2>2, <2>3, <2>4, <3>3, <3>5, <3>6
  <2>5. CASE ~damage
    BY <1>1, <2>2, <2>3, <2>5
  <2> QED BY <2>4, <2>5
<1>8. ASSUME AllCan(inM1)
      PROVE  /\ AllCan(inM1') /\ AllCan(mBuf') /\ sendExtraAck' = sendExtraAck
             /\ Len(inM1') + Len(mBuf') = Len(inM1)
  <2>1. ~isAck
    BY <1>3, <1>8 DEF AllCan
  <2>2. mBuf' = msg /\ (sendExtraAck' <=> sendExtraAck)
    BY <1>1, <2>1
  <2>3. AllCan(msg) /\ AllCan(Left(inM1, CAN_LEN))
    BY <1>2, <1>8, CanTake DEF msg, m, Left
  <2>4. sendExtraAck \in BOOLEAN /\ sendExtraAck' \in BOOLEAN
    BY <1>1, <1>2 DEF MediumTypeOK
  <2> QED BY <1>3, <1>4, <1>6, <2>2, <2>3, <2>4
<1>9. par.ackPeriod \in Nat /\ par.ackPeriod > 0 /\ par.extraPeriod \in Nat
  BY <1>2, ParType
<1>10. \A n \in Nat, k \in Nat \ {0} : n < k /\ (n + 1) % k # 0 => n + 1 < k
  <2>1. \A k \in Nat \ {0} : k % k = 0
    OBVIOUS
  <2> QED BY <2>1
<1>11. ACKreceived' \in 0 .. par.ackPeriod - 1
  <2>1. ACKreceived \in 0 .. par.ackPeriod - 1 /\ ACKreceived \in Nat
    BY <1>2, <1>9 DEF MediumTypeOK
  <2>2. CASE isAck /\ ~damage
    <3>1. count % par.ackPeriod # 0
      BY <2>2
    <3>2. count < par.ackPeriod
      BY <1>9, <1>10, <2>1, <3>1
    <3> QED BY <1>1, <1>9, <2>1, <2>2, <3>2
  <2>3. CASE damage \/ ~isAck
    BY <1>1, <1>9, <2>1, <2>3
  <2> QED BY <2>2, <2>3
<1>12. /\ ACKforwarded' \in 0 .. par.extraPeriod
       /\ par.extraPeriod > 0 => ACKforwarded' < par.extraPeriod
  <2>1. /\ ACKforwarded \in 0 .. par.extraPeriod /\ ACKforwarded \in Nat
        /\ par.extraPeriod > 0 => ACKforwarded < par.extraPeriod
    BY <1>2, <1>9 DEF MediumTypeOK, MediumPcs
  <2>2. CASE passed /\ ~extra
    <3>1. (ACKforwarded + 1) % par.extraPeriod # 0 /\ par.extraPeriod > 0
      BY <2>2
    <3>2. ACKforwarded + 1 < par.extraPeriod
      BY <1>9, <1>10, <2>1, <3>1
    <3>3. ACKforwarded' = ACKforwarded + 1
      BY <1>1, <2>2
    <3> QED BY <1>9, <2>1, <3>2, <3>3
  <2>3. CASE extra \/ ~passed
    <3>1. ACKforwarded' = 0 \/ ACKforwarded' = ACKforwarded
      BY <1>1, <2>3
    <3> QED BY <1>9, <2>1, <3>1
  <2> QED BY <2>2, <2>3
<1>13. sendExtraAck' \in BOOLEAN /\ (sendExtraAck' => sendExtraAck \/ par.extraPeriod > 0)
  BY <1>1
<1> QED BY <1>1, <1>4, <1>5, <1>6, <1>7, <1>8, <1>11, <1>12, <1>13

(* The medium takes a message of the receiver.                              *)
LEMMA MediumRead1Keeps ==
    ASSUME Inv, MediumRead1, UNCHANGED <<par, sVars, rVars>>
    PROVE  Inv'
<1>1. /\ inM1 # <<>> /\ inM1' = Left(inM1, CAN_LEN)
      /\ toT1 = <<>> /\ toT1' = <<>> /\ toT2 = <<>> /\ toT2' = mBuf'
      /\ mBuf' \in Seq(Char) /\ mBuf' # <<>>
  BY Read1Passes
<1>2. \A c \in Control :
        inM1 = <<Ctl(c)>> =>
           /\ inM1' = <<>>
           /\ \/ mBuf' = inM1 /\ (sendExtraAck' => sendExtraAck \/ c = "ACK")
              \/ c = "ACK" /\ mBuf' = NAK /\ sendExtraAck' = sendExtraAck
  BY Read1Passes
<1>3. /\ mPc = "read1" /\ mPc' = "write1" /\ queue' = Without("M1", CAN_LEN)
      /\ UNCHANGED <<term2Set, finished, byteCount, closed, reset, exited>>
  BY DEF MediumRead1
<1>4. Base /\ NetTypeOK /\ MediumTypeOK /\ MediumPcs /\ CAN_LEN \in Nat
  BY Sizes DEF Inv, Base, TypeOK
<1>5. NetTypeOK' /\ inT1' = inT1 /\ inM2' = inM2 /\ inT2' = inT2
  BY <1>3, <1>4, MediumReadsAt DEF Queues
<1>6. MediumTypeOK'
  BY <1>1, <1>3, <1>4, Read1Passes DEF MediumTypeOK
<1>7. MediumPcs'
  <2>1. par.extraPeriod > 0 => par.drainWaits
    BY <1>4, ParType
  <2>2. par.extraPeriod > 0 => ACKforwarded' < par.extraPeriod
    BY Read1Passes
  <2>3. sendExtraAck' => sendExtraAck \/ par.extraPeriod > 0
    BY Read1Passes
  <2> QED BY <1>1, <1>3, <1>4, <2>1, <2>2, <2>3 DEF MediumPcs
<1>8. Closings'
  BY <1>3, <1>4 DEF Base, Closings, sVars, rVars
<1>9. Base'
  BY <1>4, <1>5, <1>6, <1>7, <1>8, MediumMoves
<1>10. /\ Ask' = Ask /\ (Caught' <=> Caught) /\ (AtEnd' <=> AtEnd)
       /\ (Ready' <=> Ready) /\ (Cut' <=> Cut)
  BY <1>4, MediumFrame
<1>11. NoFwd' <=> NoFwd
  BY <1>1, <1>5 DEF NoFwd
<1>12. /\ inM1 = Ask => /\ inM1' = <<>> /\ mBuf' = Ask
                        /\ sendExtraAck' => sendExtraAck
       /\ inM1 = NAK => /\ inM1' = <<>> /\ mBuf' = NAK
                        /\ sendExtraAck' => sendExtraAck
       /\ inM1 = ACK => /\ inM1' = <<>>
                        /\ mBuf' = ACK \/ (mBuf' = NAK /\ sendExtraAck' = sendExtraAck)
  <2>1. "ACK" \in Control /\ "NAK" \in Control /\ "C" \in Control
    BY DEF Control
  <2> QED BY <1>2, <2>1 DEF Ask, ACK, NAK
<1>13. /\ \A x : BackAfter(x, NAK) =>
             BackAfter(x, NAK)' /\ inT2 = x /\ (sendExtraAck' => sendExtraAck)
       /\ OneBack(Ask) => OneBack(Ask)' /\ (sendExtraAck' => sendExtraAck)
       /\ OneBack(ACK) =>
             \/ OneBack(ACK)' /\ inM1' = <<>>
             \/ OneBack(NAK)' /\ sendExtraAck' = sendExtraAck
       /\ ~NoBack
  BY <1>1, <1>5, <1>10, <1>12 DEF BackAfter, OneBack, NoBack
<1> USE DEF sVars, rVars
<1>14. CASE Opening
  BY <1>9, <1>10, <1>11, <1>13, <1>14 DEF Opening, Inv, Phase
<1>15. CASE NoFile
  BY <1>9, <1>10, <1>11, <1>13, <1>15 DEF NoFile, Inv, Phase
<1>16. CASE AnswerUnderWay
  <2>1. OneBack(ACK) => ~sendExtraAck
    BY <1>1, <1>16, LeftIs DEF AnswerUnderWay, OneBack, BackAfter
  <2>2. CASE OneBack(ACK)
    <3>1. Caught
      BY <1>1, <1>16, <2>2, LeftIs DEF AnswerUnderWay, OneBack, BackAfter
    <3> QED BY <1>9, <1>10, <1>11, <1>13, <1>16, <2>1, <2>2, <3>1 DEF AnswerUnderWay, Inv, Phase
  <2>3. CASE OneBack(NAK) /\ ~sendExtraAck
    BY <1>9, <1>10, <1>11, <1>13, <1>16, <2>3 DEF AnswerUnderWay, OneBack, Inv, Phase
  <2> QED BY <1>16, <2>2, <2>3 DEF AnswerUnderWay
<1>17. CASE ReceiverGaveUp
  <2>1. AllCan(inM1) /\ AllCan(inT2)
    BY <1>17 DEF ReceiverGaveUp
  <2>2. AllCan(inM1') /\ AllCan(mBuf') /\ Len(inM1') + Len(mBuf') = Len(inM1)
    BY <2>1, Read1Passes
  <2>3. Len(inM1') + Len(toT2') + Len(inT2') <= CAN_LEN
    <3>1. Len(inM1) + Len(toT2) + Len(inT2) <= 8 /\ CAN_LEN = 8
      BY <1>17, Sizes DEF ReceiverGaveUp
    <3>2. Len(inM1) \in Nat /\ Len(toT2) = 0 /\ Len(inT2) \in Nat
      BY <1>1, <1>4, QueueType
    <3> QED BY <1>1, <1>5, <2>2, <3>1, <3>2
  <2>4. ReceiverGaveUp'
    BY <1>1, <1>5, <1>11, <1>17, <2>1, <2>2, <2>3 DEF ReceiverGaveUp
  <2> QED BY <1>9, <2>4 DEF Inv, Phase
<1>18. CASE FirstEotAnswered
  BY <1>9, <1>10, <1>11, <1>13, <1>18 DEF FirstEotAnswered, Inv, Phase
<1>19. CASE SenderEndsEarly
  BY <1>1, <1>5, <1>9, <1>10, <1>13, <1>19 DEF SenderEndsEarly, OneBack, Inv, Phase
<1>20. CASE Complete
  BY <1>9, <1>10, <1>11, <1>13, <1>20 DEF Complete, OneBack, Inv, Phase
<1> QED BY <1>1, <1>13, <1>14, <1>15, <1>16, <1>17, <1>18, <1>19, <1>20
        DEF Inv, Phase, BlockUnderWay, SenderGaveUp, FirstEot, SecondEot

(* It passes the message on to the sender.                                  *)
LEMMA MediumWrite1Keeps ==
    ASSUME Inv, MediumWrite1, UNCHANGED <<par, sVars, rVars>>
    PROVE  Inv'
<1>1. /\ mPc = "write1" /\ mPc' \in {"read2", "select"} /\ queue' = Plus(queue, "M2", mBuf)
      /\ mBuf' = <<>>
      /\ UNCHANGED <<term2Set, finished, byteCount, ACKreceived, ACKforwarded, sendExtraAck,
                     closed, reset, exited>>
  BY DEF MediumWrite1
<1>2. /\ Base /\ NetTypeOK /\ MediumTypeOK /\ MediumPcs /\ mBuf \in Seq(Char)
      /\ inT2 \in Seq(Char) /\ <<>> \in Seq(Char)
  BY QueueType DEF Inv, Base, TypeOK, MediumTypeOK
<1>3. /\ toT1 = <<>> /\ toT1' = <<>> /\ toT2 = mBuf /\ toT2' = <<>> /\ mBuf # <<>>
  BY <1>1, <1>2 DEF toT1, toT2, MediumPcs
<1>4. /\ NetTypeOK' /\ inT1' = inT1 /\ inM1' = inM1 /\ inM2' = inM2 /\ inT2' = inT2 \o mBuf
  BY <1>1, <1>2, MediumWritesAt DEF Queues
<1>5. MediumTypeOK' /\ MediumPcs' /\ Closings'
  <2>1. MediumTypeOK'
    BY <1>1, <1>2 DEF MediumTypeOK
  <2>2. MediumPcs'
    BY <1>1, <1>2 DEF MediumPcs
  <2>3. Closings'
    BY <1>1, <1>2 DEF Base, Closings, sVars, rVars
  <2> QED BY <2>1, <2>2, <2>3
<1>6. Base'
  BY <1>2, <1>4, <1>5, MediumMoves
<1>7. /\ Ask' = Ask /\ (Caught' <=> Caught) /\ (AtEnd' <=> AtEnd)
      /\ (Ready' <=> Ready) /\ (Cut' <=> Cut)
  BY <1>2, MediumFrame
<1>8. (NoFwd' <=> NoFwd) /\ ~NoBack
  BY <1>3, <1>4 DEF NoFwd, NoBack
<1>9. \A x, m \in Seq(Char) : BackAfter(x, m) => BackAfter(x, m)'
  BY <1>3, <1>4 DEF BackAfter
<1>10. /\ OneBack(Ask) => OneBack(Ask)'
       /\ OneBack(ACK) => OneBack(ACK)'
       /\ OneBack(NAK) => OneBack(NAK)'
       /\ BackAfter(ACK, NAK) => BackAfter(ACK, NAK)'
       /\ BackAfter(<<>>, NAK) => BackAfter(<<>>, NAK)'
  BY <1>2, <1>7, <1>9, CtlType DEF OneBack
<1> USE DEF sVars, rVars
<1>11. CASE Opening
  BY <1>1, <1>6, <1>7, <1>8, <1>10, <1>11 DEF Opening, Inv, Phase
<1>12. CASE NoFile
  BY <1>6, <1>7, <1>8, <1>10, <1>12 DEF NoFile, Inv, Phase
<1>13. CASE AnswerUnderWay
  BY <1>1, <1>4, <1>6, <1>7, <1>8, <1>10, <1>13 DEF AnswerUnderWay, Inv, Phase
<1>14. CASE ReceiverGaveUp
  <2>1. AllCan(inM1) /\ AllCan(inT2) /\ AllCan(mBuf)
    BY <1>3, <1>14 DEF ReceiverGaveUp
  <2>2. AllCan(inT2 \o mBuf) /\ Len(inT2 \o mBuf) = Len(inT2) + Len(mBuf)
    BY <1>2, <2>1, CanConcat
  <2>3. Len(inM1') + Len(toT2') + Len(inT2') <= CAN_LEN
    <3>1. Len(inM1) + Len(mBuf) + Len(inT2) <= 8 /\ CAN_LEN = 8
      BY <1>3, <1>14, Sizes DEF ReceiverGaveUp
    <3>2. Len(inM1) \in Nat /\ Len(mBuf) \in Nat /\ Len(inT2) \in Nat /\ Len(toT2') = 0
      BY <1>2, <1>3, QueueType
    <3> QED BY <1>4, <2>2, <3>1, <3>2
  <2>4. AllCan(toT2')
    BY <1>3 DEF AllCan
  <2>5. ReceiverGaveUp'
    BY <1>4, <1>8, <1>14, <2>1, <2>2, <2>3, <2>4 DEF ReceiverGaveUp
  <2> QED BY <1>6, <2>5 DEF Inv, Phase
<1>15. CASE FirstEotAnswered
  BY <1>1, <1>6, <1>7, <1>8, <1>10, <1>15 DEF FirstEotAnswered, Inv, Phase
<1>16. CASE SenderEndsEarly
  BY <1>1, <1>3, <1>4, <1>6, <1>7, <1>8, <1>10, <1>16 DEF SenderEndsEarly, Inv, Phase
<1>17. CASE Complete
  BY <1>6, <1>7, <1>8, <1>10, <1>17 DEF Complete, Inv, Phase
<1> QED BY <1>3, <1>8, <1>11, <1>12, <1>13, <1>14, <1>15, <1>16, <1>17
        DEF Inv, Phase, BlockUnderWay, SenderGaveUp, FirstEot, SecondEot

(* What MsgFromTerm2 passes on: half a block at most, one character damaged *)
(* but never the first.                                                     *)
LEMMA Read2Passes ==
    ASSUME Inv, MediumRead2
    PROVE  /\ inM2 # <<>> /\ inM2' = Left(inM2, HalfBlk)
           /\ toT1 = <<>> /\ toT1' = mBuf' /\ toT2 = <<>> /\ toT2' = <<>>
           /\ mBuf' \in Seq(Char) /\ mBuf' # <<>> /\ Len(mBuf') <= HalfBlk
           /\ inM2' \in Seq(Char) /\ Len(inM2) = Len(mBuf') + Len(inM2')
           /\ AllCan(inM2) => AllCan(mBuf') /\ AllCan(inM2')
           /\ inM2 = EOT => mBuf' = EOT /\ inM2' = <<>>
           /\ \A k, n : \A from \in Nat :
                Run(inM2, k, n, from) =>
                    Run(mBuf', k, n, from) /\ Run(inM2', k, n, from + Len(mBuf'))
           /\ byteCount' \in 0 .. par.period - 1
<1> DEFINE m     == Least(HalfBlk, Len(inM2))
           msg   == SubSeq(inM2, 1, m)
           count == byteCount + Len(msg)
           left  == count - par.period
<1>1. /\ mPc = "read2" /\ mPc' = "write2" /\ inM2 # <<>>
      /\ IF count >= par.period
         THEN byteCount' = left /\ mBuf' = Corrupted(msg, Len(msg) - left - 1)
         ELSE byteCount' = count /\ mBuf' = msg
      /\ queue' = Without("M2", HalfBlk)
  BY DEF MediumRead2, Readable, Taken, inM2
<1>2. /\ Base /\ NetTypeOK /\ MediumTypeOK /\ inM2 \in Seq(Char)
      /\ HalfBlk \in Nat /\ HalfBlk > 0
  BY QueueType, Sizes DEF Inv, Base, TypeOK
<1>3. par.period \in Nat /\ par.period > HalfBlk /\ byteCount \in 0 .. par.period - 1
  BY <1>2, ParType DEF MediumTypeOK
<1>4. /\ m \in Nat /\ m >= 1 /\ m <= HalfBlk /\ Len(inM2) \in Nat
      /\ msg \in Seq(Char) /\ Len(msg) = m
      /\ Left(inM2, HalfBlk) \in Seq(Char) /\ Len(inM2) = m + Len(Left(inM2, HalfBlk))
  <2>1. Len(inM2) \in Nat /\ Len(inM2) >= 1
    BY <1>1, <1>2, NoChar
  <2>2. m \in 0 .. Len(inM2) /\ m <= HalfBlk /\ (m = HalfBlk \/ m = Len(inM2))
    BY <1>2, TakeType
  <2>3. /\ msg \in Seq(Char) /\ Len(msg) = m
        /\ Left(inM2, HalfBlk) \in Seq(Char) /\ Len(Left(inM2, HalfBlk)) = Len(inM2) - m
    BY <1>2, TakeType DEF Left
  <2> HIDE DEF m, msg
  <2> QED BY <1>2, <2>1, <2>2, <2>3
<1>5. inM2' = Left(inM2, HalfBlk)
  <2>1. Without("M2", HalfBlk) = [queue EXCEPT !["M2"] = Left(inM2, HalfBlk)]
    BY <1>2, WithoutAt
  <2> QED BY <1>1, <1>2, <2>1, QueueType, Lines DEF inM2
<1>6. /\ AllCan(inM2) => AllCan(msg) /\ AllCan(inM2')
      /\ \A k, n : \A from \in Nat :
            Run(inM2, k, n, from) => Run(msg, k, n, from) /\ Run(inM2', k, n, from + m)
  <2>1. AllCan(inM2) => AllCan(msg) /\ AllCan(inM2')
    BY <1>2, <1>5, CanTake DEF Left
  <2>2. ASSUME NEW k, NEW n, NEW from \in Nat, Run(inM2, k, n, from)
        PROVE  Run(msg, k, n, from) /\ Run(inM2', k, n, from + m)
    BY <1>2, <1>5, <2>2, RunTake DEF Left
  <2> QED BY <2>1, <2>2
<1>7. inM2 = EOT => msg = EOT /\ inM2' = <<>>
  <2>1. ASSUME inM2 = EOT PROVE msg = EOT /\ inM2' = <<>>
    <3>1. Len(inM2) <= HalfBlk
      BY <1>2, <2>1, CtlType
    <3>2. SubSeq(inM2, 1, m) = inM2 /\ Left(inM2, HalfBlk) = <<>>
      BY <1>2, <3>1, TakeAll DEF Left
    <3> QED BY <1>5, <2>1, <3>2
  <2> QED BY <2>1
<1> HIDE DEF m, msg
<1>8. byteCount' \in 0 .. par.period - 1
  BY <1>1, <1>2, <1>3, <1>4
<1>9. /\ mBuf' \in Seq(Char) /\ Len(mBuf') = m
      /\ m = 1 => mBuf' = msg
      /\ AllCan(msg) => AllCan(mBuf')
      /\ \A k, n : \A from \in Nat : Run(msg, k, n, from) => Run(mBuf', k, n, from)
  <2>1. CASE count >= par.period
    <3> DEFINE i == Len(msg) - left - 1
    <3>1. i \in 0 .. Len(msg) - 1
      BY <1>3, <1>4, <2>1
    <3>2. mBuf' = Corrupted(msg, i)
      BY <1>1, <2>1
    <3> HIDE DEF i
    <3>3. /\ Corrupted(msg, i) \in Seq(Char)
          /\ Len(Corrupted(msg, i)) = Len(msg)
          /\ Len(msg) = 1 => Corrupted(msg, i) = msg
          /\ AllCan(msg) => AllCan(Corrupted(msg, i))
          /\ \A k, n : \A from \in Nat :
                Run(msg, k, n, from) => Run(Corrupted(msg, i), k, n, from)
      BY <1>4, <3>1, CorruptedType
    <3> QED BY <1>4, <3>2, <3>3
  <2>2. CASE ~(count >= par.period)
    BY <1>1, <1>4, <2>2
  <2> QED BY <2>1, <2>2
<1>10. inM2 = EOT => mBuf' = EOT
  <2>1. ASSUME inM2 = EOT PROVE m = 1
    BY <1>4, <1>7, <2>1, CtlType
  <2> QED BY <1>7, <1>9, <2>1
<1>11. /\ toT1 = <<>> /\ toT1' = mBuf' /\ toT2 = <<>> /\ toT2' = <<>>
  BY <1>1 DEF toT1, toT2
<1>12. mBuf' # <<>>
  BY <1>4, <1>9, NoChar
<1>13. \A k, n : \A from \in Nat :
         Run(inM2, k, n, from) => Run(mBuf', k, n, from) /\ Run(inM2', k, n, from + Len(mBuf'))
  BY <1>6, <1>9
<1> QED BY <1>1, <1>4, <1>5, <1>6, <1>7, <1>8, <1>9, <1>10, <1>11, <1>12, <1>13

(* It takes up to half a block of the sender.                               *)
LEMMA MediumRead2Keeps ==
    ASSUME Inv, MediumRead2, UNCHANGED <<par, sVars, rVars>>
    PROVE  Inv'
<1>1. /\ inM2 # <<>> /\ inM2' = Left(inM2, HalfBlk)
      /\ toT1 = <<>> /\ toT1' = mBuf' /\ toT2 = <<>> /\ toT2' = <<>>
      /\ mBuf' \in Seq(Char) /\ mBuf' # <<>> /\ Len(mBuf') <= HalfBlk
      /\ inM2' \in Seq(Char) /\ Len(inM2) = Len(mBuf') + Len(inM2')
      /\ byteCount' \in 0 .. par.period - 1
  BY Read2Passes
<1>2. /\ AllCan(inM2) => AllCan(mBuf') /\ AllCan(inM2')
      /\ inM2 = EOT => mBuf' = EOT /\ inM2' = <<>>
      /\ \A k, n : \A from \in Nat :
           Run(inM2, k, n, from) =>
               Run(mBuf', k, n, from) /\ Run(inM2', k, n, from + Len(mBuf'))
  BY Read2Passes
<1>3. /\ mPc = "read2" /\ mPc' = "write2" /\ queue' = Without("M2", HalfBlk)
      /\ UNCHANGED <<term2Set, finished, ACKreceived, ACKforwarded, sendExtraAck,
                     closed, reset, exited>>
  BY DEF MediumRead2
<1>4. /\ Base /\ NetTypeOK /\ MediumTypeOK /\ MediumPcs /\ HalfBlk \in Nat
      /\ inT1 \in Seq(Char) /\ TakenNow \in Nat /\ Most \in Nat /\ HalfBlk < Most
  BY Sizes, QueueType, BaseTypes DEF Inv, Base, TypeOK
<1>5. NetTypeOK' /\ inT1' = inT1 /\ inM1' = inM1 /\ inT2' = inT2
  BY <1>3, <1>4, MediumReadsAt DEF Queues
<1>6. MediumTypeOK' /\ MediumPcs' /\ Closings'
  <2>1. MediumTypeOK'
    BY <1>1, <1>3, <1>4 DEF MediumTypeOK
  <2>2. MediumPcs'
    BY <1>1, <1>3, <1>4 DEF MediumPcs
  <2>3. Closings'
    BY <1>3, <1>4 DEF Base, Closings, sVars, rVars
  <2> QED BY <2>1, <2>2, <2>3
<1>7. Base'
  BY <1>4, <1>5, <1>6, MediumMoves
<1>8. /\ Current' = Current /\ Most' = Most /\ TakenNow' = TakenNow
      /\ (AtEnd' <=> AtEnd) /\ (Ready' <=> Ready) /\ (Cut' <=> Cut)
  BY <1>4, MediumFrame
<1>9. (NoBack' <=> NoBack) /\ ~NoFwd /\ (OneFwd(EOT) => OneFwd(EOT)' /\ inT1 = <<>>)
  BY <1>1, <1>2, <1>5 DEF NoBack, NoFwd, OneFwd
<1>10. /\ Len(mBuf') \in Nat /\ Len(inM2') \in Nat /\ Len(inT1) \in Nat /\ Len(toT1) = 0
       /\ Len(toT1') = Len(mBuf')
  BY <1>1, <1>4
<1> USE DEF sVars, rVars
<1>11. CASE BlockUnderWay
  <2>1. Run(inM2, Current, blkNum, TakenNow + Len(inT1) + Len(toT1))
    BY <1>11 DEF BlockUnderWay
  <2> DEFINE from == TakenNow + Len(inT1)
  <2>2. from \in Nat /\ TakenNow + Len(inT1) + Len(toT1) = from
    BY <1>4, <1>10
  <2>3. Run(inM2, Current, blkNum, from)
    BY <2>1, <2>2
  <2> HIDE DEF from
  <2>4. Run(mBuf', Current, blkNum, from) /\ Run(inM2', Current, blkNum, from + Len(mBuf'))
    BY <1>2, <2>2, <2>3
  <2>5. /\ Run(inT1', Current', blkNum', TakenNow')
        /\ Run(toT1', Current', blkNum', TakenNow' + Len(inT1'))
        /\ Run(inM2', Current', blkNum', TakenNow' + Len(inT1') + Len(toT1'))
    BY <1>1, <1>5, <1>8, <1>11, <2>4 DEF from, BlockUnderWay
  <2>6. Len(toT1') + Len(inM2') = Len(toT1) + Len(inM2)
    BY <1>1, <1>10
  <2>7. TakenNow' + Len(inT1') + Len(toT1') + Len(inM2')
          = TakenNow + Len(inT1) + Len(toT1) + Len(inM2)
    <3>1. Len(inM2) \in Nat
      BY <1>1, <1>10
    <3> QED BY <1>4, <1>5, <1>8, <1>10, <2>6, <3>1
  <2>8. sendExtraAck => sPc = "last" /\ Len(toT1') + Len(inM2') = Most /\ inM2' # <<>>
    <3>1. SUFFICES ASSUME sendExtraAck
                   PROVE  sPc = "last" /\ Len(toT1') + Len(inM2') = Most /\ inM2' # <<>>
      OBVIOUS
    <3>2. sPc = "last" /\ Len(toT1) + Len(inM2) = Most
      BY <1>11, <3>1 DEF BlockUnderWay
    <3>3. Len(inM2') > 0
      BY <1>1, <1>4, <1>10, <2>6, <3>2
    <3> QED BY <1>1, <2>6, <3>2, <3>3, NoChar
  <2>9. BlockUnderWay'
    BY <1>1, <1>3, <1>5, <1>8, <1>11, <2>5, <2>7, <2>8 DEF BlockUnderWay
  <2> QED BY <1>7, <2>9 DEF Inv, Phase
<1>12. CASE SenderGaveUp
  <2>1. AllCan(inM2') /\ AllCan(toT1') /\ AllCan(inT1')
    BY <1>1, <1>2, <1>5, <1>12 DEF SenderGaveUp
  <2>2. Len(inM2') + Len(toT1') + Len(inT1') <= 2 * sCans'
    <3>1. Len(inM2) + Len(toT1) + Len(inT1) <= 2 * sCans
      BY <1>12 DEF SenderGaveUp
    <3>2. Len(inM2') + Len(toT1') = Len(inM2) + Len(toT1)
      BY <1>1, <1>10
    <3> QED BY <1>5, <3>1, <3>2
  <2>3. SenderGaveUp'
    BY <1>3, <1>5, <1>8, <1>9, <1>12, <2>1, <2>2 DEF SenderGaveUp
  <2> QED BY <1>7, <2>3 DEF Inv, Phase
<1>13. CASE FirstEot
  <2>1. inT1 = <<>> /\ inT1' = <<>> /\ EOT # <<>>
    BY <1>5, <1>9, <1>13, LeftIs DEF FirstEot
  <2> QED BY <1>1, <1>5, <1>7, <1>8, <1>9, <1>13, <2>1 DEF FirstEot, Inv, Phase
<1>14. CASE SecondEot
  BY <1>3, <1>7, <1>8, <1>9, <1>14 DEF SecondEot, Inv, Phase
<1> QED BY <1>1, <1>9, <1>11, <1>12, <1>13, <1>14
        DEF Inv, Phase, Opening, NoFile, AnswerUnderWay, ReceiverGaveUp, FirstEotAnswered,
            SenderEndsEarly, Complete

(* A block, CANs or an EOT is passed on to the receiver, and an extra ACK   *)
(* to the sender with it.                                                   *)
LEMMA MediumWrite2Keeps ==
    ASSUME Inv, MediumWrite2, UNCHANGED <<par, sVars, rVars>>
    PROVE  Inv'
<1> DEFINE ack == IF sendExtraAck THEN ACK ELSE <<>>
<1>1. /\ mPc = "write2" /\ mPc' = "drain" /\ mBuf' = <<>> /\ sendExtraAck' = FALSE
      /\ queue' = Plus(IF sendExtraAck THEN Plus(queue, "M2", ACK) ELSE queue, "M1", mBuf)
      /\ UNCHANGED <<term2Set, finished, byteCount, ACKreceived, ACKforwarded,
                     closed, reset, exited>>
  BY DEF MediumWrite2, ACK
<1>2. /\ Base /\ NetTypeOK /\ MediumTypeOK /\ MediumPcs /\ mBuf \in Seq(Char)
      /\ inT1 \in Seq(Char) /\ inM2 \in Seq(Char) /\ inT2 \in Seq(Char) /\ <<>> \in Seq(Char)
      /\ ACK \in Seq(Char)
  BY QueueType, CtlType DEF Inv, Base, TypeOK, MediumTypeOK
<1>3. /\ toT1 = mBuf /\ toT1' = <<>> /\ toT2 = <<>> /\ toT2' = <<>> /\ mBuf # <<>>
  BY <1>1, <1>2 DEF toT1, toT2, MediumPcs
<1>4. /\ NetTypeOK' /\ inT1' = inT1 \o mBuf /\ inM1' = inM1 /\ inM2' = inM2
      /\ inT2' = inT2 \o ack
  <2>1. CASE sendExtraAck
    <3>1. queue' = Plus(Plus(queue, "M2", ACK), "M1", mBuf)
      BY <1>1, <2>1
    <3> QED BY <1>1, <1>2, <2>1, <3>1, MediumWritesAt DEF Queues
  <2>2. CASE ~sendExtraAck
    <3>1. queue' = Plus(queue, "M1", mBuf)
      BY <1>1, <2>2
    <3>2. inT2 \o <<>> = inT2
      BY <1>2, NoChar
    <3> QED BY <1>1, <1>2, <2>2, <3>1, <3>2, MediumWritesAt DEF Queues
  <2> QED BY <2>1, <2>2
<1>5. MediumTypeOK' /\ MediumPcs' /\ Closings'
  <2>1. MediumTypeOK'
    BY <1>1, <1>2 DEF MediumTypeOK
  <2>2. MediumPcs'
    BY <1>1, <1>2 DEF MediumPcs
  <2>3. Closings'
    BY <1>1, <1>2 DEF Base, Closings, sVars, rVars
  <2> QED BY <2>1, <2>2, <2>3
<1>6. Base'
  BY <1>2, <1>4, <1>5, MediumMoves
<1>7. /\ Current' = Current /\ Most' = Most /\ TakenNow' = TakenNow
      /\ (AtEnd' <=> AtEnd) /\ (Ready' <=> Ready) /\ (Cut' <=> Cut)
  BY <1>2, MediumFrame
<1>8. /\ ~NoFwd
      /\ inT2 = <<>> => inT2' = ack
      /\ ~sendExtraAck => inT2' = inT2
  <2>1. ack \in Seq(Char) /\ (~sendExtraAck => ack = <<>>)
    BY <1>2
  <2>2. <<>> \o ack = ack /\ inT2 \o <<>> = inT2
    BY <1>2, <2>1, NoChar
  <2> QED BY <1>3, <1>4, <2>1, <2>2 DEF NoFwd
<1>9. /\ Len(mBuf) \in Nat /\ Len(inT1) \in Nat /\ Len(inM2) \in Nat /\ Len(toT1') = 0
      /\ TakenNow \in Nat
  BY <1>2, <1>3, BaseTypes
<1>10. /\ EOT # <<>> /\ <<>> \o EOT = EOT
  BY LeftIs
<1> HIDE DEF ack
<1> USE DEF sVars, rVars
<1>11. CASE BlockUnderWay
  <2>1. /\ Run(inT1, Current, blkNum, TakenNow)
        /\ Run(mBuf, Current, blkNum, TakenNow + Len(inT1))
        /\ Run(inM2, Current, blkNum, TakenNow + Len(inT1) + Len(mBuf))
    BY <1>3, <1>11 DEF BlockUnderWay
  <2>2. Run(inT1 \o mBuf, Current, blkNum, TakenNow) /\ Len(inT1 \o mBuf) = Len(inT1) + Len(mBuf)
    BY <1>2, <1>9, <2>1, RunConcat
  <2>3. TakenNow + (Len(inT1) + Len(mBuf)) + 0 = TakenNow + Len(inT1) + Len(mBuf)
    BY <1>9
  <2>4. /\ Run(inT1', Current', blkNum', TakenNow')
        /\ Run(inM2', Current', blkNum', TakenNow' + Len(inT1') + Len(toT1'))
    BY <1>4, <1>7, <1>9, <2>1, <2>2, <2>3
  <2>5. Run(toT1', Current', blkNum', TakenNow' + Len(inT1'))
    BY <1>3, <1>9 DEF Run
  <2>6. TakenNow' + Len(inT1') + Len(toT1') + Len(inM2')
          = TakenNow + Len(inT1) + Len(toT1) + Len(inM2)
    BY <1>3, <1>4, <1>7, <1>9, <2>2
  <2>7. inT2' = <<>> \/ (inT2' = ACK /\ sPc = "last")
    BY <1>8, <1>11 DEF BlockUnderWay, ack
  <2>8. BlockUnderWay'
    BY <1>1, <1>3, <1>4, <1>7, <1>11, <2>4, <2>5, <2>6, <2>7 DEF BlockUnderWay
  <2> QED BY <1>6, <2>8 DEF Inv, Phase
<1>12. CASE SenderGaveUp
  <2>1. AllCan(inM2) /\ AllCan(mBuf) /\ AllCan(inT1) /\ NoBack /\ ~sendExtraAck
    BY <1>3, <1>12 DEF SenderGaveUp
  <2>2. AllCan(inT1 \o mBuf) /\ Len(inT1 \o mBuf) = Len(inT1) + Len(mBuf)
    BY <1>2, <2>1, CanConcat
  <2>3. Len(inM2') + Len(toT1') + Len(inT1') <= 2 * sCans'
    <3>1. Len(inM2) + Len(mBuf) + Len(inT1) <= 2 * sCans
      BY <1>3, <1>12 DEF SenderGaveUp
    <3>2. sCans \in 0 .. CAN_LEN \div 2 /\ CAN_LEN \div 2 = 4
      BY <1>2, Sizes DEF Base, TypeOK, SenderTypeOK
    <3> QED BY <1>4, <1>9, <2>2, <3>1, <3>2
  <2>4. AllCan(toT1') /\ NoBack'
    BY <1>3, <1>4, <1>8, <2>1 DEF AllCan, NoBack
  <2>5. rPc # "rest"
    BY <1>1, <1>2, <1>12 DEF SenderGaveUp, Base, Closings
  <2>6. SenderGaveUp'
    BY <1>1, <1>4, <1>7, <1>12, <2>1, <2>2, <2>3, <2>4, <2>5 DEF SenderGaveUp
  <2> QED BY <1>6, <2>6 DEF Inv, Phase
<1>13. CASE FirstEot
  <2>1. mBuf = EOT /\ inM2 = <<>> /\ inT1 = <<>> /\ inT2 = <<>> /\ inM1 = <<>>
    BY <1>3, <1>10, <1>13 DEF FirstEot, OneFwd
  <2>2. inT1' = EOT /\ inM2' = <<>> /\ inM1' = <<>> /\ (inT2' = <<>> \/ inT2' = ACK)
    BY <1>4, <1>8, <1>10, <2>1 DEF ack
  <2>3. FirstEot'
    BY <1>1, <1>3, <1>7, <1>13, <2>2 DEF FirstEot, OneFwd
  <2> QED BY <1>6, <2>3 DEF Inv, Phase
<1>14. CASE SecondEot
  <2>1. mBuf = EOT /\ inM2 = <<>> /\ inT1 = <<>> /\ NoBack /\ ~sendExtraAck
    BY <1>3, <1>10, <1>14 DEF SecondEot, OneFwd
  <2>2. inT1' = EOT /\ inM2' = <<>> /\ NoBack'
    BY <1>3, <1>4, <1>8, <1>10, <2>1 DEF NoBack
  <2>3. SecondEot'
    BY <1>1, <1>3, <1>7, <1>14, <2>2 DEF SecondEot, OneFwd
  <2> QED BY <1>6, <2>3 DEF Inv, Phase
<1> QED BY <1>3, <1>8, <1>11, <1>12, <1>13, <1>14
        DEF Inv, Phase, Opening, NoFile, AnswerUnderWay, ReceiverGaveUp, FirstEotAnswered,
            SenderEndsEarly, Complete

(* The medium closes its ends after one of the peers has closed its own.    *)
LEMMA MediumCloseKeeps ==
    ASSUME Inv, MediumClose, UNCHANGED <<par, sVars, rVars>>
    PROVE  Inv'
<1>1. /\ \/ mPc = "close1" /\ CloseEnd("M1") /\ mPc' = "close2"
         \/ mPc = "close2" /\ CloseEnd("M2") /\ mPc' = "done"
      /\ UNCHANGED <<term2Set, finished, mBuf, byteCount, ACKreceived, ACKforwarded,
                     sendExtraAck, exited>>
  BY DEF MediumClose
<1>2. /\ Base /\ NetTypeOK /\ MediumTypeOK /\ MediumPcs
      /\ rPc = "done" \/ sPc = "done"
  BY <1>1 DEF Inv, Base, TypeOK, Closings
<1>3. /\ toT1 = <<>> /\ toT1' = <<>> /\ toT2 = <<>> /\ toT2' = <<>>
  BY <1>1 DEF toT1, toT2
<1>4. /\ NetTypeOK' /\ inT1' = inT1 /\ inT2' = inT2
      /\ inM1' = inM1 \/ inM1' = <<>>
      /\ inM2' = inM2 \/ inM2' = <<>>
      /\ closed' = closed \cup {IF mPc = "close1" THEN "M1" ELSE "M2"}
  <2>1. CASE mPc = "close1"
    <3>1. CloseEnd("M1")
      BY <1>1, <2>1
    <3> QED BY <1>1, <1>2, <2>1, <3>1, CloseAt, Lines DEF Queues
  <2>2. CASE mPc = "close2"
    <3>1. CloseEnd("M2")
      BY <1>1, <2>2
    <3> QED BY <1>1, <1>2, <2>2, <3>1, CloseAt, Lines DEF Queues
  <2> QED BY <1>1, <2>1, <2>2
<1>5. MediumTypeOK' /\ MediumPcs' /\ Closings'
  <2>1. MediumTypeOK'
    BY <1>1, <1>2 DEF MediumTypeOK
  <2>2. MediumPcs'
    BY <1>1, <1>2 DEF MediumPcs
  <2>3. Closings'
    BY <1>1, <1>2, <1>4 DEF Base, Closings, sVars, rVars
  <2> QED BY <2>1, <2>2, <2>3
<1>6. Base'
  BY <1>2, <1>4, <1>5, MediumMoves
<1>7. /\ Ask' = Ask /\ (AtEnd' <=> AtEnd) /\ (Ready' <=> Ready) /\ (Cut' <=> Cut)
  BY <1>2, MediumFrame
<1>8. NoFile \/ SenderGaveUp \/ ReceiverGaveUp \/ SenderEndsEarly \/ Complete
  BY <1>2 DEF Inv, Phase, Opening, BlockUnderWay, AnswerUnderWay, FirstEot, FirstEotAnswered,
     SecondEot, Ready
<1>9. /\ Ask # <<>> /\ ACK # <<>> /\ NAK # <<>>
      /\ <<>> \o Ask = Ask /\ <<>> \o ACK = ACK /\ <<>> \o NAK = NAK
  BY LeftIs
<1>10. /\ NoFwd => NoFwd'
       /\ NoBack => NoBack'
       /\ OneBack(Ask) => OneBack(Ask)' \/ NoBack'
       /\ OneBack(ACK) => OneBack(ACK)' \/ NoBack'
       /\ OneBack(NAK) => OneBack(NAK)' \/ NoBack'
  BY <1>3, <1>4, <1>7, <1>9 DEF NoFwd, NoBack, OneBack, BackAfter
<1> USE DEF sVars, rVars
<1>11. CASE NoFile
  BY <1>6, <1>7, <1>10, <1>11 DEF NoFile, Inv, Phase
<1>12. CASE SenderGaveUp
  <2>1. AllCan(inM2') /\ AllCan(toT1') /\ AllCan(inT1')
    BY <1>3, <1>4, <1>12 DEF SenderGaveUp, AllCan
  <2>2. Len(inM2') + Len(toT1') + Len(inT1') <= 2 * sCans'
    <3>1. Len(inM2) + Len(toT1) + Len(inT1) <= 2 * sCans
      BY <1>12 DEF SenderGaveUp
    <3>2. /\ Len(inM2) \in Nat /\ Len(toT1) \in Nat /\ Len(inT1) \in Nat /\ Len(<<>>) = 0
      BY <1>2, BaseTypes, QueueType
    <3>3. sCans \in 0 .. CAN_LEN \div 2 /\ CAN_LEN \div 2 = 4
      BY <1>2, Sizes DEF Base, TypeOK, SenderTypeOK
    <3> QED BY <1>3, <1>4, <3>1, <3>2, <3>3
  <2>3. SenderGaveUp'
    BY <1>1, <1>4, <1>7, <1>10, <1>12, <2>1, <2>2 DEF SenderGaveUp
  <2> QED BY <1>6, <2>3 DEF Inv, Phase
<1>13. CASE ReceiverGaveUp
  <2>1. AllCan(inM1') /\ AllCan(toT2') /\ AllCan(inT2')
    BY <1>3, <1>4, <1>13 DEF ReceiverGaveUp, AllCan
  <2>2. Len(inM1') + Len(toT2') + Len(inT2') <= CAN_LEN
    <3>1. Len(inM1) + Len(toT2) + Len(inT2) <= 8 /\ CAN_LEN = 8
      BY <1>13, Sizes DEF ReceiverGaveUp
    <3>2. Len(inM1) \in Nat /\ Len(toT2) \in Nat /\ Len(inT2) \in Nat /\ Len(<<>>) = 0
      BY <1>2, BaseTypes, QueueType
    <3> QED BY <1>3, <1>4, <3>1, <3>2
  <2> QED BY <1>6, <1>10, <1>13, <2>1, <2>2 DEF ReceiverGaveUp, Inv, Phase
<1>14. CASE SenderEndsEarly
  <2>1. inM2' = <<>> /\ toT1' = <<>>
    BY <1>3, <1>4, <1>14 DEF SenderEndsEarly
  <2> QED BY <1>1, <1>4, <1>6, <1>7, <1>10, <1>14, <2>1 DEF SenderEndsEarly, Inv, Phase
<1>15. CASE Complete
  BY <1>6, <1>7, <1>10, <1>15 DEF Complete, Inv, Phase
<1> QED BY <1>8, <1>11, <1>12, <1>13, <1>14, <1>15

(* So every step of the medium keeps the invariant.                         *)
LEMMA MediumKeepsInv ==
    ASSUME Inv, MediumThread
    PROVE  Inv'
<1>1. MediumStep /\ UNCHANGED <<par, sVars, rVars>>
  BY DEF MediumThread
<1>2. ASSUME MediumExits \/ MediumKilled PROVE Inv'
  BY <1>1, <1>2, OnlyExited DEF MediumExits, MediumKilled
<1> QED
  BY <1>1, <1>2, MediumIdleKeeps, MediumRead1Keeps, MediumWrite1Keeps, MediumRead2Keeps,
     MediumWrite2Keeps, MediumCloseKeeps
     DEF MediumStep

-----------------------------------------------------------------------------
(* The invariant.                                                           *)

(* It holds at first: the sender opens the file, the receiver is to ask.    *)
LEMMA InvInit ==
    ASSUME Init
    PROVE  Inv
<1> USE DEF Init, NetInit, SenderInit, ReceiverInit, MediumInit
<1>1. NetTypeOK
  BY DEF NetTypeOK
<1>2. /\ par.ackPeriod \in Nat /\ par.ackPeriod > 0 /\ par.extraPeriod \in Nat
      /\ par.period \in Nat /\ par.period > 0 /\ par.chunks \in Nat \cup {-1}
      /\ NumMod \in Nat /\ NumMod >= 2 /\ ErrB \in Nat /\ ErrB > 0 /\ CAN_LEN \div 2 = 4
      /\ BlkSz(par.crc) \in Nat /\ BlkSz(par.crc) > 4 /\ ChunkSz \in Nat /\ ChunkSz > 0
  <2>1. /\ par.crc \in BOOLEAN /\ par.period > HalfBlk /\ par.period \in Nat
        /\ par.ackPeriod \in Nat /\ par.ackPeriod > 0 /\ par.extraPeriod \in Nat
        /\ par.chunks \in Nat \cup {-1}
    BY <1>1, ParType
  <2>2. BlkSz(par.crc) \in Nat /\ BlkSz(par.crc) > 4
    BY <2>1, Sizes
  <2>3. /\ HalfBlk \in Nat /\ NumMod \in Nat /\ NumMod >= 2 /\ ErrB \in Nat /\ ErrB > 0
        /\ CAN_LEN \div 2 = 4 /\ ChunkSz \in Nat /\ ChunkSz > 0
    BY Sizes
  <2>4. par.period > 0
    BY <2>1, <2>3
  <2> QED BY <2>1, <2>2, <2>3, <2>4
<1>3. SenderTypeOK
  <2>1. [chunk |-> 0, num |-> 0, crc |-> TRUE] \in Blk
    BY <1>2 DEF Blk
  <2>2. blkBufs \in [0 .. 1 -> Blk]
    BY <2>1
  <2> QED BY <1>2, <2>2 DEF SenderTypeOK
<1>4. ReceiverTypeOK
  <2> DEFINE whole == BlkSz(TRUE)
  <2>1. Ctl("C") \in Char
    BY CtlType DEF Control
  <2>2. whole \in Nat /\ whole > 4
    BY Sizes
  <2> HIDE DEF whole
  <2>3. 1 \in 0 .. whole - 1 /\ 0 \in 0 .. NumMod - 1
    BY <1>2, <2>2
  <2>5. Uninitialised \in Char
    <3>1. ASSUME NEW x \in Char PROVE [x EXCEPT !.c = "blk", !.pos = 1] \in Char
      BY <2>3 DEF Char, whole
    <3> QED BY <2>1, <3>1 DEF Uninitialised
  <2>4. rcvBlk \in Seq(Char) /\ Len(rcvBlk) < BlkSz(par.crc) /\ written \in Seq(Nat)
    BY <1>2
  <2> QED BY <1>2, <2>3, <2>4, <2>5 DEF ReceiverTypeOK
<1>5. MediumTypeOK
  <2>1. /\ 0 \in 0 .. par.period - 1 /\ 0 \in 0 .. par.ackPeriod - 1
        /\ 0 \in 0 .. par.extraPeriod
    BY <1>2
  <2> QED BY <2>1 DEF MediumTypeOK
<1>6. CurBlk.chunk = 0 /\ CurBlk.num = 0 /\ Current = 0 /\ Good = 0
  BY DEF CurBlk, Current, Good
<1>7. Steps
  BY <1>6 DEF Steps, Caught
<1>8. Buffers
  BY <1>2, <1>6 DEF Buffers
<1>9. SenderPcs /\ ReceiverPcs /\ MediumPcs /\ Closings
  BY <1>2 DEF SenderPcs, ReceiverPcs, MediumPcs, Closings
<1>10. Opening
  BY Lines DEF Opening, NoFwd, NoBack, inT1, inM1, inM2, inT2, toT1, toT2
<1> QED BY <1>1, <1>3, <1>4, <1>5, <1>7, <1>8, <1>9, <1>10 DEF Inv, Base, TypeOK, Phase

(* Every step keeps it.                                                     *)
LEMMA InvNext ==
    ASSUME Inv, [Next]_vars
    PROVE  Inv'
<1>1. CASE UNCHANGED vars
  <2>1. exited \in {"no", "exit", "sigpipe"}
    BY DEF Inv, Base, TypeOK, NetTypeOK
  <2> QED BY <1>1, <2>1, OnlyExited DEF vars
<1> QED BY <1>1, SenderKeepsInv, ReceiverKeepsInv, MediumKeepsInv DEF Next

(* At any time one message is under way, and it is what the states of the   *)
(* two peers say (Phase); what the peers know of each other's block, of the *)
(* buffers, of the file and of the ends already closed agrees (Base).       *)
THEOREM TransferInvariant == Spec => []Inv
<1>1. Init => Inv
  BY InvInit
<1>2. Inv /\ [Next]_vars => Inv'
  BY InvNext
<1> QED BY <1>1, <1>2, PTL DEF Spec

-----------------------------------------------------------------------------
(* What follows from it.                                                    *)

(* Every variable of the transfer has its type.                             *)
THEOREM TransferTypeCorrect == Spec => []TypeOK
<1>1. Inv => TypeOK
  BY DEF Inv, Base
<1> QED BY <1>1, TransferInvariant, PTL

(* Steps says it of the blocks, ReceiverPcs of the result.                  *)
LEMMA InvInStep ==
    ASSUME Inv
    PROVE  InStep
<1>1. Caught \/ Behind
  BY DEF Inv, Base, Steps
<1> QED BY <1>1 DEF Inv, Base, ReceiverPcs, Caught, Behind, InStep

(* The receiver has the block that the sender sends or the one before it,   *)
(* however often an ACK becomes a NAK and a block is damaged: it never      *)
(* takes a repeated block for a loss of synchronization.                    *)
THEOREM TransferInStep == Spec => []InStep
<1>1. Inv => InStep
  BY InvInStep
<1> QED BY <1>1, TransferInvariant, PTL

(* Only a block under way has such characters, and it is met from its start.*)
LEMMA InvAligned ==
    ASSUME Inv
    PROVE  Aligned
<1>1. SUFFICES ASSUME rPc = "read", inT1 # <<>>, Head(inT1).c = "blk"
               PROVE  Head(inT1).pos = 0 /\ ~Head(inT1).bad
  BY DEF Aligned, Readable, inT1
<1>2. Base /\ inT1 \in Seq(Char) /\ Len(inT1) >= 1 /\ Head(inT1) = inT1[1]
  BY <1>1, QueueType, NoChar DEF Inv, Base, TypeOK
<1>3. EOT # <<>> /\ Head(EOT).c = "EOT"
  BY LeftIs, CtlType
<1>4. CASE BlockUnderWay
  <2>1. Run(inT1, Current, blkNum, 0)
    BY <1>1, <1>4 DEF BlockUnderWay, TakenNow
  <2> QED BY <1>2, <2>1 DEF Run
<1>5. CASE SenderGaveUp
  BY <1>1, <1>2, <1>5 DEF SenderGaveUp, AllCan
<1>6. ~NoFwd
  BY <1>1 DEF NoFwd
<1>7. CASE FirstEot \/ SenderEndsEarly \/ SecondEot
  BY <1>1, <1>3, <1>7 DEF FirstEot, SenderEndsEarly, SecondEot, OneFwd
<1> QED BY <1>4, <1>5, <1>6, <1>7
        DEF Inv, Phase, Opening, NoFile, AnswerUnderWay, ReceiverGaveUp, FirstEotAnswered, Complete

(* Where the receiver expects the first character of a block it never meets *)
(* one from inside a block, which could be anything.                        *)
THEOREM TransferAligned == Spec => []Aligned
<1>1. Inv => Aligned
  BY InvAligned
<1> QED BY <1>1, TransferInvariant, PTL

(* What is under way is one message, and at most an extra ACK.              *)
LEMMA InvRoom ==
    ASSUME Inv
    PROVE  RoomForWrites
<1> DEFINE room == IF BlkSz(TRUE) > CAN_LEN THEN BlkSz(TRUE) ELSE CAN_LEN
           whole == BlkSz(TRUE)
           size == BlkSz(par.crc)
           Fits(s) == Len(s) <= room
<1>1. /\ Base /\ Phase /\ NetTypeOK /\ CAN_LEN = 8
      /\ whole \in Nat /\ size \in Nat /\ size <= whole
      /\ Most = size - 1 /\ Most \in Nat /\ TakenNow \in Nat
      /\ sCans \in 0 .. 4
  <2>1. Base /\ NetTypeOK /\ Phase
    BY DEF Inv, Base, TypeOK
  <2>2. sCans \in 0 .. 4
    BY <2>1, Sizes DEF Base, TypeOK, SenderTypeOK
  <2>3. par.crc \in BOOLEAN /\ TRUE \in BOOLEAN
    BY <2>1, ParType
  <2>4. whole \in Nat /\ size \in Nat /\ size <= whole /\ CAN_LEN = 8
    BY <2>3, Sizes
  <2>5. Most = size - 1 /\ Most \in Nat /\ TakenNow \in Nat
    BY <2>1, BaseTypes
  <2> QED BY <2>1, <2>2, <2>4, <2>5
<1>2. room \in Nat /\ room >= 8 /\ room >= whole
  <2>1. room = IF whole > 8 THEN whole ELSE 8
    BY <1>1
  <2> HIDE DEF room, whole
  <2> QED BY <1>1, <2>1
<1>3. /\ Len(inT1) \in Nat /\ Len(inM1) \in Nat /\ Len(inM2) \in Nat /\ Len(inT2) \in Nat
      /\ Len(toT1) \in Nat /\ Len(toT2) \in Nat
  BY <1>1, BaseTypes, QueueType
<1> HIDE DEF room, whole, size
<1>4. /\ Len(Ask) = 1 /\ Len(ACK) = 1 /\ Len(NAK) = 1 /\ Len(EOT) = 1 /\ Len(ACK \o NAK) = 2
      /\ Len(<<>>) = 0
      /\ <<>> \o Ask = Ask /\ <<>> \o ACK = ACK /\ <<>> \o NAK = NAK
  <2>1. /\ ACK \in Seq(Char) /\ NAK \in Seq(Char)
        /\ Len(Ask) = 1 /\ Len(ACK) = 1 /\ Len(NAK) = 1 /\ Len(EOT) = 1
    BY CtlType
  <2>2. Len(ACK \o NAK) = 2
    <3>1. \A s, t \in Seq(Char) : Len(s \o t) = Len(s) + Len(t)
      OBVIOUS
    <3>2. Len(ACK \o NAK) = Len(ACK) + Len(NAK)
      BY <2>1, <3>1, Zenon
    <3> QED BY <2>1, <3>2
  <2> QED BY <2>1, <2>2, LeftIs
<1>5. SUFFICES Fits(inT1) /\ Fits(inM1) /\ Fits(inM2) /\ Fits(inT2)
  BY DEF RoomForWrites, Ends, room, whole, inT1, inM1, inM2, inT2
<1>6. /\ NoFwd => Fits(inT1) /\ Fits(inM2)
      /\ NoBack => Fits(inM1) /\ Fits(inT2)
  BY <1>2, <1>4 DEF NoFwd, NoBack
<1>7. /\ OneBack(Ask) \/ OneBack(ACK) \/ OneBack(NAK) => Fits(inM1) /\ Fits(inT2)
      /\ BackAfter(<<>>, NAK) \/ BackAfter(ACK, NAK) => Fits(inM1) /\ Fits(inT2)
      /\ OneFwd(EOT) => Fits(inT1) /\ Fits(inM2)
  BY <1>2, <1>4 DEF OneBack, BackAfter, OneFwd
<1>8. CASE BlockUnderWay
  <2>1. TakenNow + Len(inT1) + Len(toT1) + Len(inM2) <= Most + 1
    BY <1>1, <1>8 DEF BlockUnderWay
  <2>2. Len(inT1) <= size /\ Len(inM2) <= size
    BY <1>1, <1>3, <2>1
  <2>3. Fits(inT1) /\ Fits(inM2)
    BY <1>1, <1>2, <1>3, <2>2
  <2> QED BY <1>2, <1>4, <1>8, <2>3 DEF BlockUnderWay
<1>9. CASE SenderGaveUp
  <2>1. Len(inM2) + Len(toT1) + Len(inT1) <= 2 * sCans
    BY <1>9 DEF SenderGaveUp
  <2> QED BY <1>1, <1>2, <1>3, <1>6, <1>9, <2>1 DEF SenderGaveUp
<1>10. CASE ReceiverGaveUp
  <2>1. Len(inM1) + Len(toT2) + Len(inT2) <= 8
    BY <1>1, <1>10 DEF ReceiverGaveUp
  <2> QED BY <1>2, <1>3, <1>6, <1>10, <2>1 DEF ReceiverGaveUp
<1>11. CASE FirstEot
  BY <1>2, <1>4, <1>7, <1>11 DEF FirstEot
<1>12. CASE SenderEndsEarly
  <2>1. Fits(EOT) /\ Fits(<<>>)
    BY <1>2, <1>4
  <2>2. inM2 = <<>> /\ (inT1 = EOT \/ inT1 = <<>>) /\ (NoBack \/ OneBack(NAK))
    BY <1>12 DEF SenderEndsEarly
  <2> QED BY <1>6, <1>7, <2>1, <2>2
<1> HIDE DEF Fits
<1>13. CASE Opening \/ NoFile \/ AnswerUnderWay \/ FirstEotAnswered \/ SecondEot \/ Complete
  BY <1>6, <1>7, <1>13
     DEF Opening, NoFile, AnswerUnderWay, FirstEotAnswered, SecondEot, Complete
<1> QED BY <1>1, <1>8, <1>9, <1>10, <1>11, <1>12, <1>13 DEF Phase

(* No more characters wait at an end than one block or one run of CANs has, *)
(* so that no write waits for room while it holds the mutex of the reader.  *)
THEOREM TransferRoomForWrites == Spec => []RoomForWrites
<1>1. Inv => RoomForWrites
  BY InvRoom
<1> QED BY <1>1, TransferInvariant, PTL

-----------------------------------------------------------------------------
(* The transfer implements FileTransfer.                                    *)

(* What the results of the peers mean to FileTransfer.                      *)
LEMMA OutcomeIs ==
    /\ Outcome("ResultNotSet") = "none" /\ Outcome("Done") = "done"
    /\ \A result : result \notin {"ResultNotSet", "Done"} => Outcome(result) = "failed"
BY DEF Outcome

(* Nothing changes that FileTransfer speaks of.                             *)
Unseen == UNCHANGED <<par, written, rResult, sResult>>

(* The sender succeeds only after the receiver, as Complete says.           *)
LEMMA SenderImplements ==
    ASSUME Inv, SenderThread
    PROVE  FT!FTNext \/ Unseen
<1>1. SenderStep /\ UNCHANGED <<par, written, rResult>>
  BY DEF SenderThread, rVars
<1>2. Base /\ SenderPcs
  BY DEF Inv, Base
<1>3. CASE sResult' = sResult
  BY <1>1, <1>3 DEF Unseen
<1>4. ASSUME sResult = "ResultNotSet", sResult' \notin {"ResultNotSet", "Done"}
      PROVE  FT!FTNext
  <2>1. FT!SenderFails
    BY <1>1, <1>4, OutcomeIs DEF FT!SenderFails
  <2> QED BY <2>1 DEF FT!FTNext
<1>5. CASE SenderOpen
  <2>1. sResult = "ResultNotSet"
    BY <1>2, <1>5 DEF SenderOpen, SenderPcs
  <2>2. sResult' \in {sResult, "OpenError"}
    BY <1>5 DEF SenderOpen
  <2> QED BY <1>3, <1>4, <2>1, <2>2
<1>6. CASE SenderCan
  <2>1. sResult = "ResultNotSet"
    BY <1>2, <1>6 DEF SenderCan, SenderPcs
  <2>2. sResult' \in {sResult, "ExcessiveNAKs"}
    BY <1>6 DEF SenderCan, SenderFinal
  <2> QED BY <1>3, <1>4, <2>1, <2>2
<1>7. CASE SenderEnds
  <2>1. SenderHears /\ sPc = "read"
    BY <1>7 DEF SenderEnds, SenderGets, SenderHears
  <2>2. sResult = "ResultNotSet"
    BY <1>2, <2>1 DEF SenderPcs
  <2>3. CASE sState = "EOTEOT" /\ Heard = "ACK"
    <3>1. rResult = "Done" /\ sResult' = "Done"
      BY <1>7, <2>1, <2>3, SenderHearsWhat DEF SenderEnds, SenderGets, SenderFinal, Complete
    <3>2. FT!SenderSucceeds
      BY <1>1, <2>2, <3>1, OutcomeIs DEF FT!SenderSucceeds
    <3> QED BY <3>2 DEF FT!FTNext
  <2>4. CASE ~(sState = "EOTEOT" /\ Heard = "ACK")
    <3>1. sResult' \in {"1st EOT ACK'd", "RcvCancelled"}
      BY <1>7, <2>4 DEF SenderEnds, SenderGets, SenderFinal
    <3> QED BY <1>4, <2>2, <3>1
  <2> QED BY <2>3, <2>4
<1>8. CASE SenderExits \/ SenderKilled
  BY <1>3, <1>8 DEF SenderExits, SenderKilled, sVars
<1> QED
  BY <1>1, <1>3, <1>5, <1>6, <1>7, <1>8
     DEF SenderStep, SenderFirstBlk, SenderNextBlk, SenderResend, SenderGivesUp,
         SenderLastByte, SenderEot, SenderSecondEot, SenderFirstCan, SenderClose

(* The receiver stores the next chunk of the file, and succeeds when it has *)
(* all of them.                                                             *)
LEMMA ReceiverImplements ==
    ASSUME Inv, ReceiverThread
    PROVE  FT!FTNext \/ Unseen
<1>1. ReceiverStep /\ UNCHANGED <<par, sVars, mVars>> /\ sResult' = sResult
  BY DEF ReceiverThread, sVars
<1>2. Base /\ ReceiverPcs
  BY DEF Inv, Base
<1>3. CASE rResult' = rResult /\ written' = written
  BY <1>1, <1>3 DEF Unseen
<1>4. ASSUME rResult = "ResultNotSet", rResult' \notin {"ResultNotSet", "Done"},
             written' = written
      PROVE  FT!FTNext
  <2>1. FT!ReceiverFails
    BY <1>1, <1>4, OutcomeIs DEF FT!ReceiverFails
  <2> QED BY <2>1 DEF FT!FTNext
<1>5. CASE ReceiverSecondEot
  <2>1. rState = "EOT" /\ rResult' = "Done" /\ rPc = "read" /\ written' = written
    BY <1>5 DEF ReceiverSecondEot, ReceiverGets, ReceiverHears, ReceiverFinal
  <2>2. rResult = "ResultNotSet"
    BY <1>2, <2>1 DEF ReceiverPcs
  <2>3. AtEnd
    BY <1>1, <1>5, ReceiverSecondEotKeeps
  <2>4. Len(written) = par.chunks
    <3>1. Good = Current /\ par.chunks = Current
      BY <1>2, <2>3 DEF AtEnd, Caught, Base, Buffers
    <3>2. Len(written) \in Nat
      BY <1>2 DEF Base, TypeOK, ReceiverTypeOK
    <3> QED BY <2>1, <3>1, <3>2 DEF Good
  <2>5. FT!ReceiverSucceeds
    BY <1>1, <2>1, <2>2, <2>4, OutcomeIs DEF FT!ReceiverSucceeds
  <2> QED BY <2>5 DEF FT!FTNext
<1>6. CASE ReceiverCan
  <2>1. /\ written' = written
        /\ rResult' = rResult \/ (rState = "CAN" /\ rResult' = "SndCancelled")
    BY <1>6 DEF ReceiverCan, ReceiverGets, ReceiverFinal
  <2>2. rState = "CAN" => rResult = "ResultNotSet"
    BY <1>2 DEF ReceiverPcs
  <2> QED BY <1>3, <1>4, <2>1, <2>2
<1>7. CASE ReceiverCancels
  <2>1. rPc = "rest" /\ written' = written
    BY <1>7 DEF ReceiverCancels, HasBlk
  <2>2. rResult = "ResultNotSet"
    BY <1>2, <2>1 DEF ReceiverPcs
  <2>3. rResult' = "ExcessiveErrors"
    BY <1>1, <1>7, ReceiverCancelsKeeps
  <2> QED BY <1>4, <2>1, <2>2, <2>3
<1>8. CASE ReceiverStore
  <2>1. rPc = "store" /\ rResult' = rResult
    BY <1>8 DEF ReceiverStore
  <2>2. rResult = "ResultNotSet"
    BY <1>2, <2>1 DEF ReceiverPcs
  <2>3. written' = Append(written, Len(written) + 1) /\ Len(written) < par.chunks
    BY <1>1, <1>8, ReceiverStoreKeeps
  <2>4. FT!Store
    BY <1>1, <2>1, <2>2, <2>3, OutcomeIs DEF FT!Store
  <2> QED BY <2>4 DEF FT!FTNext
<1>9. CASE ReceiverExits \/ ReceiverKilled
  BY <1>3, <1>9 DEF ReceiverExits, ReceiverKilled, rVars
<1> QED
  BY <1>1, <1>3, <1>5, <1>6, <1>7, <1>8, <1>9
     DEF ReceiverStep, ReceiverStart, ReceiverSoh, ReceiverEot, ReceiverCollects,
         ReceiverAnswers, ReceiverClose

(* Every step is one of FileTransfer or is not seen by it.                  *)
LEMMA TransferStepImplements ==
    ASSUME Inv, [Next]_vars
    PROVE  [FT!FTNext]_(FT!ftVars)
<1>1. Unseen => UNCHANGED FT!ftVars
  BY DEF Unseen, FT!ftVars
<1>2. CASE MediumThread \/ UNCHANGED vars
  BY <1>1, <1>2 DEF MediumThread, vars, sVars, rVars, Unseen
<1> QED BY <1>1, <1>2, SenderImplements, ReceiverImplements DEF Next

(* Whatever the medium damages, turns into NAK or adds, and in whatever     *)
(* order the threads run: the output file is a prefix of the input file,    *)
(* the receiver says "Done" only when it has all of it (ReceiverSS.cpp's    *)
(* EOT state), and the sender only after the receiver has (SenderSS.cpp's   *)
(* EOTEOT state).                                                           *)
THEOREM TransferRefined == Spec => ImplementsFileTransfer
<1>1. Init => FT!FTInit
  <2> SUFFICES ASSUME Init PROVE FT!FTInit
    OBVIOUS
  <2>1. par \in Params /\ written = <<>> /\ rResult = "ResultNotSet" /\ sResult = "ResultNotSet"
    BY DEF Init, NetInit, SenderInit, ReceiverInit
  <2> QED BY <2>1, OutcomeIs DEF FT!FTInit
<1>2. Inv /\ [Next]_vars => [FT!FTNext]_(FT!ftVars)
  BY TransferStepImplements
<1> QED
  BY <1>1, <1>2, TransferInvariant, PTL DEF Spec, ImplementsFileTransfer, FT!FTSpec
=============================================================================
