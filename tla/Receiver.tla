----------------------------- MODULE Receiver -----------------------------
(***************************************************************************)
(* The receiving peer: ReceiverX.cpp and its state machine ReceiverSS.cpp, *)
(* run by termFunc(Term1).  The members goodBlk, goodBlk1st and syncLoss   *)
(* are set anew for every block and are definitions on the block here.     *)
(***************************************************************************)
EXTENDS Xmodem

VARIABLES
    rPc,             \* where receiveFile() is
    rState,          \* ReceiverSS::state
    rResult,         \* result
    rErrCnt,         \* errCnt
    rcvBlk,          \* rcvBlk[1], rcvBlk[2], ... as far as received
    numLastGoodBlk,  \* numLastGoodBlk
    firstBlock,      \* firstBlock
    byteToReceive,   \* the variable that receiveFile() reads into
    written          \* the chunks written to the output file

rVars == <<rPc, rState, rResult, rErrCnt, rcvBlk, numLastGoodBlk, firstBlock,
           byteToReceive, written>>

(* byteToReceive before it was first assigned: any value.                   *)
Uninitialised == [Ctl("C") EXCEPT !.c = "blk", !.pos = 1]

ReceiverInit ==
    /\ rPc = "start"
    /\ rState = "FIRSTBYTE"
    /\ rResult = "ResultNotSet"
    /\ rErrCnt = 0
    /\ rcvBlk = <<>>
    /\ numLastGoodBlk = 0
    /\ firstBlock = TRUE
    /\ byteToReceive = Uninitialised
    /\ written = <<>>

ReceiverTypeOK ==
    /\ rPc \in {"start", "read", "rest", "store", "close", "done"}
    /\ rState \in {"FIRSTBYTE", "EOT", "CAN", "Final"}
    /\ rResult \in {"ResultNotSet", "Done", "SndCancelled", "ExcessiveErrors",
                    "LossOfSynchronization"}
    /\ rErrCnt \in 0 .. ErrB
    /\ rcvBlk \in Seq(Char) /\ Len(rcvBlk) < BlkSz(par.crc)
    /\ numLastGoodBlk \in 0 .. NumMod - 1
    /\ firstBlock \in BOOLEAN
    /\ byteToReceive \in Char
    /\ written \in Seq(Nat)

-----------------------------------------------------------------------------
ReceiverWrites(q, s) ==
    /\ Writable("T1")
    /\ queue' = Plus(q, "T1", s)
    /\ UNCHANGED <<closed, reset, exited>>

(* The constructor of ReceiverSS asks for the first block.                  *)
ReceiverStart ==
    /\ rPc = "start"
    /\ ReceiverWrites(queue, <<Ctl(IF par.crc THEN "C" ELSE "NAK")>>)
    /\ rPc' = "read"
    /\ UNCHANGED <<rState, rResult, rErrCnt, rcvBlk, numLastGoodBlk, firstBlock,
                   byteToReceive, written>>

(* PE(myRead(..., 1)) lets the 0 of an end of file pass: the character that *)
(* is then posted is the one of the read before.                            *)
ReceiverHears == rPc = "read" /\ (Readable("T1") \/ AtEof("T1"))
HeardByte == IF Readable("T1") THEN Head(queue["T1"]) ELSE byteToReceive
ReceiverGets(s, c) ==
    /\ ReceiverHears
    /\ rState = s
    /\ c \in Means(HeardByte)
    /\ byteToReceive' = HeardByte

ReceiverConsumes ==
    /\ queue' = Without("T1", 1)
    /\ UNCHANGED <<closed, reset, exited>>
ReceiverFinal(r) ==
    /\ rState' = "Final" /\ rResult' = r /\ rPc' = "close"

ReceiverSoh ==
    /\ ReceiverGets("FIRSTBYTE", "SOH")
    /\ ReceiverConsumes
    /\ rPc' = "rest"
    /\ rcvBlk' = <<>>
    /\ UNCHANGED <<rState, rResult, rErrCnt, numLastGoodBlk, firstBlock, written>>

ReceiverEot ==
    /\ ReceiverGets("FIRSTBYTE", "EOT")
    /\ ReceiverWrites(Without("T1", 1), <<Ctl("NAK")>>)
    /\ rState' = "EOT"
    /\ UNCHANGED <<rPc, rResult, rErrCnt, rcvBlk, numLastGoodBlk, firstBlock, written>>

ReceiverSecondEot ==
    /\ ReceiverGets("EOT", "EOT")
    /\ ReceiverWrites(Without("T1", 1), <<Ctl("ACK")>>)
    /\ ReceiverFinal("Done")
    /\ UNCHANGED <<rErrCnt, rcvBlk, numLastGoodBlk, firstBlock, written>>

ReceiverCan ==
    /\ \/ /\ ReceiverGets("FIRSTBYTE", "CAN")
          /\ rState' = "CAN"
          /\ UNCHANGED <<rPc, rResult>>
       \/ ReceiverGets("CAN", "CAN") /\ ReceiverFinal("SndCancelled")
    /\ ReceiverConsumes
    /\ UNCHANGED <<rErrCnt, rcvBlk, numLastGoodBlk, firstBlock, written>>

-----------------------------------------------------------------------------
(* getRestBlk: myReadcond collects the rest of the block as it comes.       *)
RestSz == BlkSz(par.crc) - 1

ReceiverCollects ==
    /\ rPc = "rest"
    /\ Len(rcvBlk) < RestSz
    /\ Readable("T1")
    /\ rcvBlk' = rcvBlk \o Taken("T1", RestSz - Len(rcvBlk))
    /\ queue' = Without("T1", RestSz - Len(rcvBlk))
    /\ UNCHANGED <<rPc, rState, rResult, rErrCnt, numLastGoodBlk, firstBlock,
                   byteToReceive, written, closed, reset, exited>>

HasBlk == rPc = "rest" /\ Len(rcvBlk) = RestSz
Intact(i) == rcvBlk[i].pos = i /\ ~rcvBlk[i].bad /\ rcvBlk[i].chunk = rcvBlk[1].chunk

NewExpectedWide == rcvBlk[1].num = numLastGoodBlk + 1    \* without the (uint8_t)
CheckSkipsFirst == \A i \in DATA_POS + 1 .. RestSz : Intact(i)    \* off by one

BlkNumsOk == Intact(1) /\ Intact(2)
NewExpectedBlk == rcvBlk[1].num = (numLastGoodBlk + 1) % NumMod
CheckOk == \A i \in DATA_POS .. RestSz : Intact(i)

GoodBlk1st == BlkNumsOk /\ NewExpectedBlk /\ CheckOk
NeverRpt == FALSE            \* a repeated block taken for a loss of synchronization
GoodBlkRpt == BlkNumsOk /\ ~NewExpectedBlk /\ ~firstBlock /\ rcvBlk[1].num = numLastGoodBlk
SyncLoss   == BlkNumsOk /\ ~NewExpectedBlk /\ ~GoodBlkRpt
ErrCntNow  == IF GoodBlk1st THEN 0 ELSE rErrCnt + 1

ReceiverAnswers ==
    /\ HasBlk
    /\ ~SyncLoss /\ ErrCntNow < ErrB
    /\ ReceiverWrites(queue, <<Ctl(IF GoodBlk1st \/ GoodBlkRpt THEN "ACK" ELSE "NAK")>>)
    /\ rErrCnt' = ErrCntNow
    /\ IF GoodBlk1st
       THEN /\ numLastGoodBlk' = rcvBlk[1].num
            /\ firstBlock' = FALSE
            /\ rPc' = "store"
            /\ UNCHANGED rcvBlk
       ELSE /\ rPc' = "read"
            /\ rcvBlk' = <<>>
            /\ UNCHANGED <<numLastGoodBlk, firstBlock>>
    /\ UNCHANGED <<rState, rResult, byteToReceive, written>>

(* can8, all eight in one write.                                            *)
ReceiverCancels ==
    /\ HasBlk
    /\ SyncLoss \/ ErrCntNow >= ErrB
    /\ ReceiverWrites(queue, Ctls("CAN", CAN_LEN))
    /\ rErrCnt' = ErrCntNow
    /\ ReceiverFinal(IF SyncLoss THEN "LossOfSynchronization" ELSE "ExcessiveErrors")
    /\ rcvBlk' = <<>>
    /\ UNCHANGED <<numLastGoodBlk, firstBlock, byteToReceive, written>>

(* writeChunk, after the block was acknowledged; 0 stands for a chunk with  *)
(* a damaged character.                                                     *)
Chunk == IF \A i \in DATA_POS .. PAST_CHUNK - 1 : Intact(i)
         THEN rcvBlk[DATA_POS].chunk ELSE 0

ReceiverStore ==
    /\ rPc = "store"
    /\ written' = Append(written, Chunk)
    /\ rcvBlk' = <<>>
    /\ rPc' = "read"
    /\ UNCHANGED <<rState, rResult, rErrCnt, numLastGoodBlk, firstBlock,
                   byteToReceive, netVars, exited>>

-----------------------------------------------------------------------------
ExpectedByte == {<<"FIRSTBYTE", "SOH">>, <<"FIRSTBYTE", "EOT">>,
                 <<"FIRSTBYTE", "CAN">>, <<"EOT", "EOT">>, <<"CAN", "CAN">>}

(* An unexpected character, a failed read, a block cut short.               *)
ReceiverExits ==
    /\ \/ ReceiverHears /\ \E c \in Means(HeardByte) : <<rState, c>> \notin ExpectedByte
       \/ rPc = "read" /\ Fails("T1")
       \/ rPc = "rest" /\ Len(rcvBlk) < RestSz /\ (Fails("T1") \/ AtEof("T1"))
    /\ exited' = "exit"
    /\ UNCHANGED <<rVars, netVars>>

(* A write after the medium closed its end.                                 *)
ReceiverKilled ==
    /\ \/ rPc = "start"
       \/ ReceiverHears /\ rState \in {"FIRSTBYTE", "EOT"} /\ "EOT" \in Means(HeardByte)
       \/ HasBlk
    /\ ~Writable("T1")
    /\ exited' = "sigpipe"
    /\ UNCHANGED <<rVars, netVars>>

ReceiverClose ==
    /\ rPc = "close"
    /\ CloseEnd("T1")
    /\ rPc' = "done"
    /\ UNCHANGED <<rState, rResult, rErrCnt, rcvBlk, numLastGoodBlk, firstBlock,
                   byteToReceive, written, exited>>

ReceiverStep ==
    \/ ReceiverStart \/ ReceiverSoh \/ ReceiverEot \/ ReceiverSecondEot
    \/ ReceiverCan \/ ReceiverCollects \/ ReceiverAnswers \/ ReceiverCancels
    \/ ReceiverStore \/ ReceiverExits \/ ReceiverKilled \/ ReceiverClose
=============================================================================
