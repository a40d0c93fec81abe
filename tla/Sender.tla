------------------------------ MODULE Sender ------------------------------
(***************************************************************************)
(* The sending peer: SenderX.cpp and its state machine SenderSS.cpp, run   *)
(* by termFunc(Term2).  An action is the handling of one character, up to  *)
(* the next call that can block or that another thread can see.            *)
(***************************************************************************)
EXTENDS Xmodem

VARIABLES
    sPc,         \* where sendFile() is
    sState,      \* SenderSS::state
    sResult,     \* result
    sErrCnt,     \* errCnt
    sCrc,        \* Crcflg
    bytesRd,     \* bytesRd: 0 at the end of the file
    blkNum,      \* blkNum
    blkBufs,     \* the two blocks: the chunk, its number, whether it has a CRC
    chunksRd,    \* the chunks of the input file read so far
    sCans        \* can8(): pairs of CAN already written

sVars == <<sPc, sState, sResult, sErrCnt, sCrc, bytesRd, blkNum, blkBufs,
           chunksRd, sCans>>

Blk == [chunk : Nat, num : 0 .. NumMod - 1, crc : BOOLEAN]

SenderInit ==
    /\ sPc = "open"
    /\ sState = "START"
    /\ sResult = "ResultNotSet"
    /\ sErrCnt = 0
    /\ sCrc = TRUE
    /\ bytesRd = -2
    /\ blkNum = 0
    /\ blkBufs = [i \in 0 .. 1 |-> [chunk |-> 0, num |-> 0, crc |-> TRUE]]
    /\ chunksRd = 0
    /\ sCans = 0

SenderTypeOK ==
    /\ sPc \in {"open", "read", "last", "can", "close", "done"}
    /\ sState \in {"START", "ACKNAK", "EOT1", "EOTEOT", "CAN", "Final"}
    /\ sResult \in {"ResultNotSet", "OpenError", "ExcessiveNAKs", "Done",
                    "1st EOT ACK'd", "RcvCancelled"}
    /\ sErrCnt \in 0 .. ErrB
    /\ sCrc \in BOOLEAN
    /\ bytesRd \in {-2, 0, ChunkSz}
    /\ blkNum \in 0 .. NumMod - 1
    /\ blkBufs \in [0 .. 1 -> Blk]
    /\ chunksRd \in 0 .. (IF par.chunks < 0 THEN 0 ELSE par.chunks)
    /\ sCans \in 0 .. CAN_LEN \div 2

-----------------------------------------------------------------------------
(* genBlk: the next chunk of the file, if there is one, into buffer i.      *)
GenBlk(bufs, i, num, crc) ==
    IF chunksRd < par.chunks
    THEN /\ chunksRd' = chunksRd + 1
         /\ bytesRd' = ChunkSz
         /\ blkBufs' = [bufs EXCEPT ![i] = [chunk |-> chunksRd + 1,
                                            num |-> (num + 1) % NumMod,
                                            crc |-> crc]]
    ELSE /\ bytesRd' = 0
         /\ blkBufs' = bufs
         /\ UNCHANGED chunksRd

(* cs1stBlk: the first block gets a checksum when the receiver sent NAK.    *)
Refitted(c) == IF c = "NAK" THEN [blkBufs EXCEPT ![1].crc = FALSE] ELSE blkBufs

(* The characters of a block; one with the wrong kind of check has a wrong  *)
(* last character.                                                          *)
BlkChar(blk, p, crc) ==
    [c |-> "blk", chunk |-> blk.chunk, num |-> blk.num, pos |-> p,
     bad |-> p = BlkSz(crc) - 1 /\ blk.crc # crc]
MostBlk(blk, crc) == [i \in 1 .. BlkSz(crc) - 1 |-> BlkChar(blk, i - 1, crc)]
LastByte(blk, crc) == <<BlkChar(blk, BlkSz(crc) - 1, crc)>>

SenderOpen ==
    /\ sPc = "open"
    /\ IF par.chunks < 0
       THEN /\ sResult' = "OpenError"
            /\ sPc' = "close"
            /\ UNCHANGED <<chunksRd, bytesRd, blkBufs>>
       ELSE /\ GenBlk(blkBufs, 1, blkNum, TRUE)
            /\ sPc' = "read"
            /\ UNCHANGED sResult
    /\ UNCHANGED <<sState, sErrCnt, sCrc, blkNum, sCans, netVars, exited>>

-----------------------------------------------------------------------------
(* One character from the medium.                                           *)

Answered == {<<"START", "C">>, <<"START", "NAK">>, <<"ACKNAK", "ACK">>,
             <<"ACKNAK", "NAK">>, <<"EOT1", "NAK">>}
Silent   == {<<"ACKNAK", "CAN">>, <<"EOT1", "ACK">>, <<"EOTEOT", "ACK">>,
             <<"CAN", "CAN">>}

SenderHears == sPc = "read" /\ Readable("T2")
Heard       == Head(queue["T2"]).c
SenderGets(s, c) == SenderHears /\ sState = s /\ Heard = c

(* The character is consumed, and characters written to the medium.         *)
SenderAnswers(s) ==
    /\ Writable("T2")
    /\ queue' = Plus(Without("T2", 1), "T2", s)
    /\ UNCHANGED <<closed, reset, exited>>
SenderConsumes ==
    /\ queue' = Without("T2", 1)
    /\ UNCHANGED <<closed, reset, exited>>

SenderFinal(r) ==
    /\ sState' = "Final" /\ sResult' = r /\ sPc' = "close"

SendBlkPrepNextWide(bufs, crc) ==     \* blkNum is wider than uint8_t
    LET n == blkNum + 1
    IN  /\ blkNum' = n
        /\ SenderAnswers(MostBlk(bufs[n % 2], crc))
        /\ GenBlk(bufs, (n + 1) % 2, n, crc)
        /\ sPc' = "last"

(* sendBlkPrepNext: a new block goes, less its last character, and the next *)
(* one is prepared in the other buffer.                                     *)
SendBlkPrepNext(bufs, crc) ==
    LET n == (blkNum + 1) % NumMod
    IN  /\ blkNum' = n
        /\ SenderAnswers(MostBlk(bufs[n % 2], crc))
        /\ GenBlk(bufs, (n + 1) % 2, n, crc)
        /\ sPc' = "last"

SenderFirstBlk ==
    /\ \E c \in {"C", "NAK"} :
          /\ SenderGets("START", c)
          /\ bytesRd # 0
          /\ sCrc' = (c = "C")
          /\ SendBlkPrepNext(Refitted(c), c = "C")
    /\ sState' = "ACKNAK"
    /\ UNCHANGED <<sResult, sErrCnt, sCans>>

SenderNextBlk ==
    /\ SenderGets("ACKNAK", "ACK")
    /\ bytesRd # 0
    /\ SendBlkPrepNext(blkBufs, sCrc)
    /\ sErrCnt' = 0
    /\ UNCHANGED <<sState, sResult, sCrc, sCans>>

(* resendBlk, and giving up with can8() after errB NAKs in a row.           *)
SenderResend ==
    /\ SenderGets("ACKNAK", "NAK")
    /\ sErrCnt < ErrB
    /\ SenderAnswers(MostBlk(blkBufs[blkNum % 2], sCrc))
    /\ sErrCnt' = sErrCnt + 1
    /\ sPc' = "last"
    /\ UNCHANGED <<sState, sResult, sCrc, bytesRd, blkNum, blkBufs, chunksRd, sCans>>

SenderGivesUp ==
    /\ SenderGets("ACKNAK", "NAK")
    /\ sErrCnt >= ErrB
    /\ SenderAnswers(Ctls("CAN", 2))
    /\ sCans' = 1
    /\ sPc' = "can"
    /\ UNCHANGED <<sState, sResult, sErrCnt, sCrc, bytesRd, blkNum, blkBufs, chunksRd>>

SenderLastByteOnly ==    \* without dumpGlitches()
    /\ sPc = "last"
    /\ Drained("T2")
    /\ Writable("T2")
    /\ queue' = Plus(queue, "T2", LastByte(blkBufs[blkNum % 2], sCrc))
    /\ sPc' = "read"
    /\ UNCHANGED <<sState, sResult, sErrCnt, sCrc, bytesRd, blkNum, blkBufs,
                   chunksRd, sCans, closed, reset, exited>>

(* sendLastByte: wait for the rest of the block to be read, throw away what *)
(* came meanwhile, send the last character.  By the contract of the layer   *)
(* the throwing away returns when nothing is there; as it is built it       *)
(* sleeps then, until the next character comes (SenderX.cpp:88,             *)
(* myIO.cpp:329).                                                           *)
SenderLastByte ==
    /\ sPc = "last"
    /\ Drained("T2")
    /\ ~Fails("T2")
    /\ Writable("T2")
    /\ queue' = Plus([queue EXCEPT !["T2"] = <<>>], "T2",
                     LastByte(blkBufs[blkNum % 2], sCrc))
    /\ sPc' = "read"
    /\ UNCHANGED <<sState, sResult, sErrCnt, sCrc, bytesRd, blkNum, blkBufs,
                   chunksRd, sCans, closed, reset, exited>>

(* can8: the other pairs, each after a pause.                               *)
SenderCan ==
    /\ sPc = "can"
    /\ Writable("T2")
    /\ queue' = Plus(queue, "T2", Ctls("CAN", 2))
    /\ sCans' = sCans + 1
    /\ IF 2 * sCans' < CAN_LEN
       THEN UNCHANGED <<sPc, sState, sResult>>
       ELSE SenderFinal("ExcessiveNAKs")
    /\ UNCHANGED <<sErrCnt, sCrc, bytesRd, blkNum, blkBufs, chunksRd,
                   closed, reset, exited>>

(* The end of the file: EOT until it is acknowledged twice.                 *)
SenderEot ==
    /\ \/ \E c \in {"C", "NAK"} : SenderGets("START", c) /\ UNCHANGED sErrCnt
       \/ SenderGets("ACKNAK", "ACK") /\ sErrCnt' = 0
    /\ bytesRd = 0
    /\ SenderAnswers(<<Ctl("EOT")>>)
    /\ sState' = "EOT1"
    /\ UNCHANGED <<sPc, sResult, sCrc, bytesRd, blkNum, blkBufs, chunksRd, sCans>>

SenderSecondEot ==
    /\ SenderGets("EOT1", "NAK")
    /\ SenderAnswers(<<Ctl("EOT")>>)
    /\ sState' = "EOTEOT"
    /\ UNCHANGED <<sPc, sResult, sErrCnt, sCrc, bytesRd, blkNum, blkBufs, chunksRd, sCans>>

SenderEnds ==
    /\ \/ SenderGets("EOT1", "ACK")   /\ SenderFinal("1st EOT ACK'd")
       \/ SenderGets("EOTEOT", "ACK") /\ SenderFinal("Done")
       \/ SenderGets("CAN", "CAN")    /\ SenderFinal("RcvCancelled")
    /\ SenderConsumes
    /\ UNCHANGED <<sErrCnt, sCrc, bytesRd, blkNum, blkBufs, chunksRd, sCans>>

SenderFirstCan ==
    /\ SenderGets("ACKNAK", "CAN")
    /\ sState' = "CAN"
    /\ SenderConsumes
    /\ UNCHANGED <<sPc, sResult, sErrCnt, sCrc, bytesRd, blkNum, blkBufs, chunksRd, sCans>>

(* A character that the state does not expect, and a read without a         *)
(* character (PE_NOT), end the process with EXIT_FAILURE.                   *)
SenderExits ==
    /\ \/ SenderHears /\ <<sState, Heard>> \notin Answered \cup Silent
       \/ sPc = "read" /\ (Fails("T2") \/ AtEof("T2"))
       \/ sPc = "last" /\ Drained("T2") /\ Fails("T2")
    /\ exited' = "exit"
    /\ UNCHANGED <<sVars, netVars>>

(* A write after the medium closed its end.                                 *)
SenderKilled ==
    /\ \/ SenderHears /\ <<sState, Heard>> \in Answered
       \/ sPc = "last" /\ Drained("T2") /\ ~Fails("T2")
       \/ sPc = "can"
    /\ ~Writable("T2")
    /\ exited' = "sigpipe"
    /\ UNCHANGED <<sVars, netVars>>

SenderClose ==
    /\ sPc = "close"
    /\ CloseEnd("T2")
    /\ sPc' = "done"
    /\ UNCHANGED <<sState, sResult, sErrCnt, sCrc, bytesRd, blkNum, blkBufs,
                   chunksRd, sCans, exited>>

SenderStep ==
    \/ SenderOpen \/ SenderFirstBlk \/ SenderNextBlk \/ SenderResend
    \/ SenderGivesUp \/ SenderLastByte \/ SenderCan \/ SenderEot
    \/ SenderSecondEot \/ SenderEnds \/ SenderFirstCan \/ SenderExits
    \/ SenderKilled \/ SenderClose
=============================================================================
