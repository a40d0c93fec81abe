------------------------------ MODULE Medium ------------------------------
(***************************************************************************)
(* The "kind medium" of Medium.cpp, a thread between the two peers: it     *)
(* forwards what it reads, complements one character in par.period from    *)
(* the sender, turns one ACK in par.ackPeriod from the receiver into NAK,  *)
(* and, in a build with SEND_EXTRA_ACKS, sends the sender ACKs of its own. *)
(***************************************************************************)
EXTENDS Xmodem

VARIABLES
    mPc,           \* where run() is
    term2Set,      \* FD_ISSET(Term2D, &cset)
    finished,      \* finished
    mBuf,          \* what a handler has read and not yet forwarded
    byteCount,     \* byteCount
    ACKreceived,   \* ACKreceived
    ACKforwarded,  \* ACKforwarded
    sendExtraAck   \* sendExtraAck

mVars == <<mPc, term2Set, finished, mBuf, byteCount, ACKreceived, ACKforwarded,
           sendExtraAck>>

MediumInit ==
    /\ mPc = "select"
    /\ term2Set = FALSE
    /\ finished = FALSE
    /\ mBuf = <<>>
    /\ byteCount = 0
    /\ ACKreceived = 0 /\ ACKforwarded = 0
    /\ sendExtraAck = FALSE

MediumTypeOK ==
    /\ mPc \in {"select", "read1", "write1", "read2", "write2", "drain",
                "close1", "close2", "done"}
    /\ term2Set \in BOOLEAN /\ finished \in BOOLEAN /\ sendExtraAck \in BOOLEAN
    /\ mBuf \in Seq(Char)
    /\ byteCount \in 0 .. par.period - 1
    /\ ACKreceived \in 0 .. par.ackPeriod - 1
    /\ ACKforwarded \in 0 .. par.extraPeriod

-----------------------------------------------------------------------------
(* select() returns the ends that can be read; Term1 is served first.       *)
MediumSelect ==
    /\ mPc = "select"
    /\ CanRead("M1") \/ CanRead("M2")
    /\ term2Set' = CanRead("M2")
    /\ mPc' = IF CanRead("M1") THEN "read1" ELSE "read2"
    /\ UNCHANGED <<finished, mBuf, byteCount, ACKreceived, ACKforwarded,
                   sendExtraAck, netVars, exited>>

LoopEnd(f) == IF f THEN "close1" ELSE "select"

(* MsgFromTerm1: a whole message of the receiver.                           *)
MediumRead1 ==
    /\ mPc = "read1"
    /\ Readable("M1")
    /\ LET msg    == Taken("M1", CAN_LEN)
           isAck  == Head(msg).c = "ACK"
           count  == ACKreceived + 1
           damage == isAck /\ count % par.ackPeriod = 0
           passed == isAck /\ ~damage /\ par.extraPeriod > 0
           extra  == passed /\ (ACKforwarded + 1) % par.extraPeriod = 0
       IN  /\ mBuf' = IF damage THEN [msg EXCEPT ![1] = Ctl("NAK")] ELSE msg
           /\ ACKreceived' = IF damage THEN 0 ELSE IF isAck THEN count ELSE ACKreceived
           /\ ACKforwarded' = IF extra THEN 0
                              ELSE IF passed THEN ACKforwarded + 1 ELSE ACKforwarded
           /\ sendExtraAck' = (sendExtraAck \/ extra)
    /\ queue' = Without("M1", CAN_LEN)
    /\ mPc' = "write1"
    /\ UNCHANGED <<term2Set, finished, byteCount, closed, reset, exited>>

MediumWrite1 ==
    /\ mPc = "write1"
    /\ Writable("M2")
    /\ queue' = Plus(queue, "M2", mBuf)
    /\ mBuf' = <<>>
    /\ mPc' = IF term2Set THEN "read2" ELSE "select"
    /\ UNCHANGED <<term2Set, finished, byteCount, ACKreceived, ACKforwarded,
                   sendExtraAck, closed, reset, exited>>

MediumEof1 ==
    /\ mPc = "read1"
    /\ AtEof("M1")
    /\ finished' = TRUE
    /\ mPc' = IF term2Set THEN "read2" ELSE "close1"
    /\ UNCHANGED <<term2Set, mBuf, byteCount, ACKreceived, ACKforwarded,
                   sendExtraAck, netVars, exited>>

-----------------------------------------------------------------------------
(* MsgFromTerm2: up to half a block of the sender.                          *)
HalfBlk == (BlkSz(TRUE) + 1) \div 2

CorruptedFirst(s, i) == [s EXCEPT ![i + 1].bad = TRUE]    \* byteToCorrupt = 0 too
Corrupted(s, i) == IF i = 0 THEN s ELSE [s EXCEPT ![i + 1].bad = TRUE]

MediumRead2 ==
    /\ mPc = "read2"
    /\ Readable("M2")
    /\ LET msg   == Taken("M2", HalfBlk)
           count == byteCount + Len(msg)
           left  == count - par.period
       IN  IF count >= par.period
           THEN /\ byteCount' = left
                /\ mBuf' = Corrupted(msg, Len(msg) - left - 1)
           ELSE /\ byteCount' = count
                /\ mBuf' = msg
    /\ queue' = Without("M2", HalfBlk)
    /\ mPc' = "write2"
    /\ UNCHANGED <<term2Set, finished, ACKreceived, ACKforwarded, sendExtraAck,
                   closed, reset, exited>>

MediumWrite2 ==
    /\ mPc = "write2"
    /\ sendExtraAck => Writable("M2")
    /\ Writable("M1")
    /\ queue' = Plus(IF sendExtraAck THEN Plus(queue, "M2", <<Ctl("ACK")>>) ELSE queue,
                     "M1", mBuf)
    /\ sendExtraAck' = FALSE
    /\ mBuf' = <<>>
    /\ mPc' = "drain"
    /\ UNCHANGED <<term2Set, finished, byteCount, ACKreceived, ACKforwarded,
                   closed, reset, exited>>

MediumDrain ==
    /\ mPc = "drain"
    /\ Drained("M1")
    /\ mPc' = LoopEnd(finished)
    /\ UNCHANGED <<term2Set, finished, mBuf, byteCount, ACKreceived, ACKforwarded,
                   sendExtraAck, netVars, exited>>

MediumEof2 ==
    /\ mPc = "read2"
    /\ AtEof("M2")
    /\ finished' = TRUE
    /\ mPc' = "close1"
    /\ UNCHANGED <<term2Set, mBuf, byteCount, ACKreceived, ACKforwarded,
                   sendExtraAck, netVars, exited>>

-----------------------------------------------------------------------------
(* PE(myRead(...)) ends the process when the read fails.                    *)
MediumExits ==
    /\ \/ mPc = "read1" /\ Fails("M1")
       \/ mPc = "read2" /\ Fails("M2")
    /\ exited' = "exit"
    /\ UNCHANGED <<mVars, netVars>>

(* Forwarding to a peer that has closed its end.                            *)
MediumKilled ==
    /\ \/ mPc = "write1" /\ ~Writable("M2")
       \/ mPc = "write2" /\ (~Writable("M1") \/ (sendExtraAck /\ ~Writable("M2")))
    /\ exited' = "sigpipe"
    /\ UNCHANGED <<mVars, netVars>>

MediumClose ==
    /\ \/ mPc = "close1" /\ CloseEnd("M1") /\ mPc' = "close2"
       \/ mPc = "close2" /\ CloseEnd("M2") /\ mPc' = "done"
    /\ UNCHANGED <<term2Set, finished, mBuf, byteCount, ACKreceived, ACKforwarded,
                   sendExtraAck, exited>>

MediumStep ==
    \/ MediumSelect \/ MediumRead1 \/ MediumWrite1 \/ MediumEof1 \/ MediumRead2
    \/ MediumWrite2 \/ MediumDrain \/ MediumEof2 \/ MediumExits \/ MediumKilled
    \/ MediumClose
=============================================================================
