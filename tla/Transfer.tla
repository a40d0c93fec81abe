----------------------------- MODULE Transfer -----------------------------
(***************************************************************************)
(* The whole transfer, as myMain() sets it up: the receiver, the medium    *)
(* and the sender as three threads over two socket pairs.                  *)
(***************************************************************************)
EXTENDS Sender, Receiver, Medium

vars == <<par, netVars, exited, sVars, rVars, mVars>>

Init == NetInit /\ SenderInit /\ ReceiverInit /\ MediumInit

SenderThread   == exited = "no" /\ SenderStep   /\ UNCHANGED <<par, rVars, mVars>>
ReceiverThread == exited = "no" /\ ReceiverStep /\ UNCHANGED <<par, sVars, mVars>>
MediumThread   == exited = "no" /\ MediumStep   /\ UNCHANGED <<par, sVars, rVars>>

(* myMain() has joined the threads, or the process is gone.                 *)
Over == exited # "no" \/ (sPc = "done" /\ rPc = "done" /\ mPc = "done")

Next == SenderThread \/ ReceiverThread \/ MediumThread

(* The build as it is sends no extra ACKs (Medium.cpp:24), and its drains   *)
(* may wait or not.  In a build that sends them the sender's drain is taken *)
(* to wait until the medium has read what was written, as its comment says  *)
(* (SenderX.cpp:87): only then are the extra ACKs there for dumpGlitches()  *)
(* to throw away.                                                           *)
ASSUME ExtraAcksAssumption ==
    \A p \in Params : p.extraPeriod > 0 => p.drainWaits

Spec == Init /\ [][Next]_vars

(* The protocol over a layer that keeps its contract: a call that, by what   *)
(* Xmodem says, can return, does so in the end, and the operating system    *)
(* leaves no thread behind for ever.  The layer as it is built does not     *)
(* keep it (it sleeps in dumpGlitches and at an end of file, and where two  *)
(* of its calls meet): what holds of Spec holds over that layer too, what   *)
(* holds only of ContractSpec is a statement about the protocol.            *)
CallsReturn == WF_vars(SenderThread) /\ WF_vars(ReceiverThread) /\ WF_vars(MediumThread)
ContractSpec == Spec /\ CallsReturn

-----------------------------------------------------------------------------
TypeOK == NetTypeOK /\ SenderTypeOK /\ ReceiverTypeOK /\ MediumTypeOK

(* The chunk of the block that the sender is sending or has last sent.      *)
Current == IF blkNum = 0 /\ sState = "START" THEN 0 ELSE blkBufs[blkNum % 2].chunk
(* The chunks the receiver has taken as good, the one on its way to the     *)
(* file included.                                                           *)
Good == Len(written) + (IF rPc = "store" THEN 1 ELSE 0)

(* The sender never runs ahead of the receiver by more than the block under *)
(* way, nor falls behind it, however many ACKs become NAKs and blocks are   *)
(* damaged, and although block numbers wrap around: so the receiver can     *)
(* tell a repeated block from a new one.                                    *)
InStep ==
    Good \in {Current - 1, Current} /\ rResult # "LossOfSynchronization"

(* Where the receiver expects the first character of a block it never       *)
(* meets one from inside a block (which could look like any control         *)
(* character): the medium never damages an SOH and blocks stay whole.       *)
Aligned ==
    rPc = "read" /\ Readable("T1") /\ Head(queue["T1"]).c = "blk" =>
        Head(queue["T1"]).pos = 0 /\ ~Head(queue["T1"]).bad

(* myWrite writes with the mutex held that the reader needs to make room    *)
(* (myIO.cpp:230), so a full kernel buffer would stop both for ever.  It    *)
(* does not fill: whatever is repeated, cancelled or thrown away, no more   *)
(* characters wait at an end than one block or one run of CANs has.         *)
RoomForWrites ==
    \A e \in Ends :
        Len(queue[e]) <= (IF BlkSz(TRUE) > CAN_LEN THEN BlkSz(TRUE) ELSE CAN_LEN)

(* The transfer does what FileTransfer promises.                            *)
Outcome(result) ==
    CASE result = "ResultNotSet" -> "none"
      [] result = "Done" -> "done"
      [] OTHER -> "failed"

FT == INSTANCE FileTransfer WITH
        Sizes    <- {p.chunks : p \in Params},
        size     <- par.chunks,
        output   <- written,
        received <- Outcome(rResult),
        sent     <- Outcome(sResult)

ImplementsFileTransfer == FT!FTSpec

(* Over a layer that keeps its contract every transfer comes to an end,     *)
(* good or bad: the protocol never has each thread waiting for a character  *)
(* that another should send, and exchanges no NAKs for ever.  Over the      *)
(* layer as it is built the program may sleep for ever in a call.           *)
EndsOverContract == <>Over

(* Over a layer that keeps its contract the whole file arrives through the  *)
(* kind medium, and both peers say so, unless its number of blocks is a     *)
(* multiple of ackPeriod - 1: then the ACK of the second EOT is one of      *)
(* those that the medium turns into NAK.  Over the layer as it is built no  *)
(* more can be promised than what Spec promises without fairness.           *)
DoneOverContract ==
    <>(sResult = "Done" /\ rResult = "Done" /\ Len(written) = par.chunks)
=============================================================================
