------------------------------ MODULE Xmodem ------------------------------
(***************************************************************************)
(* What the sender, the receiver and the medium of the file transfer       *)
(* share: the constants of src/Ensc351Part2/src/PeerX.h, the characters    *)
(* that travel, and the two socket pairs T1-M1 (receiver, medium) and      *)
(* M2-T2 (medium, sender) with the calls made on them.                     *)
(*                                                                         *)
(* The calls of myIO.cpp are taken by their contract, which its comments   *)
(* and its callers state: each is one atomic step on FIFO queues.  A drain *)
(* may return at any time (drainWaits = FALSE) or only when all was read.  *)
(* The module MyIO has the code of the layer, which sleeps or blocks where *)
(* its contract says that a call returns.  That only removes behaviours:   *)
(* what is safe here stays safe, what must happen here may not happen.     *)
(***************************************************************************)
EXTENDS Integers, Sequences

CONSTANTS
    ChunkSz,     \* CHUNK_SZ: data characters of a block (128)
    ErrB,        \* errB: errors in a row after which a peer gives up (10)
    NumMod,      \* block numbers are uint8_t: NumMod is 256 in the program
    Params       \* the transfers to consider

(* The first character of a block, its number, the number's complement,     *)
(* the data, and two characters of CRC or one of checksum.                  *)
DATA_POS    == 3
PAST_CHUNK  == DATA_POS + ChunkSz
BlkSz(crc)  == PAST_CHUNK + (IF crc THEN 2 ELSE 1)
CAN_LEN     == 8

(* chunks: the blocks in the input file, -1 if it cannot be opened;         *)
(* crc: the receiver asks for CRC; period: of the medium's corruptions;     *)
(* ackPeriod: of the ACKs it turns into NAKs; extraPeriod: of its extra     *)
(* ACKs in a build with SEND_EXTRA_ACKS (0: the build without it).          *)
Param == [chunks : Nat \cup {-1}, crc : BOOLEAN, period : Nat,
          ackPeriod : Nat, extraPeriod : Nat, drainWaits : BOOLEAN]

ASSUME XmodemAssumption ==
    /\ ChunkSz \in Nat \ {0} /\ ErrB \in Nat \ {0} /\ NumMod \in Nat \ {0}
    /\ NumMod % 2 = 0
    /\ Params \subseteq Param
    /\ \A p \in Params : p.ackPeriod > 0 /\ p.period >= BlkSz(TRUE)

VARIABLES
    par,         \* the transfer under way
    queue,       \* the characters that can be read at each end
    closed,      \* the ends that were closed
    reset,       \* the ends with a pending ECONNRESET
    exited       \* "no", "exit" (EXIT_FAILURE) or "sigpipe": the whole process

netVars == <<queue, closed, reset>>

Ends == {"T1", "M1", "M2", "T2"}
Peer == [T1 |-> "M1", M1 |-> "T1", M2 |-> "T2", T2 |-> "M2"]

(* A character is a control character or one of a block: the chunk that the *)
(* block carries, its number, the position, and whether the medium (or a    *)
(* checksum of the wrong kind) made it wrong.                               *)
Control == {"C", "NAK", "ACK", "EOT", "CAN"}
Char    == [c : Control \cup {"blk"}, chunk : Nat, num : 0 .. NumMod - 1,
            pos : 0 .. BlkSz(TRUE) - 1, bad : BOOLEAN]
Ctl(c)  == [c |-> c, chunk |-> 0, num |-> 0, pos |-> 0, bad |-> FALSE]
Ctls(c, n) == [i \in 1 .. n |-> Ctl(c)]

(* What the character may be taken for by one that does not know where in a *)
(* block it is: data may have any value.                                    *)
Means(ch) ==
    CASE ch.c # "blk" /\ ~ch.bad -> {ch.c}
      [] ch.c # "blk" /\ ch.bad  -> {"other"}
      [] ch.c = "blk" /\ ch.pos = 0 -> {IF ch.bad THEN "other" ELSE "SOH"}
      [] OTHER -> {"SOH", "EOT", "CAN", "other"}

Least(a, b) == IF a < b THEN a ELSE b

-----------------------------------------------------------------------------
(* The calls.  A read takes what is there; with nothing there it fails once *)
(* if the peer was closed with unread characters, and is at end of file if  *)
(* the peer is closed (the code of myReadcond sleeps on its empty counter   *)
(* in both cases, myIO.cpp:329, unless it is already inside the kernel's    *)
(* read).  A write to a closed peer kills the process.                      *)

Readable(e) == queue[e] # <<>>
Fails(e)    == queue[e] = <<>> /\ e \in reset
AtEof(e)    == queue[e] = <<>> /\ e \notin reset /\ Peer[e] \in closed
CanRead(e)  == Readable(e) \/ Fails(e) \/ AtEof(e)
Taken(e, n) == SubSeq(queue[e], 1, Least(n, Len(queue[e])))
Without(e, n) == [queue EXCEPT ![e] = SubSeq(@, Least(n, Len(@)) + 1, Len(@))]

Writable(e) == Peer[e] \notin closed
Plus(q, e, s) == [q EXCEPT ![Peer[e]] = @ \o s]

(* A drain, with or without its wait.  The code waits, or not, by what its  *)
(* own end has received (myIO.cpp:291), and may wait for a notification     *)
(* that was given before.                                                   *)
DrainedOwn(e) == queue[e] = <<>>    \* waits for the characters received
Drained(e)  == par.drainWaits => queue[Peer[e]] = <<>>

(* The characters that were not read are lost, and the other end is told    *)
(* by ECONNRESET or an end of file (a reader that sleeps at the other end   *)
(* of a myClose is not woken by it, myIO.cpp:261).                          *)
CloseEnd(e) ==
    /\ closed' = closed \cup {e}
    /\ queue' = [queue EXCEPT ![e] = <<>>]
    /\ reset' = IF queue[e] = <<>> \/ ~Writable(e) THEN reset
                                                   ELSE reset \cup {Peer[e]}

NetInit ==
    /\ par \in Params
    /\ queue = [e \in Ends |-> <<>>]
    /\ closed = {} /\ reset = {}
    /\ exited = "no"

NetTypeOK ==
    /\ par \in Params
    /\ queue \in [Ends -> Seq(Char)]
    /\ closed \subseteq Ends /\ reset \subseteq Ends
    /\ exited \in {"no", "exit", "sigpipe"}
=============================================================================
