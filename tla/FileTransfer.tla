--------------------------- MODULE FileTransfer ---------------------------
(***************************************************************************)
(* What a file transfer promises, whatever the medium does: the output     *)
(* file is at any time a prefix of the input file, the receiver reports    *)
(* success only when it has all of it, and the sender only after the       *)
(* receiver.                                                               *)
(***************************************************************************)
EXTENDS Naturals, Sequences

CONSTANTS Sizes      \* sizes of the input file, in blocks

VARIABLES
    size,            \* blocks of the input file
    output,          \* the blocks of the input file that the output file holds
    received,        \* the receiver's outcome: "none", "done" or "failed"
    sent             \* the sender's

ftVars == <<size, output, received, sent>>

FTInit ==
    /\ size \in Sizes
    /\ output = <<>>
    /\ received = "none" /\ sent = "none"

Store ==
    /\ received = "none"
    /\ Len(output) < size
    /\ output' = Append(output, Len(output) + 1)
    /\ UNCHANGED <<size, received, sent>>

ReceiverSucceeds ==
    /\ received = "none"
    /\ Len(output) = size
    /\ received' = "done"
    /\ UNCHANGED <<size, output, sent>>

SenderSucceeds ==
    /\ sent = "none"
    /\ received = "done"
    /\ sent' = "done"
    /\ UNCHANGED <<size, output, received>>

ReceiverFails ==
    /\ received = "none"
    /\ received' = "failed"
    /\ UNCHANGED <<size, output, sent>>

SenderFails ==
    /\ sent = "none"
    /\ sent' = "failed"
    /\ UNCHANGED <<size, output, received>>

FTNext == Store \/ ReceiverSucceeds \/ SenderSucceeds \/ ReceiverFails \/ SenderFails

FTSpec == FTInit /\ [][FTNext]_ftVars
=============================================================================
