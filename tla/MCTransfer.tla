---------------------------- MODULE MCTransfer ----------------------------
(* The transfers that TLC explores.                                         *)
EXTENDS Transfer

(* Small blocks and a medium that damages as much as it can.  Extra ACKs    *)
(* only with drains that wait: they are there to be thrown away after one.  *)
MCNoisy ==
    {p \in [chunks : {-1, 0, 1, 2, 3, 6}, crc : BOOLEAN, period : {8, 9, 11, 20},
            ackPeriod : {1, 2, 3}, extraPeriod : {0, 1, 2}, drainWaits : BOOLEAN] :
        p.extraPeriod > 0 => p.drainWaits}

(* The medium, the blocks and the limits of the program, with drains that   *)
(* wait and drains that do not.                                             *)
MCKind ==
    [chunks : {0, 1, 8, 10, 17, 19, 260}, crc : {TRUE}, period : {392},
     ackPeriod : {10}, extraPeriod : {0}, drainWaits : BOOLEAN]

MCNineBlocks ==
    [chunks : {9}, crc : {TRUE}, period : {392},
     ackPeriod : {10}, extraPeriod : {0}, drainWaits : BOOLEAN]
=============================================================================
