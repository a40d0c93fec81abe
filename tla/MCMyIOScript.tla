---------------------------- MODULE MCMyIOScript ----------------------------
(* Programs for the threads of MyIOScript, on one socket pair (3, 4), and   *)
(* on the two of the file transfer.                                         *)
EXTENDS MyIOScript, TLC

CONSTANTS A, B, C

MCFds == {3, 4}
MCPeerOf == [f \in MCFds |-> 7 - f]

Write(f, n)     == [op |-> "write", fd |-> f, n |-> n, min |-> 0]
Read(f, n, min) == [op |-> "read", fd |-> f, n |-> n, min |-> min]
Drain(f)        == [op |-> "drain", fd |-> f, n |-> 0, min |-> 0]
Close(f)        == [op |-> "close", fd |-> f, n |-> 0, min |-> 0]

(* The calls of a program may be made in any order by the layer's client.   *)
MCCalls == [t \in Threads |-> UNION {Program[t][i] : i \in DOMAIN Program[t]}]

(* Readers compete for 4 and drainers for 3, with writers on both ends; each *)
(* end is closed by its readers and by threads that use the other one.       *)
General ==
    (A :> <<{Write(3, 1), Write(3, 2), Read(3, 2, 1)}, {Write(3, 1), Drain(3), Close(4)}, {Close(3)}>>) @@
    (B :> <<{Read(4, 2, 1), Read(4, 2, 2), Write(4, 1)}, {Read(4, 2, 0), Close(4)}, {Close(4)}>>) @@
    (C :> <<{Drain(3), Read(4, 1, 1)}, {Read(3, 2, 1), Drain(4), Close(3)}>>)

(* A request and its answer, with the characters of a bystander.            *)
Exchange ==
    (A :> <<{Write(3, 1), Write(3, 2)}, {Read(3, 2, 1)}, {Drain(3)}>>) @@
    (B :> <<{Read(4, 1, 1), Read(4, 2, 1), Read(4, 2, 0)}, {Write(4, 1), Write(4, 2)}>>) @@
    (C :> <<{Write(3, 1), Write(3, 2)}>>)

(* The programs of the disagreements with the comments of the code.         *)
TwoMessages   == (A :> <<{Write(3, 1)}, {Write(3, 1)}>>) @@
                 (B :> <<{Read(4, 1, 1)}, {Read(4, 1, 1)}>>)
DrainAnswered == (A :> <<{Write(3, 1)}, {Drain(3)}, {Read(3, 1, 1)}>>) @@
                 (B :> <<{Read(4, 1, 1)}, {Write(4, 1)}>>)
AnswerAndClose == (A :> <<{Write(3, 1)}, {Read(3, 1, 1)}, {Close(3)}>>) @@
                  (B :> <<{Read(4, 1, 1)}, {Write(4, 1)}>>)

(* The first block of a transfer: receiver (T1), medium (M1, M2) and sender *)
(* (T2), with the sizes of the program.  The receiver asks with a C; the    *)
(* sender sends all of the block but its last character, drains, throws     *)
(* away what came, and sends the last one; the medium forwards the block in *)
(* half blocks.                                                             *)
T1 == 3   M1 == 4   M2 == 5   T2 == 6
TransferFds == {T1, M1, M2, T2}
TransferPeerOf == [f \in TransferFds |-> CASE f = T1 -> M1 [] f = M1 -> T1
                                           [] f = M2 -> T2 [] f = T2 -> M2]
FirstBlock ==
    (A :> <<{Read(T2, 1, 1)}, {Write(T2, 132)}, {Drain(T2)}, {Read(T2, 20, 0)}, {Write(T2, 1)}>>) @@
    (B :> <<{Write(T1, 1)}, {Read(T1, 1, 1)}, {Read(T1, 132, 132)}>>) @@
    (C :> <<{Read(M1, 8, 1)}, {Write(M2, 1)},
            {Read(M2, 67, 1)}, {Write(M1, 67)}, {Drain(M1)},
            {Read(M2, 67, 1)}, {Write(M1, 65)}, {Drain(M1)},
            {Read(M2, 67, 1)}, {Write(M1, 1)}, {Drain(M1)}>>)
=============================================================================
