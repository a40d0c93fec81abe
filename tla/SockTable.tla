----------------------------- MODULE SockTable -----------------------------
(***************************************************************************)
(* The table of descriptors of myIO.cpp: sockList, indexed by descriptor,  *)
(* filled by mySocketpair (through addSockInfo) and emptied by myClose,    *)
(* while the kernel hands out the lowest free descriptors again.  Several  *)
(* threads open and close pairs; reading and writing are in MyIO, which    *)
(* takes the table as filled.                                              *)
(*                                                                         *)
(* A sockInfo object is named by the number of its socketpair() call and   *)
(* its side (0 or 1); NoObj is nullptr.                                    *)
(***************************************************************************)
EXTENDS Integers, FiniteSets

CONSTANTS
    Threads,     \* the threads of the process
    Capacity,    \* DEFAULT_CONTAINER_SIZE: entries of sockList (50)
    FdLimit,     \* descriptors of the kernel
    MaxPairs     \* bound: calls of mySocketpair

ASSUME TableAssumption ==
    Capacity \in Nat /\ FdLimit \in Nat /\ MaxPairs \in Nat

Fds    == 0 .. FdLimit - 1
Sides  == 0 .. 1
Objs   == (1 .. MaxPairs) \X Sides
NoObj  == <<0, 0>>
Closed == 0

VARIABLES
    conn,        \* kernel: the socketpair() call a descriptor stems from, or Closed
    pairs,       \* kernel: calls of socketpair() so far
    sockList,    \* sockList: the object of each entry, or NoObj
    objFd,       \* sockInfo::fd of each object
    pairedFd,    \* sockInfo::pairedFd of each object
    live,        \* the objects that exist
    held,        \* the descriptors that the client got and has not begun to close
    pc,          \* the statement each thread is about to execute
    des,         \* the descriptors of the call: des[2], or fd twice
    obj          \* the objects of the call: newSock0 and newSock1, or closeSock twice

vars == <<conn, pairs, sockList, objFd, pairedFd, live, held, pc, des, obj>>

Init ==
    /\ conn = [f \in Fds |-> Closed]
    /\ pairs = 0
    /\ sockList = [f \in 0 .. Capacity - 1 |-> NoObj]
    /\ objFd = [o \in Objs |-> -1]
    /\ pairedFd = [o \in Objs |-> -1]
    /\ live = {}
    /\ held = {}
    /\ pc = [t \in Threads |-> "idle"]
    /\ des = [t \in Threads |-> <<-1, -1>>]
    /\ obj = [t \in Threads |-> <<NoObj, NoObj>>]

Goto(t, s)  == pc' = [pc EXCEPT ![t] = s]
InTable(f)  == f \in DOMAIN sockList
Free(f)     == conn[f] = Closed
Lowest(S)   == CHOOSE f \in S : \A g \in S : f <= g

-----------------------------------------------------------------------------
(* mySocketpair: the kernel's call, two objects, two entries.               *)

Socketpair(t) ==
    LET free == {f \in Fds : Free(f)}
        f0   == Lowest(free)
        f1   == Lowest(free \ {f0})
        k    == pairs + 1
    IN  /\ pc[t] = "idle"
        /\ pairs < MaxPairs
        /\ Cardinality(free) >= 2
        /\ pairs' = k
        /\ conn' = [conn EXCEPT ![f0] = k, ![f1] = k]
        /\ objFd' = [objFd EXCEPT ![<<k, 0>>] = f0, ![<<k, 1>>] = f1]
        /\ pairedFd' = [pairedFd EXCEPT ![<<k, 0>>] = f1, ![<<k, 1>>] = f0]
        /\ live' = live \cup {<<k, 0>>, <<k, 1>>}
        /\ des' = [des EXCEPT ![t] = <<f0, f1>>]
        /\ obj' = [obj EXCEPT ![t] = <<<<k, 0>>, <<k, 1>>>>]
        /\ Goto(t, "check0")
        /\ UNCHANGED <<sockList, held>>

Return(t) ==
    /\ des' = [des EXCEPT ![t] = <<-1, -1>>]
    /\ obj' = [obj EXCEPT ![t] = <<NoObj, NoObj>>]
    /\ Goto(t, "idle")

(* addSockInfo: the entry is looked at without vectorMut, then filled with  *)
(* it.                                                                      *)
CanAddAny(f) == InTable(f)                              \* occupied or not
CanAddShort(f) == f < Capacity - 1 /\ sockList[f] = NoObj    \* off by one
CanAdd(f) == InTable(f) /\ sockList[f] = NoObj

Check0(t) ==
    /\ pc[t] = "check0"
    /\ IF CanAdd(des[t][1])
       THEN Goto(t, "add0") /\ UNCHANGED <<des, obj>>
       ELSE Return(t)
    /\ UNCHANGED <<conn, pairs, sockList, objFd, pairedFd, live, held>>

Add0(t) ==
    /\ pc[t] = "add0"
    /\ sockList' = [sockList EXCEPT ![des[t][1]] = obj[t][1]]
    /\ Goto(t, "check1")
    /\ UNCHANGED <<conn, pairs, objFd, pairedFd, live, held, des, obj>>

Check1Leaving(t) ==          \* the first entry stays
    /\ pc[t] = "check1"
    /\ IF CanAdd(des[t][2]) THEN Goto(t, "add1") /\ UNCHANGED <<des, obj>> ELSE Return(t)
    /\ UNCHANGED <<conn, pairs, sockList, objFd, pairedFd, live, held>>

(* When the second entry cannot be filled the first is emptied again; the   *)
(* two descriptors stay open and the objects stay allocated.                *)
Check1(t) ==
    /\ pc[t] = "check1"
    /\ IF CanAdd(des[t][2])
       THEN Goto(t, "add1") /\ UNCHANGED <<sockList, des, obj>>
       ELSE /\ sockList' = [sockList EXCEPT ![des[t][1]] = NoObj]
            /\ Return(t)
    /\ UNCHANGED <<conn, pairs, objFd, pairedFd, live, held>>

Add1(t) ==
    /\ pc[t] = "add1"
    /\ sockList' = [sockList EXCEPT ![des[t][2]] = obj[t][2]]
    /\ held' = held \cup {des[t][1], des[t][2]}
    /\ Return(t)
    /\ UNCHANGED <<conn, pairs, objFd, pairedFd, live>>

-----------------------------------------------------------------------------
(* myClose, of a descriptor that nobody else closes.  pairedFd is read, and *)
(* the entry it names looked up, without a lock: in between the other end   *)
(* may be closed and its descriptor given to a new pair, which is then the  *)
(* one that is unpaired.                                                    *)

MyClose(t, f) ==
    /\ pc[t] = "idle"
    /\ f \in held
    /\ held' = held \ {f}
    /\ des' = [des EXCEPT ![t] = <<f, f>>]
    /\ obj' = [obj EXCEPT ![t] = <<sockList[f], sockList[f]>>]
    /\ Goto(t, "close")
    /\ UNCHANGED <<conn, pairs, sockList, objFd, pairedFd, live>>

Close(t) ==
    /\ pc[t] = "close"
    /\ conn' = [conn EXCEPT ![des[t][1]] = Closed]
    /\ Goto(t, "paired")
    /\ UNCHANGED <<pairs, sockList, objFd, pairedFd, live, held, des, obj>>

ReadPaired(t) ==
    /\ pc[t] = "paired"
    /\ des' = [des EXCEPT ![t] = <<@[1], pairedFd[obj[t][1]]>>]
    /\ Goto(t, "unpair")
    /\ UNCHANGED <<conn, pairs, sockList, objFd, pairedFd, live, held, obj>>

Unpair(t) ==
    LET f == des[t][2]
    IN  /\ pc[t] = "unpair"
        /\ pairedFd' = IF InTable(f) /\ sockList[f] # NoObj
                       THEN [pairedFd EXCEPT ![sockList[f]] = -1] ELSE pairedFd
        /\ Goto(t, "forget")
        /\ UNCHANGED <<conn, pairs, sockList, objFd, live, held, des, obj>>

Forget(t) ==
    /\ pc[t] = "forget"
    /\ sockList' = [sockList EXCEPT ![objFd[obj[t][1]]] = NoObj]
    /\ Goto(t, "delete")
    /\ UNCHANGED <<conn, pairs, objFd, pairedFd, live, held, des, obj>>

Delete(t) ==
    /\ pc[t] = "delete"
    /\ live' = live \ {obj[t][1]}
    /\ Return(t)
    /\ UNCHANGED <<conn, pairs, sockList, objFd, pairedFd, held>>

-----------------------------------------------------------------------------
Next ==
    \E t \in Threads :
        \/ Socketpair(t) \/ Check0(t) \/ Add0(t) \/ Check1(t) \/ Add1(t)
        \/ \E f \in Fds : MyClose(t, f)
        \/ Close(t) \/ ReadPaired(t) \/ Unpair(t) \/ Forget(t) \/ Delete(t)

Spec == Init /\ [][Next]_vars

Statements == {"idle", "check0", "add0", "check1", "add1",
               "close", "paired", "unpair", "forget", "delete"}

ThreadTypeOK ==
    /\ pc \in [Threads -> Statements]
    /\ des \in [Threads -> (Fds \cup {-1}) \X (Fds \cup {-1})]
    /\ obj \in [Threads -> (Objs \cup {NoObj}) \X (Objs \cup {NoObj})]

(* Types; and an entry of the table is never a deleted object.              *)
TypeOK ==
    /\ conn \in [Fds -> 0 .. MaxPairs] /\ pairs \in 0 .. MaxPairs
    /\ sockList \in [0 .. Capacity - 1 -> Objs \cup {NoObj}]
    /\ objFd \in [Objs -> Fds \cup {-1}] /\ pairedFd \in [Objs -> Fds \cup {-1}]
    /\ live \subseteq Objs
    /\ \A f \in DOMAIN sockList : sockList[f] \in live \cup {NoObj}
    /\ held \subseteq Fds
    /\ ThreadTypeOK

(* A descriptor that the client holds has an entry, with the object made    *)
(* for it, whatever other threads open and close meanwhile and although the *)
(* kernel gives descriptors out again before their entries are emptied:     *)
(* otherwise its characters would go uncounted.                             *)
HeldHasEntry ==
    \A f \in held :
        /\ InTable(f)
        /\ sockList[f] \in live
        /\ objFd[sockList[f]] = f
        /\ sockList[f][1] = conn[f]

(* mySocketpair fails only for a descriptor beyond the table or for one     *)
(* whose former entry is about to be emptied by a myClose under way.        *)
FailsForAReason ==
    [][\A t \in Threads :
          pc[t] \in {"check0", "check1"} /\ pc'[t] = "idle" =>
              LET f == IF pc[t] = "check0" THEN des[t][1] ELSE des[t][2]
              IN  \/ ~InTable(f)
                  \/ \E u \in Threads : pc[u] \in {"paired", "unpair", "forget"} /\ des[u][1] = f
      ]_vars

-----------------------------------------------------------------------------
(* What makes HeldHasEntry inductive.  A descriptor is at any time the      *)
(* client's, or in the hands of one opening or one closing thread.          *)
Opening(t) == pc[t] \in {"check0", "add0", "check1", "add1"}
Closing(t) == pc[t] \in {"close", "paired", "unpair", "forget"}

(* Objects are made by socketpair() calls, and an entry is found under the  *)
(* descriptor of its object.                                                *)
LiveMade == \A o \in live : o[1] <= pairs
EntryOwn == \A f \in DOMAIN sockList : sockList[f] # NoObj => objFd[sockList[f]] = f

(* A thread inside mySocketpair has two open descriptors, two objects, and  *)
(* the entries it has found empty or filled.                                *)
OpeningOwns(t) ==
    LET o0 == obj[t][1]  o1 == obj[t][2]  f0 == des[t][1]  f1 == des[t][2]
    IN  /\ o0 \in live /\ o1 \in live /\ o0 # o1 /\ o0[1] = o1[1]
        /\ f0 \in Fds /\ f1 \in Fds /\ f0 # f1
        /\ f0 \notin held /\ f1 \notin held
        /\ conn[f0] = o0[1] /\ conn[f1] = o1[1]
        /\ objFd[o0] = f0 /\ objFd[o1] = f1
        /\ pc[t] # "check0" => InTable(f0)
        /\ pc[t] = "add0" => sockList[f0] = NoObj
        /\ pc[t] \in {"check1", "add1"} => sockList[f0] = o0
        /\ pc[t] = "add1" => InTable(f1) /\ sockList[f1] = NoObj

(* The entry of a descriptor being closed stays filled until myClose        *)
(* empties it, even when the kernel has given the descriptor away again.    *)
ClosingOwns(t) ==
    LET o == obj[t][1]  f == des[t][1]
    IN  /\ InTable(f) /\ f \notin held
        /\ o # NoObj /\ sockList[f] = o
        /\ (pc[t] = "close") <=> (conn[f] = o[1])

(* An object about to be deleted is in no entry.                            *)
DeletingOwns(t) == obj[t][1] \in live /\ \A f \in DOMAIN sockList : sockList[f] # obj[t][1]

Owns(t) == /\ Opening(t) => OpeningOwns(t)
           /\ Closing(t) => ClosingOwns(t)
           /\ pc[t] = "delete" => DeletingOwns(t)

(* No two threads work on the same object.                                  *)
ObjsOf(t) == IF Opening(t) THEN {obj[t][1], obj[t][2]}
             ELSE IF pc[t] = "idle" THEN {} ELSE {obj[t][1]}
ObjsApart == \A t, u \in Threads : t # u => ObjsOf(t) \cap ObjsOf(u) = {}

(* An entry is filled for the client or for a thread that will see to it.   *)
EntryInUse ==
    \A f \in DOMAIN sockList : sockList[f] # NoObj =>
        \/ f \in held
        \/ \E t \in Threads : pc[t] \in {"check1", "add1"} /\ des[t][1] = f
        \/ \E t \in Threads : Closing(t) /\ des[t][1] = f

(* The inductive invariant: all of the above, of mySocketpair and myClose   *)
(* in every interleaving.                                                   *)
TableInv == /\ TypeOK /\ LiveMade /\ EntryOwn
            /\ (\A t \in Threads : Owns(t)) /\ ObjsApart /\ EntryInUse /\ HeldHasEntry
=============================================================================
