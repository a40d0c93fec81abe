----------------------------- MODULE MyIOProofs -----------------------------
(***************************************************************************)
(* Proofs about MyIO for every set of threads, every set of descriptor     *)
(* pairs, every client (Calls) and every size of the kernel's buffer.      *)
(***************************************************************************)
EXTENDS MyIO, TLAPS

LEMMA NoCallType == NoCall \in Call
BY FdsAssumption, Zenon DEF NoCall, Call, Ops

(* The initial state has the types.                                         *)
LEMMA InitType == Init => TypeOK
BY FdsAssumption, NoCallType DEF Init, TypeOK, Statements

(* Entering a call.                                                         *)
LEMMA StartType ==
    ASSUME TypeOK, NEW t \in Threads, NEW c \in Calls[t], Start(t, c)
    PROVE  TypeOK'
<1>1. c \in Call
  BY CallsAssumption
<1>2. ASSUME NEW s \in Statements, Begin(t, c, s)
      PROVE  TypeOK'
  BY <1>1, <1>2 DEF Begin, TypeOK, sockVars, kernelVars
<1>3. CASE MyWriteUnpaired(t, c)
  BY <1>3 DEF MyWriteUnpaired, TypeOK, sockVars, kernelVars
<1>4. {"w_lock", "r_lock", "d_lock", "c_lock"} \subseteq Statements
  BY DEF Statements
<1> QED
  BY <1>2, <1>3, <1>4 DEF Start, MyWrite, MyReadcond, MyTcdrain, MyClose

(* What each thread is doing has a type.                                    *)
LEMMA ThreadType ==
    ASSUME TypeOK, NEW t \in Threads
    PROVE  /\ call[t] \in Call /\ Fd(t) \in Fds /\ Peer(t) \in Fds
           /\ Peer(t) # Fd(t) /\ PeerOf[Peer(t)] = Fd(t)
           /\ call[t].n \in Nat /\ call[t].min \in Nat
           /\ Fd(t) # -1 /\ Peer(t) # -1
<1>1. call[t] \in Call
  BY DEF TypeOK
<1>2. call[t].fd \in Fds /\ call[t].n \in Nat /\ call[t].min \in Nat
  BY <1>1 DEF Call
<1>3. \A f \in Fds : f # -1 /\ PeerOf[f] \in Fds /\ PeerOf[f] # f /\ PeerOf[PeerOf[f]] = f
  <2>1. \A f \in Fds : PeerOf[f] \in Fds /\ PeerOf[f] # f /\ PeerOf[PeerOf[f]] = f
    BY FdsAssumption
  <2>2. \A f \in Fds : f # -1
    <3>1. TAKE f \in Fds
    <3>2. f \in Nat
      BY FdsAssumption
    <3> QED
      BY <3>2
  <2> QED
    BY <2>1, <2>2
<1> QED
  BY <1>1, <1>2, <1>3 DEF Fd, Peer

(* Moving on inside a call, or out of it.                                   *)
LEMMA MoveType ==
    ASSUME TypeOK, NEW t \in Threads, NEW s \in Statements, Goto(t, s) \/ Return(t)
    PROVE  /\ pc' \in [Threads -> Statements]
           /\ call' \in [Threads -> Call]
           /\ \A u \in Threads : call'[u] \in Calls[u] \cup {NoCall}
<1>1. CASE Goto(t, s)
  BY <1>1 DEF Goto, TypeOK
<1>2. CASE Return(t)
  BY <1>2, NoCallType DEF Return, TypeOK, Statements
<1> QED
  BY <1>1, <1>2

LEMMA WriteStepType ==
    ASSUME TypeOK, NEW t \in Threads, WriteStep(t)
    PROVE  TypeOK'
<1> USE ThreadType, NoCallType DEF TypeOK, sockVars, kernelVars, Goto, Return, Statements
<1>1. CASE LockForWrite(t)
  BY <1>1 DEF LockForWrite
<1>2. CASE WriteChars(t)
  BY <1>2 DEF WriteChars
<1>3. CASE WriteBadFd(t)
  BY <1>3 DEF WriteBadFd
<1>4. CASE WriteBrokenPipe(t)
  BY <1>4 DEF WriteBrokenPipe
<1>5. CASE NotifyReaders(t)
  BY <1>5 DEF NotifyReaders
<1> QED
  BY <1>1, <1>2, <1>3, <1>4, <1>5 DEF WriteStep

(* The characters that a read takes are there and fit.                      *)
LEMMA AvailType ==
    ASSUME TypeOK, NEW t \in Threads, GotWhileReading
    PROVE  /\ Avail(t) \in Nat /\ Avail(t) <= queue[Fd(t)]
           /\ queue[Fd(t)] - Avail(t) \in Nat
<1>1. call[t].min <= call[t].n
  BY CallsAssumption DEF TypeOK, NoCall
<1>2. got[t] \in Nat /\ queue[Fd(t)] \in Nat /\ call[t].n \in Nat /\ call[t].min \in Nat
  BY ThreadType DEF TypeOK
<1>3. got[t] <= call[t].n
  BY <1>1, <1>2 DEF GotWhileReading
<1> QED
  BY <1>2, <1>3 DEF Avail

LEMMA AfterReadType ==
    ASSUME TypeOK, NEW t \in Threads, NEW ret \in Int, AfterRead(t, ret),
           queue' \in [Fds -> Nat], sockErr' \subseteq Fds
    PROVE  TypeOK'
<1> USE ThreadType, NoCallType DEF TypeOK, sockVars, Goto, Return, Statements
<1>1. buffCnter' \in [Fds -> Int] /\ got' \in [Threads -> Nat]
  BY DEF AfterRead
<1>2. CASE Goto(t, "r_notify") /\ UNCHANGED <<buffMut, cvR>>
  BY <1>1, <1>2 DEF AfterRead
<1>3. CASE /\ buffMut' = [buffMut EXCEPT ![Fd(t)] = {}]
           /\ Return(t)
           /\ UNCHANGED cvR
  BY <1>1, <1>3 DEF AfterRead
<1>4. CASE /\ \E r \in cvR[Fd(t)] : cvR' = [cvR EXCEPT ![Fd(t)] = @ \ {r}]
           /\ buffMut' = [buffMut EXCEPT ![Fd(t)] = {}]
           /\ Return(t)
  <2>1. cvR' \in [Fds -> SUBSET Threads]
    BY <1>4
  <2>2. pc' \in [Threads -> Statements] /\ buffMut' \in [Fds -> SUBSET Threads]
    BY <1>4
  <2>3. /\ call' \in [Threads -> Call]
        /\ \A u \in Threads : call'[u] \in Calls[u] \cup {NoCall}
    BY <1>4
  <2> QED
    BY <1>1, <2>1, <2>2, <2>3 DEF AfterRead
<1> QED
  BY <1>2, <1>3, <1>4 DEF AfterRead

LEMMA ReadStepType ==
    ASSUME TypeOK, GotWhileReading, NEW t \in Threads, ReadStep(t)
    PROVE  TypeOK'
<1> USE ThreadType, NoCallType DEF sockVars, kernelVars, Goto, Return
<1>1. CASE ReadOrWait(t)
  <2>1. /\ cvR' \in [Fds -> SUBSET Threads] /\ buffMut' \in [Fds -> SUBSET Threads]
    <3>1. CASE UNCHANGED buffMut
      BY <1>1, <3>1 DEF ReadOrWait, TypeOK
    <3>2. CASE UNCHANGED cvR
      BY <1>1, <3>2 DEF ReadOrWait, TypeOK
    <3> QED
      BY <1>1, <3>1, <3>2 DEF ReadOrWait
  <2>2. Goto(t, "r_wait") \/ Goto(t, "r_read")
    BY <1>1 DEF ReadOrWait
  <2>3. "r_wait" \in Statements /\ "r_read" \in Statements
    BY DEF Statements
  <2>4. /\ pc' \in [Threads -> Statements] /\ call' \in [Threads -> Call]
        /\ \A u \in Threads : call'[u] \in Calls[u] \cup {NoCall}
    BY <2>2, <2>3, MoveType
  <2> QED
    BY <1>1, <2>1, <2>4 DEF ReadOrWait, TypeOK
<1>2. CASE ReaderWoken(t)
  BY <1>2 DEF ReaderWoken, TypeOK, Statements
<1>3. CASE ReadEnough(t)
  <2>1. queue' \in [Fds -> Nat] /\ sockErr' \subseteq Fds
    BY <1>3, AvailType DEF ReadEnough, TypeOK
  <2>2. got[t] + Avail(t) \in Int
    BY AvailType DEF TypeOK
  <2> QED
    BY <1>3, <2>1, <2>2, AfterReadType DEF ReadEnough
<1>4. CASE ReadPart(t)
  <2>1. queue' \in [Fds -> Nat] /\ got' \in [Threads -> Nat]
    BY <1>4, AvailType DEF ReadPart, TypeOK
  <2> QED
    BY <1>4, <2>1 DEF ReadPart, TypeOK
<1>5. CASE ReadNothing(t)
  BY <1>5, AfterReadType DEF ReadNothing, TypeOK
<1>6. CASE ReadEof(t)
  BY <1>6, AfterReadType DEF ReadEof, TypeOK
<1>7. CASE ReadReset(t)
  BY <1>7, AfterReadType DEF ReadReset, TypeOK
<1>8. CASE ReadBadFd(t)
  BY <1>8, AfterReadType DEF ReadBadFd, TypeOK
<1>9. CASE NotifyDrainers(t)
  BY <1>9 DEF NotifyDrainers, TypeOK, Statements
<1> QED
  BY <1>1, <1>2, <1>3, <1>4, <1>5, <1>6, <1>7, <1>8, <1>9 DEF ReadStep

LEMMA DrainStepType ==
    ASSUME TypeOK, NEW t \in Threads, DrainStep(t)
    PROVE  TypeOK'
<1> USE ThreadType, NoCallType DEF TypeOK, sockVars, kernelVars, Goto, Return, Statements
<1>1. CASE DrainOrWait(t)
  <2>1. cvW' \in [Fds -> SUBSET Threads]
    BY <1>1 DEF DrainOrWait
  <2>2. Goto(t, "d_wait") \/ Return(t)
    BY <1>1 DEF DrainOrWait
  <2>3. /\ pc' \in [Threads -> Statements] /\ call' \in [Threads -> Call]
        /\ \A u \in Threads : call'[u] \in Calls[u] \cup {NoCall}
    <3>1. "d_wait" \in Statements
      OBVIOUS
    <3> QED
      BY <2>2, <3>1, MoveType
  <2> QED
    BY <1>1, <2>1, <2>3 DEF DrainOrWait
<1>2. CASE DrainerWoken(t)
  BY <1>2 DEF DrainerWoken
<1> QED
  BY <1>1, <1>2 DEF DrainStep

LEMMA CloseStepType ==
    ASSUME TypeOK, NEW t \in Threads, CloseStep(t)
    PROVE  TypeOK'
<1> USE ThreadType, NoCallType DEF TypeOK, sockVars, kernelVars, Goto, Return, Statements
<1>1. CASE CloseFd(t)
  BY <1>1 DEF CloseFd
<1>2. CASE CloseWakeDrainers(t)
  BY <1>2 DEF CloseWakeDrainers
<1>3. CASE CloseWakeReaders(t)
  BY <1>3 DEF CloseWakeReaders
<1>4. CASE CloseUnpair(t)
  BY <1>4 DEF CloseUnpair
<1>5. CASE CloseForget(t)
  BY <1>5 DEF CloseForget
<1>6. CASE CloseDelete(t)
  BY <1>6 DEF CloseDelete
<1> QED
  BY <1>1, <1>2, <1>3, <1>4, <1>5, <1>6 DEF CloseStep

LEMMA OtherStepType ==
    ASSUME TypeOK, NEW t \in Threads, UseAfterFree(t) \/ Wake(t)
    PROVE  TypeOK'
<1> USE ThreadType DEF TypeOK, sockVars, kernelVars
<1>1. CASE UseAfterFree(t)
  BY <1>1 DEF UseAfterFree
<1>2. CASE Wake(t)
  BY <1>2 DEF Wake, SpuriousWakeup
<1> QED
  BY <1>1, <1>2

-----------------------------------------------------------------------------
(* A step of t.                                                             *)
Acts(t) == \/ \E c \in Calls[t] : Start(t, c)
           \/ WriteStep(t) \/ ReadStep(t) \/ DrainStep(t) \/ CloseStep(t)
           \/ UseAfterFree(t) \/ Wake(t)

(* It leaves the other threads where they are.                              *)

LEMMA OthersStay ==
    ASSUME TypeOK, NEW t \in Threads, NEW u \in Threads, u # t,
           Acts(t)
    PROVE  pc'[u] = pc[u] /\ call'[u] = call[u] /\ got'[u] = got[u]
<1> USE DEF TypeOK, Goto, Return
<1>1. CASE \E c \in Calls[t] : Start(t, c)
  BY <1>1 DEF Start, MyWrite, MyWriteUnpaired, MyReadcond, MyTcdrain, MyClose, Begin
<1>2. CASE WriteStep(t)
  BY <1>2 DEF WriteStep, LockForWrite, WriteChars, WriteBadFd, WriteBrokenPipe, NotifyReaders
<1>3. CASE ReadStep(t)
  <2>1. ASSUME NEW ret, AfterRead(t, ret)
        PROVE  pc'[u] = pc[u] /\ call'[u] = call[u] /\ got'[u] = got[u]
    BY <2>1 DEF AfterRead
  <2>2. CASE ReadOrWait(t) \/ ReaderWoken(t) \/ ReadPart(t) \/ NotifyDrainers(t)
    BY <2>2 DEF ReadOrWait, ReaderWoken, ReadPart, NotifyDrainers
  <2> QED
    BY <1>3, <2>1, <2>2 DEF ReadStep, ReadEnough, ReadNothing, ReadEof, ReadReset, ReadBadFd
<1>4. CASE DrainStep(t)
  BY <1>4 DEF DrainStep, DrainOrWait, DrainerWoken
<1>5. CASE CloseStep(t)
  BY <1>5 DEF CloseStep, CloseFd, CloseWakeDrainers, CloseWakeReaders, CloseUnpair,
              CloseForget, CloseDelete
<1>6. CASE UseAfterFree(t) \/ Wake(t)
  BY <1>6 DEF UseAfterFree, Wake, SpuriousWakeup
<1> QED
  BY <1>1, <1>2, <1>3, <1>4, <1>5, <1>6 DEF Acts

(* The kinds of steps.                                                      *)
LEMMA NextCases ==
    ASSUME Next
    PROVE  \E t \in Threads : Acts(t)
BY Zenon DEF Next, Step, Acts

LEMMA TypeStep ==
    ASSUME TypeOK, GotWhileReading, [Next]_vars
    PROVE  TypeOK'
<1>1. CASE UNCHANGED vars
  BY <1>1 DEF vars, TypeOK
<1>2. CASE Next
  BY <1>2, NextCases, StartType, WriteStepType, ReadStepType, DrainStepType,
     CloseStepType, OtherStepType DEF Acts
<1> QED
  BY <1>1, <1>2

(* bytesSoFar is kept only by a thread in wcsReadcond.                      *)
LEMMA GotStep ==
    ASSUME TypeOK, GotWhileReading, [Next]_vars
    PROVE  GotWhileReading'
<1>1. CASE UNCHANGED vars
  BY <1>1 DEF vars, GotWhileReading
<1>2. CASE Next
  <2>1. PICK t \in Threads : Acts(t)
    BY <1>2, NextCases
  <2>2. got'[t] # 0 => pc'[t] = "r_read" /\ got'[t] < call'[t].min
    <3> USE DEF TypeOK, GotWhileReading, Goto, Return, At
    <3>1. CASE \E c \in Calls[t] : Start(t, c)
      BY <3>1 DEF Start, MyWrite, MyWriteUnpaired, MyReadcond, MyTcdrain, MyClose, Begin
    <3>2. CASE WriteStep(t)
      BY <3>2 DEF WriteStep, LockForWrite, WriteChars, WriteBadFd, WriteBrokenPipe,
                  NotifyReaders
    <3>3. CASE ReadStep(t)
      <4>1. ASSUME NEW ret, AfterRead(t, ret)
            PROVE  got'[t] = 0
        BY <4>1 DEF AfterRead
      <4>2. CASE ReadOrWait(t) \/ ReaderWoken(t) \/ NotifyDrainers(t)
        BY <4>2 DEF ReadOrWait, ReaderWoken, NotifyDrainers
      <4>3. CASE ReadPart(t)
        BY <4>3 DEF ReadPart
      <4> QED
        BY <3>3, <4>1, <4>2, <4>3
           DEF ReadStep, ReadEnough, ReadNothing, ReadEof, ReadReset, ReadBadFd
    <3>4. CASE DrainStep(t)
      BY <3>4 DEF DrainStep, DrainOrWait, DrainerWoken
    <3>5. CASE CloseStep(t)
      BY <3>5 DEF CloseStep, CloseFd, CloseWakeDrainers, CloseWakeReaders, CloseUnpair,
                  CloseForget, CloseDelete
    <3>6. CASE UseAfterFree(t) \/ Wake(t)
      BY <3>6 DEF UseAfterFree, Wake, SpuriousWakeup
    <3> QED
      BY <2>1, <3>1, <3>2, <3>3, <3>4, <3>5, <3>6 DEF Acts
  <2>3. ASSUME NEW u \in Threads, u # t
        PROVE  got'[u] # 0 => pc'[u] = "r_read" /\ got'[u] < call'[u].min
    BY <2>1, <2>3, OthersStay DEF GotWhileReading
  <2> QED
    BY <2>2, <2>3 DEF GotWhileReading
<1> QED
  BY <1>1, <1>2

(* Every reachable state is well-typed, and a partial read is never left    *)
(* behind by a thread that has returned from myReadcond.                    *)
THEOREM TypeCorrect == Spec => [](TypeOK /\ GotWhileReading)
<1>1. Init => TypeOK /\ GotWhileReading
  BY InitType DEF Init, GotWhileReading
<1>2. TypeOK /\ GotWhileReading /\ [Next]_vars => (TypeOK /\ GotWhileReading)'
  BY TypeStep, GotStep
<1> QED
  BY <1>1, <1>2, PTL DEF Spec

-----------------------------------------------------------------------------
(* Mutual exclusion.  A step of t keeps its mutexes, takes one that was     *)
(* free, or releases the one it holds.                                      *)

KeepsMutexes(t) == UNCHANGED buffMut /\ \A f \in Fds : Holds(t, f)' <=> Holds(t, f)
TakesMutex(t)   == \E g \in Fds : /\ Free(g)
                                  /\ buffMut' = [buffMut EXCEPT ![g] = {t}]
                                  /\ \A f \in Fds : ~Holds(t, f) /\ (Holds(t, f)' <=> f = g)
DropsMutex(t)   == \E g \in Fds : /\ buffMut' = [buffMut EXCEPT ![g] = {}]
                                  /\ \A f \in Fds : (Holds(t, f) <=> f = g) /\ ~Holds(t, f)'

LEMMA MutexMoves ==
    ASSUME TypeOK, NEW t \in Threads,
           Acts(t)
    PROVE  KeepsMutexes(t) \/ TakesMutex(t) \/ DropsMutex(t)
<1> DEFINE X == KeepsMutexes(t) \/ TakesMutex(t) \/ DropsMutex(t)
<1> USE ThreadType DEF Holds, At, Goto, Return, Fd, Peer, TypeOK
<1>1. CASE \E c \in Calls[t] : Start(t, c)
  BY <1>1 DEF Start, MyWrite, MyWriteUnpaired, MyReadcond, MyTcdrain, MyClose, Begin,
              KeepsMutexes
<1>2. CASE WriteStep(t)
  <2>1. CASE LockForWrite(t)
    BY <2>1 DEF LockForWrite, TakesMutex
  <2>2. CASE WriteChars(t) \/ WriteBadFd(t)
    BY <2>2 DEF WriteChars, WriteBadFd, DropsMutex
  <2>3. CASE WriteBrokenPipe(t) \/ NotifyReaders(t)
    BY <2>3 DEF WriteBrokenPipe, NotifyReaders, KeepsMutexes
  <2> QED
    BY <1>2, <2>1, <2>2, <2>3 DEF WriteStep
<1>3. CASE ReadStep(t)
  <2>1. CASE ReadOrWait(t)
    <3>1. CASE UNCHANGED cvR
      BY <2>1, <3>1 DEF ReadOrWait, TakesMutex, KeepsMutexes
    <3>2. CASE UNCHANGED buffMut
      BY <2>1, <3>2 DEF ReadOrWait, TakesMutex, KeepsMutexes
    <3> QED
      BY <2>1, <3>1, <3>2 DEF ReadOrWait
  <2>2. CASE ReaderWoken(t)
    BY <2>2 DEF ReaderWoken, TakesMutex
  <2>3. ASSUME NEW ret, At(t, "r_read"), AfterRead(t, ret)
        PROVE  X
    <3>1. CASE Goto(t, "r_notify") /\ UNCHANGED buffMut
      BY <2>3, <3>1 DEF KeepsMutexes
    <3>2. CASE buffMut' = [buffMut EXCEPT ![Fd(t)] = {}] /\ Return(t)
      BY <2>3, <3>2 DEF DropsMutex
    <3> QED
      BY <2>3, <3>1, <3>2 DEF AfterRead
  <2>4. CASE ReadPart(t)
    BY <2>4 DEF ReadPart, KeepsMutexes
  <2>5. CASE NotifyDrainers(t)
    BY <2>5 DEF NotifyDrainers, DropsMutex
  <2> QED
    BY <1>3, <2>1, <2>2, <2>3, <2>4, <2>5
       DEF ReadStep, ReadEnough, ReadNothing, ReadEof, ReadReset, ReadBadFd
<1>4. CASE DrainStep(t)
  BY <1>4 DEF DrainStep, DrainOrWait, DrainerWoken, KeepsMutexes
<1>5. CASE CloseStep(t)
  BY <1>5 DEF CloseStep, CloseFd, CloseWakeDrainers, CloseWakeReaders, CloseUnpair,
              CloseForget, CloseDelete, KeepsMutexes
<1>6. CASE UseAfterFree(t) \/ Wake(t)
  BY <1>6 DEF UseAfterFree, Wake, SpuriousWakeup, KeepsMutexes
<1> QED
  BY <1>1, <1>2, <1>3, <1>4, <1>5, <1>6 DEF Acts

LEMMA MutexStep ==
    ASSUME TypeOK, MutexExcludes, [Next]_vars
    PROVE  MutexExcludes'
<1>1. CASE UNCHANGED vars
  BY <1>1 DEF vars, MutexExcludes, Holds, Fd, Peer
<1>2. CASE Next
  <2>1. PICK t \in Threads : Acts(t)
    BY <1>2, NextCases
  <2>2. \A u \in Threads \ {t} : \A f \in Fds : Holds(u, f)' <=> Holds(u, f)
    BY <2>1, OthersStay DEF Holds, Fd, Peer
  <2>3. CASE KeepsMutexes(t)
    BY <2>2, <2>3 DEF KeepsMutexes, MutexExcludes
  <2>4. CASE TakesMutex(t)
    BY <2>2, <2>4 DEF TakesMutex, MutexExcludes, Free, TypeOK
  <2>5. CASE DropsMutex(t)
    BY <2>2, <2>5 DEF DropsMutex, MutexExcludes, TypeOK
  <2> QED
    BY <2>1, <2>3, <2>4, <2>5, MutexMoves
<1> QED
  BY <1>1, <1>2

-----------------------------------------------------------------------------
(* myClose closes before it tells.                                          *)

LEMMA ClosedStep ==
    ASSUME TypeOK, ClosedBeforeTold, [Next]_vars
    PROVE  ClosedBeforeTold' /\ open' \subseteq open
<1> DEFINE Told == {"c_wakeW", "c_wakeR", "c_unpair", "c_null", "c_delete"}
<1>1. CASE UNCHANGED vars
  BY <1>1 DEF vars, ClosedBeforeTold, Fd
<1>2. CASE Next
  <2>1. PICK t \in Threads : Acts(t)
    BY <1>2, NextCases
  <2>2. ASSUME NEW u \in Threads, u # t
        PROVE  pc'[u] = pc[u] /\ Fd(u)' = Fd(u)
    BY <2>1, <2>2, OthersStay DEF Fd
  <2>3. CASE /\ pc'[t] \notin Told
             /\ UNCHANGED <<pairedFd, sockList, open>> /\ sockErr' \subseteq sockErr
    BY <2>2, <2>3 DEF ClosedBeforeTold, TypeOK
  <2>4. CASE CloseStep(t)
    <3> USE <2>2, ThreadType DEF ClosedBeforeTold, TypeOK, Goto, Return, At, sockVars, kernelVars
    <3>1. CASE CloseFd(t)
      BY <3>1 DEF CloseFd, Fd, Peer
    <3>2. CASE CloseWakeDrainers(t)
      BY <3>2 DEF CloseWakeDrainers, Fd
    <3>3. CASE CloseWakeReaders(t)
      BY <3>3 DEF CloseWakeReaders, Fd
    <3>4. CASE CloseUnpair(t)
      BY <3>4 DEF CloseUnpair, Fd, Peer
    <3>5. CASE CloseForget(t)
      BY <3>5 DEF CloseForget, Fd
    <3>6. CASE CloseDelete(t)
      BY <3>6 DEF CloseDelete, Fd
    <3> QED
      BY <2>4, <3>1, <3>2, <3>3, <3>4, <3>5, <3>6 DEF CloseStep
  <2>5. CASE UseAfterFree(t) \/ Wake(t) \/ \E c \in Calls[t] : Start(t, c)
    <3> USE <2>2 DEF ClosedBeforeTold, TypeOK, sockVars, kernelVars, Fd
    <3>1. CASE UseAfterFree(t) \/ Wake(t)
      BY <3>1 DEF UseAfterFree, Wake, SpuriousWakeup
    <3>2. CASE \E c \in Calls[t] : Start(t, c)
      BY <3>2 DEF Start, MyWrite, MyWriteUnpaired, MyReadcond, MyTcdrain, MyClose, Begin
    <3> QED
      BY <2>5, <3>1, <3>2
  <2>6. CASE WriteStep(t) \/ DrainStep(t)
    <3>1. /\ pc'[t] \notin Told
          /\ UNCHANGED <<pairedFd, sockList, open, sockErr>>
      BY <2>6 DEF WriteStep, LockForWrite, WriteChars, WriteBadFd, WriteBrokenPipe,
                  NotifyReaders, DrainStep, DrainOrWait, DrainerWoken, Goto, Return, At,
                  sockVars, kernelVars, TypeOK
    <3> QED
      BY <2>3, <3>1
  <2>7. CASE ReadStep(t)
    <3> USE DEF Goto, Return, At, sockVars, kernelVars, TypeOK
    <3>1. ASSUME NEW ret, AfterRead(t, ret)
          PROVE  pc'[t] \notin Told /\ UNCHANGED <<pairedFd, sockList, open>>
      BY <3>1 DEF AfterRead
    <3>2. CASE ReadOrWait(t) \/ ReaderWoken(t) \/ ReadPart(t) \/ NotifyDrainers(t)
      <4>1. /\ pc'[t] \notin Told
            /\ UNCHANGED <<pairedFd, sockList, open, sockErr>>
        BY <3>2 DEF ReadOrWait, ReaderWoken, ReadPart, NotifyDrainers
      <4> QED
        BY <2>3, <4>1
    <3>4. CASE \/ ReadEnough(t) \/ ReadNothing(t) \/ ReadEof(t) \/ ReadReset(t)
               \/ ReadBadFd(t)
      <4>1. pc'[t] \notin Told /\ UNCHANGED <<pairedFd, sockList, open>>
        BY <3>1, <3>4 DEF ReadEnough, ReadNothing, ReadEof, ReadReset, ReadBadFd
      <4>2. sockErr' \subseteq sockErr
        BY <3>4 DEF ReadEnough, ReadNothing, ReadEof, ReadReset, ReadBadFd
      <4> QED
        BY <2>3, <4>1, <4>2
    <3> QED
      BY <2>7, <3>2, <3>4 DEF ReadStep
  <2> QED
    BY <2>1, <2>4, <2>5, <2>6, <2>7 DEF Acts
<1> QED
  BY <1>1, <1>2

-----------------------------------------------------------------------------
(* The counter.                                                             *)

ReadsFrom(t, f) == pc[t] = "r_read" /\ Fd(t) = f

(* What the mutex gives: nobody reads from f while another thread reads     *)
(* from it, writes to it, or finds its mutex free.                          *)
LEMMA ReadsAlone ==
    ASSUME TypeOK, MutexExcludes, NEW f \in Fds
    PROVE  /\ Free(f) => \A u \in Threads : ~Holds(u, f)
           /\ \A t, u \in Threads : Holds(t, f) /\ Holds(u, f) => t = u
           /\ \A u \in Threads : ReadsFrom(u, f) => Holds(u, f)
BY DEF MutexExcludes, Free, Holds, ReadsFrom

(* CounterMirrors, one descriptor at a time.                                *)
Mirrors(f) ==
    /\ \A t \in Threads : ReadsFrom(t, f) => buffCnter[f] = queue[f] + got[t]
    /\ (\A t \in Threads : ~ReadsFrom(t, f)) => buffCnter[f] = queue[f]

LEMMA MirrorsForm ==
    ASSUME TypeOK, MutexExcludes
    PROVE  CounterMirrors <=> \A f \in Fds : {f, PeerOf[f]} \subseteq open => Mirrors(f)
BY ReadsAlone DEF CounterMirrors, Mirrors, ReadsFrom

(* A step that leaves f's counters alone and reads nothing from it.         *)
LEMMA MirrorsKept ==
    ASSUME NEW f \in Fds, Mirrors(f), NEW t \in Threads,
           buffCnter'[f] = buffCnter[f], queue'[f] = queue[f],
           \A u \in Threads : ReadsFrom(u, f)' <=> ReadsFrom(u, f),
           \A u \in Threads : ReadsFrom(u, f) => got'[u] = got[u]
    PROVE  Mirrors(f)'
BY DEF Mirrors

LEMMA CounterStep ==
    ASSUME TypeOK, GotWhileReading, MutexExcludes, ClosedBeforeTold, CounterMirrors,
           [Next]_vars
    PROVE  CounterMirrors'
<1>1. CASE UNCHANGED vars
  BY <1>1 DEF vars, CounterMirrors, Fd
<1>2. CASE Next
  <2>1. PICK t \in Threads : Acts(t)
    BY <1>2, NextCases
  <2>2. open' \subseteq open
    BY <1>2, ClosedStep
  <2> SUFFICES ASSUME NEW f \in Fds, {f, PeerOf[f]} \subseteq open'
               PROVE  Mirrors(f)'
    BY DEF CounterMirrors, Mirrors, ReadsFrom
  <2>3. Mirrors(f) /\ {f, PeerOf[f]} \subseteq open
    BY <2>2, MirrorsForm
  <2>4. \A u \in Threads \ {t} : /\ ReadsFrom(u, f)' <=> ReadsFrom(u, f)
                                 /\ got'[u] = got[u]
    BY <2>1, OthersStay DEF ReadsFrom, Fd
  <2>5. f # Fd(t) \/ pc[t] # "r_read" => ~ReadsFrom(t, f)
    BY DEF ReadsFrom
  <2>6. ASSUME buffCnter'[f] = buffCnter[f], queue'[f] = queue[f],
               ~ReadsFrom(t, f), ~ReadsFrom(t, f)'
        PROVE  Mirrors(f)'
    BY <2>3, <2>4, <2>6, MirrorsKept
  <2>7. CASE UNCHANGED <<buffCnter, queue>> /\ pc[t] # "r_read" /\ pc'[t] # "r_read"
    BY <2>6, <2>7 DEF ReadsFrom
  <2>8. CASE \E c \in Calls[t] : Start(t, c)
    <3>1. UNCHANGED <<buffCnter, queue>> /\ pc[t] # "r_read" /\ pc'[t] # "r_read"
      BY <2>8 DEF Start, MyWrite, MyWriteUnpaired, MyReadcond, MyTcdrain, MyClose, Begin,
                  TypeOK, kernelVars, At
    <3> QED
      BY <2>7, <3>1
  <2>9. CASE WriteStep(t)
    <3>1. CASE WriteChars(t)
      <4>1. CASE f = Peer(t)
        <5>1. Holds(t, f)
          BY <3>1, <4>1 DEF WriteChars, At, Holds
        <5>2. \A u \in Threads : ~ReadsFrom(u, f)
          BY <5>1, <3>1, ReadsAlone DEF WriteChars, At, ReadsFrom
        <5>3. \A u \in Threads : ~ReadsFrom(u, f)'
          BY <5>2, <3>1, <2>4 DEF WriteChars, Goto, TypeOK, ReadsFrom
        <5>4. buffCnter'[f] = queue'[f]
          BY <5>2, <4>1, <3>1, <2>3, ThreadType DEF WriteChars, Mirrors, TypeOK
        <5> QED
          BY <5>3, <5>4 DEF Mirrors
      <4>2. CASE f # Peer(t)
        <5>1. /\ buffCnter'[f] = buffCnter[f] /\ queue'[f] = queue[f]
              /\ pc[t] # "r_read" /\ pc'[t] # "r_read"
          BY <3>1, <4>2 DEF WriteChars, At, Goto, TypeOK
        <5> QED
          BY <5>1, <2>6 DEF ReadsFrom
      <4> QED
        BY <4>1, <4>2
    <3>2. CASE LockForWrite(t) \/ WriteBadFd(t) \/ WriteBrokenPipe(t) \/ NotifyReaders(t)
      <4>1. UNCHANGED <<buffCnter, queue>> /\ pc[t] # "r_read" /\ pc'[t] # "r_read"
        BY <3>2 DEF LockForWrite, WriteBadFd, WriteBrokenPipe, NotifyReaders, At, Goto,
                    Return, TypeOK, kernelVars
      <4> QED
        BY <2>7, <4>1
    <3> QED
      BY <2>9, <3>1, <3>2 DEF WriteStep
  <2>10. CASE ReadStep(t)
    <3> USE ThreadType DEF At, Goto, Return, kernelVars
    <3>1. CASE f # Fd(t)
      <4>1. ASSUME NEW ret, AfterRead(t, ret)
            PROVE  /\ buffCnter'[f] = buffCnter[f] /\ pc'[t] # "r_read"
          BY <3>1, <4>1 DEF AfterRead, TypeOK
      <4>2. buffCnter'[f] = buffCnter[f] /\ queue'[f] = queue[f]
        BY <2>10, <3>1, <4>1
           DEF ReadStep, ReadOrWait, ReaderWoken, ReadEnough, ReadPart, ReadNothing,
               ReadEof, ReadReset, ReadBadFd, NotifyDrainers, TypeOK
      <4>3. ~ReadsFrom(t, f) /\ ~ReadsFrom(t, f)'
        <5>1. Fd(t)' = Fd(t) \/ pc'[t] # "r_read"
          BY <2>10, <4>1
             DEF ReadStep, ReadOrWait, ReaderWoken, ReadEnough, ReadPart, ReadNothing,
                 ReadEof, ReadReset, ReadBadFd, NotifyDrainers, TypeOK, Fd
        <5> QED
          BY <5>1, <3>1 DEF ReadsFrom
      <4> QED
        BY <4>2, <4>3, <2>6
    <3>2. CASE f = Fd(t)
      <4>1. CASE ReadOrWait(t) \/ ReaderWoken(t)
        <5>1. \A u \in Threads : ~ReadsFrom(u, f)
          BY <4>1, <3>2, ReadsAlone DEF ReadOrWait, ReaderWoken
        <5>2. got[t] = 0 /\ got'[t] = 0
          BY <4>1 DEF ReadOrWait, ReaderWoken, GotWhileReading
        <5>3. UNCHANGED <<buffCnter, queue>>
          BY <4>1 DEF ReadOrWait, ReaderWoken
        <5>4. buffCnter'[f] = queue'[f] /\ queue'[f] = queue'[f] + got'[t]
          BY <5>1, <5>2, <5>3, <2>3 DEF Mirrors, TypeOK
        <5> QED
          BY <5>1, <5>4, <2>4 DEF Mirrors
      <4>2. ASSUME NEW ret, AfterRead(t, ret), At(t, "r_read"), ret \in Int,
                   queue'[f] = queue[f] + got[t] - ret
            PROVE  Mirrors(f)'
        <5>1. ReadsFrom(t, f)
          BY <4>2, <3>2 DEF ReadsFrom
        <5>2. \A u \in Threads : ~ReadsFrom(u, f)'
          <6>1. pc'[t] # "r_read"
            BY <4>2 DEF AfterRead, TypeOK
          <6>2. \A u \in Threads \ {t} : ~ReadsFrom(u, f)
            BY <5>1, ReadsAlone
          <6> QED
            BY <6>1, <6>2, <2>4 DEF ReadsFrom
        <5>3. buffCnter[f] = queue[f] + got[t]
          BY <5>1, <2>3 DEF Mirrors
        <5>4. buffCnter'[f] = buffCnter[f] - ret
          BY <4>2, <3>2 DEF AfterRead, TypeOK
        <5>5. buffCnter'[f] = queue'[f]
          BY <5>3, <5>4, <4>2 DEF TypeOK
        <5> QED
          BY <5>2, <5>5 DEF Mirrors
      <4>3. CASE ReadEnough(t)
        <5>1. queue'[f] = queue[f] + got[t] - (got[t] + Avail(t)) /\ got[t] + Avail(t) \in Int
          BY <4>3, <3>2, AvailType DEF ReadEnough, TypeOK
        <5> QED
          BY <5>1, <4>3, <4>2 DEF ReadEnough
      <4>4. CASE ReadPart(t)
        <5>1. ReadsFrom(t, f) /\ ReadsFrom(t, f)'
          BY <4>4, <3>2 DEF ReadPart, ReadsFrom, Fd
        <5>2. \A u \in Threads \ {t} : ~ReadsFrom(u, f)'
          BY <5>1, <2>4, ReadsAlone
        <5>3. buffCnter[f] = queue[f] + got[t]
          BY <5>1, <2>3 DEF Mirrors
        <5>4. buffCnter'[f] = queue'[f] + got'[t]
          BY <4>4, <3>2, <5>3, AvailType DEF ReadPart, TypeOK
        <5> QED
          BY <5>1, <5>2, <5>4 DEF Mirrors
      <4>5. CASE ReadNothing(t)
        <5>1. got[t] = 0
          BY <4>5 DEF ReadNothing, GotWhileReading, TypeOK
        <5>2. queue'[f] = queue[f] + got[t] - 0
          BY <4>5, <5>1 DEF ReadNothing, TypeOK
        <5> QED
          BY <5>2, <4>5, <4>2 DEF ReadNothing
      <4>6. CASE ReadEof(t) \/ ReadReset(t) \/ ReadBadFd(t)
        <5>1. Fd(t) \notin open \/ Peer(t) \notin open
          BY <4>6 DEF ReadEof, ReadReset, ReadBadFd, ClosedBeforeTold, Peer, Fd
        <5> QED
          BY <5>1, <3>2, <2>3 DEF Peer, Fd
      <4>7. CASE NotifyDrainers(t)
        <5>1. UNCHANGED <<buffCnter, queue>> /\ pc[t] # "r_read" /\ pc'[t] # "r_read"
          BY <4>7 DEF NotifyDrainers, TypeOK
        <5> QED
          BY <2>7, <5>1
      <4> QED
        BY <2>10, <4>1, <4>3, <4>4, <4>5, <4>6, <4>7 DEF ReadStep
    <3> QED
      BY <3>1, <3>2
  <2>11. CASE DrainStep(t)
    <3>1. UNCHANGED <<buffCnter, queue>> /\ pc[t] # "r_read" /\ pc'[t] # "r_read"
      BY <2>11 DEF DrainStep, DrainOrWait, DrainerWoken, At, Goto, Return, TypeOK, kernelVars
    <3> QED
      BY <2>7, <3>1
  <2>12. CASE CloseStep(t)
    <3>1. /\ pc[t] # "r_read" /\ pc'[t] # "r_read"
          /\ buffCnter'[f] = buffCnter[f] /\ queue'[f] = queue[f]
      <4>1. CASE CloseFd(t)
        BY <4>1 DEF CloseFd, At, Goto, TypeOK
      <4>2. CASE \/ CloseWakeDrainers(t) \/ CloseWakeReaders(t) \/ CloseUnpair(t)
                 \/ CloseForget(t) \/ CloseDelete(t)
        BY <4>2 DEF CloseWakeDrainers, CloseWakeReaders, CloseUnpair, CloseForget,
                    CloseDelete, At, Goto, Return, TypeOK, kernelVars
      <4> QED
        BY <2>12, <4>1, <4>2 DEF CloseStep
    <3> QED
      BY <2>6, <3>1 DEF ReadsFrom
  <2>13. CASE UseAfterFree(t) \/ Wake(t)
    <3>1. UNCHANGED <<buffCnter, queue, pc, call, got>>
      BY <2>13 DEF UseAfterFree, Wake, SpuriousWakeup, kernelVars
    <3> QED
      BY <3>1, <2>3 DEF Mirrors, ReadsFrom, Fd
  <2> QED
    BY <2>1, <2>8, <2>9, <2>10, <2>11, <2>12, <2>13 DEF Acts
<1> QED
  BY <1>1, <1>2

-----------------------------------------------------------------------------
(* The condition variables.                                                 *)

(* Who sleeps after a step of t: whoever slept before, or t on the variable *)
(* it has just decided to wait on, with an empty (cvR) counter; and t does  *)
(* not leave a wait while it is asleep.                                     *)
SleepMoves(t) ==
    /\ \A f \in Fds : \A u \in cvR'[f] :
          u \in cvR[f] \/ (u = t /\ f = Fd(t)' /\ pc'[t] = "r_wait" /\ buffCnter'[f] = 0)
    /\ \A f \in Fds : \A u \in cvW'[f] :
          u \in cvW[f] \/ (u = t /\ f = Fd(t)' /\ pc'[t] = "d_wait")
    /\ pc[t] = "r_wait" =>
          t \notin cvR[Fd(t)] \/ (pc'[t] = "r_wait" /\ call'[t] = call[t])
    /\ pc[t] = "d_wait" =>
          t \notin cvW[Fd(t)] \/ (pc'[t] = "d_wait" /\ call'[t] = call[t])

LEMMA AllSleepMoves ==
    ASSUME TypeOK, NEW t \in Threads,
           Acts(t)
    PROVE  SleepMoves(t)
<1> USE ThreadType DEF SleepMoves, At, Goto, Return, Fd, TypeOK
<1>1. CASE \E c \in Calls[t] : Start(t, c)
  BY <1>1 DEF Start, MyWrite, MyWriteUnpaired, MyReadcond, MyTcdrain, MyClose, Begin
<1>2. CASE WriteStep(t)
  BY <1>2 DEF WriteStep, LockForWrite, WriteChars, WriteBadFd, WriteBrokenPipe, NotifyReaders
<1>3. CASE ReadStep(t)
  <2>1. ASSUME NEW ret, AfterRead(t, ret), At(t, "r_read")
        PROVE  SleepMoves(t)
    <3>1. cvW' = cvW /\ \A f \in Fds : cvR'[f] \subseteq cvR[f]
      BY <2>1 DEF AfterRead
    <3> QED
      BY <2>1, <3>1
  <2>2. CASE ReadOrWait(t)
    BY <2>2 DEF ReadOrWait
  <2>3. CASE ReaderWoken(t) \/ ReadPart(t) \/ NotifyDrainers(t)
    BY <2>3 DEF ReaderWoken, ReadPart, NotifyDrainers
  <2> QED
    BY <1>3, <2>1, <2>2, <2>3
       DEF ReadStep, ReadEnough, ReadNothing, ReadEof, ReadReset, ReadBadFd
<1>4. CASE DrainStep(t)
  BY <1>4 DEF DrainStep, DrainOrWait, DrainerWoken
<1>5. CASE CloseStep(t)
  BY <1>5 DEF CloseStep, CloseFd, CloseWakeDrainers, CloseWakeReaders, CloseUnpair,
              CloseForget, CloseDelete
<1>6. CASE UseAfterFree(t) \/ Wake(t)
  BY <1>6 DEF UseAfterFree, Wake, SpuriousWakeup
<1> QED
  BY <1>1, <1>2, <1>3, <1>4, <1>5, <1>6 DEF Acts

LEMMA SleepersStep ==
    ASSUME TypeOK, SleepersWait, [Next]_vars
    PROVE  SleepersWait'
<1>1. CASE UNCHANGED vars
  BY <1>1 DEF vars, SleepersWait, Fd
<1>2. CASE Next
  <2>1. PICK t \in Threads : Acts(t)
    BY <1>2, NextCases
  <2>2. \A u \in Threads \ {t} : pc'[u] = pc[u] /\ Fd(u)' = Fd(u)
    BY <2>1, OthersStay DEF Fd
  <2>3. SleepMoves(t)
    BY <2>1, AllSleepMoves
  <2>4. ASSUME NEW f \in Fds, NEW u \in cvR'[f]
        PROVE  pc'[u] = "r_wait" /\ Fd(u)' = f
    BY <2>2, <2>3, <2>4 DEF SleepMoves, SleepersWait, TypeOK, Fd
  <2>5. ASSUME NEW f \in Fds, NEW u \in cvW'[f]
        PROVE  pc'[u] = "d_wait" /\ Fd(u)' = f
    BY <2>2, <2>3, <2>5 DEF SleepMoves, SleepersWait, TypeOK, Fd
  <2> QED
    BY <2>4, <2>5 DEF SleepersWait
<1> QED
  BY <1>1, <1>2

(* The counter of an open pair only rises from zero by a write, whose       *)
(* notification is then still to come; and that is not forgotten.           *)
LEMMA CounterRises ==
    ASSUME TypeOK, GotWhileReading, ClosedBeforeTold, MutexExcludes, CounterMirrors,
           NEW t \in Threads,
           Acts(t),
           NEW f \in Fds, {f, PeerOf[f]} \subseteq open,
           buffCnter[f] = 0, buffCnter'[f] # 0
    PROVE  pc'[t] = "w_notify" /\ Peer(t)' = f
<1> USE ThreadType DEF At, Goto, Return, Fd, Peer, TypeOK
<1>1. CASE \E c \in Calls[t] : Start(t, c)
  BY <1>1 DEF Start, MyWrite, MyWriteUnpaired, MyReadcond, MyTcdrain, MyClose, Begin
<1>2. CASE WriteStep(t)
  BY <1>2 DEF WriteStep, LockForWrite, WriteChars, WriteBadFd, WriteBrokenPipe, NotifyReaders
<1>3. CASE ReadStep(t)
  <2>1. CASE f = Fd(t) /\ pc[t] = "r_read"
    <3>1. buffCnter[f] = queue[f] + got[t]
      BY <2>1, MirrorsForm DEF Mirrors, ReadsFrom
    <3>2. queue[f] = 0 /\ got[t] = 0
      BY <3>1
    <3>3. CASE ReadEnough(t) \/ ReadPart(t)
      BY <2>1, <3>2, <3>3 DEF ReadEnough, ReadPart
    <3>4. CASE ReadNothing(t)
      <4>1. AfterRead(t, 0)
        BY <3>4 DEF ReadNothing
      <4>2. buffCnter'[f] = buffCnter[f] - 0
        BY <4>1, <2>1 DEF AfterRead
      <4> QED
        BY <4>2
    <3>5. CASE ReadEof(t) \/ ReadReset(t) \/ ReadBadFd(t)
      BY <2>1, <3>5 DEF ReadEof, ReadReset, ReadBadFd, ClosedBeforeTold
    <3> QED
      BY <1>3, <2>1, <3>3, <3>4, <3>5
         DEF ReadStep, ReadOrWait, ReaderWoken, NotifyDrainers
  <2>2. CASE ~(f = Fd(t) /\ pc[t] = "r_read")
    <3>1. ASSUME NEW ret, AfterRead(t, ret), At(t, "r_read")
          PROVE  buffCnter'[f] = buffCnter[f]
      BY <2>2, <3>1 DEF AfterRead
    <3> QED
      BY <1>3, <3>1 DEF ReadStep, ReadOrWait, ReaderWoken, ReadEnough, ReadPart,
         ReadNothing, ReadEof, ReadReset, ReadBadFd, NotifyDrainers
  <2> QED
    BY <2>1, <2>2
<1>4. CASE DrainStep(t)
  BY <1>4 DEF DrainStep, DrainOrWait, DrainerWoken
<1>5. CASE CloseStep(t)
  BY <1>5 DEF CloseStep, CloseFd, CloseWakeDrainers, CloseWakeReaders, CloseUnpair,
              CloseForget, CloseDelete
<1>6. CASE UseAfterFree(t) \/ Wake(t)
  BY <1>6 DEF UseAfterFree, Wake, SpuriousWakeup
<1> QED
  BY <1>1, <1>2, <1>3, <1>4, <1>5, <1>6 DEF Acts

(* A pending notify_all() is done, or still pending.                        *)
LEMMA NotifyPending ==
    ASSUME TypeOK, NEW t \in Threads, pc[t] = "w_notify",
           Acts(t)
    PROVE  \/ pc'[t] = "w_notify" /\ call'[t] = call[t]
           \/ cvR'[Peer(t)] = {}
<1> USE ThreadType DEF At, TypeOK
<1>1. CASE WriteStep(t)
  BY <1>1 DEF WriteStep, LockForWrite, WriteChars, WriteBadFd, WriteBrokenPipe, NotifyReaders
<1>2. CASE UseAfterFree(t) \/ Wake(t)
  BY <1>2 DEF UseAfterFree, Wake, SpuriousWakeup
<1>3. ~ReadStep(t)
  BY DEF ReadStep, ReadOrWait, ReaderWoken, ReadEnough, ReadPart, ReadNothing, ReadEof,
         ReadReset, ReadBadFd, NotifyDrainers
<1>4. ~DrainStep(t) /\ ~CloseStep(t)
  BY DEF DrainStep, DrainOrWait, DrainerWoken, CloseStep, CloseFd, CloseWakeDrainers,
         CloseWakeReaders, CloseUnpair, CloseForget, CloseDelete
<1>5. CASE \E c \in Calls[t] : Start(t, c)
  BY <1>5 DEF Start, MyWrite, MyWriteUnpaired, MyReadcond, MyTcdrain, MyClose, Begin
<1> QED
  BY <1>1, <1>2, <1>3, <1>4, <1>5 DEF Acts

LEMMA WakeupStep ==
    ASSUME TypeOK, GotWhileReading, ClosedBeforeTold, MutexExcludes, CounterMirrors,
           NoLostReadWakeup, [Next]_vars
    PROVE  NoLostReadWakeup'
<1>1. CASE UNCHANGED vars
  BY <1>1 DEF vars, NoLostReadWakeup, Peer
<1>2. CASE Next
  <2>1. PICK t \in Threads : Acts(t)
    BY <1>2, NextCases
  <2> SUFFICES ASSUME NEW f \in Fds, NEW u \in cvR'[f],
                      {f, PeerOf[f]} \subseteq open', buffCnter'[f] # 0
               PROVE  \E w \in Threads : pc'[w] = "w_notify" /\ Peer(w)' = f
    BY DEF NoLostReadWakeup
  <2>2. {f, PeerOf[f]} \subseteq open
    BY <1>2, ClosedStep
  <2>3. u \in cvR[f]
    BY <2>1, AllSleepMoves DEF SleepMoves
  <2>4. CASE buffCnter[f] = 0
    BY <2>1, <2>2, <2>4, CounterRises
  <2>5. CASE buffCnter[f] # 0
    <3>1. PICK w \in Threads : pc[w] = "w_notify" /\ Peer(w) = f
      BY <2>2, <2>3, <2>5 DEF NoLostReadWakeup
    <3>2. CASE w # t
      BY <2>1, <3>1, <3>2, OthersStay DEF Peer
    <3>3. CASE w = t
      BY <2>1, <3>1, <3>3, NotifyPending DEF Peer
    <3> QED
      BY <3>2, <3>3
  <2> QED
    BY <2>4, <2>5
<1> QED
  BY <1>1, <1>2

-----------------------------------------------------------------------------
(* The notification of the drainers.                                        *)

(* A counter changes in the hands of its mutex's holder, or is reset.       *)
LEMMA CounterOwner ==
    ASSUME TypeOK, NEW t \in Threads,
           Acts(t),
           NEW f \in Fds, buffCnter'[f] # buffCnter[f], buffCnter'[f] # 0
    PROVE  Holds(t, f)
<1> USE ThreadType DEF At, TypeOK, Holds
<1>1. CASE \E c \in Calls[t] : Start(t, c)
  BY <1>1 DEF Start, MyWrite, MyWriteUnpaired, MyReadcond, MyTcdrain, MyClose, Begin
<1>2. CASE WriteStep(t)
  BY <1>2 DEF WriteStep, LockForWrite, WriteChars, WriteBadFd, WriteBrokenPipe, NotifyReaders
<1>3. CASE ReadStep(t)
  <2>1. ASSUME NEW ret, AfterRead(t, ret), At(t, "r_read")
        PROVE  Holds(t, f)
    BY <2>1 DEF AfterRead
  <2> QED
    BY <1>3, <2>1 DEF ReadStep, ReadOrWait, ReaderWoken, ReadEnough, ReadPart,
       ReadNothing, ReadEof, ReadReset, ReadBadFd, NotifyDrainers
<1>4. CASE DrainStep(t)
  BY <1>4 DEF DrainStep, DrainOrWait, DrainerWoken
<1>5. CASE CloseStep(t)
  BY <1>5 DEF CloseStep, CloseFd, CloseWakeDrainers, CloseWakeReaders, CloseUnpair,
              CloseForget, CloseDelete
<1>6. CASE UseAfterFree(t) \/ Wake(t)
  BY <1>6 DEF UseAfterFree, Wake, SpuriousWakeup
<1> QED
  BY <1>1, <1>2, <1>3, <1>4, <1>5, <1>6 DEF Acts

(* A thread about to notify the drainers has just emptied its buffer.       *)
LEMMA ComesToNotify ==
    ASSUME TypeOK, NEW t \in Threads,
           Acts(t),
           pc'[t] = "r_notify"
    PROVE  \/ buffCnter'[Fd(t)'] = 0
           \/ pc[t] = "r_notify" /\ Fd(t)' = Fd(t) /\ buffCnter' = buffCnter
<1> USE ThreadType DEF At, Goto, Return, TypeOK, Fd
<1>1. CASE \E c \in Calls[t] : Start(t, c)
  BY <1>1 DEF Start, MyWrite, MyWriteUnpaired, MyReadcond, MyTcdrain, MyClose, Begin
<1>2. CASE WriteStep(t)
  BY <1>2 DEF WriteStep, LockForWrite, WriteChars, WriteBadFd, WriteBrokenPipe, NotifyReaders
<1>3. CASE ReadStep(t)
  <2>1. ASSUME NEW ret \in Int, AfterRead(t, ret)
        PROVE  buffCnter'[Fd(t)'] = 0
    <3>1. buffCnter[Fd(t)] = ret /\ UNCHANGED call
      BY <2>1 DEF AfterRead
    <3> QED
      BY <2>1, <3>1 DEF AfterRead
  <2>2. CASE ReadEnough(t)
    <3>1. got[t] + Avail(t) \in Int
      BY <2>2 DEF Avail
    <3> QED
      BY <2>1, <2>2, <3>1 DEF ReadEnough
  <2>3. CASE ReadNothing(t) \/ ReadEof(t) \/ ReadReset(t) \/ ReadBadFd(t)
    BY <2>1, <2>3 DEF ReadNothing, ReadEof, ReadReset, ReadBadFd
  <2>4. CASE ReadOrWait(t) \/ ReaderWoken(t) \/ ReadPart(t) \/ NotifyDrainers(t)
    BY <2>4 DEF ReadOrWait, ReaderWoken, ReadPart, NotifyDrainers
  <2> QED
    BY <1>3, <2>2, <2>3, <2>4 DEF ReadStep
<1>4. CASE DrainStep(t)
  BY <1>4 DEF DrainStep, DrainOrWait, DrainerWoken
<1>5. CASE CloseStep(t)
  BY <1>5 DEF CloseStep, CloseFd, CloseWakeDrainers, CloseWakeReaders, CloseUnpair,
              CloseForget, CloseDelete
<1>6. CASE UseAfterFree(t) \/ Wake(t)
  BY <1>6 DEF UseAfterFree, Wake, SpuriousWakeup
<1> QED
  BY <1>1, <1>2, <1>3, <1>4, <1>5, <1>6 DEF Acts

LEMMA NotifiesStep ==
    ASSUME TypeOK, MutexExcludes, NotifiesWhenEmpty, [Next]_vars
    PROVE  NotifiesWhenEmpty'
<1>1. CASE UNCHANGED vars
  BY <1>1 DEF vars, NotifiesWhenEmpty, Fd
<1>2. CASE Next
  <2>1. PICK t \in Threads : Acts(t)
    BY <1>2, NextCases
  <2>2. pc'[t] = "r_notify" => buffCnter'[Fd(t)'] = 0
    BY <2>1, ComesToNotify DEF NotifiesWhenEmpty
  <2>3. ASSUME NEW u \in Threads, u # t, pc'[u] = "r_notify"
        PROVE  buffCnter'[Fd(u)'] = 0
    <3>1. pc[u] = "r_notify" /\ Fd(u)' = Fd(u)
      BY <2>1, <2>3, OthersStay DEF Fd
    <3>2. Holds(u, Fd(u)) /\ Fd(u) \in Fds /\ buffCnter[Fd(u)] = 0
      BY <3>1, ThreadType DEF Holds, NotifiesWhenEmpty
    <3>3. ~Holds(t, Fd(u))
      BY <3>2, <2>3, ReadsAlone
    <3> QED
      BY <2>1, <3>1, <3>2, <3>3, CounterOwner
  <2> QED
    BY <2>2, <2>3 DEF NotifiesWhenEmpty
<1> QED
  BY <1>1, <1>2

-----------------------------------------------------------------------------
(* The inductive invariant, and what follows from it.                       *)

LEMMA InductiveStep == IndInv /\ [Next]_vars => IndInv'
BY TypeStep, GotStep, MutexStep, ClosedStep, CounterStep, SleepersStep, WakeupStep,
   NotifiesStep DEF IndInv

LEMMA InitInductive == Init => IndInv
<1> SUFFICES ASSUME Init PROVE IndInv
  OBVIOUS
<1>1. TypeOK
  BY InitType
<1>2. MutexExcludes /\ GotWhileReading /\ SleepersWait /\ NotifiesWhenEmpty
  BY DEF Init, MutexExcludes, Holds, GotWhileReading, SleepersWait, NotifiesWhenEmpty
<1>3. ClosedBeforeTold
  <2>1. \A f \in Fds : pairedFd[f] # -1
    BY FdsAssumption DEF Init
  <2> QED
    BY <2>1 DEF Init, ClosedBeforeTold
<1>4. CounterMirrors /\ NoLostReadWakeup
  BY DEF Init, CounterMirrors, NoLostReadWakeup
<1> QED
  BY <1>1, <1>2, <1>3, <1>4 DEF IndInv

(* Every reachable state satisfies the inductive invariant.                 *)
THEOREM Inductive == Spec => []IndInv
BY InitInductive, InductiveStep, PTL DEF Spec

(* A sockInfo's mutex excludes, although myWrite takes that of the other    *)
(* end and wait() releases it and takes it back (myIO.cpp:229, 256, 290).   *)
THEOREM MutexSafe == Spec => []MutexExcludes
<1>1. IndInv => MutexExcludes
  BY DEF IndInv
<1> QED
  BY <1>1, Inductive, PTL

(* buffCnter is right while both ends are open (myIO.cpp:62).               *)
THEOREM CounterSafe == Spec => []CounterMirrors
<1>1. IndInv => CounterMirrors
  BY DEF IndInv
<1> QED
  BY <1>1, Inductive, PTL

(* No wakeup of a reader is lost by notifying outside of the mutex.         *)
THEOREM WakeupSafe == Spec => []NoLostReadWakeup
<1>1. IndInv => NoLostReadWakeup
  BY DEF IndInv
<1> QED
  BY <1>1, Inductive, PTL

(* The unlocked look at the table is right about a closed other end.        *)
THEOREM UnpairedSafe == Spec => []UnpairedIsClosed
<1>1. IndInv => UnpairedIsClosed
  BY FdsAssumption DEF IndInv, ClosedBeforeTold, UnpairedIsClosed, Paired, TypeOK
<1> QED
  BY <1>1, Inductive, PTL

(* The threads in myTcdrain are woken only when there is nothing left at    *)
(* the other end, or by a close of their own descriptor.                    *)
THEOREM DrainersSafe == Spec => DrainersWokenWhenEmpty
<1> DEFINE Woken == \A f \in Fds : pc' # pc /\ ~(cvW[f] \subseteq cvW'[f]) =>
                       f \notin open \/ buffCnter[PeerOf[f]] = 0
<1>1. ASSUME IndInv, Next
      PROVE  Woken
  <2>1. PICK t \in Threads : Acts(t)
    BY <1>1, NextCases
  <2> USE DEF IndInv, TypeOK
  <2>2. TypeOK
    BY <1>1
  <2>3. CASE NotifyDrainers(t)
    <3>1. \A f \in Fds : f # Peer(t) => cvW'[f] = cvW[f]
      BY <1>1, <2>3 DEF NotifyDrainers
    <3>2. buffCnter[PeerOf[Peer(t)]] = 0
      BY <1>1, <2>2, <2>3, ThreadType DEF NotifyDrainers, At, NotifiesWhenEmpty
    <3> QED
      BY <3>1, <3>2
  <2>4. CASE CloseWakeDrainers(t)
    BY <1>1, <2>4 DEF CloseWakeDrainers, At, ClosedBeforeTold
  <2>5. CASE \A f \in Fds : cvW[f] \subseteq cvW'[f]
    BY <2>5
  <2>6. CASE \E c \in Calls[t] : Start(t, c)
    BY <2>5, <2>6 DEF Start, MyWrite, MyWriteUnpaired, MyReadcond, MyTcdrain, MyClose, Begin
  <2>7. CASE WriteStep(t)
    BY <2>5, <2>7 DEF WriteStep, LockForWrite, WriteChars, WriteBadFd, WriteBrokenPipe,
                      NotifyReaders
  <2>8. CASE ReadStep(t)
    <3>1. ASSUME NEW ret, AfterRead(t, ret)
          PROVE  cvW' = cvW
      BY <3>1 DEF AfterRead
    <3> QED
      BY <2>3, <2>5, <2>8, <3>1
         DEF ReadStep, ReadOrWait, ReaderWoken, ReadEnough, ReadPart, ReadNothing,
             ReadEof, ReadReset, ReadBadFd
  <2>9. CASE DrainStep(t)
    BY <1>1, <2>5, <2>9 DEF DrainStep, DrainOrWait, DrainerWoken
  <2>10. CASE CloseStep(t)
    BY <2>4, <2>5, <2>10 DEF CloseStep, CloseFd, CloseWakeReaders, CloseUnpair,
                             CloseForget, CloseDelete
  <2>11. CASE UseAfterFree(t) \/ Wake(t)
    BY <1>1, <2>5, <2>11 DEF UseAfterFree, Wake, SpuriousWakeup
  <2> QED
    BY <2>1, <2>6, <2>7, <2>8, <2>9, <2>10, <2>11 DEF Acts
<1>2. IndInv /\ [Next]_vars => [Woken]_vars
  BY <1>1
<1> QED
  BY <1>2, Inductive, PTL DEF Spec, DrainersWokenWhenEmpty
=============================================================================
