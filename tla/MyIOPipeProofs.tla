--------------------------- MODULE MyIOPipeProofs ---------------------------
(***************************************************************************)
(* MyIO implements Pipe, for every set of threads, every set of descriptor *)
(* pairs, every client and every size of the kernel's buffer.              *)
(***************************************************************************)
EXTENDS MyIOProofs

-----------------------------------------------------------------------------
(* The statement a thread is at tells which call it makes.                  *)
CallOps ==
    \A t \in Threads :
        /\ pc[t] \in {"w_lock", "w_write", "w_notify"} => call[t].op = "write"
        /\ pc[t] \in {"r_lock", "r_wait", "r_read", "r_notify"} => call[t].op = "read"
        /\ pc[t] \in {"d_lock", "d_wait"} => call[t].op = "drain"
        /\ pc[t] \in {"c_lock", "c_wakeW", "c_wakeR", "c_unpair", "c_null", "c_delete"}
             => call[t].op = "close"

(* What AfterRead does to the things that Pipe sees.                        *)
LEMMA AfterReadMoves ==
    ASSUME TypeOK, NEW t \in Threads, NEW ret, At(t, "r_read"), AfterRead(t, ret)
    PROVE  /\ open' = open
           /\ buffCnter' = [buffCnter EXCEPT ![Fd(t)] = @ - ret]
           /\ \/ pc'[t] = "idle"
              \/ pc'[t] = "r_notify" /\ call'[t] = call[t]
BY DEF AfterRead, Goto, Return, TypeOK

LEMMA CallOpsStep ==
    ASSUME TypeOK, CallOps, [Next]_vars
    PROVE  CallOps'
<1>1. CASE UNCHANGED vars
  BY <1>1 DEF vars, CallOps
<1>2. CASE Next
  <2>1. PICK t \in Threads : Acts(t)
    BY <1>2, NextCases
  <2>2. /\ pc'[t] \in {"w_lock", "w_write", "w_notify"} => call'[t].op = "write"
        /\ pc'[t] \in {"r_lock", "r_wait", "r_read", "r_notify"} => call'[t].op = "read"
        /\ pc'[t] \in {"d_lock", "d_wait"} => call'[t].op = "drain"
        /\ pc'[t] \in {"c_lock", "c_wakeW", "c_wakeR", "c_unpair", "c_null", "c_delete"}
             => call'[t].op = "close"
    <3> USE DEF TypeOK, CallOps, Goto, Return, At
    <3>1. CASE \E c \in Calls[t] : Start(t, c)
      BY <3>1 DEF Start, MyWrite, MyWriteUnpaired, MyReadcond, MyTcdrain, MyClose, Begin
    <3>2. CASE WriteStep(t)
      BY <3>2 DEF WriteStep, LockForWrite, WriteChars, WriteBadFd, WriteBrokenPipe,
                  NotifyReaders
    <3>3. CASE ReadStep(t)
      <4>1. ASSUME NEW ret, At(t, "r_read"), AfterRead(t, ret)
            PROVE  pc'[t] = "idle" \/ (pc'[t] = "r_notify" /\ call'[t].op = "read")
        BY <4>1, AfterReadMoves, Zenon
      <4>2. CASE ReadOrWait(t) \/ ReaderWoken(t) \/ NotifyDrainers(t) \/ ReadPart(t)
        BY <4>2 DEF ReadOrWait, ReaderWoken, NotifyDrainers, ReadPart
      <4> QED
        BY <3>3, <4>1, <4>2
           DEF ReadStep, ReadEnough, ReadNothing, ReadEof, ReadReset, ReadBadFd
    <3>4. CASE DrainStep(t)
      BY <3>4 DEF DrainStep, DrainOrWait, DrainerWoken
    <3>5. CASE CloseStep(t)
      BY <3>5 DEF CloseStep, CloseFd, CloseWakeDrainers, CloseWakeReaders, CloseUnpair,
                  CloseForget, CloseDelete
    <3>6. CASE UseAfterFree(t) \/ Wake(t)
      BY <3>6 DEF UseAfterFree, Wake, SpuriousWakeup
    <3> QED
      BY <2>1, <3>1, <3>2, <3>3, <3>4, <3>5, <3>6 DEF Acts
  <2>3. \A u \in Threads : u # t => pc'[u] = pc[u] /\ call'[u] = call[u]
    BY <2>1, OthersStay
  <2> QED
    BY <2>2, <2>3 DEF CallOps
<1> QED
  BY <1>1, <1>2

-----------------------------------------------------------------------------
(* A step as Pipe sees it.                                                  *)

Effected == {"idle", "w_notify", "r_notify"}
Unseen   == UNCHANGED <<Content, Whole, Doing>>

(* Only t's call can move.                                                  *)
LEMMA DoingMoves ==
    ASSUME TypeOK, NEW t \in Threads, Acts(t)
    PROVE  Doing' = [Doing EXCEPT ![t] = IF pc'[t] \in Effected THEN NoCall ELSE call'[t]]
<1>1. \A u \in Threads : u # t => pc'[u] = pc[u] /\ call'[u] = call[u]
  BY OthersStay
<1> QED
  BY <1>1 DEF Doing, Effected

LEMMA ContentKept ==
    ASSUME open' = open, \A f \in Whole : buffCnter'[f] = buffCnter[f]
    PROVE  Whole' = Whole /\ Content' = Content
BY DEF Whole, Content

(* Nothing of it is seen: t's call goes on, or is over.                     *)
LEMMA StaysUnseen ==
    ASSUME TypeOK, NEW t \in Threads, Acts(t), open' = open,
           \A f \in Whole : buffCnter'[f] = buffCnter[f],
           \/ pc[t] \in Effected /\ pc'[t] \in Effected
           \/ /\ pc[t] \notin Effected /\ pc'[t] \notin Effected
              /\ call'[t] = call[t]
    PROVE  Unseen
<1>1. Doing'[t] = Doing[t]
  BY DoingMoves DEF Doing, Effected
<1>2. Doing' = Doing
  BY <1>1, DoingMoves DEF Doing
<1> QED
  BY <1>2, ContentKept DEF Unseen

LEMMA GivesUp ==
    ASSUME TypeOK, NEW t \in Threads, Acts(t), open' = open,
           \A f \in Whole : buffCnter'[f] = buffCnter[f],
           pc[t] \notin Effected, pc'[t] \in Effected,
           call[t].op \in {"drain", "close"} \/ Fd(t) \notin Whole
    PROVE  P!GiveUp(t)
<1>1. Doing[t] = call[t]
  BY DEF Doing, Effected
<1>2. Doing' = [Doing EXCEPT ![t] = NoCall]
  BY DoingMoves
<1> QED
  BY <1>1, <1>2, ContentKept DEF P!GiveUp, P!Finish, Fd

(* A thread leaves wcsReadcond with ret characters: it has taken them, or   *)
(* one of the ends is closed.                                               *)
LEMMA ReadReturns ==
    ASSUME TypeOK, CallOps, NEW t \in Threads, Acts(t), At(t, "r_read"),
           NEW ret \in Int, AfterRead(t, ret),
           Fd(t) \in Whole => ret \in call[t].min .. call[t].n /\ ret <= buffCnter[Fd(t)]
    PROVE  P!Take(t) \/ P!GiveUp(t)
<1>1. /\ open' = open
      /\ buffCnter' = [buffCnter EXCEPT ![Fd(t)] = @ - ret]
      /\ pc'[t] \in Effected
  BY AfterReadMoves DEF Effected
<1>2. pc[t] \notin Effected /\ call[t].op = "read"
  BY DEF Effected, At, CallOps
<1>3. Whole' = Whole
  BY <1>1 DEF Whole
<1>4. CASE Fd(t) \notin Whole
  <2>1. \A f \in Whole : buffCnter'[f] = buffCnter[f]
    BY <1>1, <1>4 DEF TypeOK, Whole
  <2> QED
    BY <1>1, <1>2, <1>4, <2>1, GivesUp
<1>5. CASE Fd(t) \in Whole
  <2>1. Doing[t] = call[t] /\ Doing' = [Doing EXCEPT ![t] = NoCall]
    BY <1>1, <1>2, DoingMoves DEF Doing, Effected
  <2>2. Content[Fd(t)] = buffCnter[Fd(t)]
    BY <1>5, ThreadType DEF Content
  <2>3. Content' = [Content EXCEPT ![Fd(t)] = @ - ret]
    <3>1. \A f \in Fds : buffCnter'[f] = IF f = Fd(t) THEN buffCnter[f] - ret ELSE buffCnter[f]
      BY <1>1 DEF TypeOK
    <3> QED
      BY <1>3, <1>5, <3>1 DEF Content
  <2> QED
    BY <1>2, <1>3, <1>5, <2>1, <2>2, <2>3 DEF P!Take, P!Finish, Fd
<1> QED
  BY <1>4, <1>5

(* What the reader that holds the mutex of an open pair can count on.       *)
LEMMA ReaderCounts ==
    ASSUME IndInv, NEW t \in Threads, At(t, "r_read"), Fd(t) \in Whole
    PROVE  buffCnter[Fd(t)] = queue[Fd(t)] + got[t]
<1>1. Mirrors(Fd(t))
  BY ThreadType, MirrorsForm DEF IndInv, Whole
<1> QED
  BY <1>1 DEF Mirrors, ReadsFrom, At

LEMMA WriteImplements ==
    ASSUME IndInv, CallOps, NEW t \in Threads, WriteStep(t)
    PROVE  P!Put(t) \/ P!GiveUp(t) \/ Unseen
<1>1. TypeOK /\ Acts(t)
  BY DEF IndInv, Acts
<1> USE <1>1
<1>2. CASE WriteChars(t)
  <2>1. {Fd(t), Peer(t)} \subseteq Whole /\ Holds(t, Peer(t)) /\ call[t].op = "write"
    BY <1>2, ThreadType DEF WriteChars, At, Whole, Holds, CallOps, Peer, Fd
  <2>2. pc[t] \notin Effected /\ pc'[t] \in Effected
    BY <1>2 DEF WriteChars, At, Goto, Effected, TypeOK
  <2>3. Doing[t] = call[t] /\ Doing' = [Doing EXCEPT ![t] = NoCall]
    BY <2>2, DoingMoves DEF Doing, Effected
  <2>4. buffCnter[Peer(t)] = queue[Peer(t)]
    <3>1. Mirrors(Peer(t))
      BY <2>1, ThreadType, MirrorsForm DEF IndInv, Whole
    <3>2. \A u \in Threads : ~ReadsFrom(u, Peer(t))
      BY <1>2, <2>1, ThreadType, ReadsAlone DEF IndInv, ReadsFrom, WriteChars, At
    <3> QED
      BY <3>1, <3>2 DEF Mirrors
  <2>5. Whole' = Whole /\ Content' = [Content EXCEPT ![Peer(t)] = @ + call[t].n]
    <3>1. Whole' = Whole
      BY <1>2 DEF WriteChars, Whole
    <3>2. \A f \in Fds : buffCnter'[f] = IF f = Peer(t) THEN buffCnter[f] + call[t].n
                                         ELSE buffCnter[f]
      BY <1>2 DEF WriteChars, TypeOK
    <3> QED
      BY <2>1, <3>1, <3>2 DEF Content
  <2>6. Content[Peer(t)] + call[t].n <= QueueCap
    BY <1>2, <2>1, <2>4, ThreadType DEF WriteChars, Content
  <2> QED
    BY <2>1, <2>3, <2>5, <2>6 DEF P!Put, P!Finish, Peer, Fd
<1>3. CASE LockForWrite(t) \/ NotifyReaders(t)
  <2>1. UNCHANGED <<open, buffCnter>>
    BY <1>3 DEF LockForWrite, NotifyReaders, kernelVars
  <2>2. \/ pc[t] \in Effected /\ pc'[t] \in Effected
        \/ pc[t] \notin Effected /\ pc'[t] \notin Effected /\ call'[t] = call[t]
    BY <1>3 DEF LockForWrite, NotifyReaders, Effected, At, Goto, Return, TypeOK
  <2> QED
    BY <2>1, <2>2, StaysUnseen
<1>4. CASE WriteBadFd(t)
  <2>1. UNCHANGED <<open, buffCnter>> /\ Fd(t) \notin Whole
    BY <1>4 DEF WriteBadFd, kernelVars, Whole
  <2>2. pc[t] \notin Effected /\ pc'[t] \in Effected
    BY <1>4 DEF WriteBadFd, Effected, At, Goto, TypeOK
  <2> QED
    BY <2>1, <2>2, GivesUp
<1>5. CASE WriteBrokenPipe(t)
  BY <1>5 DEF WriteBrokenPipe, kernelVars, Unseen, Doing, Content, Whole
<1> QED
  BY <1>2, <1>3, <1>4, <1>5 DEF WriteStep

LEMMA ReadImplements ==
    ASSUME IndInv, CallOps, NEW t \in Threads, ReadStep(t)
    PROVE  P!Take(t) \/ P!GiveUp(t) \/ Unseen
<1>1. TypeOK /\ GotWhileReading /\ Acts(t)
  BY DEF IndInv, Acts
<1> USE <1>1
<1>2. /\ got[t] \in Nat /\ queue[Fd(t)] \in Nat
      /\ call[t].n \in Nat /\ call[t].min \in Nat /\ call[t].min <= call[t].n
  BY ThreadType, CallsAssumption DEF TypeOK, NoCall
<1>3. Fd(t) \in Whole => {Fd(t), Peer(t)} \subseteq open
  BY DEF Whole, Peer, Fd
<1>4. CASE ReadEnough(t)
  <2>1. At(t, "r_read") /\ AfterRead(t, got[t] + Avail(t))
    BY <1>4 DEF ReadEnough
  <2>2. Avail(t) \in Nat /\ Avail(t) <= queue[Fd(t)]
    BY AvailType
  <2>3. got[t] + Avail(t) \in call[t].min .. call[t].n
    <3>1. got[t] <= call[t].n
      BY <1>2 DEF GotWhileReading
    <3> QED
      BY <1>2, <1>4, <2>2, <3>1 DEF ReadEnough, Avail
  <2>4. Fd(t) \in Whole => got[t] + Avail(t) <= buffCnter[Fd(t)]
    BY <1>2, <2>1, <2>2, ReaderCounts
  <2>5. got[t] + Avail(t) \in Int
    BY <1>2, <2>2
  <2> QED
    BY <2>1, <2>3, <2>4, <2>5, ReadReturns
<1>5. CASE ReadNothing(t)
  <2>1. At(t, "r_read") /\ AfterRead(t, 0)
    BY <1>5 DEF ReadNothing
  <2>2. 0 \in call[t].min .. call[t].n
    BY <1>2, <1>5 DEF ReadNothing
  <2>3. Fd(t) \in Whole => 0 <= buffCnter[Fd(t)]
    BY <1>2, <2>1, ReaderCounts
  <2> QED
    BY <2>1, <2>2, <2>3, ReadReturns
<1>6. CASE ReadEof(t) \/ ReadReset(t) \/ ReadBadFd(t)
  <2>1. At(t, "r_read")
    BY <1>6 DEF ReadEof, ReadReset, ReadBadFd
  <2>2. PICK ret \in Int : AfterRead(t, ret)
    BY <1>2, <1>6 DEF ReadEof, ReadReset, ReadBadFd
  <2>3. Fd(t) \notin Whole
    BY <1>3, <1>6, ThreadType
       DEF ReadEof, ReadReset, ReadBadFd, IndInv, ClosedBeforeTold, Peer, Fd
  <2> QED
    BY <2>1, <2>2, <2>3, ReadReturns
<1>7. CASE ReadOrWait(t) \/ ReaderWoken(t) \/ ReadPart(t) \/ NotifyDrainers(t)
  <2>1. UNCHANGED <<open, buffCnter>>
    BY <1>7 DEF ReadOrWait, ReaderWoken, ReadPart, NotifyDrainers, kernelVars
  <2>2. \/ pc[t] \in Effected /\ pc'[t] \in Effected
        \/ pc[t] \notin Effected /\ pc'[t] \notin Effected /\ call'[t] = call[t]
    BY <1>7 DEF ReadOrWait, ReaderWoken, ReadPart, NotifyDrainers, Effected, At, Goto,
                Return, TypeOK
  <2> QED
    BY <2>1, <2>2, StaysUnseen
<1> QED
  BY <1>4, <1>5, <1>6, <1>7 DEF ReadStep

LEMMA DrainImplements ==
    ASSUME IndInv, CallOps, NEW t \in Threads, DrainStep(t)
    PROVE  P!GiveUp(t) \/ Unseen
<1>1. TypeOK /\ Acts(t)
  BY DEF IndInv, Acts
<1>2. UNCHANGED <<open, buffCnter>>
  BY DEF DrainStep, DrainOrWait, DrainerWoken, kernelVars
<1>3. /\ pc[t] \notin Effected /\ call[t].op = "drain"
      /\ \/ pc'[t] \in Effected
         \/ pc'[t] \notin Effected /\ call'[t] = call[t]
  BY <1>1 DEF DrainStep, DrainOrWait, DrainerWoken, Effected, At, Goto, Return, TypeOK,
              CallOps
<1> QED
  BY <1>1, <1>2, <1>3, StaysUnseen, GivesUp

LEMMA CloseImplements ==
    ASSUME IndInv, CallOps, NEW t \in Threads, CloseStep(t)
    PROVE  P!Break(t) \/ P!GiveUp(t) \/ Unseen
<1>1. TypeOK /\ Acts(t)
  BY DEF IndInv, Acts
<1> USE <1>1
<1>2. CASE CloseFd(t)
  <2>1. Doing' = Doing /\ Doing[t] = call[t] /\ call[t].op = "close"
    <3>1. pc[t] \notin Effected /\ pc'[t] \notin Effected /\ call' = call
      BY <1>2 DEF CloseFd, Effected, At, Goto, TypeOK
    <3>2. call[t].op = "close"
      BY <1>2 DEF CloseFd, At, CallOps
    <3> QED
      BY <3>1, <3>2, DoingMoves DEF Doing, Effected
  <2>2. open' = open \ {Fd(t)}
    BY <1>2 DEF CloseFd
  <2>3. \A f \in Fds : f # Fd(t) => buffCnter'[f] = buffCnter[f]
    BY <1>2 DEF CloseFd, TypeOK
  <2>4. \A f \in Fds : PeerOf[f] \in Fds /\ PeerOf[PeerOf[f]] = f
    BY FdsAssumption
  <2>5. Fd(t) \in Fds
    BY ThreadType
  <2>6. CASE Fd(t) \in Whole
    <3>1. Whole' = Whole \ {Fd(t), Peer(t)}
      BY <2>2, <2>4, <2>5 DEF Whole, Peer, Fd
    <3>2. Content' = [f \in Fds |-> IF f \in {Fd(t), Peer(t)} THEN 0 ELSE Content[f]]
      BY <2>3, <3>1 DEF Content
    <3> QED
      BY <2>1, <2>6, <3>1, <3>2 DEF P!Break, Peer, Fd
  <2>7. CASE Fd(t) \notin Whole
    <3>1. Whole' = Whole
      BY <2>2, <2>4, <2>5, <2>7 DEF Whole
    <3>2. Content' = Content
      BY <2>3, <2>7, <3>1 DEF Content
    <3> QED
      BY <2>1, <3>1, <3>2 DEF Unseen
  <2> QED
    BY <2>6, <2>7
<1>3. CASE \/ CloseWakeDrainers(t) \/ CloseWakeReaders(t) \/ CloseUnpair(t)
           \/ CloseForget(t)
  <2>1. UNCHANGED <<open, buffCnter>>
    BY <1>3 DEF CloseWakeDrainers, CloseWakeReaders, CloseUnpair, CloseForget, kernelVars
  <2>2. pc[t] \notin Effected /\ pc'[t] \notin Effected /\ call'[t] = call[t]
    BY <1>3 DEF CloseWakeDrainers, CloseWakeReaders, CloseUnpair, CloseForget, Effected,
                At, Goto, TypeOK
  <2> QED
    BY <2>1, <2>2, StaysUnseen
<1>4. CASE CloseDelete(t)
  <2>1. UNCHANGED <<open, buffCnter>> /\ call[t].op = "close"
    BY <1>4 DEF CloseDelete, kernelVars, At, CallOps
  <2>2. pc[t] \notin Effected /\ pc'[t] \in Effected
    BY <1>4 DEF CloseDelete, Effected, At, Return, TypeOK
  <2> QED
    BY <2>1, <2>2, GivesUp
<1> QED
  BY <1>2, <1>3, <1>4 DEF CloseStep

LEMMA StartImplements ==
    ASSUME TypeOK, NEW t \in Threads, NEW c \in Calls[t], Start(t, c)
    PROVE  P!Invoke(t) \/ Unseen
<1>1. Acts(t)
  BY DEF Acts
<1>2. CASE MyWriteUnpaired(t, c)
  BY <1>2 DEF MyWriteUnpaired, kernelVars, Unseen, Doing, Content, Whole
<1>3. ASSUME NEW s \in Statements \ Effected, Begin(t, c, s)
      PROVE  P!Invoke(t)
  <2>1. UNCHANGED <<open, buffCnter>> /\ pc[t] = "idle" /\ pc'[t] = s /\ call'[t] = c
    BY <1>3 DEF Begin, kernelVars, At, TypeOK
  <2>2. Content' = Content /\ Whole' = Whole
    BY <2>1, ContentKept
  <2>3. Doing[t] = NoCall /\ Doing' = [Doing EXCEPT ![t] = c]
    BY <1>1, <1>3, <2>1, DoingMoves DEF Doing, Effected
  <2> QED
    BY <2>2, <2>3 DEF P!Invoke
<1>4. {"w_lock", "r_lock", "d_lock", "c_lock"} \subseteq Statements \ Effected
  BY DEF Statements, Effected
<1> QED
  BY <1>2, <1>3, <1>4 DEF Start, MyWrite, MyReadcond, MyTcdrain, MyClose

(* A step of MyIO is a step of Pipe, or one that Pipe does not see.         *)
LEMMA StepImplements ==
    ASSUME IndInv, CallOps, [Next]_vars
    PROVE  [P!PipeNext]_(P!pipeVars)
<1>1. CASE UNCHANGED vars
  BY <1>1 DEF vars, P!pipeVars, Doing, Content, Whole
<1>2. CASE Next
  <2>1. PICK t \in Threads : Acts(t)
    BY <1>2, NextCases
  <2>2. CASE UseAfterFree(t) \/ Wake(t)
    <3>1. UNCHANGED <<pc, call, open, buffCnter>>
      BY <2>2 DEF UseAfterFree, Wake, SpuriousWakeup, kernelVars
    <3>2. Unseen
      BY <3>1 DEF Unseen, Doing, Content, Whole
    <3> QED
      BY <3>2 DEF P!pipeVars, Unseen
  <2>3. P!Invoke(t) \/ P!Put(t) \/ P!Take(t) \/ P!Break(t) \/ P!GiveUp(t) => P!PipeNext
    BY DEF P!PipeNext
  <2>4. Unseen => UNCHANGED P!pipeVars
    BY DEF P!pipeVars, Unseen
  <2>5. CASE \E c \in Calls[t] : Start(t, c)
    <3>1. TypeOK
      BY DEF IndInv
    <3> QED
      BY <2>3, <2>4, <2>5, <3>1, StartImplements
  <2>6. CASE WriteStep(t)
    BY <2>3, <2>4, <2>6, WriteImplements
  <2>7. CASE ReadStep(t)
    BY <2>3, <2>4, <2>7, ReadImplements
  <2>8. CASE DrainStep(t)
    BY <2>3, <2>4, <2>8, DrainImplements
  <2>9. CASE CloseStep(t)
    BY <2>3, <2>4, <2>9, CloseImplements
  <2> QED
    BY <2>1, <2>2, <2>5, <2>6, <2>7, <2>8, <2>9 DEF Acts
<1> QED
  BY <1>1, <1>2

LEMMA InitImplements == Init => P!PipeInit
<1> SUFFICES ASSUME Init PROVE P!PipeInit
  OBVIOUS
<1>1. Whole = Fds
  BY FdsAssumption DEF Init, Whole
<1>2. Content = [f \in Fds |-> 0]
  BY <1>1 DEF Init, Content
<1>3. Doing = [t \in Threads |-> NoCall]
  BY DEF Init, Doing
<1> QED
  BY <1>1, <1>2, <1>3 DEF P!PipeInit

(* Whatever the threads do on the two ends, and whenever they are           *)
(* interrupted between a kernel call, its bookkeeping and its               *)
(* notifications, the layer's characters behave like those of Pipe:         *)
(* myWrite, myReadcond and myClose (myIO.cpp:222-240, 254-263, 284-331)     *)
(* take effect at one moment each.                                          *)
THEOREM PipeRefined == Spec => ImplementsPipe
<1>1. Init => CallOps
  BY DEF Init, CallOps
<1>2. IndInv /\ CallOps /\ [Next]_vars => CallOps'
  BY CallOpsStep DEF IndInv
<1>3. IndInv /\ CallOps /\ [Next]_vars => [P!PipeNext]_(P!pipeVars)
  BY StepImplements
<1> QED
  BY <1>1, <1>2, <1>3, InitImplements, Inductive, PTL
     DEF Spec, ImplementsPipe, P!PipeSpec
=============================================================================
