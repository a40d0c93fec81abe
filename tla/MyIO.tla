------------------------------- MODULE MyIO -------------------------------
(***************************************************************************)
(* The synchronised descriptor layer of src/Ensc351Part2/src/myIO.cpp:     *)
(* several threads call myWrite, myReadcond (myRead is myReadcond with     *)
(* min = 1), myTcdrain and myClose on the two ends of socket pairs.        *)
(*                                                                         *)
(* One thread executes one call at a time and pc[t] is the statement it is *)
(* about to execute; a step runs up to the next point where another thread *)
(* can interfere (a mutex, a condition variable, an access to the shared   *)
(* table or to an object outside of the object's mutex).  Characters are   *)
(* counted, not named.  A condition variable is the set of the threads     *)
(* asleep on it: a thread out of the set has been woken and has still to   *)
(* take the mutex back.                                                    *)
(***************************************************************************)
EXTENDS Integers

CONSTANTS
    Threads,          \* the threads of the process
    Fds,              \* the descriptors of the socket pairs
    PeerOf,           \* the other end of the pair, for each descriptor
    Calls,            \* the calls that each thread may make, in any order
    QueueCap,         \* characters that the kernel buffers for a descriptor
    SpuriousWakeups   \* whether condition_variable::wait may return unasked

Ops == {"none", "write", "read", "drain", "close"}
Call == [op : Ops, fd : Fds, n : Nat, min : Nat]

ASSUME FdsAssumption ==
    /\ Fds \subseteq Nat /\ Fds # {}
    /\ PeerOf \in [Fds -> Fds]
    /\ \A f \in Fds : PeerOf[f] # f /\ PeerOf[PeerOf[f]] = f

ASSUME CallsAssumption ==
    /\ QueueCap \in Nat
    /\ SpuriousWakeups \in BOOLEAN
    /\ Calls \in [Threads -> SUBSET Call]
    /\ \A t \in Threads : \A c \in Calls[t] :
          /\ c.op = "write" => c.n \in 1 .. QueueCap
          /\ c.op = "read"  => c.n > 0
          /\ c.min <= c.n

VARIABLES
    sockList,    \* the descriptors whose entry of sockList is not null
    pairedFd,    \* sockInfo::pairedFd, -1 once the other end was closed
    buffCnter,   \* sockInfo::buffCnter
    buffMut,     \* sockInfo::buffMut: the set of its holders
    cvW,         \* sockInfo::cvW: the threads asleep on it
    cvR,         \* sockInfo::cvR: the threads asleep on it
    deleted,     \* the descriptors whose sockInfo was deleted
    queue,       \* kernel: characters waiting to be read from a descriptor
    open,        \* kernel: the descriptors that are open
    sockErr,     \* kernel: the descriptors with a pending ECONNRESET
    status,      \* "running", "sigpipe" (killed), "undefined" (a freed object used)
    pc,          \* the statement each thread is about to execute
    call,        \* the call each thread is making
    got          \* wcsReadcond's bytesSoFar, for a thread inside it

sockVars   == <<sockList, pairedFd, deleted>>
kernelVars == <<queue, open, sockErr>>
vars == <<sockList, pairedFd, buffCnter, buffMut, cvW, cvR, deleted,
          queue, open, sockErr, status, pc, call, got>>

Statements == {"idle",
               "w_lock", "w_write", "w_notify",
               "r_lock", "r_wait", "r_read", "r_notify",
               "d_lock", "d_wait",
               "c_lock", "c_wakeW", "c_wakeR", "c_unpair", "c_null", "c_delete"}

Fd(t)     == call[t].fd
Peer(t)   == PeerOf[call[t].fd]
Free(f)   == buffMut[f] = {}
At(t, s)  == pc[t] = s

NoCall == [op |-> "none", fd |-> CHOOSE f \in Fds : TRUE, n |-> 0, min |-> 0]

Goto(t, s) == /\ pc' = [pc EXCEPT ![t] = s]
              /\ UNCHANGED call
Return(t)  == /\ pc' = [pc EXCEPT ![t] = "idle"]
              /\ call' = [call EXCEPT ![t] = NoCall]

(* getSockInfo(sock->pairedFd) is not null: the table is read without       *)
(* vectorMut, and -1 or an emptied entry gives null.                        *)
Paired(f) == pairedFd[f] # -1 /\ PeerOf[f] \in sockList

Init ==
    /\ sockList = Fds
    /\ pairedFd = PeerOf
    /\ buffCnter = [f \in Fds |-> 0]
    /\ buffMut = [f \in Fds |-> {}]
    /\ cvW = [f \in Fds |-> {}]
    /\ cvR = [f \in Fds |-> {}]
    /\ deleted = {}
    /\ queue = [f \in Fds |-> 0]
    /\ open = Fds
    /\ sockErr = {}
    /\ status = "running"
    /\ pc = [t \in Threads |-> "idle"]
    /\ call = [t \in Threads |-> NoCall]
    /\ got = [t \in Threads |-> 0]

-----------------------------------------------------------------------------
(* Entering a call: the descriptor is looked up in sockList.  A call on a   *)
(* descriptor without an entry reaches the kernel with a closed descriptor  *)
(* and returns -1 (drain: 0) without touching any of this state.            *)

Begin(t, c, s) ==
    /\ status = "running"
    /\ At(t, "idle")
    /\ c.fd \in sockList
    /\ call' = [call EXCEPT ![t] = c]
    /\ pc' = [pc EXCEPT ![t] = s]
    /\ UNCHANGED <<sockVars, buffCnter, buffMut, cvW, cvR, kernelVars, status, got>>

MyWrite(t, c)   == c.op = "write" /\ Paired(c.fd) /\ Begin(t, c, "w_lock")
MyReadcond(t, c) == c.op = "read" /\ Begin(t, c, "r_lock")
MyTcdrain(t, c) == c.op = "drain" /\ Begin(t, c, "d_lock")
MyClose(t, c)   == c.op = "close" /\ Begin(t, c, "c_lock")

(* The paired entry is null: a plain write(), with the other end closed     *)
(* (UnpairedIsClosed), which raises SIGPIPE.                                *)
MyWriteUnpaired(t, c) ==
    /\ status = "running"
    /\ At(t, "idle")
    /\ c.op = "write"
    /\ c.fd \in sockList /\ ~Paired(c.fd)
    /\ c.fd \in open
    /\ PeerOf[c.fd] \notin open
    /\ status' = "sigpipe"
    /\ UNCHANGED <<sockVars, buffCnter, buffMut, cvW, cvR, kernelVars, pc, call, got>>

-----------------------------------------------------------------------------
(* myWrite: the mutex is that of the paired object.                         *)

LockForWriteOwn(t) ==        \* locks the object of the descriptor it writes on
    /\ At(t, "w_lock")
    /\ Free(Fd(t))
    /\ buffMut' = [buffMut EXCEPT ![Fd(t)] = {t}]
    /\ Goto(t, "w_write")
    /\ UNCHANGED <<sockVars, buffCnter, cvW, cvR, kernelVars, status, got>>

LockForWrite(t) ==
    /\ At(t, "w_lock")
    /\ Free(Peer(t))
    /\ buffMut' = [buffMut EXCEPT ![Peer(t)] = {t}]
    /\ Goto(t, "w_write")
    /\ UNCHANGED <<sockVars, buffCnter, cvW, cvR, kernelVars, status, got>>

WriteCharsOver(t) ==         \* the counter is set, not added to
    /\ At(t, "w_write")
    /\ {Fd(t), Peer(t)} \subseteq open
    /\ queue[Peer(t)] + call[t].n <= QueueCap
    /\ queue' = [queue EXCEPT ![Peer(t)] = @ + call[t].n]
    /\ buffCnter' = [buffCnter EXCEPT ![Peer(t)] = call[t].n]
    /\ buffMut' = [buffMut EXCEPT ![Peer(t)] = {}]
    /\ Goto(t, "w_notify")
    /\ UNCHANGED <<sockVars, cvW, cvR, open, sockErr, status, got>>

(* write() puts all the characters in the buffer of the other end, or       *)
(* blocks, with the mutex held, until they fit.                             *)
WriteChars(t) ==
    /\ At(t, "w_write")
    /\ {Fd(t), Peer(t)} \subseteq open
    /\ queue[Peer(t)] + call[t].n <= QueueCap
    /\ queue' = [queue EXCEPT ![Peer(t)] = @ + call[t].n]
    /\ buffCnter' = [buffCnter EXCEPT ![Peer(t)] = @ + call[t].n]
    /\ buffMut' = [buffMut EXCEPT ![Peer(t)] = {}]
    /\ Goto(t, "w_notify")
    /\ UNCHANGED <<sockVars, cvW, cvR, open, sockErr, status, got>>

WriteBadFd(t) ==
    /\ At(t, "w_write")
    /\ Fd(t) \notin open
    /\ buffMut' = [buffMut EXCEPT ![Peer(t)] = {}]
    /\ Goto(t, "w_notify")
    /\ UNCHANGED <<sockVars, buffCnter, cvW, cvR, kernelVars, status, got>>

WriteBrokenPipe(t) ==
    /\ At(t, "w_write")
    /\ Fd(t) \in open /\ Peer(t) \notin open
    /\ status' = "sigpipe"
    /\ UNCHANGED <<sockVars, buffCnter, buffMut, cvW, cvR, kernelVars, pc, call, got>>

NotifyOneReader(t) ==        \* notify_one() for notify_all()
    /\ At(t, "w_notify")
    /\ \/ cvR[Peer(t)] = {} /\ UNCHANGED cvR
       \/ \E r \in cvR[Peer(t)] : cvR' = [cvR EXCEPT ![Peer(t)] = @ \ {r}]
    /\ Return(t)
    /\ UNCHANGED <<sockVars, buffCnter, buffMut, cvW, kernelVars, status, got>>

NotifyNoReader(t) ==         \* no notification
    /\ At(t, "w_notify")
    /\ Return(t)
    /\ UNCHANGED <<sockVars, buffCnter, buffMut, cvW, cvR, kernelVars, status, got>>

(* cvR.notify_all(), after the mutex was released.                          *)
NotifyReaders(t) ==
    /\ At(t, "w_notify")
    /\ cvR' = [cvR EXCEPT ![Peer(t)] = {}]
    /\ Return(t)
    /\ UNCHANGED <<sockVars, buffCnter, buffMut, cvW, kernelVars, status, got>>

-----------------------------------------------------------------------------
(* myReadcond.                                                              *)

ReadOrWait(t) ==
    /\ At(t, "r_lock")
    /\ Free(Fd(t))
    /\ \/ /\ buffCnter[Fd(t)] = 0
          /\ cvR' = [cvR EXCEPT ![Fd(t)] = @ \cup {t}]
          /\ Goto(t, "r_wait")
          /\ UNCHANGED buffMut
       \/ /\ buffCnter[Fd(t)] # 0
          /\ buffMut' = [buffMut EXCEPT ![Fd(t)] = {t}]
          /\ Goto(t, "r_read")
          /\ UNCHANGED cvR
    /\ UNCHANGED <<sockVars, buffCnter, cvW, kernelVars, status, got>>

ReaderWokenUnlocked(t) ==    \* goes on without the mutex being free
    /\ At(t, "r_wait")
    /\ t \notin cvR[Fd(t)]
    /\ buffMut' = [buffMut EXCEPT ![Fd(t)] = {t}]
    /\ Goto(t, "r_read")
    /\ UNCHANGED <<sockVars, buffCnter, cvW, cvR, kernelVars, status, got>>

(* wait() returns with the mutex; buffCnter is not looked at again.         *)
ReaderWoken(t) ==
    /\ At(t, "r_wait")
    /\ t \notin cvR[Fd(t)]
    /\ Free(Fd(t))
    /\ buffMut' = [buffMut EXCEPT ![Fd(t)] = {t}]
    /\ Goto(t, "r_read")
    /\ UNCHANGED <<sockVars, buffCnter, cvW, cvR, kernelVars, status, got>>

AfterReadUnlocking(t, ret) ==   \* the mutex is released before the drainers are notified
    /\ buffCnter' = [buffCnter EXCEPT ![Fd(t)] = @ - ret]
    /\ got' = [got EXCEPT ![t] = 0]
    /\ buffMut' = [buffMut EXCEPT ![Fd(t)] = {}]
    /\ IF buffCnter[Fd(t)] = ret /\ Paired(Fd(t)) THEN Goto(t, "r_notify") ELSE Return(t)
    /\ UNCHANGED <<sockVars, cvW, cvR, open, status>>

(* After wcsReadcond returned ret: the counter goes down by ret (up by one  *)
(* when ret is -1).  At zero the threads draining the other end are woken,  *)
(* with the mutex still held; otherwise one more reader is, if there is one.*)
AfterRead(t, ret) ==
    /\ buffCnter' = [buffCnter EXCEPT ![Fd(t)] = @ - ret]
    /\ got' = [got EXCEPT ![t] = 0]
    /\ \/ /\ buffCnter[Fd(t)] = ret
          /\ Paired(Fd(t))
          /\ Goto(t, "r_notify")
          /\ UNCHANGED <<buffMut, cvR>>
       \/ /\ buffCnter[Fd(t)] = ret
          /\ ~Paired(Fd(t))
          /\ buffMut' = [buffMut EXCEPT ![Fd(t)] = {}]
          /\ Return(t)
          /\ UNCHANGED cvR
       \/ /\ buffCnter[Fd(t)] # ret
          /\ \/ cvR[Fd(t)] = {} /\ UNCHANGED cvR
             \/ \E r \in cvR[Fd(t)] : cvR' = [cvR EXCEPT ![Fd(t)] = @ \ {r}]
          /\ buffMut' = [buffMut EXCEPT ![Fd(t)] = {}]
          /\ Return(t)
    /\ UNCHANGED <<sockVars, cvW, open, status>>

AvailAssumed(t) == call[t].n - got[t]    \* takes for granted that all of it is there

(* The characters read() can take now.                                      *)
Avail(t) ==
    LET room == call[t].n - got[t]
    IN  IF queue[Fd(t)] < room THEN queue[Fd(t)] ELSE room

(* wcsReadcond takes what the kernel has, at most n, and returns once it    *)
(* has min characters ...                                                   *)
ReadEnough(t) ==
    /\ At(t, "r_read")
    /\ Fd(t) \in open
    /\ queue[Fd(t)] > 0
    /\ got[t] + Avail(t) >= call[t].min
    /\ queue' = [queue EXCEPT ![Fd(t)] = @ - Avail(t)]
    /\ AfterRead(t, got[t] + Avail(t))
    /\ UNCHANGED sockErr

(* ... until then it blocks in read(), with the mutex held.                 *)
ReadPart(t) ==
    /\ At(t, "r_read")
    /\ Fd(t) \in open
    /\ queue[Fd(t)] > 0
    /\ got[t] + Avail(t) < call[t].min
    /\ queue' = [queue EXCEPT ![Fd(t)] = @ - Avail(t)]
    /\ got' = [got EXCEPT ![t] = @ + Avail(t)]
    /\ UNCHANGED <<sockVars, buffCnter, buffMut, cvW, cvR, open, sockErr,
                   status, pc, call>>

(* min = 0: the non-blocking read() fails with EAGAIN.                      *)
ReadNothing(t) ==
    /\ At(t, "r_read")
    /\ {Fd(t), Peer(t)} \subseteq open
    /\ queue[Fd(t)] = 0
    /\ call[t].min = 0
    /\ AfterRead(t, 0)
    /\ UNCHANGED <<queue, sockErr>>

(* The other end is closed and everything was read.                         *)
ReadEof(t) ==
    /\ At(t, "r_read")
    /\ Fd(t) \in open /\ Peer(t) \notin open
    /\ queue[Fd(t)] = 0
    /\ Fd(t) \notin sockErr
    /\ AfterRead(t, got[t])
    /\ UNCHANGED <<queue, sockErr>>

(* The other end was closed with unread characters: ECONNRESET, once; a     *)
(* read() that already has characters returns them instead.                 *)
ReadReset(t) ==
    /\ At(t, "r_read")
    /\ Fd(t) \in open /\ Fd(t) \in sockErr
    /\ queue[Fd(t)] = 0
    /\ AfterRead(t, IF got[t] = 0 THEN -1 ELSE got[t])
    /\ sockErr' = sockErr \ {Fd(t)}
    /\ UNCHANGED queue

ReadBadFd(t) ==
    /\ At(t, "r_read")
    /\ Fd(t) \notin open
    /\ AfterRead(t, -1)
    /\ UNCHANGED <<queue, sockErr>>

NotifyDrainers(t) ==
    /\ At(t, "r_notify")
    /\ cvW' = [cvW EXCEPT ![Peer(t)] = {}]
    /\ buffMut' = [buffMut EXCEPT ![Fd(t)] = {}]
    /\ Return(t)
    /\ UNCHANGED <<sockVars, buffCnter, cvR, kernelVars, status, got>>

-----------------------------------------------------------------------------
(* myTcdrain: it looks at the counter of its own descriptor.                *)

DrainOrWait(t) ==
    /\ At(t, "d_lock")
    /\ Free(Fd(t))
    /\ \/ /\ buffCnter[Fd(t)] # 0
          /\ cvW' = [cvW EXCEPT ![Fd(t)] = @ \cup {t}]
          /\ Goto(t, "d_wait")
       \/ /\ buffCnter[Fd(t)] = 0
          /\ Return(t)
          /\ UNCHANGED cvW
    /\ UNCHANGED <<sockVars, buffCnter, buffMut, cvR, kernelVars, status, got>>

DrainerWoken(t) ==
    /\ At(t, "d_wait")
    /\ t \notin cvW[Fd(t)]
    /\ Free(Fd(t))
    /\ Return(t)
    /\ UNCHANGED <<sockVars, buffCnter, buffMut, cvW, cvR, kernelVars, status, got>>

-----------------------------------------------------------------------------
(* myClose.  close() discards what the descriptor had not read, and the     *)
(* other end is then told by an ECONNRESET.                                 *)

CloseFdFailing(t) ==         \* close() does not close, and its result is ignored
    /\ At(t, "c_lock")
    /\ Free(Fd(t))
    /\ buffCnter' = [buffCnter EXCEPT ![Fd(t)] = 0]
    /\ Goto(t, "c_wakeW")
    /\ UNCHANGED <<sockVars, buffMut, cvW, cvR, kernelVars, status, got>>

CloseFd(t) ==
    /\ At(t, "c_lock")
    /\ Free(Fd(t))
    /\ open' = open \ {Fd(t)}
    /\ queue' = [queue EXCEPT ![Fd(t)] = 0]
    /\ sockErr' = IF Peer(t) \in open /\ queue[Fd(t)] > 0
                  THEN (sockErr \cup {Peer(t)}) \ {Fd(t)}
                  ELSE sockErr \ {Fd(t)}
    /\ buffCnter' = [buffCnter EXCEPT ![Fd(t)] = 0]
    /\ Goto(t, "c_wakeW")
    /\ UNCHANGED <<sockVars, buffMut, cvW, cvR, status, got>>

CloseWakeDrainers(t) ==
    /\ At(t, "c_wakeW")
    /\ cvW' = [cvW EXCEPT ![Fd(t)] = {}]
    /\ Goto(t, "c_wakeR")
    /\ UNCHANGED <<sockVars, buffCnter, buffMut, cvR, kernelVars, status, got>>

CloseWakeNoReader(t) ==      \* no notification of the readers
    /\ At(t, "c_wakeR")
    /\ Goto(t, IF Paired(Fd(t)) THEN "c_unpair" ELSE "c_null")
    /\ UNCHANGED <<sockVars, buffCnter, buffMut, cvW, cvR, kernelVars, status, got>>

CloseWakeReaders(t) ==
    /\ At(t, "c_wakeR")
    /\ cvR' = [cvR EXCEPT ![Fd(t)] = {}]
    /\ Goto(t, IF Paired(Fd(t)) THEN "c_unpair" ELSE "c_null")
    /\ UNCHANGED <<sockVars, buffCnter, buffMut, cvW, kernelVars, status, got>>

CloseUnpair(t) ==
    /\ At(t, "c_unpair")
    /\ pairedFd' = [pairedFd EXCEPT ![Peer(t)] = -1]
    /\ Goto(t, "c_null")
    /\ UNCHANGED <<sockList, deleted, buffCnter, buffMut, cvW, cvR, kernelVars,
                   status, got>>

CloseForget(t) ==
    /\ At(t, "c_null")
    /\ sockList' = sockList \ {Fd(t)}
    /\ Goto(t, "c_delete")
    /\ UNCHANGED <<pairedFd, deleted, buffCnter, buffMut, cvW, cvR, kernelVars,
                   status, got>>

CloseDelete(t) ==
    /\ At(t, "c_delete")
    /\ deleted' = deleted \cup {Fd(t)}
    /\ Return(t)
    /\ UNCHANGED <<sockList, pairedFd, buffCnter, buffMut, cvW, cvR, kernelVars,
                   status, got>>

-----------------------------------------------------------------------------
(* The sockInfo objects that the next statement of t uses.                  *)
Uses(t) ==
    CASE pc[t] = "idle" -> {}
      [] pc[t] \in {"w_lock", "w_write", "w_notify"} -> {Peer(t)}
      [] pc[t] \in {"r_notify", "c_unpair"} -> {Fd(t), Peer(t)}
      [] OTHER -> {Fd(t)}

Asleep(t) == t \in cvR[Fd(t)] \cup cvW[Fd(t)]

(* A thread that uses an object another thread has deleted: whatever the    *)
(* build then does is outside of the model.                                 *)
UseAfterFree(t) ==
    /\ ~Asleep(t)
    /\ Uses(t) \cap deleted # {}
    /\ status' = "undefined"
    /\ UNCHANGED <<sockVars, buffCnter, buffMut, cvW, cvR, kernelVars, pc, call, got>>

SpuriousWakeup(t) ==
    /\ SpuriousWakeups
    /\ Asleep(t)
    /\ cvR' = [cvR EXCEPT ![Fd(t)] = @ \ {t}]
    /\ cvW' = [cvW EXCEPT ![Fd(t)] = @ \ {t}]
    /\ UNCHANGED <<sockVars, buffCnter, buffMut, kernelVars, status, pc, call, got>>

WriteStep(t) == \/ LockForWrite(t) \/ WriteChars(t) \/ WriteBadFd(t)
                \/ WriteBrokenPipe(t) \/ NotifyReaders(t)
ReadStep(t)  == \/ ReadOrWait(t) \/ ReaderWoken(t) \/ ReadEnough(t) \/ ReadPart(t)
                \/ ReadNothing(t) \/ ReadEof(t) \/ ReadReset(t) \/ ReadBadFd(t)
                \/ NotifyDrainers(t)
DrainStep(t) == DrainOrWait(t) \/ DrainerWoken(t)
CloseStep(t) == \/ CloseFd(t) \/ CloseWakeDrainers(t) \/ CloseWakeReaders(t)
                \/ CloseUnpair(t) \/ CloseForget(t) \/ CloseDelete(t)

(* A step of the code of myIO.cpp by thread t.                              *)
Step(t) ==
    /\ status = "running"
    /\ \/ /\ Uses(t) \cap deleted = {}
          /\ WriteStep(t) \/ ReadStep(t) \/ DrainStep(t) \/ CloseStep(t)
       \/ UseAfterFree(t)

Start(t, c) == \/ MyWrite(t, c) \/ MyWriteUnpaired(t, c) \/ MyReadcond(t, c)
               \/ MyTcdrain(t, c) \/ MyClose(t, c)

Wake(t) == status = "running" /\ SpuriousWakeup(t)

Next == \E t \in Threads : \/ \E c \in Calls[t] : Start(t, c)
                           \/ Step(t)
                           \/ Wake(t)

Spec == Init /\ [][Next]_vars

-----------------------------------------------------------------------------
(* Invariants.                                                              *)

TypeOK ==
    /\ sockList \subseteq Fds /\ deleted \subseteq Fds
    /\ open \subseteq Fds /\ sockErr \subseteq Fds
    /\ pairedFd \in [Fds -> Fds \cup {-1}]
    /\ buffCnter \in [Fds -> Int]
    /\ queue \in [Fds -> Nat]
    /\ buffMut \in [Fds -> SUBSET Threads]
    /\ cvW \in [Fds -> SUBSET Threads]
    /\ cvR \in [Fds -> SUBSET Threads]
    /\ status \in {"running", "sigpipe", "undefined"}
    /\ pc \in [Threads -> Statements]
    /\ call \in [Threads -> Call]
    /\ \A t \in Threads : call[t] \in Calls[t] \cup {NoCall}
    /\ got \in [Threads -> Nat]

Holds(t, f) == \/ pc[t] = "w_write" /\ Peer(t) = f
               \/ pc[t] \in {"r_read", "r_notify"} /\ Fd(t) = f

(* buffMut excludes: the threads inside the critical section of a sockInfo  *)
(* are its recorded holders, and there is at most one, whatever reads,      *)
(* writes (which take the mutex of the other end), drains and closes        *)
(* interleave on the two ends (myIO.cpp:229, 256, 290, 328).                *)
MutexExcludes ==
    \A f \in Fds : /\ buffMut[f] = {t \in Threads : Holds(t, f)}
                   /\ \A t, u \in buffMut[f] : t = u

(* buffCnter counts "how many chars are inside the buffer at a given        *)
(* moment" (myIO.cpp:62): while both ends are open it is the number of      *)
(* characters in the kernel's buffer, plus those that the reader holding    *)
(* the mutex has already taken out.                                         *)
CounterMirrors ==
    \A f \in Fds : {f, PeerOf[f]} \subseteq open =>
        \/ \E t \in Threads : /\ pc[t] = "r_read" /\ Fd(t) = f
                              /\ buffCnter[f] = queue[f] + got[t]
        \/ /\ ~\E t \in Threads : pc[t] = "r_read" /\ Fd(t) = f
           /\ buffCnter[f] = queue[f]

(* No wakeup of a reader is lost although myWrite notifies after it has     *)
(* released the mutex (myIO.cpp:236-239): if a reader sleeps while there    *)
(* are characters, some myWrite has its notify_all() still to do.           *)
NoLostReadWakeup ==
    \A f \in Fds : \A t \in cvR[f] :
        {f, PeerOf[f]} \subseteq open /\ buffCnter[f] # 0 =>
            \E w \in Threads : pc[w] = "w_notify" /\ Peer(w) = f

(* myWrite and myReadcond read the table and pairedFd without vectorMut,    *)
(* while myClose resets them (myIO.cpp:227, 266, 346): whoever finds no     *)
(* paired object is right to conclude that the other end is closed.         *)
UnpairedIsClosed ==
    \A f \in Fds : f \in sockList /\ ~Paired(f) => PeerOf[f] \notin open

(* The parts that make the invariants inductive: bytesSoFar is kept only    *)
(* inside wcsReadcond and below min; ...                                    *)
GotWhileReading ==
    \A t \in Threads : got[t] # 0 => pc[t] = "r_read" /\ got[t] < call[t].min

(* ... only a thread in wait() sleeps on a condition variable, and on one;  *)
SleepersWait ==
    \A f \in Fds : /\ \A t \in cvR[f] : pc[t] = "r_wait" /\ Fd(t) = f
                   /\ \A t \in cvW[f] : pc[t] = "d_wait" /\ Fd(t) = f

(* myClose closes before it tells anyone, and a pending ECONNRESET comes    *)
(* from a closed end;                                                       *)
ClosedBeforeTold ==
    /\ \A t \in Threads : pc[t] \in {"c_wakeW", "c_wakeR", "c_unpair", "c_null",
                                     "c_delete"} => Fd(t) \notin open
    /\ \A f \in Fds : /\ pairedFd[f] # -1 \/ PeerOf[f] \notin open
                      /\ f \notin sockList => f \notin open
                      /\ f \in sockErr => PeerOf[f] \notin open

(* the drainers are notified by a thread that left nothing to read.         *)
NotifiesWhenEmpty ==
    \A t \in Threads : pc[t] = "r_notify" => buffCnter[Fd(t)] = 0

IndInv == /\ TypeOK /\ MutexExcludes /\ GotWhileReading /\ SleepersWait
          /\ ClosedBeforeTold /\ NotifiesWhenEmpty
          /\ CounterMirrors /\ NoLostReadWakeup

(* The code wakes the threads asleep in myTcdrain(f) when the other end has *)
(* nothing left to read, and at no other time (the scenario of              *)
(* myIO.cpp:339-344 wakes a thread although buffCnter # 0), or because f is *)
(* being closed.  (A spurious wakeup is not a statement: pc stays.)         *)
DrainersWokenWhenEmpty ==
    [][\A f \in Fds : pc' # pc /\ ~(cvW[f] \subseteq cvW'[f]) =>
           f \notin open \/ buffCnter[PeerOf[f]] = 0]_vars

(* No thread uses a sockInfo that was deleted (myIO.cpp:275).               *)
NoUseAfterFree == status # "undefined"

(* The layer does what Pipe promises, although a read takes its characters  *)
(* in parts, writes and reads of one end go through the mutex of the other, *)
(* and sleepers are woken late or unasked: buffCnter is the content, and a  *)
(* call has taken effect when only its notifications are left.              *)
Whole == {f \in Fds : {f, PeerOf[f]} \subseteq open}
Content == [f \in Fds |-> IF f \in Whole THEN buffCnter[f] ELSE 0]
Doing == [t \in Threads |-> IF pc[t] \in {"idle", "w_notify", "r_notify"}
                            THEN NoCall ELSE call[t]]

P == INSTANCE Pipe WITH content <- Content, whole <- Whole, doing <- Doing

ImplementsPipe == P!PipeSpec
=============================================================================
