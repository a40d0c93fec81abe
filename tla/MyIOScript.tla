----------------------------- MODULE MyIOScript -----------------------------
(***************************************************************************)
(* Clients of myIO.cpp that end: each thread makes the calls of its        *)
(* program one after the other (the shape of the threads of the test of    *)
(* the library, see Ensc351ProjectPart3.pdf, and of termFunc and           *)
(* mediumFunc).  A program is a sequence of sets of calls, one of which is *)
(* made at each place.                                                     *)
(***************************************************************************)
EXTENDS MyIO, Sequences

CONSTANTS
    Program,      \* the calls of each thread
    Selecting     \* the threads that call select() before each read

ASSUME ProgramAssumption ==
    /\ DOMAIN Program = Threads
    /\ \A t \in Threads : \A i \in DOMAIN Program[t] : Program[t][i] \subseteq Calls[t]
    /\ Selecting \subseteq Threads

VARIABLE ip       \* the place of each thread in its program

scriptVars == <<vars, ip>>

ScriptInit == Init /\ ip = [t \in Threads |-> 1]

(* A call that finds no entry, or a write on a closed descriptor without a  *)
(* paired entry, gets -1 from the kernel at once.                           *)
ReturnAtOnce(t, c) ==
    /\ status = "running"
    /\ pc[t] = "idle"
    /\ c.fd \in sockList => c.op = "write" /\ ~Paired(c.fd) /\ c.fd \notin open
    /\ UNCHANGED vars

(* select() reports a descriptor that a read() would not block on.          *)
Reported(f) == queue[f] > 0 \/ f \in sockErr \/ PeerOf[f] \notin open

ScriptStart(t) ==
    /\ ip[t] <= Len(Program[t])
    /\ \E c \in Program[t][ip[t]] :
          /\ t \in Selecting /\ c.op = "read" => Reported(c.fd)
          /\ Start(t, c) \/ ReturnAtOnce(t, c)
    /\ ip' = [ip EXCEPT ![t] = @ + 1]

Run(t) == ScriptStart(t) \/ (Step(t) /\ UNCHANGED ip)

ScriptNext == \E t \in Threads : Run(t) \/ (Wake(t) /\ UNCHANGED ip)

(* A thread that can take a step takes it eventually: the scheduler and the *)
(* mutexes, which only finitely many calls contend for.  Nothing is assumed *)
(* of spurious wakeups.                                                     *)
Fairness == \A t \in Threads : WF_scriptVars(Run(t))

ScriptSpec == ScriptInit /\ [][ScriptNext]_scriptVars /\ Fairness

Done(t) == pc[t] = "idle" /\ ip[t] = Len(Program[t]) + 1

(* Every thread finishes its program: no call hangs.                        *)
AllCallsReturn == <>(\A t \in Threads : Done(t))

(* "If myReadcond() is blocked waiting to read, and then the socket closes. *)
(* It will return with -1 (not hang)" (myIO.cpp:316): a reader that sleeps  *)
(* when myClose has closed the descriptor and not yet told the readers goes *)
(* on, unless the process is killed or uses a deleted object first.         *)
SleepsAtClose(t) ==
    /\ pc[t] = "r_wait"
    /\ \E u \in Threads : pc[u] \in {"c_wakeW", "c_wakeR"} /\ Fd(u) = Fd(t)

CloseReleasesSleepers ==
    \A t \in Threads :
        SleepsAtClose(t) ~> pc[t] # "r_wait" \/ status # "running"

(* A drain returns once what was written has been read: holding the mutex   *)
(* is meant to exclude that myTcdrain "misses notify_all() and now waits    *)
(* despite buffCnter==0" (myIO.cpp:287-289).                                *)
DrainReturns ==
    \A t \in Threads :
        pc[t] = "d_wait" /\ queue[Peer(t)] = 0 ~> pc[t] # "d_wait"

(* A read of min = 0 takes what there is and returns: the comments let it   *)
(* block only for characters below min (myIO.cpp:305-307), and the sender   *)
(* calls it in each block, to "get rid of any characters that may have      *)
(* arrived" (SenderX.cpp:59) while there should be none.                    *)
FlushReturns ==
    \A t \in Threads :
        pc[t] # "idle" /\ call[t].op = "read" /\ call[t].min = 0 ~> pc[t] = "idle"
=============================================================================
