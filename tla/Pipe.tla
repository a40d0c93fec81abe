-------------------------------- MODULE Pipe --------------------------------
(***************************************************************************)
(* What the layer of myIO.cpp promises about characters: between its call  *)
(* and its return a write takes effect at one moment and puts all of its   *)
(* characters, a read takes at one moment between min and n of those that  *)
(* are there, and only a close takes away what others have written.  The   *)
(* file transfer relies on this much (the queues of Xmodem).               *)
(***************************************************************************)
EXTENDS Integers

CONSTANTS Threads, Fds, PeerOf, Calls, QueueCap, NoCall

VARIABLES
    content,     \* the characters that wait at each descriptor
    whole,       \* the descriptors of pairs of which neither end was closed
    doing        \* the call of each thread, until it has taken effect

pipeVars == <<content, whole, doing>>

PipeInit ==
    /\ content = [f \in Fds |-> 0]
    /\ whole = Fds
    /\ doing = [t \in Threads |-> NoCall]

Finish(t) == doing' = [doing EXCEPT ![t] = NoCall]

Invoke(t) ==
    /\ doing[t] = NoCall
    /\ \E c \in Calls[t] : doing' = [doing EXCEPT ![t] = c]
    /\ UNCHANGED <<content, whole>>

Put(t) ==
    LET c == doing[t]
        e == PeerOf[c.fd]
    IN  /\ c.op = "write" /\ c.fd \in whole
        /\ content[e] + c.n <= QueueCap
        /\ content' = [content EXCEPT ![e] = @ + c.n]
        /\ Finish(t)
        /\ UNCHANGED whole

Take(t) ==
    LET c == doing[t]
    IN  /\ c.op = "read" /\ c.fd \in whole
        /\ \E k \in c.min .. c.n :
             /\ k <= content[c.fd]
             /\ content' = [content EXCEPT ![c.fd] = @ - k]
        /\ Finish(t)
        /\ UNCHANGED whole

(* A close makes an end of the pair; both ends' characters count no more.   *)
Break(t) ==
    LET c == doing[t]
        pair == {c.fd, PeerOf[c.fd]}
    IN  /\ c.op = "close" /\ c.fd \in whole
        /\ whole' = whole \ pair
        /\ content' = [f \in Fds |-> IF f \in pair THEN 0 ELSE content[f]]
        /\ UNCHANGED doing

(* A drain, a close, and what is called on a broken pair, return.           *)
GiveUp(t) ==
    /\ doing[t].op \in {"drain", "close"} \/ doing[t].fd \notin whole
    /\ Finish(t)
    /\ UNCHANGED <<content, whole>>

PipeNext == \E t \in Threads : Invoke(t) \/ Put(t) \/ Take(t) \/ Break(t) \/ GiveUp(t)

PipeSpec == PipeInit /\ [][PipeNext]_pipeVars
=============================================================================
