----------------------------- MODULE StateMgr -----------------------------
(***************************************************************************)
(* The state machine engine of src/Ensc351/ss_api.cpp: a tree of states    *)
(* (eSuper: one substate at a time, eConc: all of them, eSub: a leaf),     *)
(* whose active leaves receive messages and answer by transitions          *)
(* (executeExit, executeEntry), by posting messages, or by an exception.   *)
(*                                                                         *)
(* The engine runs in one thread; what makes it hard is that the client's  *)
(* onMessage, onEntry and onExit call back into it.  Each callback is an   *)
(* action, in which the client (generated code that is not in the          *)
(* repository) does anything that a legal machine may.                     *)
(***************************************************************************)
EXTENDS Integers, Sequences, SequencesExt, FiniteSets

CONSTANTS
    Order,        \* all states, each before its substates (registerState)
    Parent,       \* myParent, NoState for the members of myConcStateList
    Type,         \* myType: "eSub", "eSuper" or "eConc"
    History,      \* the states whose myHistory is set
    NoState,
    Targets,      \* what messages are posted to: names of states, "*", or
                  \* a name that is not registered
    MaxPosted     \* bound: messages of myPostedMesgList that are kept

States == Range(Order)

ASSUME TreeAssumption ==
    /\ IsInjective(Order) /\ Order \in Seq(States)
    /\ NoState \notin States /\ "FinalState" \notin States    \* a reserved name
    /\ Parent \in [States -> States \cup {NoState}]
    /\ Type \in [States -> {"eSub", "eSuper", "eConc"}]
    /\ History \subseteq {s \in States : Type[s] = "eSuper"}
    /\ \A i \in DOMAIN Order :
         Parent[Order[i]] # NoState =>
             \E j \in 1 .. i - 1 : Order[j] = Parent[Order[i]]
    /\ \A s \in States : Type[s] = "eSub" <=> \A x \in States : Parent[x] # s

ASSUME MaxPostedAssumption == MaxPosted \in Nat

-----------------------------------------------------------------------------
(* The tree.                                                                *)

(* A state and what getParent leads to from it: what is in every set that   *)
(* has the state and, with a state, its parent.                             *)
Closed == {U \in SUBSET States : \A x \in U : Parent[x] \in U \cup {NoState}}
Upward == [s \in States |-> {x \in States : \A U \in Closed : s \in U => x \in U}]
Above  == [s \in States |-> Upward[s] \ {s}]

isParentNear(s, x) == Parent[s] = x    \* without the recursive call
isParent(s, x) == x \in Above[s]

Children(s) == {x \in States : Parent[x] = s}
Leaves      == {s \in States : Type[s] = "eSub"}
Tops        == {s \in States : Parent[s] = NoState}    \* myConcStateList

(* A list without what is not in S, as erase leaves it; a set of states as   *)
(* a list, parents first.                                                   *)
Only(q, S) ==
    LET kept[n \in 0 .. Len(q)] ==
            IF n = 0 THEN <<>>
            ELSE IF q[n] \in S THEN Append(kept[n - 1], q[n]) ELSE kept[n - 1]
    IN  kept[Len(q)]

ListOf == [S \in SUBSET States |-> Only(Order, S)]

Common(s, x) == Upward[s] \cap Upward[x]
getRoot(s, x) == CHOOSE r \in Common(s, x) : \A y \in Common(s, x) : y \in Upward[r]

-----------------------------------------------------------------------------
VARIABLES
    active,     \* myActiveStatesList
    hist,       \* myHistoryState of each state
    status,     \* myStatus
    busy,       \* myBusyStatus
    posted,     \* myPostedMesgList: the targets of the messages
    at,         \* pIt: the message of posted being sent, 0 before the first
    call,       \* the call of the context: "none", "start" or "postEvent"
    pc,         \* "fire", "exit" or "entry"
    temp,       \* tempList: what is left of it in fireMessage
    target,     \* of the message that is sent, "*" for all
    trail,      \* states whose onExit or onEntry is still to be called
    move,       \* the transition under way: root and next state
    threw,      \* the last call ended by an exception
    saved,      \* the list in the stream of serialise, <<>> before the first
    ready       \* seen by the client: the states that had their onEntry, or
                \* were restored from a stream (which calls none), and no
                \* onExit since

vars == <<active, hist, status, busy, posted, at, call, pc, temp, target,
          trail, move, threw, saved, ready>>

NoMove == [root |-> NoState, next |-> NoState]
machine == <<active, hist, ready>>

-----------------------------------------------------------------------------
(* getInitialStates: the leaves entered with s, by history or first         *)
(* substate in an eSuper, in all substates of an eConc.                     *)
FirstChild(s) == Head(ListOf[Children(s)])
Default(s) == IF hist[s] # NoState THEN hist[s] ELSE FirstChild(s)
Chosen(x) ==    \* x is entered when its parent is
    Type[Parent[x]] = "eSuper" => x = Default(Parent[x])
NoDescent(s) == {s}    \* an eSuper pushed into the list itself
InitialOf(s) ==
    {l \in Leaves : s \in Upward[l] /\ \A x \in Upward[l] \ Upward[s] : Chosen(x)}

getInitialStates(s) == ListOf[InitialOf(s)]

(* constructTree: what is entered on the way from root to s, and below s.   *)
NoLinks(root, s) == ListOf[{s} \cup InitialOf(s)]    \* without what lies between
constructTree(root, s) ==
    ListOf[(Upward[s] \ Upward[root])
           \cup UNION {Upward[l] \ Upward[s] : l \in InitialOf(s)}]

(* The transitions of a legal machine: out of the leaf that has the message *)
(* or one of the super states above it, not into the inside of an eConc and *)
(* not between the parts of one.  Only a leaf may name itself or a state    *)
(* above it as the next one.                                                *)
Legal ==
    {m \in Leaves \X States \X States :
        LET l == m[1]  from == m[2]  next == m[3]  root == getRoot(from, next)
        IN  /\ from \in Upward[l]
            /\ Common(from, next) # {}
            /\ root = from => from = l
            /\ root # l => Type[root] = "eSuper"
            /\ \A x \in Above[next] \ Upward[root] : Type[x] = "eSuper"}

-----------------------------------------------------------------------------
Init ==
    /\ active = <<>> /\ hist = [s \in States |-> NoState]
    /\ status = FALSE /\ busy = FALSE
    /\ posted = <<>> /\ at = 0
    /\ call = "none" /\ pc = "fire"
    /\ temp = <<>> /\ target = "*"
    /\ trail = <<>> /\ move = NoMove
    /\ threw = FALSE /\ saved = <<>> /\ ready = {}

(* A callback posts any number of messages: postMessage, or postEvent on a  *)
(* busy machine, which posts to all.  Of a list that has grown too long the *)
(* messages already sent are forgotten (only the next start() would send    *)
(* them again), so that a client may post for ever, as long as no more than *)
(* MaxPosted messages are still to be sent.                                 *)
Posts ==
    \E n \in 0 .. MaxPosted : \E new \in [1 .. n -> Targets \cup {"*"}] :
        LET excess == Len(posted) + n - MaxPosted
            gone   == IF excess > 0 THEN excess ELSE 0
        IN  /\ gone <= at
            /\ posted' = SubSeq(posted, gone + 1, Len(posted)) \o new
            /\ at' = at - gone

(* An exception leaves fireMessage and the call; nothing is put back.       *)
Unwind ==
    /\ call' = "none" /\ threw' = TRUE
    /\ pc' = "fire" /\ trail' = <<>> /\ move' = NoMove
    /\ at' = 0 /\ temp' = <<>> /\ target' = "*"
    /\ UNCHANGED <<status, posted, saved>>

(* The client's onExit or onEntry throws (postEvent in a callback of the    *)
(* first start() does: "Not Running").  A restart of a machine that runs is *)
(* left out: it would leave one that takes events with half a configuration.*)
CallbackThrows ==
    /\ call = "postEvent" \/ (call = "start" /\ ~status)
    /\ pc # "fire" /\ trail # <<>>
    /\ Unwind
    /\ UNCHANGED <<machine, busy>>

-----------------------------------------------------------------------------
(* Calls of the context, between which the machine rests.                   *)

(* start() and reInit(): messages, history and myBusyStatus are kept.       *)
Start ==
    /\ call = "none"
    /\ LET leaves == UNION {InitialOf(t) : t \in Tops}
       IN  /\ active' = ListOf[leaves]
           /\ trail' = ListOf[UNION {Upward[l] : l \in leaves}]
    /\ call' = "start" /\ pc' = "entry"
    /\ at' = 0 /\ ready' = {} /\ threw' = FALSE
    /\ UNCHANGED <<hist, status, busy, posted, temp, target, move, saved>>

PostEvent ==
    /\ call = "none"
    /\ UNCHANGED <<machine, status, pc, trail, move, saved>>
    /\ \/ /\ ~status
          /\ threw' = TRUE
          /\ UNCHANGED <<busy, posted, at, call, temp, target>>
       \/ /\ status /\ busy
          /\ Len(posted) < MaxPosted
          /\ posted' = Append(posted, "*") /\ threw' = FALSE
          /\ UNCHANGED <<busy, at, call, temp, target>>
       \/ /\ status /\ ~busy
          /\ busy' = TRUE /\ call' = "postEvent"
          /\ posted' = <<>> /\ at' = 0
          /\ target' = "*" /\ temp' = active /\ threw' = FALSE

(* serialise to a stream and from it.  The context saves a machine that     *)
(* runs and whose last event did not end by an exception.  A stream that    *)
(* does not begin with the tag is refused; one that is damaged after it     *)
(* leaves a machine that does not run.  No onExit is called on the states   *)
(* that were active, and no onEntry on those that are made active.          *)
Save ==
    /\ call = "none" /\ status /\ ~busy
    /\ saved' = active
    /\ UNCHANGED <<machine, status, busy, posted, at, call, pc, temp, target,
                   trail, move, threw>>

Load ==
    /\ call = "none"
    /\ \/ /\ saved # <<>>
          /\ active' = saved /\ status' = TRUE /\ threw' = FALSE
          /\ ready' = UNION {Upward[l] : l \in Range(saved)}
       \/ /\ active' = <<>> /\ status' = FALSE /\ threw' = TRUE
          /\ ready' = {}
       \/ /\ threw' = TRUE
          /\ UNCHANGED <<active, status, ready>>
    /\ UNCHANGED <<hist, busy, posted, at, call, pc, temp, target, trail, move, saved>>

-----------------------------------------------------------------------------
(* fireMessage: the copy of the list is gone through, and a state that is   *)
(* no longer active, or not below the target, does not get the message.     *)
HearsLeft(l) == target = "*" \/ isParent(l, target)    \* without isInList
Hears(l) == l \in Range(active) /\ (target = "*" \/ isParent(l, target))
Receives(i) ==
    /\ call # "none" /\ pc = "fire"
    /\ i \in DOMAIN temp /\ Hears(temp[i])
    /\ \A j \in 1 .. i - 1 : ~Hears(temp[j])

LiveList(i) == active    \* going on in the list as it is now
RestOf(i) == SubSeq(temp, i + 1, Len(temp))

OnMessage ==
    \E i \in DOMAIN temp :
        /\ Receives(i)
        /\ temp' = RestOf(i)
        /\ Posts
        /\ UNCHANGED <<machine, status, busy, call, pc, target, trail,
                       move, threw, saved>>

(* onMessage throws: of its own, or because getRoot refuses a next state    *)
(* without a common super state.                                            *)
OnMessageThrows ==
    \E i \in DOMAIN temp :
        /\ Receives(i)
        /\ Unwind
        /\ UNCHANGED <<machine, busy>>

(* executeExit: the caller leaves the list first, then what is below it and *)
(* below the states it leaves; only those are remembered as history.        *)
LeftAll(from, root) == Range(active)
LeftBelow(from, root) ==    \* without the loop up to the root
    {x \in Range(active) : x = from \/ isParent(x, from)}
Left(from, root) ==
    {x \in Range(active) : x = from \/ \E y \in Upward[from] \ Upward[root] : isParent(x, y)}

Remembered(gone) ==
    [s \in States |->
        IF s \in History /\ \E x \in gone : Parent[x] = s
        THEN CHOOSE x \in gone : Parent[x] = s
        ELSE hist[s]]

ExecuteExit ==
    \E i \in DOMAIN temp :
        /\ Receives(i)
        /\ temp' = RestOf(i)
        /\ \E m \in {m \in Legal : m[1] = temp[i]} :
           LET from == m[2]
               next == m[3]
               root == getRoot(from, next)
               gone == Left(from, root)
           IN  /\ active' = Only(active, States \ gone)
               /\ hist' = Remembered(gone \ {from})
               /\ move' = [root |-> root, next |-> next]
               /\ trail' = Reverse(ListOf[Upward[from] \ Upward[root]])
        /\ pc' = "exit"
        /\ UNCHANGED <<ready, status, busy, posted, at, call, target, threw, saved>>

ExecuteExitFinal ==
    \E i \in DOMAIN temp : \E from \in Upward[temp[i]] :
        /\ Receives(i)
        /\ temp' = RestOf(i)
        /\ active' = <<>>
        /\ move' = [root |-> NoState, next |-> "FinalState"]
        /\ trail' = <<from>>
        /\ pc' = "exit"
        /\ UNCHANGED <<hist, ready, status, busy, posted, at, call, target, threw, saved>>

OnExit ==
    /\ pc = "exit" /\ trail # <<>>
    /\ trail' = Tail(trail)
    /\ ready' = ready \ {Head(trail)}
    /\ Posts
    /\ UNCHANGED <<active, hist, status, busy, call, pc, temp, target, move, threw, saved>>

(* executeEntry: the new leaves are active before any onEntry is called.    *)
ExecuteEntry ==
    /\ pc = "exit" /\ trail = <<>>
    /\ IF move.next = "FinalState"
       THEN /\ status' = FALSE
            /\ pc' = "fire" /\ move' = NoMove
            /\ UNCHANGED <<active, trail>>
       ELSE /\ active' = active \o getInitialStates(move.next)
            /\ trail' = constructTree(move.root, move.next)
            /\ pc' = "entry"
            /\ UNCHANGED <<status, move>>
    /\ UNCHANGED <<hist, ready, busy, posted, at, call, temp, target, threw, saved>>

OnEntry ==
    /\ pc = "entry" /\ trail # <<>>
    /\ trail' = Tail(trail)
    /\ ready' = ready \cup {Head(trail)}
    /\ Posts
    /\ UNCHANGED <<active, hist, status, busy, call, pc, temp, target, move, threw, saved>>

Entered ==
    /\ pc = "entry" /\ trail = <<>>
    /\ pc' = "fire" /\ move' = NoMove
    /\ UNCHANGED <<machine, status, busy, posted, at, call, temp, target, trail, threw, saved>>

-----------------------------------------------------------------------------
(* sendPostedMessages: the list grows while it is gone through.             *)
Fired == call # "none" /\ pc = "fire" /\ \A i \in DOMAIN temp : ~Hears(temp[i])
NoMore == at >= 1 \/ posted = <<>>    \* only what was posted by the event itself
AllSent == at = Len(posted)

SendPosted ==
    /\ Fired /\ ~AllSent
    /\ posted[at + 1] \in States \cup {"*"}
    /\ at' = at + 1
    /\ target' = posted[at + 1]
    /\ temp' = active
    /\ UNCHANGED <<machine, status, busy, posted, call, pc, trail, move, threw, saved>>

Undeliverable ==
    /\ Fired /\ ~AllSent
    /\ posted[at + 1] \notin States \cup {"*"}
    /\ busy' = FALSE
    /\ Unwind
    /\ UNCHANGED machine

Return ==
    /\ Fired /\ AllSent
    /\ IF call = "start" THEN status' = TRUE /\ busy' = busy
                         ELSE busy' = FALSE /\ status' = status
    /\ call' = "none" /\ threw' = FALSE
    /\ temp' = <<>> /\ target' = "*"
    /\ UNCHANGED <<machine, posted, at, pc, trail, move, saved>>

-----------------------------------------------------------------------------
Context == Start \/ PostEvent \/ Save \/ Load
Engine ==
    \/ OnMessage \/ OnMessageThrows \/ CallbackThrows
    \/ ExecuteExit \/ ExecuteExitFinal \/ OnExit
    \/ ExecuteEntry \/ OnEntry \/ Entered
    \/ SendPosted \/ Undeliverable \/ Return

Next == Context \/ Engine

(* The thread that made a call goes on with it.                             *)
Spec == Init /\ [][Next]_vars /\ WF_vars(Engine)

-----------------------------------------------------------------------------
TypeOK ==
    /\ active \in Seq(Leaves) /\ temp \in Seq(Leaves) /\ saved \in Seq(Leaves)
    /\ hist \in [States -> Leaves \cup {NoState}]
    /\ status \in BOOLEAN /\ busy \in BOOLEAN /\ threw \in BOOLEAN
    /\ posted \in Seq(Targets \cup {"*"}) /\ at \in 0 .. Len(posted)
    /\ call \in {"none", "start", "postEvent"} /\ pc \in {"fire", "exit", "entry"}
    /\ target \in Targets \cup {"*"}
    /\ trail \in Seq(States) /\ ready \subseteq States
    /\ move.root \in States \cup {NoState}
    /\ move.next \in States \cup {NoState, "FinalState"}

(* Where the configuration has to be whole: between the callbacks of a call,*)
(* and between the calls while the machine runs and takes events.  After an *)
(* exception it stays busy, and events are only put in the list.            *)
Settled == pc = "fire" /\ (call # "none" \/ (status /\ ~busy))
Live == UNION {Upward[l] : l \in Range(active)}

(* However transitions of parallel parts, history, exceptions and restored  *)
(* machines follow each other, a live eSuper has exactly one live substate  *)
(* and a live eConc all of them; or nothing is active, after the final      *)
(* state.                                                                   *)
LegalConfiguration ==
    Settled /\ active # <<>> =>
        /\ Tops \subseteq Live
        /\ IsInjective(active)
        /\ \A s \in Live :
             /\ Type[s] = "eSuper" => Cardinality(Children(s) \cap Live) = 1
             /\ Type[s] = "eConc" => Children(s) \subseteq Live

(* Every live state had its onEntry, or was made live by serialise (which   *)
(* calls none, whatever the client did in the last onExit), and no onExit   *)
(* since.                                                                   *)
ActiveAreReady == Settled => Live \subseteq ready

(* A state that was left while a message was on its way round (with its     *)
(* super states, whose onExit has released what it works with) does not get *)
(* the message from the old copy of the list.                               *)
HeardByReady ==
    \A i \in DOMAIN temp : Receives(i) => Upward[temp[i]] \subseteq ready

(* onExit is never called twice without an onEntry, or a restoring, between *)
(* the calls, although parallel regions may each lead out of the state      *)
(* around them.                                                             *)
ExitsOnlyReady == pc = "exit" /\ trail # <<>> => Head(trail) \in ready

(* A transition leaves the parts of the machine outside of the common super *)
(* state alone.                                                             *)
OthersUndisturbed ==
    [][LET m == IF move' # NoMove THEN move' ELSE move
       IN  m.next \notin {NoState, "FinalState"} =>
             \A l \in Leaves : m.root \notin Upward[l] =>
                 (l \in Range(active) <=> l \in Range(active'))]_vars

(* However the transitions change the list of active states under the loop  *)
(* over it, a call ends, by an exception or with every message sent that    *)
(* was posted before its end, if its callbacks do not post for ever: a      *)
(* client that answers every message by another never gets out of           *)
(* sendPostedMessages.  (An event that comes while the machine is busy is   *)
(* only put in the list: it begins no call, and ends nowhere.)              *)
PostsMore == call # "none" /\ call' = call /\ Len(posted') - at' > Len(posted) - at
CallsEnd ==
    \/ []<><<PostsMore>>_vars
    \/ call # "none" ~> call = "none" /\ (threw \/ at = Len(posted))
=============================================================================
