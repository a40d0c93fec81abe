# The file transfer of SerialConnection_synchronization in TLA+

## 1. The system

The program sends a file by XMODEM from one thread of a process to another,
through a third thread, the "kind medium", which now and then damages what it
forwards.  Thread T1 receives, thread T2 sends, and the medium stands between
two socket pairs:

    ReceiverX (T1) --- T1 | M1 --- Medium --- M2 | T2 --- SenderX (T2)

All reads, writes, drains and closes go through `myIO.cpp`.  That layer adds to
the kernel's sockets a count of the characters on their way, a read that waits
for a minimum (`myReadcond`), a drain that waits until what was written was
read (`myTcdrain`), and the mutexes and condition variables these need.

### Inventory

Paths are under `src/Ensc351Part2/src/` unless they say `Ensc351/`.

**Synchronised descriptor layer** (`myIO.cpp`, `myIO.h`).
State: per descriptor a `sockInfo` with `pairedFd`, `buffCnter`, `buffMut`,
`cvW` (drainers) and `cvR` (readers).  Operations: `myRead`, `myReadcond`,
`myWrite`, `myTcdrain`, `myClose`; `myOpen` and `myCreat` only forward.
Interaction: a write locks the object of the *other* end, a drain and a read
lock their own; a read that empties the buffer wakes the drainers of the other
end; a close unpairs the other end without its mutex.
Hard: which mutex protects what; notifications outside of the mutex; blocking
in the kernel with a mutex held; objects deleted under another thread's feet.
Correct if: the mutexes exclude, the counter is the kernel's content, no
sleeper is forgotten, no call sleeps without need, no deleted object is used.

**Table of descriptors** (`sockList`, `addSockInfo`, `mySocketpair`, part of
`myClose`).  State: a vector of 50 object pointers, indexed by descriptor.
Hard: entries are looked at without `vectorMut`, and the kernel reuses a
descriptor before its old entry is emptied.
Correct if: every descriptor in use has its own live object.

**Counted read** (`Ensc351/SocketReadcond.c`).  No state between calls.
Reads until `min` characters are there; `min` = 0 is a non-blocking read.

**Sender** (`SenderX`, `SenderSS`).  State: state machine, two block buffers,
block number, error count, what is left of the file.  Hard: the last character
of a block is held back until the rest was drained and stray characters were
thrown away; the next block is prepared before the current one is acknowledged.
**Receiver** (`ReceiverX`, `ReceiverSS`).  State: state machine, the block, the
number of the last good block, error count.  Hard: repeated blocks, wrap-around
of block numbers, giving up, an end of file that looks like a character.
**Medium** (`Medium`).  State: counters of characters and ACKs.  Hard: it works
on whatever pieces the scheduler lets it read, and both peers may close first.
The three together are correct if the output is a prefix of the input at any
time, success means the whole file, the two peers stay in step, and, as far as
the layer below keeps its contract, every transfer ends.

**Characters and checks** (`PeerX`): constants, `updcrc`, `crc16ns`,
`checksum`, `sendByte`; no state.  Hard: registers wider than what is kept of
them, sums cut to `uint8_t`, padding that is summed apart.
Correct if: sender and receiver agree on every intact block, and on no block
with one complemented character.
**Driver** (`Ensc351Part2-NO-main.cpp`, `main.cpp`): pairs, threads, closes.

**State machine engine** (`Ensc351/ss_api.*`), of which both state machines are
subclasses.  State: the list of active states, the history of each super state,
the posted messages, two flags.  Operations: `start`, `reInit`, `postEvent`,
two `serialise`, and for the client's states `executeExit`, `executeEntry`,
`postMessage`.  Hard: the client's `onMessage`, `onEntry` and `onExit` call back
into the engine and change the lists it is going through.
Correct if: the active states are a whole configuration whenever the machine
rests; no state is active, hears a message or is left after its `onExit` without
an `onEntry` or a restoring in between; parallel parts do not disturb each other;
and a call ends unless its callbacks post for ever.

**Error macros** (`Ensc351/VNPE.*`) and **console** (`Ensc351/Atomic*`,
`ScopedMutex`): libraries of which the program uses little.  The remaining files
are build files, test inputs and documents.

## 2. The modules

| module | models | role |
|---|---|---|
| `MyIO` | `myIO.cpp`, `SocketReadcond.c` | one pair or several, any threads, any client; statement by statement |
| `MyIOScript` | its clients | threads with finite programs, fairness, "every call returns" |
| `Pipe` | what the layer promises | abstract specification that `MyIO` implements |
| `MyIOProofs`, `MyIOPipeProofs` | | theorems about `MyIO`: its invariants, and that it implements `Pipe` |
| `SockTable` | `sockList` in `myIO.cpp` | opening, closing and reuse of descriptors |
| `SockTableProofs` | | theorems about `SockTable` |
| `BlockCheck` | `PeerX.cpp`, `genBlk`, `getRestBlk` | the arithmetic of one block between two peers |
| `BlockCheckProofs` | | theorems about `BlockCheck` |
| `Xmodem` | `PeerX.h`, contract of the layer | characters, constants, the two pairs as FIFO queues |
| `Sender`, `Receiver`, `Medium` | the three threads | one action per character, block or call |
| `Transfer` | the driver | composes the three; specification, invariants, fairness |
| `FileTransfer` | what a transfer promises | abstract specification that `Transfer` implements |
| `TransferInv`, `TransferPeers`, `TransferProofs` | | theorems about `Transfer`: the invariant and lemmas about data and queues; the steps of the two peers; the steps of the medium, and the theorems |
| `StateMgr` | `ss_api.cpp` | the state machine engine, one action per callback |
| `StateMgrProofs` | | theorems about `StateMgr` |
| `MCMyIOScript`, `MCSockTable`, `MCTransfer`, `MCStateMgr` | | constants for TLC |

`Transfer` EXTENDS `Sender`, `Receiver` and `Medium`, which EXTEND `Xmodem`.
`MyIOScript` EXTENDS `MyIO`.  `BlockCheck` and `StateMgr` stand alone: the first
shows what `Sender` and `Receiver` assume of a block, the second is linked into
the program, whose two machines override what they use of it.

### MyIO and the code

`pc[t]` names the next statement of thread t: `w_` in `myWrite`, `r_` in
`myReadcond`, `d_` in `myTcdrain`, `c_` in `myClose`.  A step runs to the next
place where another thread can interfere.  `buffMut[f]` is the set of holders;
`cvR[f]` and `cvW[f]` are the threads asleep, so that `notify_all` empties a
set, `notify_one` removes a member of the code's choosing, and a spurious
wakeup removes one unasked.  A woken thread still has to take the mutex.
Characters are counted, not named.  The kernel is `queue`, `open` and
`sockErr`: a write blocks until there is room, a close of an end with unread
characters leaves one ECONNRESET at the other end, a write to a closed end
kills the process (`status = "sigpipe"`).

`MyIOScript` gives each thread a finite program.  A thread in `Selecting` calls
`select()` before each read, which reports a descriptor on which the kernel's
`read()` would not block (`Reported`); it knows nothing of `buffCnter`.

`pairedFd` and the table are looked up in one step when a call begins
(`SockTable` has the two reads apart).  A thread that touches an object that
another has deleted sets `status = "undefined"` and the behaviour stops there:
the model says nothing of what the build then does.  A close of a descriptor on
which another thread is inside `write()` makes that write fail.

`Pipe` says the same of characters in five atomic actions: a call begins, a write
puts all of its characters, a read takes between `min` and n of them, a close
breaks the pair, and what is called on a broken pair returns.  The mapping takes
`buffCnter` for the content of an end while both ends are open, and a call as
done when only its notifications are left (`Whole`, `Content`, `Doing` in
`MyIO`).  So a read that takes its characters in parts is one step of `Pipe`,
the one in which the counter goes down.

### SockTable and the code

`conn` is the kernel's table, from which `socketpair` takes the two lowest free
descriptors; `sockList` is the program's.  `addSockInfo` looks at its entry
(`Check0`, `Check1`) and fills it (`Add0`, `Add1`) in separate steps.  `myClose`
is six steps, from `close()` to `delete`.  A descriptor is closed by one thread
only; `MyIO` has the double closes.

### BlockCheck and the code

One behaviour is one block.  Its initial states choose how it is checked (CRC,
`genBlk`'s checksum, or that of `cs1stBlk`), how much of it was read from the
file, the block numbers at both ends, and the position that the medium
complements.  That position is never 0, as `byteToCorrupt` is not.  The sender's
and the receiver's loops over the chunk run in step, one character to an action,
so that the characters need not be kept.  The CRC register is the set of its
bits that are one: `Shift` is a turn of the loop of `updcrc`, with `+=` and `^=`
as exclusive or.  Only 16 bits are kept, since no bit above them gets back down
and `updcrc` returns an `unsigned short`: that the wider register of the code
does not matter is this argument, and not something the run shows.  The two
characters of the CRC are the high and the low byte, which is what `my_htons`
makes of them on a little-endian machine.

### StateMgr and the code

`active` is `myActiveStatesList`, `posted` is `myPostedMesgList`, and `temp` is
what is left of the copy that `fireMessage` goes through.  A call of the context
(`Start`, `PostEvent`, `Save`, `Load`) begins a sequence of engine steps that
ends with `Return` or with an exception (`Unwind`).  A transition is
`ExecuteExit`, one `OnExit` per state that is left, `ExecuteEntry`, and one
`OnEntry` per state that is entered, so that what a callback posts or throws
falls between them.  `ready` is not in the code.  It is what the client has seen:
the states that had their `onEntry`, or were restored by `serialise(istream)`,
and had no `onExit` since.  `serialise` calls neither: a state that was saved,
left with its `onExit`, and then restored is `ready` without an `onEntry` after
that `onExit`, and the properties say no more than that (see section 4).

The client is the code that the SmartState generator would write, of which the
repository has no example that uses the engine.  It may do anything within these
limits:

* Its transitions are `Legal`: out of the leaf that hears the message or a super
  state of it, and not into, or between, the regions of a concurrent state.  A
  super state names neither itself nor one of its own substates as the next
  one: the engine accepts both and leaves a wrong configuration (section 4).
* A callback posts any number of messages to any targets, for as long as it
  likes.  No more than `MaxPosted` are waiting to be sent at a time.  The engine
  keeps the messages it has sent in the list until the next event; of a list
  that has grown beyond `MaxPosted` the model forgets those, which only a later
  `start` or `reInit` could tell.
* Any callback may throw, except `onEntry` and `onExit` while a running machine is
  restarted: that leaves half a configuration which takes events (section 4).
  Nor does a callback call `postEvent` then, which would begin an event inside of
  the restart.  Besides, exceptions come from the engine's refusals (`Not
  Running`, no common super state, an unknown target).
* The context saves a machine that runs and whose last event did not end by an
  exception.

A `postEvent` on a machine that an exception has left busy only puts its message
in the list and returns (`PostEvent`, second disjunct): it begins no call, and
`CallsEnd` promises nothing of that message.  Names and the debug log are left
out.

### The transfer and the code

A block is a sequence of characters with chunk, number and position.  Whether a
character is right or was complemented by the medium is its field `bad`: the
CRC and the checksum are modelled as detecting one complemented character, which
is what `BlockCheck` shows of them, and `period >= BlkSz` keeps it to one per
block, as 392 does for 133.  What a
character out of a block would mean to someone who expects a control character
is any of them (`Means`).  File contents are the numbers of the chunks.

`Sender` holds `sendByte`'s withheld last character in the step
`SenderLastByte`: drain, `dumpGlitches`, write.  `Receiver` acknowledges a
block (`ReceiverAnswers`) and writes its chunk (`ReceiverStore`) in two steps,
as the code does.  `Medium` serves what `select` reported, T1 first, in
messages of up to 8 characters from T1 and half blocks from T2.  The `Exits`
actions are the `exit(EXIT_FAILURE)` of unexpected characters and of the `PE`
and `PE_NOT` macros; the `Killed` actions are SIGPIPE.

The protocol takes the layer by its contract: calls on FIFO queues, atomic,
with `par.drainWaits` choosing between drains that wait until everything is
read and drains that may return at once (the code's do either, see section 4).
The layer as it is built blocks where this contract says it does not:

* at an end of file `myRead` sleeps on an empty counter (`myIO.cpp:329`) where
  `AtEof` and `Fails` let the read return;
* `dumpGlitches` sleeps when there is nothing to dump, where `SenderLastByte`
  goes on;
* `myClose` does not wake those who sleep at the other end, where `CloseEnd`
  lets them see the end of file;
* `myTcdrain` goes by its own counter and may wait for a notification that was
  already given, where `Drained` looks at the other end's queue.

A layer that blocks where its contract says it does not only removes
behaviours, so what holds of `Spec`, which has no fairness, holds of the program
over that layer too: every invariant, and the refinement of `FileTransfer`.
`EndsOverContract` and `DoneOverContract` are another matter.  They are checked
of `ContractSpec`, which adds the assumption `CallsReturn` that a call which can
return by the contract does.  They say that the *protocol* never has every
thread waiting for a character that another should send, and that the file
arrives, with drains that wait and with drains that do not.  They say nothing of
the program over the layer as it is built, which `first_block` shows asleep
in the first block.

## 3. The runs that pass

| run | question | bounds |
|---|---|---|
| `io_general` | do mutexes exclude, is the counter right, is no reader left asleep beside characters or a closed descriptor, are drainers woken only at an empty buffer, is a missing pair always a closed one, and do the characters behave like `Pipe`'s? | three threads of two or three calls out of several each, on both ends, which more than one thread closes; buffer of 3, spurious wakeups |
| `io_exchange` | does every call return in a request and answer with a bystander? | three threads, of which one reads at each end; buffer of 4, weak fairness |
| `sock_table` | does a descriptor in use always have its own object, and does `mySocketpair` fail only for a reason? | three threads, three pairs, a table of 3 and a kernel of 4 descriptors |
| `block_checks` | is every damaged block noticed and every intact one accepted, and is a loss of synchronization never made by damage? | chunks of 3 characters out of 0, 127, 128, 255, read in 1 to 3; block numbers 0, 127, 255 at each end; every position damaged or none |
| `machine` | whenever the machine rests, is its configuration whole, is every active state ready, is nothing left twice or heard after it was left, are parallel parts left alone, and does a call end whose callbacks do not post for ever? | seven states: a concurrent state with two regions, one of them with history, below one top; any number of messages posted, at most two pending |
| `xfer_noisy` | does the transfer implement `FileTransfer`, in step, aligned, with no more than a block unread; and does it end over a layer that keeps its contract? | blocks of 8 characters, numbers modulo 4, 3 errors, 0 to 6 blocks, no file; drains that wait or not |
| `xfer_kind` | over a layer that keeps its contract, does every file arrive, with both peers reporting it? | the program's constants; files of 0 to 260 blocks; drains that wait or not |

Why these bounds are enough to be worth having.  The layer's hazards need a
reader, a writer and a third thread on the same object, and a buffer that can be
empty, partly read and full.  Three is the least number of threads for which a
notification can reach the wrong sleeper.  The table needs a descriptor beyond
its end and one that is reused during a close; four pairs give 2.3 million
states and no other answer.  In `xfer_noisy` six blocks pass modulo 4
wrap-around, a damage period of 8 hits every block, `ackPeriod` 1 and 2 make
NAKs of so many ACKs that the peers give up.  In `xfer_kind` 260 blocks pass the
wrap-around of `uint8_t`; 392 is three blocks of 133 less 7, and 133 a multiple
of 7, so the place of the damage moves back by 7 from one time to the next and
never meets a first character or a block number.  In `block_checks` the
characters have every bit both ways and make the sum overflow, the numbers wrap
around, and the proofs do the rest.  The tree of `machine` is the smallest that
has a region with history, another that is left with it and must not notice its
transitions, and a way out of and back into both; with two pending messages one
is posted while another is sent.  It has one top: machines beside each other
under `myConcStateList` behave as the regions do, and the proofs cover them.
`MaxPosted` bounds the messages still to be sent and not how many are posted, so
that a client which posts for ever is in the model.  The other limits
(`MaxPairs`, the programs' lengths, `QueueCap`) leave no operation out.

`CHECK_DEADLOCK FALSE` is set where the program ends (scripts, transfers, pairs
used up).  Where every call is meant to return, `AllCallsReturn` and
`EndsOverContract` demand that the end is reached, so a hang shows there.
`io_general` does not demand it: its threads can stop for good (a reader of two
characters in the kernel with the mutex, and its writer), and the safety of what
they do until then is the question.  `machine` has no such flag, since a resting
machine can always be called.

Fairness is weak fairness of each thread: the operating system schedules every
runnable thread, and a free mutex is eventually obtained, as only finitely many
calls contend for it.  No fairness is given to spurious wakeups, and none to
the choice of the thread that `notify_one` wakes.  The process may be killed or
use a deleted object before a close has told everybody, which
`CloseReleasesSleepers` allows for.  In `machine` the thread that called the
engine goes on with the call; nothing makes the context call it again, and
`CallsEnd` excepts the clients that post for ever, since `sendPostedMessages`
then never comes to the end of its list.  In `Transfer` the fairness
(`CallsReturn`) is an assumption on the layer and not only on the scheduler, and
one that the layer as it is built does not meet.

## 4. Where the code does not do what it says

Each of these runs has one property, taken from a comment, and TLC finds a
behaviour of the code that violates it.

* `late_notify`: two messages to one reader.  `myWrite` notifies after it has
  released the mutex; the first message's notification wakes the reader that
  already waits for the second, which then blocks in `read()` with the mutex.
* `first_block`: the calls of a transfer as far as its first block, by the
  program's three threads on its two pairs, with its sizes.  The comments let a
  read block for characters below `min` (`myIO.cpp:305-307`), so one of `min` = 0
  not at all.  The sender calls it in `dumpGlitches` after 132 of the 133
  characters, finds nothing, as it should, and sleeps for ever with the last
  one unsent (`FlushReturns`).
* `drain_hang`: `myTcdrain` looks at its own buffer, not at the other end's.
  When an answer has come it waits for a notification that was already given.
* `answer_close`: `myWrite` notifies a condition variable whose object the
  reader of its message may already have deleted.
* `final_nak`: the tenth ACK becomes NAK whatever it acknowledges.  In a file of
  nine blocks it is that of the second EOT, and the sender exits, although the
  receiver is done, even over a layer that keeps its contract.  Files of 9, 18,
  27 ... blocks do the same.

The first block of a transfer meets two more.  The receiver asks for 132
characters and holds the mutex that the medium needs for its second half (see
below), and the medium's drain may find the answer there already (`drain_hang`).
So the program as it stands stops in its first block, unless the scheduler is
lucky.  What sections 3 and 5 say of what a transfer never does is true of it
nevertheless; what they say of transfers that end (`EndsOverContract`,
`DoneOverContract`) is about the protocol, not about this layer.

Seen while modelling, without a run:

* A reader that asks for more than has come holds `buffMut` in `read()`
  (`myIO.cpp:333`), and the writer of the rest needs it.
* `myTcdrain` returns early when its own buffer is empty (`myIO.cpp:291`), so
  it is no guarantee that anything was read.
* `myClose` tells the threads asleep on its own descriptor, not those at the
  other end, and a read looks at the counter before it asks the kernel.  After a
  peer has closed, `select` tells the medium of an end of file, and its `myRead`
  (`Medium.cpp:54`) then sleeps on an empty counter for ever, instead of
  returning the 0 that the medium waits for.
* A reader that passed the lookup before a close of its own descriptor, and
  takes the mutex after the close's notifications, sleeps for ever
  (`myIO.cpp:328`).
* A read of `min` = 1 woken by another reader's notification, or without one,
  may find nothing and block in the kernel with the mutex held.
* After a failed read the counter goes up by one (`myIO.cpp:334`).  Only after a
  close, when nobody relies on it.
* In `myClose` the descriptor in `pairedFd` may be given to a new pair before
  it is looked up, which is then unpaired by mistake (`SockTable`, `ReadPaired`
  and `Unpair`).  The program opens its pairs before the first close.
* In a build with SEND_EXTRA_ACKS *and* with drains that return early an extra
  ACK is taken for that of a block: the receiver can report success with a chunk
  missing.  `MCNoisy` leaves that combination out, and the theorems about the
  transfer assume it away by name (`ExtraAcksAssumption` in `Transfer`).  The
  build as it is sends no extra ACKs (`Medium.cpp:24` is commented out), so it
  satisfies the assumption with any drains.

Of the engine, seen while modelling:

* An exception out of a callback leaves `myBusyStatus` set (`ss_api.cpp:116`).
  Every later event is queued and never sent, though `isRunning` says "true -
  Running, can send messges" (`ss_api.hxx:139`).  Only an unknown target resets
  it.
* `start` and `reInit` send what `myPostedMesgList` still holds from the last
  `postEvent` once more (`ss_api.cpp:84`), keep the history, and set `myStatus`
  even if a message they send led to the final state.
* History is stored for states below a super state that is left, not for the
  caller itself (`ss_api.cpp:470-480`), and is not serialised.
* `isParent` is strict: a message posted to a leaf by its name is not delivered
  (`ss_api.cpp:257`).
* A super state that names itself or one of its own substates as the next one is
  the common root itself: `executeExit` takes only the caller out of the list,
  in which a super state never is, so its substates stay active and are entered
  again (`ss_api.cpp:311`).  `Legal` keeps both cases out.
* `serialise(istream)` calls no `onEntry` on what it makes active, and no
  `onExit` on what was active (`ss_api.cpp:181-225`).  A machine that was saved in
  a state, left it, and is then restored is active in that state and gives it
  messages after its `onExit`, with no `onEntry` between.  `ActiveAreReady` and
  its kin count a restored state as ready; they hold no longer if it is not
  counted.
* `executeExit` calls `onExit` from the caller upward (`ss_api.cpp:314`).  The
  active substates of a super state that is left, and the other regions of a
  concurrent state, get no `onExit`, and the next entry calls their `onEntry`
  again.
* A callback that posts a message for each one it gets keeps
  `sendPostedMessages` going for ever (`ss_api.cpp:128`), since the list grows
  under the loop.
* An exception out of `onEntry` while a running machine is restarted leaves
  `myStatus` true and `myBusyStatus` false over states of which some were never
  entered (`ss_api.cpp:74-86`).

## 5. What is proved

`MyIOProofs`, for any set of threads, any set of socket pairs, any client and
any size of the kernel's buffer:

* `TypeCorrect`: the types, and `bytesSoFar` is zero outside of a read.
* `Inductive`: `IndInv` holds in every reachable state.
* `MutexSafe`: the mutexes exclude.
* `CounterSafe`: the counter is the kernel's content, plus what the reader with
  the mutex has already taken.
* `WakeupSafe`: a reader asleep beside characters has a notification to come.
* `UnpairedSafe`: a missing pair means that the other end is closed.
* `DrainersSafe`: drainers are woken only at an empty buffer, or by a close.

Assumptions: `FdsAssumption` (pairs are pairs: each descriptor is the other end
of its other end and not its own) and `CallsAssumption` (a call writes at least
one character and no more than the buffer holds, and reads at least one).

The argument.  `CounterMirrors` alone is not inductive: a step of a second
thread inside the critical section would break it, so it needs `MutexExcludes`;
a reader that returns part of what it took needs `GotWhileReading`; and which
threads a close or a notification can meet needs `ClosedBeforeTold` and
`SleepersWait`.  `NoLostReadWakeup` needs the counter.  `IndInv` is the
conjunction, and `io_general` checks it too.  There is one lemma per conjunct
(`TypeStep`, `GotStep`, `MutexStep`, `SleepersStep`, `ClosedStep`,
`CounterStep`, `NotifiesStep`, `WakeupStep`), each with one step per action that
can disturb it.  Actions that leave the conjunct's variables alone are dealt
with together.

`MyIOPipeProofs`, under the same assumptions: `PipeRefined`, every behaviour of
`MyIO` is one of `Pipe`.  The steps that `Pipe` sees are `WriteChars`, a read's
return, `CloseFd`, and the beginning of a call.  That there is room for what
`Pipe` puts and that there is what it takes comes from `CounterMirrors`: the
thread in question has the mutex, so the counter is the kernel's content and what
this very reader has taken.  `CallOps` (the statement a thread is at tells which
call it makes) is a second invariant, proved with it.

`BlockCheckProofs`, for a chunk of 1 to 255 characters, any characters and any
numbers (`BlockAssumption`): `BlockInvariant`, and from it `DamageSafe`,
`IntactSafe`, `SyncLossSafe` and `BlockTypeCorrect`.  The invariant says how the
two peers' registers and sums differ: not at all before the complemented
character, and always after it.  A shift can be undone, so registers that differ
stay different while both take in the same characters (`ShiftKeeps`); the eight
unequal bits of a complemented character leave registers that agreed before
different in exactly their low eight bits (`ShiftSpreads`, `UpdcrcDamaged`).  The
sums have an odd difference, as 255 - c and c have, and addition modulo 256
keeps parity.

`SockTableProofs`, for any number of threads, table entries, descriptors and
pairs:

* `TableCorrect`: the inductive invariant `TableInv`.
* `HeldSafe`: a descriptor that the client holds has a live object of its own.
* `FailureSafe`: `mySocketpair` fails only for a descriptor beyond the table or
  for one whose former entry a `myClose` under way is about to empty.

Assumption: `TableAssumption` (the sizes are natural numbers).  The argument is
about ownership.  A descriptor is free, or the client's, or in the hands of one
thread inside `mySocketpair`, or of one that has not yet called `close()`
(`OpeningOwns`, `ClosingOwns`), because the kernel numbers descriptors apart
while they are open.  An entry that is waiting to be emptied still holds the old
object (`ClosingOwns`), so a thread that was given the descriptor again fails
its check and never fills it.  No two threads have the same object
(`ObjsApart`), and a filled entry always has somebody who uses or empties it
(`EntryInUse`).  There is one lemma per action; `KeepOpening`, `KeepClosing` and
`KeepApart` say once what a step must leave alone to keep the other threads'
part.  That the lowest free descriptor exists is `LowestIn`, from the
well-foundedness of the natural numbers.

`TransferInv`, `TransferPeers` and `TransferProofs`, for blocks of any size, any
even number of block numbers, any limit of errors, any set of files, of damage
periods and of ACK periods:

* `TransferInvariant`: the inductive invariant `Inv`.
* `TransferTypeCorrect`, `TransferInStep`, `TransferAligned`,
  `TransferRoomForWrites`: what `xfer_noisy` and `xfer_kind` check.
* `TransferRefined`: every behaviour of `Transfer` is one of `FileTransfer`.  So
  the file received is a prefix of the file sent at any time, the receiver
  reports success only when it has all of it, and the sender only after the
  receiver.

Assumptions: `XmodemAssumption` (sizes and limits are positive; the numbers wrap
around at an even modulus, as `uint8_t` does; damage comes at most once per
block) and
`ExtraAcksAssumption` (extra ACKs only with drains that wait, see section 4).

The argument.  `InStep`, `Aligned` and `RoomForWrites` speak of where the two
peers are, and a peer goes by what it reads: none is inductive without saying
what is under way.  The protocol is half duplex.  At most one message is under
way, in one of three places (the queue into the medium, the medium's buffer, the
queue out of it), and besides it at most one extra ACK.  `Phase` is the
disjunction of the eleven situations that can then arise: `Opening` (NAK or C),
`NoFile`, `BlockUnderWay`, `AnswerUnderWay`, `SenderGaveUp`, `ReceiverGaveUp`,
`FirstEot`, `FirstEotAnswered`, `SenderEndsEarly`, `SecondEot` and `Complete`.
Each says which characters may be in the three places, and which block numbers
and error counts go with it.  `Base` has the rest: the types, the statement each
thread is at, and which ends are closed.  `xfer_noisy`'s instance was checked for
`Inv` before it was proved.  There is one lemma per action of the three threads,
and in it one step per phase in which the action is possible; the lemmas about
runs of a block's characters (`RunConcat`, `RunTake`) and of CANs (`CanConcat`,
`CanTake`) say once what happens when the scheduler cuts a message into pieces.

For the refinement, `ReceiverStore` is the step that `FileTransfer` calls
`Store`, the answer to the second EOT is the receiver's success, cancelling and
being cancelled are its failure, and the end of the sender is its success or
failure.  That success is right is the phase `Complete`, and that a chunk stored
is the next one of the file comes from the block number agreeing modulo `NumMod`
while the two counts differ by no more than one.

`StateMgrProofs`, for every tree of states, any history and targets, any number
of pending messages, and every client within the limits that section 2 names
(its transitions are `Legal`, and it does not throw in, or call into, the restart
of a running machine):

* `EngineCorrect`: the inductive invariant `EngineInv`.
* `EngineTypeCorrect`, `ConfigurationLegal`, `ActiveReady`: what `machine` checks
  between the callbacks and between the calls.
* `HeardReady`: no state hears a message after its `onExit`.
* `ExitsReady`: no state is left twice without an entry or a restoring between.
* `OthersSafe`: the action property `OthersUndisturbed`.

Readiness is what `ready` says (section 2): after a `serialise(istream)` it is a
claim about the `onExit`s since then, not that `onEntry` was called.

Assumptions: `TreeAssumption` (states have different names, none of them
`FinalState`; each is registered after its parent; a leaf is what has no
substates) and `MaxPostedAssumption` (the bound is a natural number).  The
argument.  `EngineInv` is `ConfigInv`, about the configuration, and
`BusyInCall`: while an event is sent the machine is busy, so an exception never
leaves an unsettled configuration that takes events.  `LegalConfiguration` says
nothing of the time in which `onExit` is called, when the list of active states
has a hole.  The invariant describes the hole: the live states and those above
the root are whole but for what is below the root, and of that nothing is live
(`WholeBut`).  `ExitWhole` shows that `removeActiveStates` leaves just that:
since a live super state has only one live substate, what is not below the
states that are left is not below the root.  `EntryWhole` shows that
`getInitialStates` fills it, from `Descent`: going down by history, first
substate or all regions reaches a leaf everywhere.  What is still to be left is
ready and is in the list once (`Exits`).  `Upward` is the least set closed under
`getParent`, so that facts about walks up the tree are facts about closed sets
(`UpwardLeast`), and the finiteness of the tree (`Topmost`, `Lowest`) comes from
the order of registration.  `OnlyKeeps` says what erasing from a list leaves.

Only model-checked: every liveness property (`AllCallsReturn`,
`CloseReleasesSleepers`, `CallsEnd`, and over a layer that keeps its contract
`EndsOverContract` and `DoneOverContract`); liveness under fairness is beyond the
prover.

## 6. What is not modelled, and why

* Failures of `creat`, `write`, `close` and `read` on the files, and the
  medium's log: each ends the process through `PE`, as the exits modelled do.
* The timeouts of `wcsReadcond`, which the program passes as 0, and the saving
  and restoring of socket options.  `O_NONBLOCK` is set for the time of a read
  of `min` = 0, on the open file: a second thread writing there at a full buffer
  would fail instead of blocking.  Flags are not in the model.
* `firstCrcBlk`, which is written and never read; `delSockInfo`, which nothing
  calls; `myOpen`, `myCreat`.
* `VNPE` and the console: auxiliary.  The macros print and exit, which the
  `Exits` actions of the other modules do; the console holds its mutex for one
  statement, in which no other lock is taken.

## 7. Plan

1. The whole program over the layer as it is.  `first_block` has the calls up to
   the first answer, as a fixed program; open is the transfer's own state
   machines with the layer's real blocking, to show which later exchanges stop.
2. The two reads of `myClose` with a program that opens pairs after it closed
   others: what the wrong unpairing of `SockTable` does to the counters of
   `MyIO`.
