# A TLA+ model of RTBase

RTBase is a C library of building blocks for single-threaded and
multi-threaded servers: links of the IEC 60870-5-104 (APCI) family over TCP,
a message and timer queue shared by threads, and event loops over `poll(2)`
and `epoll(7)`. This directory holds TLA+ modules of the parts of the library
that have state and interleavings, TLC configurations that check them on small
instances, and proofs that TLAPS checks for every value of the constants.

## 1. The system

| part | source | state | operations |
|---|---|---|---|
| xlap sequence numbers | `lib/xlap.c` | `va`, `vs`, `vr`, `vapeer` of a link, modulo `lk_n` | `OKNR`, `OKNS`, the increments and the tests of the windows `k` and `w` |
| xlap links | `lib/xlap.c`, `include/rtlxlap.h` | per link the state of the start/stop procedure, socket, counters, timers, out queue, ack queue, close mark; the listener's socket and count of connections | connect, accept, receive, send, clock, put, start/stop/test requests, disconnect, close and open the listener |
| xlap frame reassembly | `lib/xlap.c` | receive buffer `lk_rframe`, `lk_rsz`, `lk_rwait` | `ReadSocket`, `SearchFrame` |
| message and timer queue | `lib/message.c` | two lists, three counters, mutex `iq_CS`, condition `iq_CD`; per message flags and end time | add, add timer, add delayed, get, get array, wait (timed or not), remove, cancel delay |
| poll table | `lib/poll.c` | array of slots, number used, size | add, remove, change, poll, scan with callbacks |
| epoll table | `lib/epoll.c` | table of handles by descriptor, the kernel's interest list, array of returned events | add, remove, wait, scan with callbacks |
| elap links | `lib/elap.c`, `include/rtlelap.h` | as xlap; per link the epoll mask of its socket, its place in `ct_waitacklist`, `lk_serial`; per context the external queue `ct_extqueue`; user timers | as xlap; put from another thread through a nexus, dispatch of the external queue, user timers |
| trace files | `lib/trace.c` | levels, current file, its size and day | trace, rotate |
| clocks, dates, spin lock, paths, configuration, command line, b-trees, utilities | remaining files | none, or none shared | pure functions and wrappers of system calls |

How they interact. An xlap link owns no thread: the application registers the
links with a poll table, the table asks each link what it waits for
(`CB_LapRequest`), calls it back when its socket is ready (`CB_LapEvent`), and
the application calls `rtl_LapDoClockSc` about once a second. Links talk to
the user through callbacks (`EVT_FRAMEI`, `EVT_FRAME_ACKED`,
`EVT_FRAME_ACKLOST` ...) and to the other process through TCP. The message
queue is a part that several threads use at once. The elap links do
with the epoll table what the xlap links do with the poll table, with two
differences. They are not asked what they wait for: the handler that makes work
for the writer sets the mask. And other threads may put messages on their links:
they name the link by a nexus, a copy of its descriptor and of the serial
number the descriptor had in the epoll table, and the message waits in the
external queue until the thread that owns the links dispatches it.

What is hard here, and what a correct component does about it:

- **Sequence numbers** wrap at a small modulus. The window must keep every
  number unambiguous; the ack queue must hold exactly what is between `va` and
  `vs`, since `LapRunOutQueue` relies on it when it sets `vs` back to `va`.
- **Frames of the two ends cross.** Start, stop and test procedures share one
  timer, acknowledgements ride on I frames, an S frame leaves on the `w`-th
  frame or by T2. Delivery must be in order and complete, both ends must agree
  whether data transfer is started, and no acknowledgement may be owed for ever.
- **Connections die**, silently or not, and the client reconnects before the
  server has noticed. Every message must end in exactly one place:
  acknowledged, reported lost, purged or still queued. The listener's count must
  stay right.
- **TCP has no frames.** `read` cuts the stream anywhere.
- **Threads wait** in calls made of several critical sections. No wake-up may be
  lost; lists, flags and counters must agree; no timer may fire before its time,
  but for the half millisecond that `__MsgGet` allows (`Anticip`).
- **Masks are set where the work is made** (elap). A handler that forgets it
  leaves a message asleep; one that leaves POLLOUT there when the out queue is empty
  makes the loop spin.
- **A message addressed to a connection outlives it** in the external queue,
  and its descriptor may be that of another connection when it is dispatched.
- **Callbacks change the table that is being scanned.** Every event must still
  reach its registration once, and no other. An epoll event finds its
  registration by the address of a handle, which may have been freed and allocated
  again since.

`PROJECT.json` lists these as hazards, line by line.

## 2. Modules

    XlapSeq                 modulo arithmetic of the sequence numbers
      XlapLink              links, listener, network, clock, users
        XlapDelivery        the links as their users see them: implements Delivery
          MCXlapLink        symmetry of the connections
        XlapPrompt          two ends that are served in time
        XlapLinkProofs      sequence numbers; the invariant of one link; the two ends
                            of a connection and the frames between them
          XlapDeliveryProofs  the books of the messages; the links implement Delivery;
                              the start/stop procedure at both ends
            XlapPromptProofs  the timers of two ends that are served in time
        Elap                lib/elap.c over the operators and actions of XlapLink
          ElapProofs        Elap implements XlapLink; the theorems about both ends, of Elap;
                            epoll masks, addresses of messages
    Delivery                what the links promise their users
    XlapStream              bytes to frames
      XlapStreamProofs      frames are found whole, whatever read() returns
    Imsg                    message and timer queue
      MCImsg                a consumer and other threads
      ImsgProofs            invariant of the queue, theorems
    EventLoop               what a round of an event loop promises
      LaxLoop               the same, where an event may reach the heir of a removed
                            registration
    Poll                    lib/poll.c, implements EventLoop
      PollProofs            Poll implements EventLoop; there is always room
    Epoll                   lib/epoll.c, implements LaxLoop
      EpollWalk             rtl_epollWalk over Epoll
        MCEpoll             symmetry of the handles
        EpollProofs         Epoll implements LaxLoop; table and heap agree; the walk
                            serves every descriptor

A definition whose name ends in `_Something` and whose comment begins with
"Fault:" is the definition that follows it with a mistake in it. Nothing uses
these; they show that each property depends on the code it is about.

### XlapLink

A link is a record of the fields of `t_xlap_link`. A C function that works on
one link is an operator from link to link of the same name, so that nesting of
calls in C is nesting of operators; the frames it writes are collected in the
field `tx`. An action is one callback: it applies operators to one link and
`Commit`s the result, which hands `tx` to the network and, if the link lost its
socket, does what `close` and `lk_cnxcount--` do.

| action | code |
|---|---|
| `Dial`, `ConnectDone`, `ConnectRejected` | `rtl_LapConnect`, and `CB_LapEvent` of a client that is not connected yet |
| `Accept`, `AcceptRefused` | `CB_LapEvent` of the listener, below and at `lk_maxConn` |
| `Recv`, `ReadEof`, `ReadError` | `CB_LapEvent` with `POLLIN` or `POLLERR`: `ReadSocket`, `IncomingFrame` |
| `Send` | `CB_LapEvent` with `POLLOUT`: `LapRunOutQueue` |
| `PollMarked` | `CB_LapEvent` of a link that `rtl_LapCloseBind` marked |
| `ClockSc` | `rtl_LapDoClockSc`: `LapTimerT1T2T3`, `LapTimerAckQueue`, `rtl_LapReConnect` |
| `PutOutQueue`, `Request`, `Disc` | `rtl_LapPutOutQueue`, `rtl_LapEventRequest`, `rtl_LapDisc` |
| `CloseBind`, `CloseBindNow`, `OpenBind` | `rtl_LapCloseBind` in its three modes, `rtl_LapOpenBind` |
| `Handshake`, `Cut` | the kernel and the network (external) |

A timer is an age in seconds that is not counted past the timeout it is
compared with; `ClockSc` makes all timers of one link a second older. Unless a
module says otherwise links age independently and at any time, so every
property of `XlapLink` holds for every skew of the clocks and for processes
that are not scheduled for a while. Six fields (`sent`, `rcvd`, `acked`,
`acklost`, `purged`, `seen`) record what happened, for the properties only.

Abstractions: a payload is the number of its message; one read gives one frame
(`XlapStream` has the bytes); writes succeed while the other end is there, or
fail as a whole; names, addresses, the list of authorised peers, statistics and
logs are left out. A message put on a link that is not started is dropped,
because `MAX_MSG_STORED` is 0. Callbacks of the user do not call back into the
link.

### Delivery, XlapDelivery

`Delivery` knows nothing of sequence numbers, windows or timers. A message is
held by the link that took it until the user is told what became of it:
acknowledged (then the other user was given it), lost (nobody knows), or dropped
with the out queue (then nobody was given it, ever). `Exchange` is one
frame, which may acknowledge and carry a message at once; `Disconnect` is the loss
of connections, one or both ends at a time. `XlapDelivery` maps to it: what a link
holds is its ack queue followed by its out queue. The promise spans
connections, which the sequence numbers do not: they start at 0 on each.

### Elap

`elap.c` began as a copy of `xlap.c`, and the protocol handlers still are the same
line by line. `Elap` therefore extends `XlapLink`: an action `EX` is the action
`X` of `XlapLink`, where `elap.c` kept it, together with what `elap.c` does beside
it; the constant `AckTimer` is `FALSE`, because `LapTimerAckQueue` of `elap.c`
returns at once for every link. What `elap.c` rewrote is written anew:

| definition | code |
|---|---|
| `RunOutQueue`, `Full`, `WriteMask`, `ESend` | `LapRunOutQueue` and the end of `_CB_LapEvent`: sends only when POLLOUT was asked for, and sets the next mask |
| `Acknowledged`, `ERecvSI` | `IncomingFrame` of S and I frames with `LapRunAckQueue`: off the list of links that wait, POLLOUT if there is something to write |
| `EPollMarked`, `MarkedClosed` | a link marked by `rtl_eLapCloseBind` is closed by its next event, of any kind |
| `eLapDoClockSc`, `EClockSc` | `rtl_eLapDoClockScPeriod` |
| `EpollAdd`, `EDial`, `EAccept`, `EOpenBind` | registration of a socket, which gives it a serial number, and the first mask |
| `LapResetLink`, `LapDisconnectedClosed` | what a link that is closed is reset to |
| `AddWaitAckList`, `DelWaitAckList` | `ct_waitacklist` |
| `EPutOutQueue` | `rtl_eLapPutOutQueue`, and `rtl_eLapPutOutQueueNexus` in the thread that owns the link |
| `PutOutQueueExt`, `Reaches`, `DispatchQueueExt` | the external queue |

The variable `ep` has the fields beside each link; `PHandSerial` the last serial
number of each process; `nexus` every address that a thread may have copied since
the start; `extqueue` the external queues; `dest` records, for the property
`Addressed` only, which socket a dispatched message was meant for.

Abstractions: a descriptor is named by the link it belongs to, so the server's
descriptor of a connection is given out again when the client dials on that
connection again; one message of the external queue is dispatched per step,
while `rtl_eLapDispatchQueueExt` takes a batch under its lock (the owner thread
runs no other handler in between, so this allows more); serial numbers do not
wrap, which takes 2^32 sockets. The call of `rtl_epollSetEvt2` at the end of
`LapResetLink` finds no handle for a link that was just closed, and is left out.

### XlapStream

A byte is its position in the stream and a value, so "byte for byte" can be
said. `read` returns any number of the bytes sent; a header byte that has not
arrived is what the buffer holds, or any value if nothing was ever stored there.

### Imsg

Each critical section under `iq_CS` is one step. The wait calls take the mutex,
look, sleep and look again, and are several steps (`WaitCall`, `WaitSleep`,
`WaitGet`, `WaitTimeout`, `Spurious`). Messages are freed and never added twice.

Time is counted in ticks, `Second` of them in a second. `__MsgGet` takes a timer when
`CMP_TIME` is at least `-(Anticip*1000)`, which is 550 microseconds before its end. But
`CMP_TIME` compares nanoseconds only when the seconds are equal, so a timer whose end is near
but in the next second waits for that second. `Expired` does the same, with `Anticip` in
ticks; `NotEarly` states both: not more than `Anticip` early, and not before the second of the
end. A tick is any length of time, and `Anticip` any number of ticks, zero included.

### Poll, Epoll, EventLoop

A scan calls one callback per step and the steps between a call and its return
are what callbacks do: add, remove, change. `EventLoop` says what that should
look like from outside: what a round reports is delivered once, unless it is removed first,
and nothing else is called. `Poll` maps its table to it (`ServesRounds`).

`Epoll` does not implement it, and maps to `LaxLoop`. A handle is an address, `CallocFrom` is
every address that is free, and that includes the handle a callback of this round has freed and
an event still to be scanned points to. `LaxLoop` therefore remembers what was reported and
removed (`stale`), each with its heir, the registration that has its handle now, if there is
one. Such an event is dropped (`Drop`) or goes to the heir (`Mistake`); everything else is as in
`EventLoop`. The stronger promise, that no callback gets the event of another registration, is
`OwnEvent`, which the run `epoll_reuse` refutes. Which events a descriptor asks for is left out.

`EpollWalk` adds the walk for the clocks of elap. One step looks at one entry of
the table; while `fctwalk` runs, descriptors are added and removed, so the table
may change and grow under the loop. `ep_walkrr` counts modulo `UIntMax`. The
variable `watched` is any one descriptor and `missed` counts the entries that were
looked at since it was served. Entries and not calls, because the number of handles a
call serves depends on the size of the table (`WalkMax`): while that size stays, a call looks at
`WalkMax` entries at least, or at the whole table.

## 3. Runs

Runs that must pass:

| run | shows |
|---|---|
| `link_data` | one connection, both ends sending, N = 3, K = W = 2, four messages, timers at any time, and a user that starts, stops or tests once with messages in flight: types, send window, debt of acknowledgements, no sequence error, delivery in order and complete, every unacknowledged message has its acknowledgement coming, both variants of `OKNR` agree; when all is quiet the ends agree on the state, and a stop that had to wait is confirmed only with an empty ack queue |
| `link_reconnect` | two connections, one of which dies while the server holds the old link and its limit is one: every message is in exactly one place, none is acknowledged unseen, the count of connections is right, no frame of the old connection disturbs the new one; and the links keep what `Delivery` promises: no message is given twice, out of order or after it was dropped, on whatever connection |
| `link_live` | a connection dies silently, a user disconnects, starts, stops or tests, or the listener is closed: no message is due for ever, that is, waits for ever for its acknowledgement, or in the out queue of a link that transfers data (on a stopped link it may, see below); and after `CLOSEBIND_DISC_NICE` every marked link whose connection still carries data is closed, even an idle one |
| `link_prompt` | ends that are served in time never cut a working connection, whatever the client's user starts, stops and tests, and they agree on the state when all is quiet |
| `elap` | a client that reconnects and a server, threads that put messages from outside: no message is forgotten in an out queue for want of POLLOUT, no connected link with an empty out queue asks for it, `ct_waitacklist` is exact, a message meant for one socket never reaches a later one with the same descriptor, and all steps are steps of `XlapLink` |
| `stream_short` | short frames survive every cut of the stream; only a frame above `FRAME_MAX` closes the link |
| `imsg` | two messages of any kind, one thread that calls `rtl_imsgWaitTime` in a loop and one that makes any untimed call, removal and cancelling: lists, flags and counters agree, nothing is taken earlier than the anticipation allows or before the second of its end, no wake-up is lost, plain messages are first in first out; and the one consumer, which sets `*ms` anew for each call, is enough that everything is served, timers and delayed messages too, though adding a timer wakes nobody (the comments of the code disagree: see below) |
| `poll` | the scan implements `EventLoop`; the table never runs out of slots |
| `epoll` | freed handles are allocated again in the same round, and the scan implements `LaxLoop`: what stays is served once, and the event of a removed descriptor goes to nobody or to the heir of its handle; table and heap agree; `rtl_epollWalk` serves every descriptor that stays before it has looked at twice as many entries as the table has, however others come and go |

Runs that show a disagreement between the code and what its comments say
(`findings` in `PROJECT.json` has the lines):

| run | shows |
|---|---|
| `link_dead` | all U frames share one T1 timer, and sending a con frame (`TESTFRcon`, `STARTDTcon`, `STOPDTcon`) stops it: a server link that answers the client while its own test is out may never notice that the client is gone |
| `stream_long` | in long mode, a single byte left of a long frame is not moved to the front of the buffer, and the stream is cut wrongly from there |
| `epoll_reuse` | a callback removes a descriptor whose event is still to be scanned, and adds one: `calloc` gives back the handle that was freed, its magic number is valid again, and the new registration is called with the event of the old one, which the comment in `rtl_epollScan` means to drop |

Other things the model brought up, not kept as runs:

- The shared T1 timer also lets two links that request the start at once wait
  for ever: `EventMasterSlave` ignores `STARTDTact` in `SSP_PENDING_STARTED`, and
  an exchange of test frames stops the T1 that should end the wait.
- Two stops that cross are both lost: `EventMasterSlave` ignores `STOPDTact` in
  `SSP_PENDING_STOPPED`, nobody confirms, and T1 cuts a connection on which both
  ends were served in time. In `link_prompt` only the controlling station
  makes requests, as the protocol has it.
- `__MsgAdd` does not keep the timer list sorted, though a comment says so
  (`TimerPlace` is what it does). Nothing is lost: `__MsgGet` reads the whole
  list. Timers that are due together may come out of order.
- A stop leaves the out queue of a link as it is: `LapRunOutQueue` returns until the link
  is started again, `LapTimerAckQueue` looks at the ack queue only, and the test frames of T3
  keep the connection. A message may stay there for ever. `MessageSettles` says so: it is about
  messages that are `Due`. TLC refutes it without that condition, when a request is allowed.
- In elap the same link makes the event loop spin, if its mask has POLLOUT when it is
  stopped: `LapRunOutQueue` returns before it would set another mask, the socket is ready for
  writing, and `epoll_wait` returns at once until the link is started again or closed.
  `NoIdleWrite` does not exclude this; it speaks of links with an empty out queue.
- `rtl_imsgWait` and `rtl_imsgWaitTime` have the comment "cannot be used with timed/delayed
  messages" (`message.c:537`, `message.c:573`), and accept the modes that fetch timers. Of
  `rtl_imsgWait` the comment is right: a call looks for timers once, when it begins, and then
  sleeps until a plain message comes, however many timers end in between; with untimed calls TLC
  refutes `Served`. Of `rtl_imsgWaitTime` it is too strong as far as `Served` goes: the call that
  follows the timeout looks again. What it rightly warns of is lateness, by up to `*ms`. And the
  caller must set `*ms` each time: a timeout leaves 0 there, and a call with 0 is `rtl_imsgWait`.
- In elap, a client with `LK_LNK_NOFULLRESET` keeps its out queue over a
  reconnection, but nothing asks for POLLOUT on its behalf: the mask after the
  connection is POLLIN, and the start of data transfer does not change it. The
  messages wait until the user puts another one, or until a frame of the other
  end is accepted. `WriteArmed` has this as its exception, `Forgotten`.
- A marked link (`CLOSEBIND_DISC_NICE`) whose connection dies silently can stay
  for ever, for the reason `link_dead` shows; `NiceCloseEnds` excepts it.

### Bounds

- `elap`: `N = 2`, `K = W = 1`, two messages, two dials on one connection. The limit of
  the listener is never met there (`link_reconnect` meets it): `EAccept` at the
  limit changes nothing but what `AcceptRefused` changes, and the theorems cover it. One
  unacknowledged frame is enough to fill the window, which is what stops
  POLLOUT; the second dial is what makes an old address meet a new socket. The
  theorems on the masks cover the other constants.
- `link_live`: `N = 3`, `K = W = 1` and two messages, so that one of them waits for a place in the
  window; one each of a request, a disconnection by the user, a dial, a closing of
  the listener and a failure of the connection, puts and all of these limited to four together (`MaxAll`).
- `N = 3` is the smallest modulus with a window of 2 that still tells frames
  apart, `MaxPut = 4` makes the numbers wrap. The proofs cover the others.
- Two connections (`link_reconnect`) are enough for an old and a new one; the
  server links touch each other only through the listener's count.
- `T1 = T2 = T3 = 1` in the untimed runs: clocks tick at any time there, so
  larger timeouts only add states in which a timer is running. `link_dead` has
  `T1 < T3`, as the defaults of the library (15 and 20 seconds) do.
  `link_prompt`, where time matters, has `T1 = 4`, `T2 = 1`, `T3 = 2`: the module
  assumes `T1 > T2 + 2`, one second for the skew of the two clocks and one for
  rounding. With `T1 = T2 + 2` TLC finds a healthy connection that is cut.
- In `imsg` a second is three ticks, `Anticip` one and the delay two, and the clock goes into
  the next second. So a timer may be too early within its second, near its end, near
  but in the next second, and past its end. Two messages are what a promotion on the way to
  another timer, a second plain message behind the first and an array of two take; two threads
  are what a lost wake-up takes, with other threads adding and fetching (`Add`, `Get` and so on, which belong to no thread). An insertion
  in the middle of the timer list takes three messages; the theorems on the safety properties of
  this run are for any number, and assume nothing of the order of that list.
- Three descriptors, three handles and a table that starts with two slots make the tables grow
  and slots and handles be reused in a round. `Epoll` assumes descriptors below
  twice `SZPOLL`, because the table grows once per call.
- `UIntMax = 5` is not a multiple of the table's size, 2 or 4, as 2^32 is not one of
  most table sizes: the counter wraps after every few entries and the modulo jumps over the rest of
  the table. `Per = 1` makes a call serve one handle, so that a portion ends wherever it
  can. With `missed < szTb` for `WalkServes`, TLC finds a descriptor that the wrap jumps
  over. The bound is that of a table that grows once.
- Three frames per stream, with bodies just below, at and above the limits.

`MaxPut`, `MaxReq`, `MaxDisc`, `MaxDial`, `MaxBind`, `MaxCut` (and `MaxRemove`,
`MaxCancel`, `MaxAdd`, `MaxEvents`, `MaxNow`, `NbMax`, `MaxFrames`) bound what users and the network
do; `MaxAll` bounds all of this together in the three largest runs, `link_data`,
`link_live` and `elap`. The configurations of the links and of the stream say
`CHECK_DEADLOCK FALSE`, because a run may end with all bounds used up and no
connection left. The others check for deadlock.

### Fairness

`XlapLink`: the poll loop serves every socket that is ready, the clock is called
again and again (and with it the reconnection), and the kernel completes
handshakes. Nothing is assumed of users, of the failure of connections, or of
the kernel reporting a failure (`ReadError`). For poll and clock actions weak
fairness is written with its enabling condition spelled out.

`Imsg`: time passes up to its bound, a consumer whose call has returned calls
again (with a `*ms` above 0), and a thread that was woken gets the mutex: weak fairness, written as what
the steps bring about, which no other step does. A timed sleep
ends (strong fairness): its deadline is absolute, so that a spurious wake-up
followed by another sleep does not move it. Nothing is assumed of producers, and of threads that are
not consumers only that they get the mutex.

## 4. Proofs

Assumed of the constants, and evaluated by TLC in every run of the links:
`N` is at least 2, `K` and `W` are in `1..N-1`, timeouts are positive, the set
of connections is finite, bounds are natural numbers. `XlapPrompt` assumes two things more,
named where they are used.

Each subsection names the theorems of a module; `PROJECT.json` lists them all with the
property each one states.

### One link: `XlapLinkProofs`

The first part relates `Dist` and `Advance` (lemmas `DistOfAdvance`,
`AdvanceOfDist`, `AdvanceTwice`, `DistSplit`; each by cases on whether a sum
passes N, since the provers do not know `%`). Theorem `OKNRWalks`: the
distance test of `OKNR` and the loop the source keeps under `#else` accept the
same numbers, for every modulus.

The second part proves `Spec => []LinksInv` (theorem `Invariance`). `LinkInv`
says of a link that

1. it has its type,
2. `WindowOf`: the ack queue has `Dist(va, vs)` messages, at most `K`, numbered
   `va`, `va + 1`, ...
3. `AckDebtOf`: fewer than `W` received frames are not acknowledged, and T2 runs
   while one is,
4. a connected link has a socket.

It has to be all of these at once. That the window holds after an
acknowledgement needs the numbers of the ack queue in order (which message
`LapRunAckQueue` stops at) and `OKNR` (that the number is in the queue or just
after it). That `LapRunOutQueue` sends at most `K - Len(ackqueue)` frames needs
the length to be the distance. That the debt stays below `W` needs the S frame
of the `w`-th frame to be sent, which `LapSendFrameS` does only with a socket:
hence 4. Nothing is assumed of the frames that arrive, apart from their type:
the invariant holds whatever the other end sends.

A lemma per operator shows that it keeps `LinkInv`. Most operators leave the
fields it speaks of, and the queues, alone (`Calm`). `CommitInv` lifts this to all links, and
`LinkStepInv`, `ConnStepInv` and `NextInv` have one step per action. The
theorems `TypeCorrect`, `WindowCorrect`, `DebtCorrect` and `OKNRCorrect` are the
properties that `link_data` checks, for all constants.

### Two ends: `XlapLinkProofs`

That no link ever refuses a frame for its numbers (`NumbersAgree`), that messages
arrive in order and complete (`OrderCorrect`), that only what arrived is
acknowledged (`AckedCorrect`) and that an acknowledgement is always under way or
owed (`AckOwed`) are statements about both ends and the frames between them. A
sequence number says too little for them, because it comes again after `N`
messages. The histories `sent` and `rcvd` of a link count without end, so the
invariant is in terms of such counts:

- `CountInv` of a link: `va`, `vs` and `vr` are its counts modulo `N`, and the ack queue is
  the end of `sent`.
- `Flow(a, b, w, S)`: the frames `w` on the way from `a` to `b` can be numbered by
  two counts, of the messages sent and of those acknowledged up to each frame, that
  begin where the reader `b` is (`ReadBy`), end where the writer `a` is
  (`WrittenBy`), and never fall. Each `ns` and `nr` is the count modulo `N`.
- `Readable`: the reader's half alone. It outlives the writer: frames of an
  end that is gone are still read, after a disconnection on one side only.
- `ConnInv`: how sockets, connections and the two link records fit together; a link
  is connected again only when nothing of the last connection is before it.

`WireInv` is all of this. Both directions have to be in it: that a frame of `a`
acknowledges no more than `b` sent is a fact about the frames from `b` to `a`. A
step of a link is a `Moves`: whatever could be read still can, and a sound exchange with
*any* other end goes on being sound. `Moves` composes (`MovesTwice`), so a handler made of
several operators is treated one operator at a time, and one lemma, `LinkMoves`, lifts it
to the network. That `Dist` of two numbers is the difference of two counts, and so
that `OKNR` and `OKNS` accept, needs that the window is smaller than `N`, which is
`WindowOf` above.

`InOrderDelivery` is stated with `Payload`, a recursive function over the frames. Its
value is characterised by a least counterexample (`LeastOf`), as are all the recursive
functions in these modules: the library's induction theorem takes an operator, which
the provers cannot instantiate, but the well-foundedness of `<` on the naturals serves.

`CountCorrect` is `CnxCount`: the listener's count is a cardinality, and each action
that opens or closes a socket changes the set by that socket.

### Many connections: `XlapDeliveryProofs`

`DeliveryCorrect` is the refinement `Spec => KeepsPromise`: over the loss of any number of
connections, `XlapDelivery` implements `Delivery`. What it needs is `BookInv`. Each link's
books are in order by themselves (`BookOf`: queued, waiting, acknowledged, lost and purged
messages are disjoint; the queues rise; what waits was put before what is queued). Different links
know different messages, and together they know all that were put
(`AccountedCorrect`). What came to a link, seen or still on its wire (`Came`), was sent by
another one and came to no third; it rises along the wire; and it was put before all that
the link at the other end has still to send. The last clause is why a message of a lost connection
cannot be given twice or after a later one.

Steps are of three kinds: `Event`, a step of one link that may send and be heard;
`Still`, steps that send nothing and lose or close at most; and `PutOutQueue`. An `Event` is
an `Exchange`, a `Disconnect` or a stutter of `Delivery`, a `Still` a `Disconnect` or a stutter, a put a
`Put`. That the message an `Exchange` gives may be given (`MayGive`) is the disjointness of `Came` and of the
books; that the messages it acknowledges were given is `AckedWasSeen`. TLC checked
`BookInv` as an invariant of `link_data` and `link_reconnect` before it was proved.

### Start and stop: `XlapDeliveryProofs`

In the second part of the module `StartCorrect` is `StartAgreement` and `StopCorrect` the action property `StopConfirmed`, for
all constants. The states of two ends say little without the U frames between them, so
`StartInv` lists which orders may be on the way for each pair of states (`Agree`): none
when neither end waits (`AtRest`), and otherwise (`Asked`) the request, its answer, or the
answer and after it a request of the end that has answered. Two requests that cross are both
ignored, and the ends then wait until T1. There are never more than two orders on a wire, because
an end that asked asks again only when it is answered. Two clauses complete it: a link is in
`INIT` if and only if it is not connected, and a wire is `Hushed`.

`Hushed`, that no I frame follows a STOPDTact and none is on the way to a link in
`PENDING_UNCONFD`, is what `StopConfirmed` needs. `IncomingFrame` raises EVT_FRAMEI without a look
at the ack queue, and in `PENDING_UNCONFD` that event confirms the stop: a message that came then would
confirm it too early. None can come, since the other end stopped sending when it asked.

What one end does is a `Turn` (of itself) or an `Answer` (to a frame it read); `TurnAgrees`
and `AnswerAgrees` show that both keep `Agree`. A step of the network is one of two kinds:
`Sways(i)`, where link `i` turns, answers or is closed, and `Rested`, where no state changes
but to `INIT`. TLC checked `StartInv` in the bounds of `link_data` before it was proved.

### Two ends in time: `XlapPromptProofs`

`HealthyCorrect` is `HealthyLink`: while both poll loops serve their sockets between two clock
calls, and the clocks of both ends go on second by second, no timer ever cuts a connection, for
any window, any timeouts and any number of messages. It is the one theorem that needs two more
assumptions, which are in `XlapPrompt` and which TLC evaluates in `link_prompt`:

- `TimeoutsFit`, `T1 > T2 + 2`: the other end may run T2 for an acknowledgement, the clocks may
  be a second apart, and a timer that was started just before a clock call is a second
  older after it. TLC refutes the property for `T1 = T2 + 2`.
- `ServerWaits`: not both ends start data transfer of themselves. Two STARTDTact that cross are
  both ignored (see above), and nothing but T1 ends the wait.

The invariant is `TimeInv`. Its core is `Pair(a, b, v, w, d)`, of an end `a` whose clock is ahead of
that of `b` by `d` seconds, for each of the two ends:

- `Ages`: a message in the ack queue was sent in this second, or `b` has told that it has it, or `b` runs
  T2 for it and the message is not older than that T2, one second and the lead of the clock.
- `Awaits`: T1 of U frames runs for a test frame that is on its way, for its answer, or for a request.
- `Late`: when T1 of U frames has passed a second, `a` has asked for a stop, `b` has put the
  confirmation off, and `a` owes it acknowledgements: T1 is not older than T2 of `a`
  itself, or all is told already.

A STOPDTact is the only frame that is not answered between two clock calls, since `IncomingFrame` defers its
confirmation until the ack queue is empty. `Late` is why T1 survives that: the acknowledgements
that are missing are those that `a` sends when its own T2 is over. That an end in
`PENDING_UNCONFD` does wait for one (`Owing`) and that the other end then waits for the stop is
`StartInv`; that a message waiting while nothing is on the way has a T2 running for it is `AckOwed`.

Within a second every handler is `OnTime`: it starts timers but lets none grow old, tells no
less, answers a test, and leaves a pending state with its timer (one lemma per operator,
`LinkInTime` for the network). A clock call is a `Tick` (`ClockTime`): when no timeout but T2 is
over, ages grow by one, and an S frame makes up for a T2 that ends. `IdleEnds` says what the
invariant means when nothing is on the way, and `SecondInTime` puts both together. `PromptIsSpec`
shows that two ends in time are a special case of `Spec`, so that the invariants above hold.
TLC checked `TimeInv` in the bounds of `link_prompt` before it was proved.

### Elap: `ElapProofs`

`ElapProofs` proves that `Elap` implements `XlapLink` (theorem `Implements`:
`ESpec => XlapSpec`). Most actions are conjunctions with an action of `XlapLink`,
and map to it by their shape. The three that are not are lemmas: `SendRefines`,
that `LapRunOutQueue` as rewritten, with its early return for a full window, does
what `LapRunOutQueue` of xlap does when that one runs, and changes nothing when
xlap would not have been asked to write; `DispatchRefines`, that a dispatched
message is a `PutOutQueue` or nothing; and the clock without T1 of I frames
(`SecondIsAged`, `ClockSame`). `SendRefines` needs that an empty ack queue means
`va = vs`, and that a full window means no room: both from `LinkInv`, so the
invariant of `XlapLink` is proved of `ESpec` first (`EInvariance`), along with the
types (`ETypeCorrect`).

`XlapSpec` allows one step more than `Spec`: a marked link is closed by any event of its
socket, not by its next read alone. `MarkedCloses` shows that this step is a `Closing` of
its link, of which the lemmas about both ends speak, and so they hold of elap as well:
`EEndsAgree` (five invariants of `link_data` and `link_reconnect`), `ECountCorrect` and
`EDeliveryCorrect`, which is `ESpec => KeepsPromise`; and `EStartCorrect` and `EStopCorrect`, the
start/stop procedure.

The second part proves `AlwaysArmed`, `NeverIdle` and `WaitListExact`, which are
`WriteArmed`, `NoIdleWrite` and `WaitAckExact` for all constants. The invariant
`MaskInv` of one link is these three and `Unconnected`: a link without a
connection has an empty ack queue, nothing sent or received, and, unless
`LK_LNK_NOFULLRESET` kept it, an empty out queue. Without it the step that
connects a client, and drops POLLOUT from the mask, could leave a message
behind. A lemma per operator shows what it does to the queues: steps that leave
them alone are `Steady`, those that shorten the ack queue by an acknowledgement
are `Acks`.

It also proves `AlwaysAddressed` (`Addressed` for all constants). The invariant has two parts.
`NexusInv`: among the addresses of a process a serial number stands for one socket, no
address has a serial number that is still to be given, and a link that has a socket has its own
address among them. So a message that passes the test of `Reaches` is for the socket the
link has now. `DestInv`: what a link has queued or waits for is addressed to its socket, or
to none. That a *new* socket begins with nothing queued is `Unconnected` above; that a message
put through one link is in no other is `BookInv` of the two-ended proof, which is why these
theorems come after those. TLC checked both parts as invariants of the run `elap` first.

### The queue: `ImsgProofs`

`ImsgInv` (theorem `QueueInvariance`) says that the messages in each list are those
whose flags send them there, each once; that the counters are the lengths; that plain and
fetched messages are not early; and `NoLostWakeup`, which is inductive with the rest. All of
the safety of `imsg` follows from it: `QueueTypes`, `QueueCounted`, `QueueLinked`, `QueueNotEarly`,
`QueueWakes` and the action property `QueueFifo`.

Within a critical section the invariant does not hold: a message that `__MsgGet` promotes, or
gives to its caller, is for a while in no list though its flags say otherwise. `QueueBut(q, m)`
is the invariant but for the one message `m` in hand, and every part of a section goes from one
such state to another. What a part does to the others is `Follows`: it
wakes the sleepers if there are more messages than before (`Rings`), and the
messages left the front of the list and joined its back (`Passes`). `Follows` is transitive,
which carries both properties over the loops of promotions and of
`rtl_imsgGetArray`. The loops are recursive functions: lemma `Recursion` shows that such a function
exists and has the values its definition gives (tlapm takes neither for granted), and
`UpTo` carries a fact along it. `QueueNotEarly` is `Near` of every plain and fetched message: what has
expired is near (`ExpiredNear`), and stays near as the clock goes on, since the seconds of a later
time are no fewer (`SecGrows`, `NearLater`). Nothing is assumed of the order of the timer list, which
`__MsgAdd` does not keep sorted.

### The event loops: `PollProofs`, `EpollProofs`

`PollProofs` proves that `Poll` implements `EventLoop`, and `EpollProofs` that `Epoll` implements
`LaxLoop` (`RoundsServed` in both), and the invariants of the tables (`RoomIsKept`,
`HandlesKept`), for any set of descriptors, any `SZPOLL` and any number of registrations. For
the poll table the invariant is that the slots in use have registrations of
their own, and that a callback runs only for the slot the scan is at, which is
in the table. `nbPoll` is compared with the cardinality of the slots in use: it
may be larger, never smaller, because the scan empties slots without counting them
off; since it never exceeds the size of the table either, `rtl_pollAdd` finds a
slot (`RoomToAdd`).

For the epoll table nothing is assumed of the allocator but that what it gives out is free.
The heart is `RoundInv`, with `Left` for the events still to scan: a live registration that is
to be served has the very handle that its event points to, and no two events have a
registration or a handle in common. That handle may have another owner only when the
registration is gone, and the owner is then its heir. `LeftAdd`, `LeftRmv` and
`LeftScan` say how what is due and what is stale change when a handle is allocated, freed, or its
event scanned; a lemma per action then says which step of `LaxLoop` it is. That a valid
magic number leads to the due registration or to the heir, and an invalid one to a stale
event without heir, is what makes `CallRound` and `PassRound` hold.

The walk (`WalkCorrect`, which is `WalkServes`) is about two moduli, that of the counter and the size of
the table. `Before` is the number of entries that are looked at before that of
`watched`, be it straight ahead or after the counter has wrapped. `missed + Before` is less than
two turns, and while the table is as large as it began it must be known to be even
less (`Waits`), because the jump when the table grows costs up to a turn more (`WaitsLarger`). That the
modulo of `w + 1` is the next entry or the first one is `NextEntry`, from the uniqueness of
remainders. `UIntMax` is assumed to be as large as the largest table at least. TLC checked
`WalkInv` for several sizes before it was proved; counted in calls instead of entries, the bound
of two turns holds in the instance TLC checks and not for every size, since a larger table serves
larger portions.

### The stream: `XlapStreamProofs`

Without the long mode (with it, `stream_long` refutes it) `FramesCorrect` and `RefusedCorrect` are
`FramesIntact` and `OnlyLargeRefused`, for any frames and any cut of the stream. `StreamInv` says
which bytes the buffer holds: from `pos` on in the loop, from its front between two reads, those
that follow the frames found (`Kept`), and between two reads fewer than the next frame has (`Short`). The
rest of the buffer is unknown, and that is the point of `HeaderSeen`: of a header that has not
arrived, `SearchFrame` may see any old byte or junk, and yet it neither takes the frame
for complete nor loses the bytes it has. The ends of the frames are a recursive function, `End`; that it has the values
its definition gives is `EndDefined`, and that the frames follow one another `EndRises`, `FrameIs` and
`EveryByte`, each by a least counterexample. TLC checked `StreamInv` in the bounds of `stream_short` first.

### Only model-checked

- All liveness (`MessageSettles`, `NiceCloseEnds`, `Served`, and `DeadPeerNoticed`, which the code
  does not satisfy): the prover has no rule for fairness.

## 5. Not modelled

- `lib/trace.c`: see the plan.
- Of elap: user timers; `rtl_eLapDoClockMs` only as the caller of the walk in
  `EpollWalk`; `NexusToLink`, which only checks an
  address; links freed while a nexus in the owner thread still names them.
- Partial writes on non-blocking sockets, user callbacks that call back into
  the link they are called from, `LapForwardOnCnx` (it has nothing to forward with
  `MAX_MSG_STORED` 0), the authorisation list.
- Of the queue: copying of payloads, `rtl_imsgFreeIq`, serial numbers.
- Of the event loops: masks of events, failing system calls, a result below 0
  of the function that `rtl_epollWalk` calls (there is none).
- Clocks, dates, spin lock, paths, configuration files, command line, strings:
  no state that steps of several actors could disturb. The b-tree is a set
  of headers whose implementation is not in the repository.

## 6. Plan

Done: XlapSeq, XlapLink, XlapPrompt, Delivery, XlapDelivery, XlapStream, Imsg,
EventLoop, LaxLoop, Poll, Epoll, EpollWalk, Elap. Proved: the invariants of one link and of both ends
of a connection, their agreement on start and stop, the refinement of Delivery by the links, of XlapLink by Elap (and so
of Delivery by Elap) of EventLoop by the poll table and of LaxLoop by the epoll table, the invariants of the masks, of the
addresses and of the message queue, the frames found in the stream, the walk of the epoll table,
and that ends which are served in time keep their connection.

Next, in this order:

1. User timers of elap, over `EpollWalk`.
2. Event masks in `Poll` and `Epoll`; the forwarding of a
   listener and its authorisation list in `XlapLink`.
3. Rotation of trace files.
