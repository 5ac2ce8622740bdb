# PluginsEngine in TLA+

PluginsEngine is an event-driven C++ framework: an epoll reactor with a registry
of events, a queue through which any thread posts callbacks to the loop, timers
on one timerfd, signals on one signalfd, loops on threads of their own, a TCP
server built on all of that, and a loader for plugins that use it through the
interfaces of `include/comapi/plugin`. This directory holds TLA+ modules of its
core, TLC configurations that check them on small instances, and proofs of their
most important properties for every instance.

## The system

| part | state | operations | talks to |
|---|---|---|---|
| `EventCtrl`, `Epoll`, `Event` | registry `eventPool` (fd to event), epoll's interest list, the batch being dispatched, each event's mask and callbacks | add, modify, delete, wait-and-dispatch, `handle`, `enable*` | every owner of a descriptor; the kernel |
| `EventLoop` | `running`, `threadId`, vector of functions and its mutex | `run`, `handleEvent`, `stop`, `runInLoop` | `EventCtrl`; other loops, by functions |
| `EventFD` | list of callbacks and its mutex, an eventfd | `post` from any thread, `handleEvents` on the loop | `EventLoop` |
| `TimerQueue`, `Timer` | two multimaps of timers, a mutex, a timerfd | `runOnceAfter`, `runEveryInterval`, the two unlocked calls for callbacks, `timerHandle` | `EventLoop`; the clock |
| `SignalMonitor` | handler map, signalfd mask, blocked set of the calling thread | `add`, `del`, `handleSignal` | `EventLoop`; the kernel |
| `Engine` | owns a loop and the services, made on first use; plugin data map | `FdMonitor` calls, `run`, `stop`, `waitAndHandleEvents`, data map | all of the above |
| `Thread`, `EventLoopThread`, `EventThreadPool` | started flag, the loop's address, the pool's index | start-up handshake, choice of a loop | `EventLoop` |
| `TcpConnect`, `Buffer` | connection state, read and write buffer, event mask | read, write, error and close events, `write`, `writeInLoop`, `shutdownWrite` | its loop; the server's callbacks |
| `TcpServer`, `TcpAccept` | connection pool by peer address | accept, add, remove, write by name | thread pool, connections |
| `Socket`, `SocketOperation`, `SocketAddr` | a descriptor; an address | wrappers of system calls; addresses from and to text | connections, `TcpAccept` |
| `PluginCreator`, `PluginMap`, `SharedLibraryMap` | weak map of live plugins, libraries by path | search the environment's paths, then the directory | `Engine`, `dlopen` |
| `IOContextAdapter` | stream descriptors with awaited and collected events | add, modify, delete, completion handlers | Boost.Asio; nothing calls it |
| `commonapi` | none | forwards C calls | `Engine` |

What is hard, and what correctness means there:

* *Reactor.* It has no lock and runs callbacks in the middle of a batch; those
  may remove, close and reopen descriptors whose events are still to come in the
  same batch. Correct: no event reaches a file that is gone, registry and epoll
  agree, whatever is ready and has a callback is handled.
* *Callback queue.* Posters, wake-up and drain interleave. Correct: each callback
  once, in order, in the end; a drain that ends.
* *Loops.* Functions run with the mutex held; a loop may be made on one thread
  and run on another; nothing wakes a loop for a function or a `stop`. Correct:
  each function once, in order, on the loop's thread, with nobody waiting for
  ever.
* *Timers.* One timerfd for many timers, set by whoever adds one and by the
  handler, against a clock that moves between any two steps. Correct: the timerfd
  expires in time for the earliest timer, so every timer fires.
* *Connections and server.* Worker and accepting threads share connections
  without a lock, buffers meet partial writes, callbacks destroy their object.
* *Signals.* Three copies of a set (map, signalfd, what the thread blocks) change
  one after the other while signals arrive and other monitors read. Correct: what is
  handled is blocked, and a waiting signal reaches its handler.
* *Threads, plugins.* Handshakes with condition variables, maps of weak pointers.

`PROJECT.json` lists each hazard at its line with the properties that cover it.

## The modules

| module | models | checked by | proved in |
|---|---|---|---|
| `CallbackService` | the promise of `CallbackQueueService` | (abstract; implemented by `CallbackQueue` and by each loop of `EventLoop`) | |
| `CallbackQueue` | `src/event/eventfd.cpp` | `MCCallbackQueue` | `CallbackQueueProofs` |
| `EventHandle` | `Event::handle`: which callbacks, in which order | by its users | |
| `EventDispatch` | `event.cpp`, `eventCtrl.cpp`, `epoll.cpp`, `Engine`'s `FdMonitor` | `MCEventDispatch` | `EventDispatchProofs` |
| `EventLoop` | `src/event/eventLoop.cpp`, `Engine::run`, `stop`, `waitAndHandleEvents` | `MCEventLoop` | `EventLoopProofs` |
| `TimerQueue` | `src/timer/*.cpp` | `MCTimerQueue` | `TimerQueueProofs` |
| `ByteFifo` | the promise of `Buffer` | (abstract) | |
| `Buffer` | `src/net/tcp/buffer.cpp` | `MCBuffer` | `BufferProofs` |
| `TcpConnection` | `tcpConnect.cpp` and the server's part in a connection's life | `MCTcpConnection` | `TcpConnectionProofs` |
| `ThreadPool` | `src/thread/*.cpp` | `MCThreadPool` | `TcpServerProofs` |
| `Plugins` | `pluginCreator.cpp`, `PluginMap.hpp`, `utilMap.hpp`, the engine's two maps | `MCPlugins` | `EngineServicesProofs` |
| `SocketAddr` | `socketAddr.cpp` and the conversions of `socketOperation.cpp` | with `MCTcpServer` | `TcpServerProofs` |
| `TcpServer` | `tcpServer.cpp`, `tcpAccept.cpp`, the references to a `TcpConnect` | `MCTcpServer` | `TcpServerProofs` |
| `Signals` | `signalMonitor.cpp`, `Engine::getSignalMonitor` | `MCSignals` | `EngineServicesProofs` |

Two proof modules hold the theorems of two components each: `TcpServerProofs` those of
the server and of the pool of threads it uses, `EngineServicesProofs` those of the two
services an engine makes for its plugins. The pair's specifications meet in one name
space there, which is why `ThreadPool` and `Plugins` say `PoolInit`, `PoolNext`,
`PoolTypeOK`, `PluginsSpec` and so on where the other modules say `Init` or `Spec`.

An operator named `X_Y`, set before `X`, is `X` with a plausible bug; nothing uses
it except a run that puts it in `X`'s place to see that a property notices.

### CallbackQueue

`callbacks` is the list under `callbacksMutex`, `counter` the eventfd, `batch` the
local list of `executeCallbacks`; `poster[t]` and `loop` are program counters. Each
critical section is one action: `PushBack` and `WriteEventFd` are the halves of
`postImpl`, `Wake`, `ReadEventFd`, `PopAll`, `ExecuteFirst`, `CallbackReturns` and
`RoundDone` the loop's side. The loop's thread posts as well, from a callback or a
handler. `posted` and `executed` are histories. `Service` maps the queue to
`CallbackService` with what is pending = `batch` followed by `callbacks`.

### EventDispatch

`pool` is the registry, `interest` the kernel's list, `batch` what remains of
`activeEvents`, `current` and `todo` the callbacks `Event::handle` has still to make.
`file[fd]` counts the openings of a descriptor number, so that an `Event` remembers for
which file it was made; `opens` counts all of them and is bounded by `MaxOpens`. The
descriptor numbers are a finite set, as a process's are. `EventHandle`'s `Calls` gives
the callbacks for what was reported among those that are set. User code (`UserCode`)
acts between polls and inside a callback: `OpenFile`, `CloseFile`, `AddFd`, `RemoveFd`,
`ModifyFd` for plugins, `Watch` and `SetMask` for the engine's own sockets. Where the
code does something unexpected the model does it too: `addFd` on a registered descriptor
keeps the old event, `modifyFd` re-applies the registered event's mask, `eventPool[fd]`
of a removed descriptor makes an empty entry that is taken out again, a mask of several
directions gives an event without any. Code comments (`event.cpp:103`,
`eventCtrl.cpp:36`) ask users to remove a descriptor before they close it; one who does
not, or who adds a number that is not open (the registry takes it, epoll does not), is
recorded in `breach`, and the properties make no promise for that descriptor until it is
removed: there registry and epoll do drift apart, and what the properties show is that
the drift does not spread.

### EventLoop

`driver[l]` and `pc[l]` say which thread is inside `run()` (`check`, `poll`, `drain`,
`clear`) or `handleEvent()` (`handle`) of loop `l`; `stack[t]` is the nest of functions
thread `t` is in, `wants[t]` the loop whose mutex it waits for. The mutex is held
exactly while `pc` is `drain` or `clear`. `RunInline` and `RunInLoop` are the branches
of `runInLoop`, the latter followed by `AddFun` when the mutex is free. What a poll
dispatches is any user code. `GivesTo` says to which other loops the functions of a loop
may give functions, and any relation will do, since the code puts no limit on it. Two
drains that give functions to each other deadlock (`eventLoop.cpp:33`), in the model and
in the run: `OnlyMutualGivingDeadlocks` says that wherever threads wait in a circle,
loops among those being drained give to one another, so that nothing else, a thread's
own loop above all, closes a circle; `AddedRuns` and `StopEnds` except a loop whose
thread waits in one (`Deadlocked`). An application whose loops give functions in one
direction only has no circle (`OrderedGivingGoesOn`). Threads and loops are finitely
many. A loop is handed to another thread only while no thread is inside one of its
functions: `threadId` is a plain variable and anything else is a data race.

### TimerQueue

`once` and `recurring` are the multimaps; `left[t]` is the time to `t`'s timeout,
negative when overdue, and `Tick` lets time pass between any two steps and waits for
nobody: a callback may take any time. Of a timeout that has passed the code asks only that
it has and which of two came first, so `left` keeps one level for each overdue timer
(`Latest`) and the order between them, and the levels end at `MaxLate`, at least the number
of timers. Intervals may be zero. `remain` and
`expired` are the timerfd. `Armed` is `Timer::getTimeInterval` with its `uint64_t`
subtraction, modulo `Wrap`. `Insert` and `Arm` are the halves of `addOnceTimer` and
`addRecurringTimer`, called with the mutex held by an outside thread or inside a
callback; `Wake` ... `Reset` are `timerHandle`.

`timerHandle` reads the clock before every callback (`timerQueue.cpp:54`, `:65`). A
recurring callback that lasts as long as its interval is due again when it returns, and
one that fires once may add another that is; the handler then never leaves the loop over
that list, and the timers of the other one starve although the timerfd is in order.
`EveryTimerFires` names this as its second exception (`NeverLeaves`): what it says is
that a timer fires unless the timerfd is stranded or the other list keeps the handler
for ever. A timer of the same list is not starved, since the one added or moved is never
earlier than now.

### Buffer

A buffer is a record of the array `cells` and its two indices. The operations of
`buffer.cpp` are functions of one record (`Ensured`, `Appended`, `Received`, `Cleared`,
`Front`), the actions choose data and lengths: `AppendData`, `ReadFromIO` with the spill
into the second area of `readv`, `ReadBytes` for all four reading calls, `RetrieveUntil`,
`Swap`. `given` and `taken` are the bytes that the last call put in or took out, and
`Fifo` maps a buffer to the bytes between its indices: in `ByteFifo` a call extends the
content by exactly the bytes it was given. The indices are
`uint32_t`; a buffer that never runs empty would pass them after 4 GB, which `MaxSize`
excludes.

### TcpConnection

One connection on its loop's thread. `state`, `mask` and `writeBuf` are the members of
`TcpConnect` and its event, `pooled` and `held` the references of the server's pool and
of the application, `alive` whether `~TcpConnect` has not run; `peer`, `inbox`,
`socketError` and `shut` are the socket. `WriteDirect`, `WriteFails` and `WriteBuffered` are
the branches of `write()`; `ReadSome`, `ReadEnd`, `WriteEvent` and `ErrorEvent` what
`Event::handle` calls, with `CloseEvent` inside them; `CallbackReturns` includes the
removal from the pool and the destructor that may follow. Bytes are numbered as they
are given, so that `sent` and `writeBuf` show an exchange, a loss or a repetition.
`accept()` (`socketOperation.cpp:94`) gives blocking sockets, although `write()` is written
for non-blocking ones; a write is one step that takes any part of the data, which
covers both, and the time a blocking one holds up the loop is not modelled. The
application is assumed to ignore `SIGPIPE`, which nothing in `src/` does.

`event.cpp:103` asks that a callback remove a descriptor from epoll before it closes it.
`~TcpConnect` does, yet when the peer ends its stream while bytes are buffered, `IN` and
`OUT` are reported together, the read callback closes and destroys the connection, and
`handle()` goes on to call the write callback bound to it (`event.cpp:127`). From there on
the program's behaviour is undefined and the model's ends (`CallsTheDead`,
`loop = "undefined"`). `ReferencesKeepAlive` says that nothing else leads there: the
connection was closed, and the call that is left is the write callback of a connection
with bytes to send.

### ThreadPool

`main` is the thread inside `EventThreadPool::init`, `i` the thread it works on,
`thread[t]` where the `std::thread` is. `MakeThread` and `Construct` are the constructors of
`Thread` and of `EventLoopThread`; between them the new thread already runs. `Start`,
`BeginRun` and `Wakes` are the first handshake, `GetLoop`, `PublishLoop`, `WaitEnds` and
`PushLoop` the second one, where `WaitEndsByItself` is a spurious wake-up: the code waits
under an `if`, and such a thread is remembered in `spurious`. `GetOneLoop` is the choice of
a loop; without threads it is the main loop and changes nothing.

### SocketAddr

An address is the bytes of its IP address and port as the network sees them, a text the
numbers in it; a number is what `std::stoi` read, as a set that is empty when it throws.
`LittleEndian` is the byte order of the build, since `toAddrIpv4` makes a number of four
bytes and `ipToString` takes a number's bytes in memory order. Left out are the search for
`:` and `.` in the text and a `SocketAddr` that is not `valid`.

### TcpServer

`at[t]` says what thread `t` is doing and with which connection: the main thread makes a
connection (`Accept`), enters it in the map (`Insert`), enables its events (`Connected`)
and calls `connectCallback`; a connection's own thread takes its events (`Event`), and
`Event::handle` calls the handlers for them one after the other, `todo[t]` being those
that are left (`EventHandle`'s `Calls`): a read runs `messageCallback` (`Message`) or
closes the connection (`CloseEvent`), which after `connectCloseCallback` erases the
map's entry (`Erase`), and a `WriteEvent` returns at once. `loops` is the pool of
threads, empty when the server runs on the main loop alone; which of its loops a
connection gets is `ThreadPool`'s business and any of them here. A connection is `Alive`
while the map, the application (`held`) or a running function refers to it; a handler
that is about to begin, the first of a report (`event`) or a later one (`handle`), has a
bare `this` and counts for nothing; on a connection that is gone the program is
undefined and the thread takes no further step. `connectPool` is a `std::map` without a
lock: an insertion or erasure lasts from one step to the next, and when two of them
overlap (`Torn`) no further step is taken. A connection's `name`, its key in the map, is
the text of its peer's `address` (`SocketAddr`). `insert` leaves an older entry of the
same name alone, and `reused` remembers the names for which that happened: a peer that
is gone may come back from the same address before its first connection's end has been
handled.

The code promises less than a reader may expect, and the properties say where. With
workers, a connection's messages and even its close may come before its
`connectCallback`; a connection closed that early, or kept out of the map by an older
one of its name, is destroyed by the main thread while its worker may be entering a
handler on it. And with or without workers the first handler of a report may close the
connection, or the application may drop it in a callback, so that it is destroyed before
`handle()` calls the next handler on it (`event.cpp:127`): a peer that ends while bytes are
buffered is enough. `HandlersHaveTheirObject` shows that a handler finds its object in all
other cases, and that each of these takes a connection that was closed or that shares its
peer's address with another.

### Plugins

`searches` is the stack of calls of `PluginCreator::create`: a frame has the files that
are left, whether they are the directory's, and whether the creator function of the
first one is running. `PassOver`, `UseLibrary`, `CreatorReturnsNull` and
`CreatorReturns` are the ways out of `createFromFile`, `ListDirectory` follows the
environment's path, `Throws` is the `std::string` thrown when nothing was found, through
as many searches as no creator catches it in. Whether a library opens and has the
function is open at every attempt. `pluginMap` counts the entries of the multimap, so
that a duplicate shows; its pointers are weak, and `live` says which of them lead to a
plugin. A plugin found on the environment's path is never entered
(`pluginCreator.cpp:139` returns before line 153), and `LivePluginsListed` says exactly
which are.

`ExistingPlugins` is `Engine::getExistingPlugins`, which locks every weak pointer: the list
it returns has a plugin as often as there are entries for it, so one that a creator
returned for two types is in it twice.

### Signals

Per monitor `map` (the handlers) and `mask` (its signalfd), per thread `blocked`; a
signal sent to the process is `pending` while every thread blocks it, and otherwise its
default action ends the process (`victim`). `Add` and `Watch`, `Del` and `Unblock` are
the halves of `add` and `del`: a signal may arrive between them. `Poll` is epoll's
report of a signalfd; user code of the same batch may come before `HandleSignal` reads
it, and may delete what was waiting, or another engine's monitor may read it. The read
then fails (`ReadFails`), its result is not looked at, and the signal number is whatever
the stack held: some handler, or none, is called, and `stray` remembers it.
`StrayAfterRaceOnly` shows that this takes such a race (`robbed`, kept while the loop is at the monitor). A handler may call
`add` and `del`, of its own signal too; a `del` of its own destroys the `std::function`
that is running (`signalMonitor.cpp:55`), after which the process may end or go on
(`Outcomes`). `block()` is `pthread_sigmask`: it changes the calling thread and is
inherited by the threads that one makes later (`Spawn`), where the comment above the
call (`signalMonitor.cpp:96`) speaks of the process. So a thread made before the first
`add` takes the signal by default (the disjunct `~ Running` of `SignalIsHandled`), and
with two engines on one thread a `del` in one unblocks what the other still handles
(`undone`, the exception in `HandledIsBlocked`). A second thread that drives the other
engine is in the instance. The signals are assumed to have a default action that ends
the process.

## The runs

| run | bounds | distinct states | what it shows |
|---|---|---|---|
| `callback_queue` | two threads and the loop's, two callbacks, four posts, eventfd full at 2 | 8 201 | `ExactlyOnceInOrder`, `NoLostWakeUp`, `RoundIsClosed`, `EveryPostRuns`, refinement of `CallbackService` |
| `event_dispatch` | two numbers, three openings in all, error, hang-up, readable and writable | 424 406 | `RegistryInStep`, `InterestHasHandler`, `HandlesOpenFile`, `ReadyIsHandled` |
| `event_loop` | an application loop made by one thread and run by another, a pool loop, three threads, two functions added to each, one called inline; each loop may give to the other | 65 052 | `OnceInOrder`, `OnLoopThread`, `OnlyMutualGivingDeadlocks`, `AddedRuns`, `StopEnds` |
| `timers` | three timers, intervals 0 and 2, least interval 1, three levels of lateness | 275 197 | `ArmedInTime`, `EveryTimerFires` |
| `timer_stall` | the same | (violation) | `EarlierTimersAreArmed` fails |
| `buffer` | two buffers, two bytes, arrays of one to three cells, a spill area of two | 25 558 | types, refinement of `ByteFifo` |
| `tcp_connection` | three bytes out, two bytes in | 6 561 | `StreamInOrder`, `WritingIffBuffered`, `ReferencesKeepAlive`, `ClosedForGood`, `EndReported`, `EndIsNoticed` |
| `refused_write` | two bytes out, one in | (violation) | `RefusalMeansFailure` fails |
| `thread_pool` | three threads, three rounds | 3 866 | `RunsConstructed`, `PoolLoopsReady`, `Balanced`, `InitEnds` |
| `tcp_server` | three connections from two ports of a host that share a byte; no, one or two workers | 961 137 | `PoolServes`, `HandlersHaveTheirObject` |
| `plugins` | two files, two types, two plugins, one search inside another | 54 064 | `LivePluginsListed`, `OpenedOnce` |
| `signals` | two signals, two monitors on one thread or two, two arrivals | 151 269 | `HandledIsBlocked`, `StrayAfterRaceOnly`, `SignalIsHandled` |

The type invariants of `CallbackQueue`, `EventLoop`, `TcpConnection` and `Signals` are
proved for every instance and not repeated in the runs; those of `EventDispatch`,
`TimerQueue`, `Buffer`, `TcpServer`, `ThreadPool` (`PoolTypeOK`) and `Plugins`
(`PluginsTypeOK`) are in both.

Why the bounds are enough. *callback_queue*: two posters and a callback that posts make
every pair of critical sections meet; four posts fill the eventfd and leave posts behind
for a second round; two distinct callbacks show an exchange of neighbours.
*event_dispatch*: the smallest batch in which one callback disturbs another's descriptor
has two, and three openings let one number be reused twice or both be used and one
reused. *event_loop*: two loops that give to each other are the smallest circle; the
third thread is an outsider when it does not drive. *timers*: with three timers one can
run, one be overdue behind it and one be added; intervals of 0 and of more than
`MinInterval` reach the rounding, the wrap and a handler that is never through, and with
as many levels of lateness as timers no order of passed timeouts is lost. *buffer*: an
array of one cell with two bytes arriving spills at once, three cells leave room for a
partial read in front of a resize, and two distinct bytes show one that is lost, doubled
or exchanged. *tcp_connection*: three bytes are a short write, a buffered write behind
it and one more; two incoming bytes are a read that leaves one before the end of the
stream. *thread_pool*: three threads give the round a first, a middle and a last loop;
the handshakes concern one thread at a time. *tcp_server*: an address has to be used
three times before the end of one connection erases the entry of another, and two
workers are needed for two erasures to overlap; every set of what epoll may report of a
connection is there, so that one report leads to two handlers. *plugins*: one file on
both paths and one in the directory only; a search within a search meets every state of
the outer one's. *signals*: the second monitor is the one that robs or unblocks, on the
same thread or on another; the second signal is the wrong one a stray call may be for,
or the one that keeps a signalfd readable.

`timer_stall` is a disagreement between code and comments.
`timerQueue.cpp:94` and `:101` leave the timerfd alone for a timer that finds an earlier
one, since that one "will be triggered at the right time". If a timeout has already
passed when the timerfd is armed for it (`timer.cpp:63`), the unsigned difference
wraps, the timerfd is set for a time that never comes, and every timer added later
finds the overdue one earlier and leaves it so. It takes a callback that outlasts
another timer's timeout, or a thread preempted between making a timer and arming
it. The other timer properties except that state by name, `Stranded`.

`refused_write`: `writeEvent` (`tcpConnect.cpp:88`) says "connect failed" and returns if its
event is writing. epoll reports room only of an event that is writing, so the flush
below is never reached. What `write()` once buffered stays there, every later write
joins it, and the loop is woken again and again. `StreamInOrder` and `WritingIffBuffered`
hold all the same; that the buffered bytes leave does not.

### Fairness

The application drives its loop (`run()`, or `waitAndHandleEvents` again and again),
callbacks, handlers and functions return (unless they wait for a mutex), the system runs
every thread that can go on, a thread inside `post()` or inside an addition of a timer
comes to the end of it, and time passes: weak fairness of exactly those steps. Nobody
has to post, add, or change a descriptor. Strong fairness is assumed twice. `AddFun` in
`EventLoop`: a `std::mutex` is not fair by its specification, but a loop holds it
briefly once per poll, and a waiting thread needs to win once. `LoopStep` in `Signals`:
`add` and `del`, two steps each, interrupt the loop they are called from as often as
they like; user code returns all the same, and the loop goes on.

## The proofs

`CallbackQueueProofs` proves, for every set of threads and callbacks, every
bound on posts and every capacity of the eventfd (`CallbackQueueAssumption`):

* `Typing`: `TypeOK`, which is inductive.
* `OrderKept`: `ExactlyOnceInOrder`. By itself it is not inductive: `PopAll`
  overwrites `batch`, so the batch must be known to be empty whenever the loop is
  at `wait`, `ready` or `pop`. `OrderInv` adds that. The steps then rest on four
  lemmas on concatenation, `Head` and `Tail`.
* `WakeUpPending`: `NoLostWakeUp`, inductive together with `TypeOK`. Between the read
  of the eventfd and the swap nothing promises a wake-up but the loop itself, hence
  the disjunct `loop = "pop"`.
* `RoundsAreClosed`: the action property `RoundIsClosed`.
* `QueueImplementsService`: `Spec => Service!Spec`. `PushBack` is `Post`, `ExecuteFirst`
  is `Run`, all other steps stutter; `PopAll` does because of `OrderInv`.

`EventDispatchProofs` proves, for every finite set of descriptors, any masks and conditions
and any number of files opened (`EventDispatchAssumption`), from one invariant in three
parts. `KernelOK`: an open descriptor has been opened. `RegistryOK`: registry and epoll.
`DispatchOK`: the batch and the callbacks still to be made. A step of a user or of the
kernel disturbs the first two only, a step of the loop the third and, through an entry of a
removed descriptor, epoll.

* `Typing`, `RegistryKept`, `InterestHandled`: `TypeOK`, `RegistryInStep`,
  `InterestHasHandler`. The last two need what they do not say. `modifyFd` re-applies a
  registered event's mask, so it is the masks that must have callbacks (`MasksHandled`),
  whether or not epoll has seen them; and `addFd` on a registered descriptor changes
  neither side, which is right only if what is registered is watched already
  (`Watched`).
* `OpenFilesHandled`: the action property `HandlesOpenFile`.
* `EveryReadyReported`: a poll that reports anything reports every watched descriptor
  with something to report. `waitAndRunHandler` gives `epoll_wait` room for as many
  events as are registered (`eventCtrl.cpp:83`), and nothing is watched that is not
  (`RoomForAll`); so none is put off to a later batch, which is the safety core of
  `ReadyIsHandled`.

`TimerQueueProofs` proves, for every finite set of timers, every set of threads and
intervals, zero among them, and every least interval (`TimerQueueAssumption`; that there
are as many levels of lateness as timers is what lets the clock go on for ever,
`TickKeepsOrder`):

* `Typing`: `TypeOK`, the timerfd's value included: the wrapped difference is a
  `uint64_t`.
* `TimersArmed`: `ArmedInTime`. Two strengthenings: `Exclusive` (who is inside the
  queue: at most one addition, callbacks only in the two loops of `timerHandle`, the
  running timer still in its list) and `Served` (whenever the handler is not about to
  reset the timerfd anyway, it is readable, stranded, or in time for every timer but the
  one being added). That a timer which is not first leaves the timerfd alone is right
  because an earlier one is served already (`NotFirstHasEarlier`).
* `StallIsFinal`: what the run `timer_stall` shows by an example. Once the timerfd is
  armed out of reach and the queue holds a timer that is not just being added
  (`Stalled`), it stays so for ever. `StallExplained` is why: the queue then holds an
  overdue timer, earlier than any newcomer, and `needResetTimer` turns every newcomer
  away.
* `LateTimersOnly`: the exception in `ArmedInTime` has no other cause. While no timer in
  the queue is overdue, the timerfd is armed in time for each of them, whatever happened
  before.

`BufferProofs` proves, for every set of buffers and bytes, every initial size, spill
size and bound (`BufferAssumption`):

* `Typing` and `IndicesInOrder`: `TypeOK` and `EmptyStartsOver`. Neither is inductive
  alone: the copies stay in bounds because the write index does, the content stays in
  Seq(Byte) because the read index does not pass it.
* `BufferImplementsFifo`: `Spec => Fifo!Spec`. `Grown(after, before, data)` says that a
  buffer has grown by exactly `data`: same start, same bytes before its end, then those
  of `data`. It composes (`GrownTwice`), which settles the spill of `readFromIO` as a
  write followed by an append of the rest (`SplitFacts`, `ReceivedGrown`), and it means
  that the content is extended by `data` and nothing else (`GrownContent`).
  `ClearedFacts` says that a read drops the front only.

`TcpServerProofs` proves of `ThreadPool`, for every number of threads
(`ThreadPoolAssumption`), `PoolTyping`, `ThreadsRunConstructed`, `LoopsReady` and
`RoundIsBalanced`, from one invariant in parts. `Construction`: a thread that was
started is constructed, and only a started one runs. `Answers`: whoever is about to
return from `getEventLoopInThread` has a loop or was woken by nobody. `Round`: in
position order from index 1 on, the loops up to `threadIndex` are one turn ahead of the
rest. `NoNotificationMissed` is the safety core of `InitEnds`: in neither handshake does
a side wait for a notification that was given before it came (`NotificationsKept`). It
takes `InTurn`, which ties what `init()` is doing to how far the thread it works on has
got.

It proves of the server, for any number of connections, addresses and threads
(`TcpServerAssumption`), `Typing`, `PoolIsKept` and `HandlersSafe`. `PoolServes` is
preserved only if it is known who is where: `Stations` ties what a thread is doing to
the connection's owner and state, so that an erasure by another connection of the same
name contradicts `PoolServes` itself; `Settled` has nothing left to call outside
`Event::handle`. `Lives` has the order made, connected, closed; from it follows that a
connection which is not closed and whose name is its own is in the map or still in
`newConnected` (`UnclosedLives`), which settles `HandlersSafe` for pools and for every
handler after the first of a report (`TailFacts`, `OnwardKeeps`). Without a pool it
takes `AloneSafe`: nothing comes between an event and its first handler. That the
connection found under a name is the connection of that peer rests on `TextTellsApart`:
two addresses with the same text are equal, for either byte order of the build, because
exchanging the bytes of a port is reversible (`BytesExchanged`). `GivenAddressShown`
says what becomes of the address a server is given: on a little-endian build
`toAddrIpv4` puts the bytes of the IP address in memory in the opposite order, so a
server for 10.0.0.1 is bound to 1.0.0.10; on a big-endian one the port is shown with its
bytes exchanged.

`TcpConnectionProofs` proves, for every number of bytes in either direction, `Typing`,
`StreamKept`, `WritingKept`, `LifetimeKept` and `StaysClosed`. The properties hang
together: what `Event::handle` has still to call (`Batch`) decides which callback may
meet a closed or dead connection, `Closed` ties the state, the callback under way and
the pool to the number of closes, and the write of a batch needs `WritingIffBuffered`.
The steps that move bytes rest on lemmas on numbered sequences (`SentAndKept`,
`StreamGrows`). `NothingLeavesTheBuffer` is the general form of the finding
`refused_write`: once a byte is buffered, nothing is sent any more, however much is
given. It follows from `WritingIffBuffered`: the write event comes only while bytes
wait, and then it refuses. `EndStaysReported`, that `EndReported` holds, is the safety
core of `EndIsNoticed`: reading is never switched off and the object stays in the pool,
so every poll after the peer's end reports it, until the connection has been closed.

`EventLoopProofs` proves, for any finite sets of threads and loops and any `GivesTo`
among the loops (`EventLoopAssumption`), `Typing`, `FunctionsInOrder`,
`FunctionsOnThread`, `DeadlocksAreMutual` and `OrderedGivingGoesOn`. `OnceInOrder` alone
does not survive a `Clear`: `Filled` adds that the drain is through then, and that
nothing is counted through while the mutex is free. `Room` keeps `added` within its
bound with the threads that wait to add counted in. For `DeadlocksAreMutual`, `Given`
says that a thread waiting inside a drain waits for a loop that this drain's may give
to, never its own. The
loops waited for in a circle are drained by threads of the circle, each of which waits for
another of these loops, and so they give to one another (`CirclesDrain`).
`OrderedGivingGoesOn` is its use: if no loops give to one
another there is no circle.

`LoopImplementsService`: to the other threads a loop is a `CallbackService` as the
callback queue is, for each loop by itself. `AddFun` is `Post`, the call of a function
in a drain is `Run`, what is in the vector beyond the function under way is pending
(`Left`), and `Clear` stutters because of `Filled`. A function that `runInLoop` calls on
the spot, the loop's thread being its own, never enters the vector and is no part of
this.

`EngineServicesProofs` proves of `Signals`, for any signals, monitors and threads, `Typing`,
`HandledSignalsBlocked` and `StrayExplained`. `Copies` has map and signalfd agree between
calls, `Unfinished` what a half-done `add` or `del` has already achieved, and `Found` that a
signalfd found readable still has its signal unless it was robbed.

It proves of `Plugins`, for any types, files, plugins and depth of searches
(`PluginsAssumption`), `PluginsTyping`, `PluginsListed` and `LibrariesOpenedOnce`.
`Frames`: of the searches within searches all but the innermost wait for a creator,
which runs in a library that is open and was not left out. `Entered`: the multimap has
no entry twice, none that was not listed, and one of every plugin that was listed and
lives; a search that begins, ends or throws inside a creator changes nothing of this,
because a plugin is entered in the same step in which its search ends. So a plugin that
lives has one entry for each type it was listed for, which `OneEntryEach` counts.
`Opened`: a file was opened once if it is in the map of libraries and otherwise never.

All safety properties of the runs are proved. Only model-checked is liveness (fairness
and `ENABLED` are beyond the prover): `EveryPostRuns`, `ReadyIsHandled`, `AddedRuns`,
`StopEnds`, `EveryTimerFires`, `EndIsNoticed`, `InitEnds` and `SignalIsHandled`. Of most
of them the part that needs no fairness is proved: that what would be lost cannot be, by
`WakeUpPending`, `EveryReadyReported`, `DeadlocksAreMutual`, `TimersArmed`,
`EndStaysReported`, `NoNotificationMissed` and `HandledSignalsBlocked` in this order
(`StopEnds` has none).

## Not modelled

* The C interface (`commonapi.cpp`), which forwards each function to one C++ call, the
  wrappers of system calls, which have no state of their own, and logging.
* `IOContextAdapter`: its constructor drops the engine that `ComAPIEventLoop::create`
  returns, which is destroyed at once, so that its `add`, `modify` and `del` are never
  called. Besides, `add` throws when the insertion succeeded, `eventHandlerPosted` is
  never initialised, and `getComAPIEventtLoop` returns null. No state of it that the
  program can be in tells anything.
* The plugin data map (`Engine::save`, `get`, `remove`): a `std::map` on one thread.
* `waitAndHandleEvents` with a timeout of zero or less lacks a return (`engine.cpp:174`)
  and polls twice, with a negative timeout for ever; in `EventLoop` a poll has any
  length and may be followed by another.
* Data races the code allows but cannot survive: the registry, above all `addEvent` of a
  new connection on a worker's loop, and `addOnceTimer`, used from several threads
  without a lock. Of `connectPool` the model has the overlap of changes, and ends there.
* `runOnceAfter` inside a timer's callback, which locks the mutex its thread holds and
  hangs with certainty.
* Conditions no callback is registered for, above all `EPOLLERR` on a descriptor added
  for reading (`event.cpp:108`): the loop spins; `ReadyIsHandled` speaks of callable
  conditions.
* Failures of `epoll_create`, `eventfd`, `timerfd_create`: the code logs them and goes
  on with a descriptor of -1.
* `TcpConnect::write` from another thread than the loop's (`TcpServer::write` by name or
  by shared pointer does that in a pool): a race on the buffer. `writeInLoop`, which is
  the way around it, for the same reason: the function it gives to the loop holds a bare
  `this` and a reference to the caller's buffer (`tcpConnect.cpp:223`), and both may be
  gone.
* An application that drops its last reference to a connection on a thread other than
  the connection's, and the destruction of a `TcpServer`, which leaves its connections'
  callbacks bound to it.
* `getOneLoopWithHash`, which nothing calls, and a pool that is initialised twice.
* `~TimerQueue` and `~SignalMonitor`, which close a descriptor that stays registered.

## Plan

What would add most, in this order.

1. `writeInLoop` and writes by name: `TcpConnection` composed with `EventLoop`, with the
   references a given function holds.
2. `EventDispatch` and `Signals` composed, so that the batch a signalfd is reported in
   is the reactor's own.
