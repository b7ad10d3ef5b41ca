# A TLA+ model of ain_server

`ain_server` is a small C network server: a parent process, worker processes
(Linux) or worker threads (Windows), and in each worker an event loop over
connection slots, driven by io_uring or by a completion port. The repository
has no documentation; what it says of itself are comments, assertions and unit
tests. Paths below are relative to `src/ain_server/`.

## 1. Inventory

| Component | State | Operations | Talks to | What makes it correct |
|---|---|---|---|---|
| Parent, Linux (`src/core/ain_main_process.c`, `src/os/linux/ain_process.c`, `ain_memory.c`) | `_sig_stopped`, `workers_data[].quit` in a System V segment, `join` | fork workers, poll every 50 ms, spread a quit request, join, release the segment | workers, through `quit`; the terminal, through SIGINT | the segment outlives every access; nobody is asked to quit without cause; a shutdown that was asked for completes; an END is never lost |
| Worker loop (`src/core/ain_worker_proc.c`) | its slots, `time`, `pool`, `ioqe`, `quit` | start up, wait and dispatch, sweep, drain, write END | parent, through `quit`; kernel, through the queue | leaves its loop when asked; a closed slot is used again; idle connections are closed |
| Connections (`src/core/ain_conn.c`) | per slot: descriptor, `connected`, `keep_alive`, `time`, two events | accept, read, write, close | sockets below, protocol above, by callback | one operation at a time per slot; every connected slot is waiting for something; no descriptor leaks or is shared |
| io_uring queue and sockets (`src/os/linux/ain_io.c`, `ain_socket.c`) | ring, completion queue, `handler`/`fd`/`res` in each event | submit accept/read/write, wait, dispatch | kernel; `ain_conn.c` by the event's handler | the handler that runs belongs to the operation that completed |
| Protocol handlers (`src/core/ain_protocol.c`) | none of their own | on_http, on_ain, on_sip, on_proto_none | slots; on_ain writes `quit` | "quit" of a client reaches the parent |
| URI parser (`src/core/ain_protocol.c`) | bit fields of `ain_uri_t` | parse one URI from a buffer | listeners | offsets and lengths delimit the parts and stay in the buffer |
| Page allocator (`src/os/ain_memory.c`) | tags of every page, `pool_cnt`, pool bases | create, alloc, free, destroy | events, slots | extents in use never overlap; free gives back exactly what was given out; alloc returns |
| Event memory (`src/os/ain_event_memory.c`) | bit fields of an event | alloc, free | page allocator | sizes survive the bit fields |
| Configuration, listeners (`src/core/ain_conf.c`, `ain_sock.c`) | shares of connections, assignment of listeners to workers | load, resolve, listen, close | parent, workers | every listener is served; shares add up |
| Windows worker (`src/os/win/ain_io.c`, `ain_socket.c`) | completion port, overlapped events | as the Linux queue, with inline completion | kernel | a slot has one operation at a time; no socket leaks or is shared |
| Windows parent and child (`ain_main_process.c`, `src/os/win/ain_process.c`) | process handles, threads, their `quit` words | respawn the child, poll threads | child, threads | one child at a time; what threads share outlives them |
| inet helpers, unit tests (`src/os/ain_inet.c`, `src/core/ain_unit_tests.c`) | - | read a port, convert addresses, parse a list of URIs | listeners, the parser | the port is the one written; the whole list is parsed |
| system information, files, build files | - | thin wrappers | - | not modelled |

The hard behaviours: parent and workers share the `quit` words without a lock;
completions arrive in any order and meet, in the event, whatever handler and
descriptor the last submission left there; descriptors are recycled by the
kernel; processes fail at any assertion (`AIN_ASSERT_*` dereferences NULL, so
it kills the process); tags, pointers and counters are cut to narrow types.
`PROJECT.json` lists them under `hazards`, each at its line.

## 2. Modules

| Module | Models | State and actions |
|---|---|---|
| `StopBarrier` | what the parent promises about shutdown | `Stop(w)`, `Release` |
| `Supervisor` | `ain_parent_process_ux` and the part of a worker it sees | one action per read and per write of a `quit` word; one per branch of the poll's `switch`; fork, failed fork, crash, signal, command |
| `ChildProcess` | `ain_child_process`, the server process on Windows | the actions of `Supervisor` through an instance, with listeners that are opened first and dealt out |
| `SlotLife` | what a worker promises to a client | phases of a slot and its socket, slot by slot |
| `UringWorker` | `ain_worker_proc`, `ain_conn.c`, `linux/ain_io.c`, `linux/ain_socket.c`, the protocol handlers | one action per handler and outcome; `WaitEnds`, `Sweep`, `CloseAll`, `WriteEnd` for the loop; kernel and clients as external actions |
| `IocpWorker` | the same loop over `win/ain_io.c` and `win/ain_socket.c` | `TakeBatch`, `TimedOut`, `BatchDone`, one action per handler, `Sweep`, `WriteEnd` |
| `PageAllocator` | what an allocator promises | `Alloc`, `Free` on sets of extents |
| `MemPool` | `os/ain_memory.c` | one action per turn of the allocation loop, `Release` for the free, `Destroy` |
| `StartUp` | `ain_conf.c`, `ain_sock.c`, the dealing of listeners, the set-up of workers | one action per listener and worker: `LoadConfig`, `ConfigureListeners`, `DealToThread`, `Fork`, `Count`, `MakePool`, `SetUp` |
| `UriParse` | `ain_proto_parse_uri` and the loop that calls it | one action per branch for a character, `Return`, `CallAgain` |
| `UriText` | no code: what a text of URIs is, and what a record of it should say | `Mark`, `IsUri`, `Meaning`, `IsWritten`; used by `MCUriParse` and `UriParseProofs` |
| `Respawn` | `main` on Windows, `ain_parent_process`, `win/ain_process.c` | main, the parent's loop, the ends of children, Ctrl-C |
| `SupervisorProofs`, `ChildProcessProofs`, `UringWorkerProofs`, `IocpWorkerProofs`, `MemPoolProofs`, `StartUpProofs`, `UriParseProofs`, `RespawnProofs` | - | the theorems about the module each is named for |
| `MCUringWorker`, `MCIocpWorker`, `MCMemPool`, `MCStartUp`, `MCUriParse` | - | values of constants for TLC |

**Supervisor.** `ppc` is the parent's position, `i`, `j`, `join` its loop
variables, `quit[w]` the shared word, `wpc[w]` the worker's position. The poll's
`default` case reads the word in one step and stores in another, and the
spread over `j` stores one word per step, so a worker's own store may fall in
between. `Assoc` is the assignment of listeners on Linux, where child `i`
listens on every listener from number `i` on: a worker may take management
commands only if the last listener is among them. `Crash` and `ForkFails` stand
for every assertion. `ain_process_close` kills nobody: on a running child
`waitpid` with `WNOHANG` returns 0, which `ain_process_is_alive` takes for dead.

**ChildProcess.** The main thread of the Windows server polls the same words in
the same way, so its steps are those of the instance `P` of `Supervisor`; `opened`
and `owner` are added. Listener `l` belongs to thread `l` modulo the number of
threads, one console handler serves all threads, and a failed assertion ends
the process with all of them (`Crash`).

**UringWorker.** `conn[c]` is the slot; `readEvt[c]` and `writeEvt[c]` are its
two events with the handler and descriptor they hold; `ring[c]` are its
operations in the kernel and `cq` the completion queue. A handler is one action
(the worker has one thread) that does everything the call chain does, closing
or resubmitting included. `writeEvt` has no handler, because it only ever
holds one. `ior` counts completions up to just above `IO_QUERY_CNT`, the only
value it is compared with. `SlotLife` is implemented with the phase of a slot
read off its one operation. The wait is taken to end only on an empty
completion queue, as `io_uring_wait_cqes` does where the kernel takes the
timeout as an argument; completions may arrive between that and the sweep.

**IocpWorker.** `Proto` is chosen at the start from `Protos`. A slot has its
socket from the moment it accepts, `internal` and `handler` are the fields of an
event that say how its operation ended and who is told, `port` is what the
completion port has queued, `batch` what the loop has taken from it. `inline`
holds the calls of a handler out of the very call that submitted its
operation: a read or a write that succeeds at once runs its handler there,
and its packet is queued as well. `twice` counts these. Closing a socket
cancels its operations, and their packets still come, in whatever order the
system gets to them. `SubmitFails` prepares the event and the slot as the call does
before it fails, and closes the slot. The phase of a slot in `SlotLife` is where its one operation
is: in the system, or queued with what the event says of it. The worker may
also `Drop` a client whose connection idles or was reset, which that of Linux
never does; a slot with a socket and no operation would be in a phase `SlotLife`
does not know.

**MemPool.** `pages[q][k]` are the tags, `req`, `p`, `i`, `j` the variables of
`ain_pool_alloc`, `held` the extents its callers hold, `mapped` the pools that
are memory. Tags are cut to `TagMod` and distances to `DistMod`, as the casts
in the code do. An allocation is a step per turn of the outer loop, because
that loop need not end. `MapFails` says how a mapping may fail: Windows reports it by
NULL, and an assertion ends the process (`NoMemory`); Linux reports it by `MAP_FAILED`,
and the code goes on with a pool in `failed`, whose `Address` is that of any other pool
that failed.

**StartUp.** `wdata` is the owner written into each listener, in one table that
the threads of Windows share or in a copy per Linux process; `table` is what a
worker counts in its first pass over the listeners and `slots` what it sets up
in its second, with the main thread still dealing in between. Shares of
connections, sizes of pools and ports are cut to 16 bits, numbers of workers to 8,
and the tags of a pool's header, whose size `HeaderPages` works out, to 8 as well:
`Allocates` says whether the worker's table is found behind or in it, and a worker
that gets none is `stopped`.

**UriParse.** `text` is a sequence of tokens, each a character the parser tells
apart or a run of others; `off` is the offset the parser counts, `uri` its record,
every field cut to its width by `Store`. There is one action per branch of the
loop, and `And` joins the fields a branch sets always to those it sets on a
condition. `Word` and `Slashes` only serve to state properties. What a URI means is
said in `UriText` without the parser: its marks are the tokens that separate its
parts, and `Meaning` is the record they make. `MCUriParse` puts its lists together
from parts and marks, and TLC evaluates on each that it `IsWritten`.

**Respawn.** `state[c]` is a process a child can be, `handles` what the parent
keeps open. A child is recognised by its name, `ain_process_fork` returns NULL in
it, and `main` ends: `ChildMain` has no other branch. A fork that fails ends the
parent by an assertion (`ForkFails`), and so does Ctrl-C before the handler is set
(`SetSignal`).

Each module defines its mutants in front of what they alter: the same
definition with one plausible mistake. `PROJECT.json` names for each property
one that the property's run must reject.

## 3. Runs

| Run | Instance | Shows |
|---|---|---|
| `supervisor` | 3 workers, 2 listeners, 3 causes of shutdown, crashes and failed forks; fair | types, release after the last access, stops only when asked, an END stays after one cause, the barrier, a shutdown that was asked for once completes |
| `supervisor_lost_end` | 2 workers, 2 causes | **violated**: an END is overwritten, see section 5 |
| `child` | 3 threads, 2 listeners, 3 causes, failing assertions; fair | release after the last access, the steps are `Supervisor`'s, the shutdown completes |
| `worker_serve` | an http, a sip and a management slot, 3 events from outside, a clock; fair | one operation per slot, matching handler, every connection served, no leak, a quit request honoured, `SlotLife` implemented |
| `worker_reuse` | an http and a management slot, a clock; fair | **violated**: closed slots stay closed |
| `iocp_serve` | an http or sip slot and a management slot, 3 events, one operation that completes twice, the clock passes the idle limit | while nothing completes twice, one operation per slot and steps of `SlotLife` or a dropped client; sockets owned by one slot each, always |
| `iocp_quit` | the same with 2 events; fair | a quit request is honoured; closed slots are used again |
| `pool_mixed` | 3 adjacent pools of 4 pages, 4 extents of 1..3 pages, mappings that fail in both ways; fair | tags, releases and `PageAllocator` up to the second failed mapping, destruction, an allocation from unbroken pools returns |
| `pool_wide_extent` | a pool of 264 pages, tags of 8 bits | **violated**: page 256 reads as free |
| `start_up` | both systems, 1 to 4 processors, five totals of connections, five ports | slots fit the table, every listener served on its port, shares add up, pools are large enough up to 8149 connections |
| `uri` | 1140 URIs made of parts, 900 lists of two, all short texts | parts are what was written, the list is parsed to its end, host and port lie in the text if its `//` comes first |
| `respawn` | 5 processes a child can be, 3 first arguments, forks that fail; fair | one child, no handle kept, Ctrl-C ends the parent |

Bounds. `WMax = 3` is the smallest number with a worker before, at and behind
the one the parent looks at, and with `LsSize = 2` it has workers with and
without a management listener. `MaxQuits` allows a signal with one or two
commands. `MaxIo` counts what comes from outside: connections and chunks, on
Linux interrupting signals, on Windows failures. Three of them let two slots
interleave, and let one slot go through connection, chunk and answer; on Linux
an accept, a read or a write may fail without counting. As many descriptors as
slots suffice on Linux, where the kernel returns the lowest free one, so that a
closed descriptor is the next one used. The Windows runs have a third, so that
a reused slot may get another socket than the one whose packets are still
queued. `IO_QUERY_CNT = 2` replaces 20 so that the skipped
sweep happens. The clock of `UringWorker` has one tick: its value is never used
(section 5). That of `IocpWorker` begins at `Start`, above `IDLE_LIMIT` as
the seconds since 1970 are, and in `iocp_serve` ends far enough above it for a
connection to pass the limit. `MaxTwice = 1`: one operation that is handled twice
is what the properties about it need.

Three adjacent pools, mapped in neither order, let a distance be negative, and
just one page off a pool's end. `MaxHeld` and the sizes let all pools be full, so
that the last assertion is reached. A page has two bytes, so that
`MAP_FAILED`, the last byte there is, is not the start of one. `DistMod` is several times the
span of the pools, as 2^32 is for pools within 4 GB of each other; farther apart
nothing is claimed. The parts of a URI have none, one or as many characters as
their size field holds (7, 255, 4095, 16383, 1023), which puts every offset at
its largest; a run of equal characters is one token, which is sound below
offset 2^11, where such a character still has no effect. The short texts are all
of up to three tokens, and all ends of up to four behind a scheme, alone, with
`//` or with a user. Of the totals
5 is the least that leaves a connection to the http listener, 512 is the one in
the code, 8149 is the largest whose pool header has fewer than 256 pages, at 8150
the table of connections comes to lie in the header, and at 8182 it is never allocated:
`MostConnections` is that limit. Four processors are more than
there are listeners. Five processes are more than the parent can know at a
time, and one that ended may be a child again.

Properties with a condition. `EndIsFinalOfOneCause` and both `ShutdownCompletes`
claim nothing after a second cause of shutdown, because an END may be lost
then, and the second claims nothing after a failure, because a crashed worker
never writes its END. `AllocReturns` asks for pools without a free page before a
page in use (`Unbroken`): a server that never frees and whose header has fewer
than 256 pages has no other; with such a hole the loop may not end. What `MemPool` says
of tags and frees holds up to the second mapping that fails (`OneFailure`), because
`ain_pool_free` tells pools by their bases; TLC finds each of the four properties violated
without that condition. `PagesPerConnection` speaks of totals up to `MostConnections`. `OneOpPerSlot` and `FollowsSlotLife` of `IocpWorker`
hold until a handler ran twice for one operation. `HostAndPortInText` is about
URIs whose `//`, if they have one, is the only one and stands before any `@`: with
the `//` elsewhere it fails. `ParsedAsWritten` and `EveryUriParsed` are about texts that
say what they mean, that is, lists of well-formed URIs whose parts fit their
fields. What happens beyond each condition is in section 5.

Deadlock is not checked anywhere: parents and workers are meant to end, a crashed
or full pool stops, a list of URIs ends, and a worker whose clients stay away
waits.

Fairness. The operating system runs processes and threads, so the steps of
parent, workers, main thread, console handler and children are weakly fair, each
on its own; the clock goes on; the parent answers a command in its next
poll. Signals, commands, clients and failures are never required to happen. In
`Supervisor` and `ChildProcess` a worker that is asked to quit gets to its loop
condition: that is what `worker_serve` and `iocp_quit` show for a finite
number of completions, and no more can be shown on Linux, since the wait of a
worker that is kept busy has no end. `ClosedSlotReused` of `IocpWorker` needs the same:
clients that go quiet in the end, because only a wait that times out moves the
worker's time. `MemPool`: the thread that allocates runs.

## 4. Proofs

`SupervisorProofs` proves, for every number of workers, listeners and causes,
under `SupervisorAssumption` alone:

* `TypeCorrect`, by `TypeInv`, which adds to `TypeOK` what the loop variables
  are at each position of the parent (indices in range where the segment is
  indexed, and `join` at least the number of words still to read);
* `ReleaseIsSafe`. `join` only counts words that read END in this pass, and a
  word may be overwritten behind the parent's back, so
  `ReleaseAfterLastAccess` is not inductive. `PassInv` says that END is only ever
  held by a worker past its last access, that being past it is for good, and
  that a pass in which `join` has lost one unit per word read has seen END in
  each of them; `TypeInv` supplies that it never loses more than that. Only
  then is `join` 0 at the end of a pass;
* `SupervisorRefinesBarrier`, from `PassInv`: initial states map to initial
  states, and each step is `Stop(w)`, `Release` or a stutter;
* `StopsAreAskedFor`, by `AskedInv`: as long as there was no cause, every word
  reads RUN, the signal flag is down, no spread is under way and no worker has
  left its loop;
* `OneCauseKeepsEnd`: up to the second cause no END is overwritten, by
  `OnceInv`, which says which values the words can hold together with a signal,
  during a spread, and after one. That two causes break it is the run
  `supervisor_lost_end`.

`ChildProcessProofs` proves, under `ChildAssumption` alone:

* `ChildRefinesSupervisor`: each step of the Windows process is one of
  `Supervisor`, or the end of the process by a failed assertion. The step to
  prove is the management command: `OwnInv` says that the owner of the last
  listener is a thread whose listeners, on Linux, would reach the last as well;
* `ChildReleaseIsSafe`: every step but that failure preserves the invariants of
  `SupervisorProofs`, which are used through an instance; after the failure nobody
  polls any more, so nothing is released.

`MemPoolProofs` proves, for pools of every size, number and place:

* `TypeCorrect` and `DestroyGivesAllBack` (by `MappedInv`), under
  `PoolAssumption` alone;
* `TagsAreRight`, `TagsDelimit`, `FreeIsSafe` and `PoolRefinesAllocator`, all under
  `TagsFit` (a size asked for is below `TagMod`) and `DistancesFit` (pools start at
  different addresses, `MAP_FAILED` and none of them alike, and the distance of a
  page, cut to 32 bits, is its number from its own pool and the number of no page
  from another), and up to the second mapping that fails. All three are needed:
  `pool_wide_extent` is the first one's failure, a distance that is cut makes a
  free go to another pool, and two failed pools have one address, so a free in
  the second goes to the first (section 5). The last condition is part of the
  four properties (`OneFailure`), because it is not one on constants. The invariant `Inv` says that the tags of
  every extent in use count up from 1, that all other pages are tagged 0 and that
  extents in use are apart. `RunEndIs` derives from it where the scan of a
  free stops: the tag behind an extent is 0 or, where another begins, 1, and in
  neither case the next number. `TakeHoleIs` and `ReleaseIs` say what the two
  operations do to pages and extents; each preserves `Inv` by them.

`UringWorkerProofs` proves, for every number of slots, listeners, descriptors and
events, under `WorkerAssumption` alone, all safety properties of the run
`worker_serve`. None is inductive; `WorkerInv` is, and has four parts:

* `LoopInv`, the scalars. It says that `time` stays 0 and that no wait reports a
  timeout: section 5 on closed slots is a fact about all behaviours of the Linux
  build, `ClosedSlotStaysClosed`, and not only of the instance `worker_reuse`;
* `QueueInv`, the sequences: a slot has at most one operation, in the ring or in
  the completion queue, and what is in either place is pending or completed
  accordingly. Its lemmas (`CompleteOps`, `TakeOps`, `SubmitOps`) say what
  each step does to `Ops(c)`, the set of a slot's operations, and from there on
  no proof looks at a sequence;
* `SlotInv`: what slot and event hold for each kind of operation, which gives
  `HandlersMatch`;
* `SocketInv`: the open sockets are those of the operations, each of one slot. It
  is what keeps a recycled descriptor from being shared, and gives
  `ConnectionsServed` and `NoSocketLeaks`.

`WorkerImplementsSlotLife` reads the phase of each slot off its one operation:
for each handler, and each completion in the kernel, the step is one of
`SlotLife` or a stutter.

`IocpWorkerProofs` proves, under `IocpAssumption` alone, the safety properties of
`iocp_serve`. `SocketsOwned` is inductive with `LoopInv`, even when operations
are handled twice. While none was (`twice = 0`), `QueueInv` and `SlotInv` hold as
well. Here a socket is closed under an operation, whose packet is still queued when
the slot accepts again. Why there is no second operation then is the last
part of `SlotInv`: the sweep accepts on closed slots only after a wait that timed
out, so the port was empty, and what was cancelled since belongs to slots this
very sweep closes. `LoopInv` supplies the other half: a slot closed since the last
timeout carries the present time, which tells it from one that may be used again.
`EverySlotServed` is the other part: a slot with a socket has its one operation.

`WorkerFollowsSlotLife` reads the phase of a slot off that operation (`PhaseFacts`)
and adds `LifeInv`: a read in the system will meet the handler it was submitted with,
a slot that accepts has no client, so a sweep drops none that listens, and the
end is final. `HandleLife`, `KernelLife` and `SweepLife` give each step its place
in `SlotLife`; the slots a step does not touch stay (`Stays`), although packets of
others come and go around theirs.

`StartUpProofs` proves, for every number of processors (256 and its multiples,
which make no workers, included):

* `TypeCorrect` and `SlotsAlwaysFit`, for every total of connections, under
  `StartUpAssumption` alone. A worker reads a table of listeners that is still being
  written, twice; `StartUpInv` says what it can see. On Windows (`Threads`)
  a listener is dealt when the main thread has passed it, and a thread starts
  only after all that is dealt to it; on Linux (`Processes`) a copy holds what
  its process has dealt to itself. `Progress` then gives what a worker has counted
  and set up at each point as a sum over the listeners it is dealt (`Before`);
* `NeverMoreThanTotal`, for totals of at least the four connections the
  management listener has to itself; `TwoPagesPerConnection`, for totals from 4 to
  8149 (`MostConnections`), above which the header of a pool has a 256th page;
  `EveryListenerIsDealt`, for totals
  of at least 5. Outside these bounds each fails in the code (section 5), so they
  are assumptions of the theorems and not of the module;
* `ListenersAreServed`, the same with the ports, for totals of at least 5 and
  under `PortsWritten`: a port, if there is one, is the digits of a number from 1
  to 65535 (`PortsAreWritten`, which TLC evaluates for the run's ports). The code
  reads digits first to last, `WrittenAs` takes them off last to first, and the
  two have to meet in a number. The library's induction rules take an operator and
  cannot be used, but a set of numbers has a least member (`Least`), so the proof
  asks for the least number of digits at which the two differ: `Steps` states that
  way that a recursive function follows its steps, and `ToNumWritten` that what
  is read is what was written, a 16-bit sum included. `PortInv` carries it from
  the addresses to the listeners.

`UriParseProofs` proves, for every text and under `TextsAssumption` alone:

* `HostAndPortStayInside`. By `UriInv` a host, or the length of one, is only ever
  recorded behind a `//` or an `@` of this URI (`HostMarked`), so that where the
  `//` comes first it finds none to move. A value cut to its field is never
  larger than it was (`CutToWidth`), so nothing depends on the parts being short
  enough for their fields;
* `EveryCallTakesText`: each call that finds a URI takes at least one token, so
  the loop over a list ends;
* `UrisParsedAsWritten` and `ListIsParsed`, under `TextsWritten`: a text that says
  what it means is a list of URIs with marks (`ListedTextsAreWritten` is that for
  the run's lists). `ReadInv` needs no induction over the characters of a part,
  because it says at every position what has been read so far: each field is
  what the URI means by it once the position is past the mark that sets it for the
  last time, and 0 until then (`Known`). The one exception is `UserRead`: until
  the `@` is met what turns out to be the user is read as a host, a port or a
  path, and all the proof needs of that is that the `@` undoes it. `ListInv`
  adds which URI of the list the parser is in. That the parts fit their fields
  is what makes every cut the identity, and is needed: `WidthPathShort` is the
  mutant for it.

`RespawnProofs` proves, for every number of processes: `TypeCorrect`,
`NeverTwoChildren` and `ForkedWhenNoneLives`, by `KnownInv`, which says that a
child lives, or has open handles, only if the parent knows it.

Only model-checked:

* liveness: both `ShutdownCompletes`, both `QuitHonoured`, both
  `ClosedSlotReused`, `AllocReturns`, `ReturnsAfterCtrlC`. The prover has no rules
  for fairness and ENABLED that reach them;
* that the texts, ports and totals of the runs are such as the theorems speak of:
  assumptions of the MC modules, which TLC evaluates.

## 5. What the code gets wrong

Against a sentence in the repository, each with a run:

* *A lost END* (`ain_main_process.c:136-138`). A signal makes worker 0 end
  before worker 1 is looked at; worker 1's management client overwrites its own
  request with QUIT_CMD, and the spread of that command stores QUIT_REQ over
  worker 0's END. No process is left to write END again, and the parent polls
  forever. `ain_worker_proc.h:11` calls the state "quited".
* *Closed slots stay closed* (`linux/ain_io.c:91`). The wait returns a count,
  never `AIN_TIMEOUT`, so `wdata->time` stays 0 and the two conditions of the
  sweep that compare times (`ain_worker_proc.c:70-74`, "re-use closed socket",
  "keep-alive close") are never true. Each slot serves one connection. With a
  wait that does report the timeout, the sweep would accept again on slots whose
  accept is still pending; the mutant `ExpiredTimeout` shows it breaking
  `OneOpPerSlot`, so the repair needs both.
* *Tags are bytes* (`os/ain_memory.c:83`). The 256th page of an extent is tagged
  0, which `ain_memory.c:28` reserves for free pages. The server's extents are
  shorter up to 8149 connections. From 8150 the header of its own pool has 256
  pages (`ain_memory.c:56`), and the table of connections is put over the last.

Without a sentence to hold against them, but seen on the way:

* Parent. A crashed worker keeps it polling. A worker whose number is not below
  the number of listeners has no listener on Linux, and a child closes
  descriptor 0 for listeners it never opened. 256 processors are 0 workers.
* Windows. A child leaves `main` at once (`ain_main.c:23`), so the parent starts
  one after the other and none serves; only the debugger's child does. A signal
  during the parent's sleep may make it start one more child on its way out. A
  child that cannot be started ends the parent (`win/ain_process.c:25,34`), and so
  does a Ctrl-C before its handler is set. A
  read or write that succeeds at once is handled twice (`win/ain_socket.c:97`):
  the slot then has two operations, or is closed under a queued packet. A
  connection that is kept alive before the first timeout of a wait is closed by
  the next sweep, because the time it is compared with was still 0.
* Pools. `ain_pool_alloc` never returns when a hole that is too short is followed
  by a page in use (`ain_memory.c:63-82`). It takes no free to get there: from 8182
  connections the page of the header that is tagged 0 is such a hole, and a worker
  that allocates its table never starts. Above 32759 connections the size of a pool
  wraps as well. A failed `mmap` is compared with NULL (`ain_memory.c:73`), so it
  is handed out as memory, and all pools that failed share the address `MAP_FAILED`:
  a free in the second clears the tags of an extent of the first, or fails the
  assertion. `MemPool` does the same; its properties end there.
* Configuration. The share of connections wraps if the total is below the
  management listener's four, and is a division by zero if every listener has
  a share of its own.
* URIs. `?` or `#` directly behind the host leaves the host without a size and
  makes the rest the path; a `//` behind a host moves the host but keeps its length
  (`a://:://` and `a:b@c://` put it beyond the text); the path of `a:/#@` lies beyond it as
  well; an `@` in a path turns all before it into a user.

## 6. Not modelled

* Short writes count as writes, in the code and in the models; requests are not
  assembled in the code, so no request is related to a response.
* Creation of the ring and the check of the kernel's version; the look-up of
  socket extensions and an AcceptEx that completes at once; waits that fail.
* The widths of the sizes in an event, and memory that runs out during a
  connection: events are allocated once per slot and stay.
* The two `continue` of `ain_listeners_conf` (`ain_sock.c:23,31-34`), which leave a
  listener zeroed: the two URIs of the configuration parse, and their hosts convert.
* Texts that do not end in NUL: behind the authority the parser reads one byte past
  the size it was given (`ain_protocol.c:31`), and in `UriParse` finds no `/` there.
* The text of responses, conversion of addresses, system information, files and
  the build: wrappers or conversions without state.

Descriptors of accepts that complete while a Linux worker drains are left to the
end of the process. Closing an idle connection is part of `UringWorker!Sweep`, but
no state of the Linux build reaches it; `IocpWorker` does.

## 7. Plan

All modules of the plan are there but one, and every safety property of the runs
that pass is a theorem. Further work, in this order:

1. That the parts of a URI are set in their order, as an action property.
2. `AinServer`: several `UringWorker`s under the `Supervisor`, composed through
   the `quit` words. `Supervisor` has all of a worker that the parent sees, so it
   would tie the two abstractions of `quit` together more than find anything new.
3. Creation and version check of the ring.
