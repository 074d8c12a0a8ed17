# A TLA+ model of opx-common-utils

The library is a set of building blocks for switch software: a thread pool, a
select-based socket service and an event service built on each other, three
kinds of trees and lists used by routing tables, and small tools around files,
sockets, bits and XML. This directory holds TLA+ modules for its parts, the TLC
runs that check them on small instances, and TLAPS proofs about the parts where
threads, clients or walkers meet.

Paths below are relative to `src/` of the library (`src/…`, `inc/opx/…` inside
it). `PROJECT.json` maps each definition to the lines it stands for.

## How to run

    tlasany ThreadPool.tla
    tlc -config ThreadPool.cfg MCThreadPool.tla      # any .cfg with its MC module
    tlapm ThreadPool_proofs.tla

## Inventory

| part | state | operations | hard behaviour |
|---|---|---|---|
| thread pool (`std_thread_pool.cpp`) | job list, `shutdown`, one mutex, one condition variable | create, job_add, worker loop, delete | lost wake-ups, shutdown without join, flag written without lock |
| socket service (`std_socket_service.cpp`) | `m_clients`, `pending`, `m_pending_close`, `max_fd`, wake-up pipe | loop, accept, client jobs, client_add, client_close, run, destroy | descriptors reused while jobs hold the number, self-pipe, select on stale copies |
| event service (`std_event_service.cpp`, `std_event_utils.cpp`) | registration tree, `m_event_clients`, read-write lock | register, remove, publish, connect, leave | slow and vanished clients, concurrent publishers, stale registrations |
| socket tools (`std_socket_tools.cpp`) | none of its own | connect with timeout, `_process_op` | partial writes, EINTR and timeout loops |
| radical lists (`std_radical.c`) over `std_llist.c` | change list, markers of walkers | change, walk, constructors, destructors | walkers that stop in the middle while the list changes |
| radix tree (`std_radix.c`) | bit tree, per node version, lock and delete flag | insert, remove, look-ups, walks, setversion | lazy deletion under walkers, version walk |
| red-black tree (`std_rbtree.c`) | tree | insert, remove, ordered look-ups, walk | rebalancing |
| bit masks, merge sort, TLV, IP masks, chmod bits | none | pure functions | boundaries, fixed widths |
| file tools, select wrapper | none | retry loops, descriptor cloning | bounded retries, error paths |
| condition variable class | count, mutex, condition | wait, timed wait, signal | timeout racing a signal |
| command redirection | sockets, two threads, one buffer | init, connection, console reader, end of a session | a flag read between selects, error paths that close twice |
| configuration node | count of loaded documents, values handed out | load, unload, values, walking | one cache for all documents, count without lock |
| configuration file | pairs by group and key | set, write, open | writes that fail half way |
| user permissions, directories, strings | none | chmod clauses, iteration, tokenizers | odd inputs |
| shared libraries, namespaces, descriptors | none of their own, but the process's | load, switch, open, redirect | every call may fail after others have succeeded |
| threads, locks, time, MAC addresses, mappings | — | wrappers of libc, or formatting | nothing concurrent of their own |

How they interact. The socket service runs its loop as an endless job of its own
thread pool, and hands accepted connections and ready clients to the same pool
as further jobs; each job calls back into the application (`new_client`,
`some_data`, `del_client`) and then gives the descriptor back to the loop
through shared sets and a pipe. With `thread_pool_size` 1 the jobs run inside
the loop instead. The event service is such an application: its callbacks
change the registration tree under a write lock and publish under a read lock,
and a publish that fails calls back into the socket service
(`client_close`). The radical lists sit on the radix tree: each route is linked
in a change list that walkers traverse. Command redirection and the event
service move their bytes with the file and socket tools, and the file tools of
`std_netns_fd_open` change the namespace through `std_system.c`. The trees, the
parsers and the pure functions are called by users of the library and do not
call each other.

What makes each correct:

* pool: jobs start in order, once each; no job waits while a worker sleeps;
  delete reaches every worker it can.
* socket service: the callbacks of one client never overlap; a job finds the
  connection it was made for; no client is forgotten by the loop; closes hit
  what they were meant for; data is served and descriptors are given back.
* event service: one whole copy to every registered client and to no other; a
  slow client delays but does not stop publishers; a client that leaves in order
  takes its registrations with it. One that is closed after a failed publish does
  not, and the next on its descriptor meets them: see `event_newcomer`.
* transfers: bytes and messages arrive in order, none twice and none left out,
  however the kernel, signals and timeouts cut them; calls that do not block end.
* condition variable: no work is promised twice or left while somebody waits; a
  caller that comes back without any has waited as long as it said.
* console redirection: one session at a time sees all of the shell's output; a
  session ends when its client leaves, or on request.
* radical: every reader sees every change once, oldest first.
* radix, red-black tree, lists: pointers stay those of the structure, look-ups
  agree with the set or sequence they hold; a walk that gives way misses nothing
  that stays, and what is removed under it goes when it is over.
* descriptors, libraries, documents: a call that fails leaves nothing behind,
  and what is in use is not given back.
* parsers: what was written is read back; every entry is visited once.
* pure functions: agreement with a reference definition, boundaries included.

## Modules

| module | models |
|---|---|
| `JobPool` | what `std_thread_pool.h` promises, without threads |
| `ThreadPool` | `std_thread_pool.cpp`; implements `JobPool` |
| `ThreadPool_proofs`, `SocketService_proofs`, `EventService_proofs`, `CondVar_proofs`, `Radical_proofs`, `Framing_proofs`, `CmdRedir_proofs`, `LinkedList_proofs` | theorems about these modules |
| `SocketService` | `std_socket_service.cpp` |
| `EventService` | `std_event_service.cpp` and the sending side of `std_event_utils.cpp` |
| `EventScripts` | keys, events and what the clients of its instances ask for |
| `Framing` | messages on one connection: `std_event_utils.cpp` and the client calls of `std_event_service.cpp` |
| `Transfer` | `std_socket_op`, `std_read`, `std_write` and the vector calls, with the select wrapper |
| `CondVar` | the class of `std_condition_variable.h` |
| `CmdRedir` | `std_cmd_redir.c` |
| `RouteTable` | what `std_radix.h` promises: a set of prefixes, and look-ups by definition |
| `Radix` | `std_radix.c`, with version walks that give way; implements `RouteTable` |
| `Lists` | sequences with the operations of `std_llist.h`; what lists promise |
| `LinkedList` | `std_llist.c`, pointer by pointer; implements `Lists` |
| `Radical` | `std_radical.c` over `Lists` |
| `SortedNodes` | what `std_rbtree.h` promises: nodes sorted by key |
| `RBTree` | `std_rbtree.c`, pointer by pointer; implements `SortedNodes` |
| `Bits`, `MergeSort`, `Tlv`, `IpMask`, `Text` | bit arrays, the sort, attributes, masks, the tokenizers |
| `ConfigNode`, `ConfigFile`, `Permissions`, `Directory` | the modules of the same names, `std_user_chmod`, `std_dir_iterate` |
| `Descriptors`, `SharedLibs` | calls that take and give back descriptors and namespaces; `std_shlib.c` |
| `MCThreadPool`, `MCSocketService`, `MCEventService`, `MCRadix` | constants of the TLC instances, symmetry |
| `MCServices`, `MCLibrary` | the other parts side by side, each in an instance of its own |

Operators named `X_Something` and commented "Mutant" or "Fault" are plausible
bugs put in the place of `X`; no specification uses them. For each property of
a passing run there is one that breaks it.

### ThreadPool

State: `pc` is where each worker stands in `worker_thread`/`dequeue`, `owner`
the holder of `m_lock`, `jobs` the list, `curr` the job a worker has popped,
`mgr` and `sigs` the progress of the creating and deleting thread. A step is the
code between two points another thread can tell apart: the job list is only
touched under the mutex, so `add_work` is one step; `shutdown` is written
without it, so its two reads in a worker (`:116`, `:92`) are two steps.

| action | code |
|---|---|
| `AddWork` | `add_work` 64-75; a failing `push_back` changes nothing |
| `Lock`, `LoopTest` | `worker_thread` 113-121, return of `pthread_cond_wait` |
| `DequeueShutdown`, `DequeueOpen`, `TakeJob`, `TakeNothing`, `RunJob`, `Relock` | `dequeue` 91-111 |
| `SpuriousWakeup` | allowed by `pthread_cond_wait` |
| `CreateThread`, `CreateDone`, `CreateFails` | `std_thread_pool_create` |
| `Delete`, `SignalOne`, `DestroyCond`, `DestroyMutex`, `Free` | `do_shutdown`, `std_thread_pool_delete` |

Destroying a mutex or condition variable in use is undefined; the model has the
outcomes of glibc: the mutex either refuses (EBUSY) while somebody uses it or
stops excluding, the condition variable may block the deleting thread. After
`Free` a worker that reads the context is not described any further.

### SocketService

A connection and its descriptor are two things: `open` is the kernel's table
from descriptors to connections, and the code's sets (`clients`, `pending`,
`pclose`) hold descriptors. Each job remembers, as history, the connection that
was behind its descriptor when it was made.

| action | code |
|---|---|
| `ProcessClosed` | `process_closed`, then `rset = pending` |
| `SelectReady`, `SelectTimeout`, `SelectFails` | `socket_service` 226-270, probing included |
| `Serve`, `Accept` | `process_sockets` 189-204 |
| `ServeClient`, `ServeDone`, `QueueJob` | 206-216, `busy`, `queue_job` with its failure |
| `CallNewClient`, `CallSomeData` | the two job functions up to the callback's answer |
| `NewConn`, `WakeNew`, `Returned`, `Wake` | `new_conn`, `returned`, `server_wakeup`; the mutex is kept from `NewConn` to `Wake` because `queue_and_add_socket` and `client_add` take it around both |
| `PendClose` | `pend_close` |
| `ClientClose`, `ClientAdd` | the API calls, at any time |
| `Connect`, `PeerSends`, `PeerCloses`, `BreakClient` | outside the library |

`inline`, taken from the constant `Modes` at the start, is `thread_pool_size` 1:
`queue_job` then calls the job itself, and the loop takes no step before it has
ended (`LoopFree`).

`StartJob` starts the oldest job on a free worker, which is what `JobPool`
promises; the worker the loop occupies is not in `Workers`. The application's
callbacks read one message and may end a connection whenever they like.
`some_data` waits when it is called for a descriptor without data, as a
blocking read does. Not in the model: failures of `init`, and `destroy`, which
deletes the pool and frees the service ten milliseconds later while the loop
may sleep in `select` for a second.

### EventService

The socket service appears as what the first model shows of it: `clients`,
`armed`, `pclose`, `queue`, jobs that give the client back (`Return`) or up
(`Drop`), and `CloseLoop`. The loop disarms a client and queues a job for it
(`QueueData`), and a free worker starts the oldest job (`Start`), perhaps when the
descriptor has another owner: a job holds the descriptor, and the connection it
serves is, as history, the one behind the descriptor when it starts and again
when it receives. The tree is the set `regs` of (key, descriptor) pairs: a node exists
when somebody registers at it or below, and a missing node ends a publish just
as a node without clients below it does. Keys are never empty here: a
registration at the root is stored by the code and never looked at. Sections
under the write lock are one step, enabled when no worker publishes
(`NoReader`); a publish is a sequence of `Send` and `SendFails` steps, node by
node and descriptor by descriptor, and `done` is `already_sent`. An event is two
pieces on the wire, and a client buffers `Room` pieces, so that a write may be
accepted in parts. The buffer-size request only changes a socket option.
`Script` fixes what each connection asks, the runs vary when.

### Framing, Transfer

`Transfer` is one call, from its first system call to its answer. A byte is
named by its place in the buffer vector, so that `moved`, the places moved so
far, tells whether a resumed call went on where it should. The kernel moves any
number of bytes (`Move`), a signal interrupts (`Interrupted`), the descriptor
would block (`WouldBlock`, `Ready`, `TimedOut`), the other end reads, writes or
closes. The three loops differ in what they pass next (`Rest`), in the bound on
signals and in what they say at the end of a file. `fail_retry` of
`std_socket_op` is unsigned, and never below zero.

`Framing` has the parts of messages in `stream`. A send puts any beginning of a
message there, all of it on success; the two receiving calls take header,
operation, key and data one after the other and leave the rest behind where the
code does. `misused` marks a sender that goes on after a send was cut, after
which nothing is promised. The data of an event counts in whole parts.

### CondVar

Each thread is idle, at its predicate with the mutex, asleep, or awake and
waiting for the mutex. `Post` is the user's: work added and one or all notified
under the mutex. `clock` is the monotonic clock; a waiter may time out at its
deadline or any time later.

### CmdRedir

`console_reader` is the loop of that function: `wait_for_connection`, `ResetFlag`,
`Top`, `Select`, and the two copies (`CopyOut`, `CopyIn`), whose reads and writes
are steps of their own. A write blocks when the other end has no room: `GiveOut`
puts output into a client's buffer and `PutIn` input into the shell's, as much as
there is room for. A client or shell that does not read holds the reader in
`write` (`std_cmd_redir.c:98`, called at `:234` and `:241`), for ever if it never
reads, and so do a shell and a reader that wait for room at each other. `LeftIsEnded`
therefore says that a session whose client has left ends *unless the reader is held
by the shell* (`HeldByShell`). Output and input are pieces; `buff` is the one buffer that serves both
directions, with what it still holds when a new client comes; that rest is sent to
the client before anything of its session and is not counted as part of it
(`got`). The shell, clients and the caller of `term_conn` are free.

### Radix, RouteTable

Nodes are named by the bits that lead to them. The library takes no locks: a
walk gives way only inside its callback, where the user may insert, remove, set
versions and start further walks; so every step of another actor is guarded by
`Yielded`. `Down`, `Call`, `Right`, `Up`, `Tidy` are the directions of
`std_radix_versionwalk`, `Returns` and `Stops` the two answers of a callback.
`removed` is `_std_radix_remove`, whose second result is where the walk goes on.
`todo` is history: the routes of the walk's range that are there and have not
been called back. A walk whose callback stops it tidies on the way up and then
reads the route of the node it stood on (`std_radix.c:1460-1470`), which the tidying
may have freed when the callback removed that route: the model has the tidying,
and neither the read nor the head that the walk returns. `WalksOnTree` is about
walks under way and says nothing of a walk that has been stopped. Allocation succeeds, the statistics are left out, and so is
`std_radix_walk` that resumes with a head it returned.

`Live`, the routes not marked, with their versions are the abstract state.
`TableStep` says that each insertion, removal, setversion and reset is that of
`RouteTable` and that walks, which carry out removals, change nothing.

### Radical, LinkedList, Lists

`list` is the change list, routes and markers, as a sequence; `Lists` has the
operations of `std_llist.h` on sequences, and `LinkedList` is shown to do to its
chain of pointers what `Lists` says. A reader gives way in its callback
(`reading[r].at = "call"`). `unseen` is history. `Wrap` stands for 2^64: the
version wraps between walks only, and the user calls `std_radical_procverwrap`
before anything else, as the header asks. Markers are placed anew at any time, in
callbacks and by a callback's own reader too (`WalkConstructor`,
`WalkConstructorAfter`). That does not lose a change, but a marker's version
may then not be that of its place: after its own callback it has the version of the
route that was given, wherever it stands now, and behind another reader's marker in
the middle of that one's callback it has the version from before the call. `moved` and
`loose` are history and say of which markers this is so; `MarkerVersion` is about the
others. What a callback does is restricted in three ways: it starts no walk on the marker of
the walk it is called by, does not destruct that marker, and asks for its route again
only when it has neither removed nor re-listed it nor reset its marker. In the last
case `std_radical.c:271` would take the marker to the route wherever that is now, past
changes that were not given.

### RBTree, SortedNodes

Nodes are numbers and may have equal keys. Left and right are mirror images in
the code and a parameter in the model. Removal with two children splices out
the successor and puts it in place of the node, as the code does; the parent
left in the nil node is part of the state.

### The rest of the library

`Bits`, `Tlv`, `ConfigNode`, `ConfigFile`, `SharedLibs` and `Permissions` have a
caller that uses the operations in any order within a bound. `MergeSort`,
`IpMask`, `Text` and `Directory` compute once from any input of a small set.
`ConfigFile` has texts of characters and a reader whose buffer (`LineMax`) the longest
lines exceed, so that it reads them in pieces. Values are set before the first
write. One line of a write may fail, with any beginning of it in the file, or the
end of the file may be lost when it is closed. `Directory` has entries whose type the
file system does not tell, `Permissions` the empty string.
`Descriptors` is each of the calls, one system call per step, any of which may
fail. Bytes have four bits in `Bits`, which keeps every boundary.

### MCServices, MCLibrary

These parts share no state in the code, so that each of the two modules is a
choice: `part` says whose behaviour it is, the other parts' variables are
`None`, and the next-state relation is that part's own `Next`. The event service
has four instances: `MCServices` extends it for the first, with several
publishers, whose properties are then the very formulas of the theorems, and the
others have a second set of variables. `MCLibrary` extends `Radical` in the same
way, and what it checks of the change list, which stays empty in the other parts, is
what is proved. The other properties
are conjunctions of `part = … => Part!Property`; what each conjunct says stands
in the module of its part, where there are also mutants for the conjuncts of
the shared properties.

## Runs

| run | instance | shows |
|---|---|---|
| `pool` | 3 workers, 3 jobs and an endless one, creation may fail | wake-ups, exactly once, signals of delete; `JobPool` is implemented, fairness included; delete of an idle pool returns |
| `pool_delete_busy` | 2 workers, 1 job | violation: a busy worker is left waiting for ever by delete |
| `socket_pool` | 2 connections (one by `client_add`), 2 descriptors, 2 workers or jobs in the loop, pipe of 8 | callbacks do not overlap, jobs are not stale, `max_fd` covers; data served, descriptors given back, closes carried out |
| `socket_close` | 2 connections after each other on 1 descriptor, 1 worker or jobs in the loop, `client_close` and closes behind the service at any time | no client forgotten, none armed that is gone; the loop repairs itself |
| `socket_stale` | one descriptor, 2 workers, `client_close` | violation: a late second close hits a new connection |
| `socket_pipe` | 3 connections, pipe of 2 | violation: full pipe and mutex stop the service |
| `services` | event service: 3 clients with 2 publishers and 2 workers (`pool`); clients that leave (`leave`), 1 worker, 3 connections on 2 descriptors; clients that do not read (`slow`), 2 workers; clients that stay, 1 worker, buffers of half an event (`single`). `Transfer` with vectors of up to 3 buffers and 2 signals. `Framing` with 2 messages and buffers of 1 and 4. `CondVar` with 2 threads, 2 posts. `CmdRedir` with 2 clients, and little room towards shell and client | one copy to each registered client and none to others; where clients leave, every registration is one that a connection on its descriptor asked for; whole events from one worker; publishers and requests end; bytes and messages in order; no work promised twice; sessions without gaps |
| `event_newcomer` | 3 clients on 2 descriptors | violation: a new client is refused because of an old one |
| `event_mixed` | 2 publishers, buffer of half an event | violation: two events mix on one stream |
| `library` | `Radix` with 4 prefixes, 2 walkers, versions to 1; `Radical` with 2 routes, 2 readers, versions modulo 4; `RBTree` with 7 nodes of 4 keys; `LinkedList` with 4; the small parts | structures sound, look-ups right, walks complete, removals carried out, no change missed, refinements of `RouteTable`, `Lists` and `SortedNodes`, nothing left behind by failures, functions right |
| `radix_walk` | 4 prefixes, 1 walker | violation: a walk that carries out a removal misses a route |
| `redir_term` | 2 clients | violation: a session goes on after it was to be terminated |

Why the bounds are enough. A wake-up can get lost between two workers, so three
workers leave one to spare, and the fourth job is the one that is added while all
three are busy; a stale number needs one
descriptor and two connections. A full pipe is the same state at 2 bytes as at
the 65536 of Linux, and the counterexample fills it through different jobs;
the passing runs of the socket service have a pipe of 8, which their few
connections and messages cannot fill. `MaxSends` bounds what peers send. A
`services` has some 411,000 states and `library` some 419,000. A
publish meets at most two nodes and three descriptors, enough for a client
registered twice, one that fails and one behind it. Four prefixes are the fewest that have a
node with two children, one below a route, and glue at and below the root. A
version and its successor tell recent from old. Two readers can pass each
other and each other's markers, and a version modulo 4 wraps while two routes
are listed. Seven nodes make a red-black tree whose removals reach every case of
the rebalancing, equal keys included. Two signals and `STD_MAX_EINTR` 1 exceed
the bound by one. A vector of three buffers, one of them empty, has every way to
resume. No run with liveness properties uses symmetry. `library` has no liveness
property, so that it may take the walkers of the radix tree, and the routes and
the readers of the change list, as interchangeable.

Deadlock. `socket_pool` and `socket_close` check for it, and `radix_walk` does. The other runs turn the
check off: a deleted pool, an event server with quiet clients, a transfer that is
done and a function that is computed do nothing
more, and with a short pipe the socket service really stops (`socket_pipe`).

Fairness. Every thread that can take its next step does, callbacks return
(jobs in `Endless` excepted), and the select loop goes on; nothing obliges
peers or the application. A thread waits for a mutex under weak fairness only:
it is sure to get it because the instances contend for it finitely often, and a
starving mutex is not ruled out by the models. `pthread_cond_destroy` is only
sure to return when nobody waits. Among clients that do not read the 100 ms timeout appears as
the right to give up on a full buffer; giving up is weakly fair. A thread at the
condition variable has strong fairness: others lock and unlock the mutex for
ever, and it has it at last; nothing is promised of who is woken. The caller of a transfer
runs, its other end need not. The console reader runs, and nobody else need.
Of the parts of `library` nothing is required to happen.

Comments that the code does not keep, met while modelling; the models have what
the code does, and no run is made of them:

* `std_rbtree.h:361` and `:499` have a walk begin from the node with the key given,
  inclusive; the code begins behind it, and with the first node of all when the key
  is above all others. `:379` and `:518` have a walk return the node next to the one
  called back last; `std_rbtree.c:755` returns the one called back last. A caller that
  hands the result to the next walk gets every node once because the two differences
  make up for each other (`walkfrom`, `WalksWhole`).
* `std_bit_masks.h:151` has `std_find_last_bit` start at the bit position given and
  work back. The code counts that position from the end of the array (`from = len -
  from`, `std_bit_masks.c:138`), as its unit test has it (`std_bit_mask_ut.cpp:52`), and
  inside a byte it does not start there: the mask of `std_bit_masks.c:104` is an int
  shifted by at most seven and leaves all bits of the byte, so that the answer may
  be behind the beginning (`last_bit8`; `LastIsNearest` has what the code answers).
* `std_radical.h:83`: the constructor "may be called any time to reset a walk". From
  the walk's own callback it resets the place and not the version: after the callback
  `std_radical.c:255` gives the marker the version of the route it was called with, so
  that `nextversion` may be at or below it. Likewise `walkconstructorafter` behind a marker
  in the middle of a callback (`:97`). See `loose`.
* `std_directory.h:65` traverses all sub directories; on a file system that gives no
  types, `std_directory_readdir_r.cpp:72-85` takes nothing for a directory: it calls back
  for `.` and `..` and does not descend (`UNKNOWN`).
* `std_user_perm.h:47` wants at least one clause; the empty string is accepted, and
  `std_user_perm.cpp:193` then calls `chmod` with no permissions at all (`changed`).
* `std_config_file_open` takes a line of more than 1023 bytes for several
  (`std_config_file.cpp:89`, `:111`), and the rest of a long header or value may be read
  as a line of its own. `std_config_file_write` goes on after a line that failed (`:227`);
  when a part of it is in the file, the next group's header is glued to it, not
  seen as one, and its pairs are read back in the group before (`Plain`, `glued`).
* `std_event_service.cpp:192` closes a client that cannot be written to and leaves its
  registrations: until it has been refused (`event_newcomer`), the next connection with
  the descriptor is sent what the old one registered for. `SentAsRegistered` is about
  clients that stay.
* `std_radical.h:136` walks changes with a version "less than" `max_ver`;
  `std_radical.c:230` includes it (`Round`).
* `std_event_service.h:185` calls the buffer's length the maximum that can be
  received; `std_event_utils.cpp:141` compares it with a size that still counts
  the event's header (`recv_msg`).
* `std_socket_tools.h:129` wants all data of a write written; without
  `std_socket_transit_f_ALL` a part is reported as success (`Move`).

## Proofs

Each `_proofs` module extends the module it is about. A theorem holds for every
value of the constants that satisfies the assumptions named; TLC had checked the
inductive invariants on the instances of the runs, with every combination of the
hypotheses, before they were proved.

### ThreadPool_proofs

For any finite set of workers and any set of jobs, from `ThreadPoolAssumption`
(workers finite, `Endless` among the jobs, `Nobody` distinct).

* `TypeCorrect`: types, and `BusyHasJob`, which is needed for the type of `done`.
* `WakeupCorrect`: `NoLostWakeup` is inductive over the types. A worker goes to
  wait only after it saw the list empty under the mutex; the job that arrives
  afterwards brings a signal, and a worker that pops one of several passes a
  signal on.
* `LifeCorrect`: the invariant of deletion. `MutexInv` says that the mutex, while
  it exists, excludes; `TearDownInv` ties the manager's place to `shutdown`,
  `sigs` and the threads created; `LateInv` says that whoever is past the test
  in `dequeue` with a job to start after shutdown belongs to `busyAt`.
* `NoStartCorrect`: the action property `NoStartAfterShutdown` from it.
* `DeleteWakesIdleWorkers`: `OnlyBusyLeftWaiting` by counting: until the signals
  are sent there are at least as many left as idle workers to wake (`CountInv`),
  and no step adds one.
* `JobsCorrect`: `EachJobOnce`; its five parts are inductive together.
* `PoolImplementsJobPool`: initial states and steps of the pool are initial
  states and steps, or stutters, of `JobPool` under the mapping `Promise`. The
  bound on concurrent jobs comes from an injection of jobs into workers.

### SocketService_proofs

For any connections, workers, finite set of descriptors, length of the pipe and
number of messages, from `SocketServiceAssumption` and `JobAssumption` (`None`
is not a job). The descriptors are finite because `FD_SETSIZE` is; `max_fd` is a
maximum over them.

* `TypeCorrect` and `NobodyForgotten` need no more: whatever the application
  closes, with or behind the service, a client is armed, in a job, or about to be
  closed.
* `OneJobEach`, `JobsMeetTheirConnection`, `ArmedAreWatched`, `ClosesAsAsked` are
  about an application that closes no descriptor itself (`~AppMayBreak`) and, with
  a pool, does not call `client_close` (`AppMayClose => Modes \subseteq {TRUE}`).
  Otherwise they are false: `socket_stale` is the counterexample.
  `OneJobPerClient` is not inductive. `Owned` is: what `queue`, a thread with a
  client, `pending` and `pclose` hold is disjoint (`TokenInv`), open and still the
  same connection (`OpenInv`), and `rset` is a part of `pending` until the loop
  has served it (`RsetInv`). Where jobs run in the loop, `pclose` may meet the
  others while the loop is held up, so those parts say `inline`.
* `MaxInv` adds to `MaxFdCovers` that a client is in `clients` before it is
  armed or queued: `setup_max_fd` looks at nothing else.
* `AskedInv` carries the wish to close from `client_close` or a callback's answer
  to `process_closed`.

### EventService_proofs

For any connections, workers, descriptors, events, keys, room in the buffers and
any requests, from `EventAssumption`: descriptors are numbers, keys and
scripts are sequences, `None` is distinct.

* `TypeCorrect`: types, by `ShapeInv`, which also has a worker at the place of the
  request it received.
* `OneCopy`: `AtMostOnce`, for events that are published once (`PublishedOnce`;
  otherwise two copies are right). The clients may leave and stall, descriptors
  be used again, and workers interleave. `SentInv` is the invariant: on the
  connections behind descriptors that are not in `done` there is nothing of the
  event, or, behind the present target of a partial write, no tail.
* `EveryCopy` and `NoOtherCopy`: `CopyToAll` and `OnlyRegistered`, for clients that
  stay and read (`Staying`), any number of workers. `PlaceInv` has every client
  in one place, armed, with a job queued, or served, `WorkInv` says that a worker's descriptor still leads to its
  client, `TreeInv` that the tree holds `interest` and nothing else, `DoneInv` that
  whatever is in `done` has the event's tail.
* `WholeCopies`: `WholeEvents`, for `Staying` and one worker (`Alone`). With two it is
  false: `event_mixed`. `WholeInv` ties a head at the end of a connection to the
  worker that owes the tail.
* `OwnRegistrations`: `RegistrationsOwned`, for any number of workers, leaving and slow
  clients included: every registration in the tree is one that a connection on that
  descriptor, present or past, has asked for and not taken back; in particular, none
  of a client that left in order is there when it has been forgotten. `OwnedInv` is the
  invariant: some assignment of descriptors to connections agrees with the kernel's table,
  with what each job serves and with every registration. It grows when a connection is
  accepted, and no step takes an entry back, for a job goes on with the number of a
  connection that is closed already.

That whole events need clients that stay was found by the proof: with leaving
clients and one worker the invariant could not be closed, and TLC shows why on
4 connections and 3 events. The registrations of a client that was closed after a
failed write stay in the tree; the next publish fails on the same descriptor and
asks for its close again, and `pend_close` does not look whether it is a client's
(`std_socket_service.cpp:88`). That second close hits the connection that has the
descriptor by then, perhaps between the two parts of an event, and the tail goes
to the owner after that. It is the fault of `socket_stale`, met without a call of
the application. An instance with two events cannot show it; `services` therefore
checks `WholeEvents` where it is true (`SingleWhole`), and `RegistrationsOwned`
where clients leave (`LeavesInOrder`). Neither says that a descriptor's next owner
is free of the last one's registrations: it is not, after a failed publish.

### CondVar_proofs

For any threads, intervals that are numbers, and no bound on clock or work.
`NobodyOvertaken`: who is told there is work finds it, because the predicate is
read with the mutex held (`MutexInv`). `CallersWait`: callers without work have
waited as their call says; `DeadlineInv` relates deadline, last wake-up and
interval. The run checks both as conjuncts of `NeverOvertaken` and `WaitsOut` of
`MCServices`.

### Radical_proofs

For any routes and readers and any width of versions, from `RadicalAssumption`:
there are fewer routes than versions, which are numbers of 64 bits, and routes and
markers are different things. `unseen`, what a reader has still to be given, is history.

* `TypeCorrect`: types; renumbering after a wrap stays below the width, by counting
  the routes listed.
* `ChangesSeen`: `NoMissedChange`. Behind a marker stands what its reader has to be
  given, through appends, removals, callbacks and the walks of others.
* `ChangesInOrder`: `OldestFirst`, and `VersionParts`: `MarkerVersion`.

Positions in the list change with every call, the order of what stays does not. So
each call of `Lists` is first described by what it does to `Precedes`, "in front of",
and no step after that mentions a place. The three properties are not inductive.
`CallInv` keeps the marker of a reader in the list during its callback. `GivenInv`
is `MarkerVersion` with the version the reader has reached in its walk (`Given`), since
the marker's own is written at the end, and it speaks of the markers that are not
`loose`, and in a callback of those not placed anew. `AgainInv` is about a callback that asks for its
route again: the marker goes back in front of that route, which is right only because
nothing has come between the two and the marker's old version parts what is in front.

### Framing_proofs

For any `Sizes` of events and `Spaces` in buffers that are numbers, and no bound on
messages. `MessagesInOrder` is `WholeInOrder`, `BuffersHold` is `EventsThatFit`; the run
checks both as conjuncts of `Delivered`. `WholeInOrder` says nothing of what is still in
the stream, so it is not inductive. `StreamInv` does: the messages sent and not
received lie in the stream one behind the other, message i up to some place `o[i]`, and
behind the last of them is at most the begin of one whose send was cut. A receiving
call then takes a whole message or fails; it could take a wrong one only if the size in
a header did not count what follows it, which `MessagesInv` rules out. The invariant
holds where no call has failed and no sender went on after a cut (`misused`): after
that the stream has no beginning of a message to hold on to, in the code as in the model.

### CmdRedir_proofs

For any clients, room and amount of output, provided that `None` is not a client.
`SessionsWhole` is `SessionWhole`, another conjunct of `Delivered`. `OutputInv` has in the
socket pair the pieces from the last read to the last written; `UpToInv` says that the
present session ends with the last that was read, which is stronger than `SessionWhole`
for a session that has been given nothing: what it is given next must then begin
anywhere. That a new session has been given nothing is `NamesInv`: a client connects
once. `PlaceInv` has no client exactly where the reader waits for one; `copy_to_fd` can
end the session in the middle of a round, and the second call of the round must see it.

### LinkedList_proofs

For any finite set of items and keys that are integers, if the two nodes of the list
head, `Null` and the items are different things. `WaysAgree` is `TwoWays`, a conjunct of
`Containers`; `ListsImplemented` is `AsPromised`, a conjunct of `EffectsAsPromised`, and
makes the chain of pointers a refinement of `Lists`. The invariant is that the pointers
are those of some sequence without repetitions: neighbours point to each other and the
rest to nothing. Two lemmas say what a link more and a link less make of such a
sequence, and each call is one of the two, at a place that is read off the pointers.

`Behind`, the loop that looks for the place of a key, and `Entries` are recursive
functions. Neither is proved by induction over data: the function is written down
(the first place from here where the loop ends; a beginning of the sequence), shown to
solve the recursion, and any other solution differs from it at a first place, which
the least element of a set of numbers rules out. That the loop ends on every list with
an entry is part of the lemma.

### Only model-checked

All liveness (`DeleteReturns`, `SlowRequestsEnd`, `CallsEnd`, `DataServed`, the
fairness part of `KeepsPromise`, …), which the proof system cannot treat, and
everything about the modules without a `_proofs` module. `RBTree`, `MergeSort` and
`Directory` have RECURSIVE operators and stay with TLC. What the recursive functions of
`Radix`, `Transfer`, `Tlv`, `Text`, `Permissions` and `ConfigNode` compute (walks, descents,
tokenizers) is checked only: the induction theorems of the library take an operator
as a parameter, which the provers cannot instantiate, and an explicit form such as
the one of the two loops of `LinkedList` has not been stated for them.

## What the models do not describe

Memory after it is freed, which includes a route that stays in the radical change
list when a walk of the radix tree frees it, and the node whose route a stopped walk
returns after its own tidying has freed it (`std_radix.c:1460-1470`); a callback of
`std_radical_walkchangelist` that asks for its route again after it has changed it or
reset its marker; the outcomes of data races inside
`std::set` and `std::map` and on the document count of `std_config_node.cpp`
(each access is taken as atomic; `PROJECT.json` names the lines, such as
`m_clients`, "access by server only", which jobs and `client_add` use too);
allocation failures other than that of a queued job; a `select` interrupted more
often than `std_select_ignore_intr` retries, which sends the loop round once more
without a change; descriptors beyond `FD_SETSIZE`; statistics, `rtt_routes` among
them, and printing; failures of `init` in the socket service, the event server
and command redirection; time, except as clocks of `CondVar` and `Transfer` and as
the right of a timeout to happen. `destroy` of the socket service deletes a pool
whose worker is the select loop: the pool's half of it is `pool_delete_busy`, and
the loop's half runs in freed memory.

Not modelled: threads, locks and time (wrappers of libc, in the models as steps,
lock variables and clocks), MAC addresses and integer mappings, text forms of
addresses, trimming and replacing of strings (formatting without state), error
codes and macros.

## Plan

1. `Transfer`: bytes in order and bounded buffers (`Delivered`) for any vector and any
   room.
2. `Descriptors`, `SharedLibs`: `ResourcesKept`.
3. `EventBus`, an abstract specification of the event service (who is to receive
   what), implemented by `EventService` when no client fails.
4. The change list under version walks: `Radical` over `Radix`, with the entry
   that a marked route leaves behind.
