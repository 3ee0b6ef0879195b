# A TLA+ model of php-fpm and of Zend's cycle collector

The repository is PHP 5.3.99-dev with a change to `glob()`. Most of it (the compiler and virtual
machine, the extensions) is sequential code over large data. Two parts are systems of their own, hard
to test and small enough to model. One is the FastCGI process manager, `src/sapi/fpm`: a master process
that forks, watches, signals, traces, times out and replaces worker processes, with shared memory,
pipes, sockets and Unix signals between them, and with no tests in the repository. The other is the
reference counting of the engine with its cycle collector, `src/Zend/zend_gc.c`, whose collections
start in the middle of the releases that call for them.

Source paths are under `src/sapi/fpm/fpm/`, those of section `ZendGC` under `src/Zend/`.

## 1. Inventory

| Component | State | Operations | What makes it correct |
|---|---|---|---|
| Shared-memory slots (`fpm_shm_slots.c`, `fpm_arrays.h`, `fpm_atomic.h`, `fpm_shm.c`) | per pool: the arrays `slots_used` and `slots_free`; per child an index; per process an address; per slot a spinlock and the data reported | prepare, discard, use, acquire, release | index and address lead to the same slot; no slot lost or shared; nothing left over from a former owner |
| Process control (`fpm_process_ctl.c`) | control state, last signal sent, escalation timer | `fpm_pctl`, `fpm_pctl_action_next`, `child_exited`, the two heartbeats | a shutdown is never called off, reaches everybody, and ends |
| Children (`fpm_children.c`, `fpm_worker_pool.c`, `fpm.c`) | linked lists of children, two counters, `idle_kill`, ring of last faults | make, bury, link, unlink | counters exact, `pm.max_children` kept, each death noticed and answered |
| Signals (`fpm_signals.c`) | the signal socketpair, the handlers installed | `sig_handler`, `sig_soft_quit`, `init_main`, `init_child` | no signal that matters is lost |
| Event loop (`fpm_events.c`) | queue of timers, queue of descriptors | add, del, one pass of the loop | every armed timer fires, every ready descriptor is served |
| Request stages (`fpm_request.c`) | stage and accept time in the slot | `accepting` ... `finished`, `check_timed_out` | only late requests are terminated, and all of them |
| Request loop (`fastcgi.c`, `fpm_main.c`) | connection, keep, closed, in_shutdown, requests served | accept, read, finish, close | every request read is answered once; a soft quit drains |
| Slow request tracing (`fpm_php_trace.c`, `fpm_trace_*.c`) | ptrace attachment, `tracer`, `slow_logged` | attach, dump, detach | a traced worker goes on; one trace per request |
| Status page (`fpm_status.c`) | a record in shared memory per pool | read-modify-write by workers and master | no connection counted twice; exact when undisturbed; heals |
| Worker output (`fpm_stdio.c`, `zlog.c`) | pipes from the children | read and log, close | no pipe is served after its child is closed; nothing written is lost; no pipe leaks |
| Listening sockets (`fpm_sockets.c`) | sockets with reference counts, paths in the file system | create, inherit, hand over by environment, clean up | a master that serves can be reached; a reload keeps every socket in use and closes the others; no path is left |
| Reference counting and cycle collector (`zend_gc.c`, `zend_objects_API.c`, `zend_variables.c`, properties of `zend_object_handlers.c`) | a count per zval and object, colours, the buffer of possible roots, the free list | assign, release, collect | counts exact; what is in use is not freed; garbage is found |
| Configuration, process set-up (`fpm_conf.c`, `fpm_unix.c`, `fpm_env.c`, `fpm_php.c`) | constant after start | | |

How they interact. The master is one thread. Its event loop waits in poll, drains the signal pipe
(SIGCHLD leads to `fpm_children_bury`, the administrator's signals to `fpm_pctl`), then fires the
timers (escalation of a shutdown, request timeouts, idle maintenance). Workers run the request loop
and report their stage in their slot; the master reads the slots, and acts on workers only by signals
and ptrace. The kernel delivers signals, merges equal ones, and reports deaths.

What is hard, and hardly reached by tests: signals that arrive in any handler and in processes that
have not installed theirs yet; workers that die at any point, with their lock held too; decisions on
counters and stages that are stale when they are acted on; failures of fork, allocation or fopen in
the middle of a sequence; timers set inside timer callbacks; a queue that its callbacks change while
the loop walks over it; a record in shared memory that nobody locks; masters that follow each other,
some of them killed; a collection that reads counts which a release under way has half changed.
`PROJECT.json` lists these hazards with
the line where each bites and the property that would catch it.

## 2. Modules

| Module | Models | Builds on |
|---|---|---|
| `FpmShmSlots` | the slots of one pool, its master and its processes | |
| `FpmShmSlotsProofs` | theorems about it | `FpmShmSlots` |
| `FpmMaster` | master, signal pipe and workers of any number of pools | |
| `FpmMasterProofs` | theorems about it | `FpmMaster` |
| `FpmLifecycle` | what php-fpm promises to whoever runs it; implemented by `FpmMaster` | |
| `FpmLifecycleProofs` | the theorem that it is | `FpmMasterProofs`, `FpmLifecycle` |
| `FpmRequest` | one worker serving requests, its slot, the heartbeat, ptrace | |
| `FpmRequestProofs` | theorems about it | `FpmRequest` |
| `FpmStatus` | the status record of a pool | |
| `FpmStatusProofs` | theorems about it | `FpmStatus` |
| `FpmEvents` | the event loop, its queue of descriptors, the pipes of the children | |
| `FpmEventsProofs` | theorems about it | `FpmEvents` |
| `FpmSockets` | the listening sockets over generations of masters | |
| `FpmSocketsProofs` | theorems about it | `FpmSockets` |
| `ZendGC` | counts, possible roots and collections of the Zend engine | |
| `ZendHeap` | what the engine promises a script about its data; implemented by `ZendGC` | |
| `ZendGCProofs` | theorems about `ZendGC`, and that it implements `ZendHeap` | `ZendGC`, `ZendHeap` |
| `MC...` | instances for TLC | the module of the same name |

The FPM modules overlap where the components meet, at different grain. `FpmShmSlots` establishes
that the slot the master reads is its worker's and that an update is atomic under the lock. On that
ground `FpmRequest` makes a slot update one step, and `FpmMaster` reduces the slot to one bit
(`accepting`). `FpmRequest` in turn justifies the worker states `ready`, `idle`, `busy` of `FpmMaster`.
`FpmMaster` takes SIGCHLD and the callbacks of the loop as given; `FpmEvents` shows that the loop gets
to them whatever callbacks do to its queue, as long as it does not go on from a freed element or read a
freed event (`undefined`): the first can happen wherever a callback meets the end of a pipe, the second when a
process of a script has inherited one. `FpmSockets` takes a master as one process that starts, serves,
reloads or ends, which `FpmLifecycle` shows it to be.

Two abstract specifications say what the components promise to those outside: `FpmLifecycle` to the
administrator, `ZendHeap` to the script. `FpmMaster` and `ZendGC` implement them (`KeepsLifecycle`,
`KeepsHeap`), in the runs on small instances and by theorems for all.

Definitions whose comment begins with "Mutant:" are wrong on purpose: each changes one definition the
way a plausible bug would, and shows that a property notices. They are not part of any specification.

### FpmShmSlots

State: the two arrays are sequences (index `n` of the code is `n + 1`), `shm_slot_i[c]` is the index in the
child struct, `shm_slot[c]` the address in the process. `report` is which worker's data the slot holds,
`holder` who set the lock. Actions: `fpm_shm_slots_prepare_slot`, `alloc_chunk_fails` (an element without
slot and child stays behind), `fork_child` and `fork_fails`, `bury` with `fpm_shm_slots_discard_slot`, the
heartbeat's try-lock (`check_acquire`, `check_release`), the worker's spinlock, `die` at any point. Where
giving a slot back fails because `slots_free` cannot grow, the slot is in neither array any more
(`FreeSlot`); `lost` remembers these. A removal that has to re-index such a left-over element dereferences
an uninitialised pointer: the model records it in `undefined`, and the master does nothing defined from then
on.

### FpmMaster

State: `pc` is the handler the master is in; steps inside a handler are separate where a worker, a
signal or a death can come between (each fork, each waitpid, each slot read, decision and kill). The
signal pipe is a sequence of bytes in which equal neighbours are merged. `fpm_children_make` is a
loop with its own record (`make`: pool, goal, where to return). A worker is `starting` (it still has
the master's handlers, and drops signals), `ready`, `idle` (in accept), `busy` or `zombie`.

Faithful to the code on points that matter below: `pctl_timer` set from its own callback is removed when the
callback returns, so `fpm_pctl_action` leaves it `off`; with `process_control_timeout` 0 it is `due` in the
same pass; after a failed fork the loop is not tried again; execvp may fail, and then the master exits. A
heartbeat may also attach a slow worker of a pool with a slowlog (`trace`): until it stops, signals are
`pending`; its stop takes one of them away, since it is detached with signal 0; and it may be left stopped
for ever, where SIGKILL alone acts. `Gets` says which processes a signal is not dropped by, `Hears` on which
it acts at once, `deaf` remembers to whom the last signal was lost. The emergency restart (`last_faults`) is
a nondeterministic choice after a fault.

### FpmRequest

State: the worker's `pc` in the loop of `fpm_main.c` and `fcgi_accept_request`, the connection (`fd`,
`keep`, `closed`), the slot (`stage`, `accepted`), the heartbeat (`mpc`, `slow_logged`, `tracer`), the
ptrace stop, a clock in seconds. Between taking its copy of the slot and acting on it the heartbeat
is a step behind. Clients and scripts are nondeterministic: they may take any time, keep connections
(`KeepConn`), call `fastcgi_finish_request` (at most `MaxFinishes` times), which writes FCGI_END_REQUEST
without setting `closed`; `answers` counts these records. An attached worker stops at the first
signal it takes, so a SIGTERM or SIGQUIT that arrives before the stop is swallowed by it.

### FpmLifecycle

The abstract specification: an order that only gets stronger (NORMAL, RELOADING, FINISHING,
TERMINATING), workers that are hired within the limit while there is no order, die, and are dismissed;
a master that is over when it has an order and its last worker is dismissed, in the same step and never
before. `Lifecycle` in `FpmMaster` is the mapping: linked children are the workers, processes that are
no zombies the living.

### FpmStatus

The record is a function from fields to numbers, cut into `Words` that are copied one at a time: out of
shared memory, then back. An operation of `fpm_status.c` is a copy out, a change on the stack and a copy
in; the page is a copy out. `raced` notes that an update met another operation or was cut off by the
death of its worker. The slots are one bit here (`stage`), and the idle maintenance is the count, the
report of a full pool and the update of the activity.

### FpmEvents

State: `queue` is `fpm_event_queue_fd` from its head, `polled` the elements whose index names an entry
with POLLIN the pass has not come to, `cursor` the element the loop is at. The callbacks read a pipe to
its end and remove it, or run `fpm_children_bury`, which closes pipes, forks and adds others. Each burial,
each fork and each callback is a step. A fork opens two pipes, each at the two lowest free numbers, and
keeps the reading ends; if the first or the second `pipe()`, `fd_set_blocked`, the slot or the fork fails, what
was opened by then is closed. A callback that meets the end of a pipe frees the queue element
the loop is at: `fpm_stdio_child_said` then goes on from its old contents, from the end of the list, or
into anything, `pc = "undefined"`. A pipe whose other end a process of a script keeps open survives its
child, and its event, embedded in the child, is freed all the same: `left` records it, and reading it
(`read_freed_event`) is undefined too. `unlogged` records which streams a worker has written to since a
callback last read them. The properties say what holds up to there. The queue of timers is
not modelled: it is never empty, and `timers` is their turn, which may spawn children. Systems differ
in whether the end of a pipe has POLLIN set (Linux reports POLLHUP alone, which the loop takes no
notice of, so that poll returns at once until the child is buried); the model leaves it open.

### FpmSockets

State: for each master (two, so that one can start while another ends) its copy of the configuration, the
environment variable, `sockets_list` with reference counts, the sockets of the pools, the descriptors it
holds; for the kernel, what a path leads to and what a socket is bound to. Actions are the phases of
`fpm_sockets_init_main` (import, one pool at a time, closing the unused one at a time, where the last entry
of the list takes the place of the one removed), a start that fails at any of
them, `fpm_pctl_exec`, the exit with its two steps (pid file, then paths), a kill that leaves workers with
the sockets. Keys with a comma are split when they come back from the environment: `KeyRead`. Such a
socket is not kept over a reload and its path stays, so the properties except these paths; an equal sign
in a path is not modelled. `abandoned` holds the paths that a master could not unlink since it was
killed or failed to start. An inherited socket keeps the owner and mode it was made with, which
is outside the model.

### ZendGC

State: `at` is the graph, a reference per place (variable, element, property, the handle in an object zval);
`refcount` the counts; `purple`, `buffered` and `entries` the colour, the address and the entries of the
buffer; `todo` the C stack: places yet to release, collections to run, calls of `gc_zval_possible_root` that
wait for their collection, and unsets of declared properties whose slot is not yet NULL. `release` is one
`zval_ptr_dtor` or one `zend_objects_store_del_ref`, so every cascade is a sequence of steps in which a full
buffer starts a collection, whose own releases may do so again. A collection's marking, scanning and
gathering is one step (no call leaves it): what the roots reach is `Grey`, what has references from
elsewhere and all it leads to is `Black`, the rest is garbage; that these are what the recursive walks
compute is read off the code, not checked. The releases it leads to are steps again. The order in which the
elements of one container are released is left open.

`forgotten` is what a full buffer turned away: candidates, and a zval whose count drops to 0 when the
reference kept during the collection is taken back (nobody frees it then). `undefined` is a collection
that follows an entry whose zval was freed, which happens when a candidate was entered by the releases of
its own collection and is then entered again; and a collection that follows the slot of a declared
property to the value that its `unset` is freeing (`NamesFreed`).

There are two forms of `unset`. `zend_hash_del` takes the place away before what it held is released
(`unset`). `zend_std_unset_property` releases first and writes NULL into the slot of a declared property
afterwards (`zend_object_handlers.c:768-769`). If the value is shared, the slot keeps it, counted by the
additional reference, while the collector runs (`held`). If it was the last reference, its count is gone at
once, so `at`, which has the counted references, has Nil there, and an `Unset` call below the cascade on the
stack stands for the address left in the slot until `unset_ends`.

The script is what makes and drops references: new arrays and objects, `unset`, assignments in their two
orders (new value first, or the old one released while its place still holds it), a second zval of an
object, `gc_collect_cycles`, `gc_enable` and `gc_disable`.

### ZendHeap

The abstract specification: `heap` is what the places in sight of the script hold, its variables and all
they lead to, and Nil for the others. There are no counts, no calls under way, no buffer and no
collections. A statement writes a value that is in sight to a place in sight, unsets it, or puts a value
there that is new: an array, or a zval of an object that is new or in sight. What the places no longer
lead to goes out of sight in the same step. `Seen` in `ZendGC` is the mapping: the reference of a place
that is reachable from the variables. Freed nodes whose references wait for their release, garbage, and
the local variable of the C code are out of sight; so is the address left in a slot that is being unset, since the
script does not run before the slot is NULL.

## 3. Runs

Bounds are chosen so that each limit of the code is met: slots are reused, pools reach
`pm.max_children`, spares are too few and too many, the clock passes both timeouts, `pm.max_requests`
is reached, the buffer of roots is full.

| Run | Instance | Shows |
|---|---|---|
| `shm_slots` | 3 children, 2 slots, 1 failing allocation of either array, fair | `TypeOK`, `IndexAgreesWithAddress`, `SlotsConserved`, `NoSharedSlot`, `NothingInherited`, `WorkerGetsLock` |
| `master` | a dynamic pool of at most 2 and a static pool of 1 with a slowlog, 2 processes, 1 signal, request timeouts, emergency restarts | `TypeOK`, `CountersExact`, `MaxChildrenRespected`, `NoLostSigchld`, `EveryoneSignalled`, `NoOrphanWorkers`, `KeepsLifecycle` |
| `master_live` | 1 dynamic pool without a slowlog, max 2 children, 1 signal, fair | `TerminatingEnds`, `DynamicPoolRecovers` |
| `request` | kept connections, 2 early finishes, slowlog may fail, max_requests 3, clock to 5, timeouts 2 and 1, fair | `TypeOK`, `TracedOnce`, `DrainedBeforeExit`, `SlotTellsTruth`, `TimeoutJustified`, `WatchedTimeoutKills` |
| `status` | 2 workers and the master, the record in two words, 1 reader of the page, 2 requests, 1 death, fair | `TypeOK`, `NeverOvercounts`, `ExactAlone`, `ActivityHeals` |
| `events` | a dynamic pool of 2, 6 numbers for the ends of pipes, stderr is written and may be inherited, fair | `TypeOK`, `QueueMatchesPipes`, `NoFdLeak`, `OutputLogged`, `DeathsBuried` |
| `sockets` | 2 masters, 5 configurations over an internet address, a path and a path with a comma, 5 sockets | `TypeOK`, `PoolsReachable`, `NoSocketLeak`, `ReloadKeepsSockets`, `NoPathLeft` |
| `zend_gc` | 2 arrays with one key, 2 zvals of 1 object with two properties, 1 variable, a buffer of 2 | `TypeOK`, `RefcountsExact`, `GarbageHasRoot`, `KeepsHeap` |

Processes, sockets, zvals and properties are interchangeable, so the runs of safety properties use symmetry;
runs with liveness do not. Two slots and a left-over element are the fewest for which a removal moves an
element, re-indexes another child and meets the uninitialised pointer. Two processes in two pools are the
fewest for which one pool empties while the other does not, one worker is starting while another is
signalled, a dead one waits for its burial while another is forked, and the dynamic pool is at its limit (2)
with more idle workers than its spares (1); the theorems hold for any number. One signal and an emergency
reload, in either order, let one order meet another; with two signals and the traces the run takes too long,
and `KeepsLifecycle` is a theorem for any number. Two words with the cut through the activity are the fewest
in which a copy can be torn; with three, the run takes too long, and the theorems cover every other cut. Six
numbers, four for the reading ends of two children's pipes and two for the writing ends of those just made,
are as many as are ever open, so that the kernel gives out the number of a closed pipe at once. Two masters
are what a restart needs; five sockets let a dead master's workers hold one generation of sockets while the
next two are made. A buffer of two is the smallest in which a collection frees one entry and the releases it
leads to use it before the candidate that called for it.

Four runs show the code doing something else than the documentation says; each is a finding in
`PROJECT.json`:

| Run | Documentation | What happens |
|---|---|---|
| `finishing_stuck` | SIGQUIT is a graceful stop | a worker that drops SIGQUIT and SIGTERM while it starts keeps the master finishing for ever: the timer set again in its own callback is lost, and SIGKILL never follows |
| `graceful_kills` | SIGQUIT is a graceful stop | with the default `process_control_timeout` of 0, SIGTERM follows SIGQUIT in the same pass, and kills workers in the middle of a request |
| `slowlog_unopened` | the worker is killed after the timeout | if the slowlog cannot be opened, the worker stays in its ptrace stop and cannot be terminated |
| `restart_by_pid_file` | a pool listens on its path | the init script starts the next master when the pid file is gone, and the former one unlinks the path of the new socket afterwards |

`sockets` is the same system with a script that waits for the process (`RestartWaitsFor`); the script of
the repository also goes on after 35 seconds if the master has not ended, which the model leaves out.

More limits of the code show in the models without a run of their own.

- On a kept connection `accepted` is set once, at the accept of the connection, so the request timeout
  counts from there and a request may be terminated before its time, unlike php-fpm.conf.in:226 has it.
  `TimeoutJustified` is about the first request of a connection; for the later ones it fails.
- `fastcgi_finish_request` does not set `closed`: on a connection to be kept FCGI_END_REQUEST is written again
  by every further call and at the end of the script. `DrainedBeforeExit` says that nothing else does that.
- A worker loses a signal to the stop of a slowlog trace, and one whose trace fails stays stopped; the
  escalation of a shutdown reaches it with the next signal or with SIGKILL. `EveryoneSignalled` says that
  there is no other way to outlive a signal, but to be starting.
- A script that goes on after `fastcgi_finish_request` shows as finished, so no timeout applies to it;
  nor does one to a worker left in its ptrace stop. `WatchedTimeoutKills` is about all other overdue
  requests.
- After a failed fork a static pool stays below `pm.max_children` until another of its children dies
  (`make_fails`); `DynamicPoolRecovers` is therefore about dynamic pools only.
- "accepted conn" of the status page (php-fpm.conf.in:178) can be less than the truth for ever, since
  updates that meet lose each other's count; `NeverOvercounts` is the half that holds.
- With the buffer of roots full, a candidate may be turned away or entered twice (`forgotten`,
  `undefined`); `RefcountsExact` and `GarbageHasRoot` say what holds all the same.
- While a declared property is unset its slot names a freed zval, for as long as the cascade runs
  (`zend_object_handlers.c:768-769`). A collection in that cascade that reaches the object reads it:
  `undefined`. So "nothing is freed while it is referred to" holds of counted references only, and
  `RefcountsExact`, `GarbageHasRoot` and `KeepsHeap` claim nothing of what such a collection does.

### Fairness

- Master: its event loop keeps running (weak fairness). The loop passes timers again and again, and
  the escalation and idle timers fire at some pass (strong fairness); fork does not fail for ever.
- Workers: one that has begun to start, to accept or to finish gets on, and requests end (the
  refutation of `FinishingEnds` is then not a request that never ends). No request need come, nobody
  need crash.
- Spinlock: the master tries a lock only from the heartbeat timer and keeps it for one
  copy of the slot, so a spinning worker gets it (strong fairness).
- `FpmStatus`: an operation begun is finished (weak fairness of each process's copies) and the master's
  maintenance goes round. Workers need not accept anything.
- `FpmEvents`: weak fairness of the master's steps only. A worker need not write, exit or die. waitpid
  returns dead children in some order, and every dead child before the loop ends.
- `FpmRequest`: only the heartbeat, the master's answer to a stop and the kernel's delivery of
  signals are fair; clients and scripts may stop for ever, which is what the timeout is for.

## 4. Theorems

TLC checks small instances; these are proved with TLAPS for all values of the constants, from the
named assumptions (null values are outside their sets; pools, processes and heaps are finite; the
configuration is one `fpm_conf.c` accepts).

`FpmShmSlotsProofs`: `SlotInvariant` is the induction. `IndexAgreesWithAddress` alone is not
inductive: that the element moved by a removal is re-indexed correctly needs the converse, that every
element's back pointer leads to a child whose index leads back (`ElementOwned`); that the address
stays right needs the slots of both arrays pairwise apart (`SlotsApart`); that a reused slot is free
needs `LocksOwned`. Consequences: `SlotsTypeCorrect`, `MasterReadsItsWorker`, `WorkersApart`,
`FreshSlots`. That no slot is lost is a second induction on top of it, `ConservedInv`: every slot is at some
position of one of the two arrays (`SlotSomewhere`), while `SlotsApart` says
that it is not at two; the master has written through an unset child pointer only if a failed
allocation left an element without a child (`StoppedByOrphan`). A slot dropped by a failing allocation is
in neither array and comes back in none (`LostNowhere`). Consequence: `SlotsStay`.

`FpmMasterProofs`: two inductions. `CoreInv` (types, counters, limit) needs `MakeBounded`: a
`fpm_children_make` in progress never aims above `pm.max_children`, also when it was begun by a
restart or by idle maintenance and other children died since. `MasterInv` adds the shutdown:
`ShutdownOn` (a timer or a signal sent implies a state other than NORMAL) is what makes
`NoOrphanWorkers` and `EveryoneSignalled` inductive, since no fork can follow a signal. `RequestsOK` adds
that only living workers are traced, so what is pending for one dies with it. Consequences:
`MasterTypeCorrect`, `CountersAreExact`, `PoolsStayWithinLimit`, `DeathsAreNoticed`,
`MasterEndsLast`, `ShutdownReachesAll`; and, as an action property, `ShutdownIsFinal`.
`ShutdownIrrevocable`, which it states, is among what `KeepsLifecycle` says and has no place of its own in
a run.

`FpmLifecycleProofs`: `MasterKeepsLifecycle` is the refinement. Its mapping takes the workers of a pool
to be the children linked in it, the living to be the processes that are no zombies, and the end to be
`pc` in `execed` or `exited`. A step of the shutdown that finds no child left must be one that ends the
master in the same step, which `MasterInv` does not say; `StaysUp` (a master that has an order and has
not ended has a child) is the strengthening, and it holds because the only steps that take the last
child away are the burial and the order itself, which both look at the counter at once.

`FpmRequestProofs`: for any timeouts and any `pm.max_requests`, `RequestInv` ties together what the
worker is at, what its slot shows and what the heartbeat remembers. `SlotTellsTruth` needs `Connection`
(a worker that holds a connection and has begun to read it is in a stage the heartbeat watches, also
when `fcgi_close` keeps the connection and leaves the stage alone); `TimeoutJustified` needs `Timing` (the
time in the slot is that of the request, unless the connection has been kept); `TracedOnce` needs `Tracing`
(`slow_logged` stays equal to the accept time as long as the heartbeat can see the request, so it
cannot forget it); `DrainedBeforeExit` needs `Answering`, which says at each place of the loop how
often FCGI_END_REQUEST may have been written: `closed` keeps the second and third calls of
`fcgi_finish_request` from it, and a script that has finished early and still has its connection is one
whose client asked to keep it.
`Counting` bounds `requests`. Consequences: `RequestTypeCorrect`, `RequestTimeoutJustified`,
`RequestTracedOnce`, `RequestDrained`, `RequestSlotTruth`.

`FpmStatusProofs`: for any number of workers and any way the record is cut into words,
`StatusTypeCorrect`; `StatusNeverOvercounts`, whose induction says that each word of the record, and of
each copy on a stack, holds a count that was true at some time; and `StatusExactAlone`. For the last,
`AloneInv` says what the record and the copy of the one process under way show at each word: what has
been read agrees with the record, what is being written is exact, and the part of it that is back in
the record agrees.

`FpmSocketsProofs`: for any addresses, sockets, configurations and number of masters, but from the
hypothesis `RestartWaitsFor = "exit"`: with the service script as it is the theorems are false, as the run
`restart_by_pid_file` shows. `SocketsInv` follows a socket from the environment into the list and back.
`PoolsReachable` says what holds when a master serves; the induction needs the same of a master at every
point of its start. `Environment`: what is handed over has one entry for each socket and address and the
paths still lead to them. `Listed`: the list has each open socket once, under its address or under a key
that no pool can ask for (the rest of a path with a comma). `Counted`: a refcount counts the pools that have
got their socket so far, so an entry with the count 0 is one no pool will use, and the close of unused
sockets takes no pool's socket. `Serving`: a pool has the listed socket of its address. `Kernel` and
`OneMaster` say that a socket lives as long as someone has it and that there is one master at a time;
without the latter the cleanup of one master may unlink the path of the next. That the loop that closes the
unused sockets misses none although the list changes under it is `RemoveLemma` and `NextUnusedFound`.
Consequences: `TypeCorrect`, `EveryPoolReachable`, `SocketsExact`, `ReloadHandsOver`, `PathsAccountedFor`.

`FpmEventsProofs`: for any number of children and descriptors. `EventsInv` says at every point of the loop,
also between two callbacks, what `QueueMatchesPipes` says when it may look: `InQueue` is the content of the
queue, with the events left behind kept apart from the open ones, so that a burial, which deletes some of a
child's events and leaves the others, accounts for each. `Walk` ties the loop to the queue under it: the
element it is at is in the queue and is not one it may still fire, hence the end of a pipe, which deletes
that element, takes nothing from what is still to be fired. `Room` (children linked and children to be
forked are at most `pm.max_children`) bounds the queue (`QueueFits`) and is inductive only together with the
number `fpm_children_make` has still to fork. The lemmas on sequences (`AddLemma`, `DelLemma`, `AfterLemma`,
`NextOfLemma`) say what the operations of the queue do to a sequence without repetitions. Consequences:
`TypeCorrect`, `QueueIsExact`, `PipesAreClosed`. A second induction is about the output (`LoggedInv`): the
pipes with data are those of the streams whose output is unlogged, and these are open. It rests on `FdOnce`
of the first: that one number is one stream's is why a callback, or the last look at a burial, empties the
pipe of its own stream only, and why a number that is used again starts empty. Consequence:
`OutputIsLogged`. What happens after the read of a freed event (`pc = "undefined"`) is no part of these
theorems: there the model stops.

`ZendGCProofs`: for any zvals, objects, variables, keys and properties, and a buffer of any size.
`RefcountsExact` alone is not inductive: a node is freed before what it holds is released, so that for a
while references come from nodes that are gone. `Releases` says that these are exactly the places the calls
on the C stack have yet to release, each by one of them; hence a reused zval holds nothing and no reference
is given back twice. `Assignment` says what a collection leaves of the assignment it has interrupted: its
place is still the script's and has the old value, the new value is still reachable; for an unset of a
shared value the same, with Nil as the new value. `Kinds` gives every live object zval its handle. About the
collection itself `GarbageIs` is the lemma: garbage is referred to by garbage only and kept by no call (a
garbage node's count is that of the references from grey nodes, and a black node would have made it black),
so that the script does not reach it; and what survives still has a reference when those of the garbage
zvals are taken away from it. `ReachLeast` and `ReachBefore` are what is used of reachability, `ReferMoves`
and `RefsOf` what is used of counting. Whether a zval is lost in the step of `forgotten` is part of the
invariant, and so is the state after an entry of a freed zval or the slot of a property that is being unset
was followed (`undefined`). Consequences: `TypeCorrect`, `CountsAreExact`.

That no garbage is lost is a second induction on top of it, `FoundInv`. It speaks of islands, sets of live
nodes that only their own members refer to and that no call keeps: on each there is a candidate, a purple
node with an entry, one that a full buffer turned away, or one that a call waits to buffer (`Found`).
`PurpleKnown` (the colour is not left on a node that is no candidate) is what justifies that a purple node
is not buffered again, and `WaitingIs` (what a call is about to buffer is still the candidate of its zval)
that the collection before it may do what it likes. A step that takes a reference to a node away leaves at
most that node on a new island, and an island of one zval without references is a zval whose count is 0
(`FoundAfter`); on an island that a collection leaves behind, what it found in use has a reference from the
unvisited part (`BlackIs`). Consequence: `GarbageIsFound`, also in the states after `undefined`.

`HeapIsKept` is the refinement of `ZendHeap`, with the mapping `Seen`. Its induction is `HeapInv` alone.
`SeenStays` covers all that must be invisible: the release of a reference from a freed node (by `Releases`
such a place belongs to nothing live, so it is out of sight), a collection (by `GarbageIs`), switching the
collector. `SeenWrite` and `SeenGrows` say that what becomes reachable in the concrete graph when a place
changes is what `Visible` computes from what the script saw before: what drops out of sight does not depend
on what the engine still has to release. The interrupted assignment, or unset of a shared property, is a
step of the script only when it ends (`ResumesRefines`), which is where `Assignment` is needed: its place
and its value are still in sight, so it is one `Write` of `ZendHeap`, however much was released and
collected in between. After `undefined` the theorem says only that the model goes on as if the entry or the
slot had not been followed.

Only model-checked: the liveness properties (`WorkerGetsLock`, `TerminatingEnds`,
`DynamicPoolRecovers`, `TimeoutKills`, `WatchedTimeoutKills`, `ActivityHeals`, `DeathsBuried`), which
rest on fairness and are out of the prover's reach. Every other property of the passing runs is the
statement of a theorem.

## 5. Not modelled

- A full signal pipe; a master starved inside the waitpid loop by workers that crash as fast as they
  are restarted.
- The ring of last faults (`last_faults`): any fault may reach the emergency threshold. A module of
  its own would need a run; the runs there are ask questions that reach further.
- Which request a late SIGTERM or trace hits: the heartbeat acts on a copy, and the worker may have
  gone on to another request. `TimeoutJustified` is about the decision, not about the arrival.
- Formats and texts (FastCGI records, logs, status output), the walk over the traced process's stack,
  the FPM configuration parser, the one-shot set-up of processes.
- Destructors. The collector runs them between gathering the garbage and destroying it, and the
  script in them may make garbage reachable again; an object is checked again for that, an array is not.
  Copies of arrays by value, assignments into zvals that are references, and the shutdown of the
  engine are left out too: they make and drop references in ways the modelled operations already do.
- The compiler, the virtual machine, the allocator, the hash tables, the streams and the extensions:
  sequential code over large data, whose properties are about values. The change this fork makes to
  `glob()` is a function on strings with tests of its own.

## 6. Plan

Done: `FpmShmSlots`, `FpmMaster`, `FpmRequest`, `FpmStatus`, `FpmEvents`, `FpmSockets` and `ZendGC`
with their theorems, `FpmLifecycle` and `ZendHeap` with the refinements.

1. Destructors in `ZendGC`: a collection in three steps (gather, call, destroy) with the script between.
2. `FpmEmergency`: the ring of last faults against a reference definition of "N faults in T seconds".
