------------------------------ MODULE FpmEvents ------------------------------
(***************************************************************************)
(* The master's event loop (fpm_events.c) with catch_workers_output on:    *)
(* the queue of fd events, the array given to poll, and the callbacks,     *)
(* which read the output of workers (fpm_stdio.c), bury dead ones and fork *)
(* others (fpm_children.c) and so change the queue while the loop is       *)
(* walking over it.                                                        *)
(*                                                                         *)
(* A queue element is identified with its event, and an event with the     *)
(* child structure and the stream it is embedded for.  Where the loop goes *)
(* on from memory that has been freed, it finds the old contents, or the   *)
(* end of the list, or anything: pc = "undefined".                         *)
(***************************************************************************)
EXTENDS Integers, Sequences, FiniteSets, SequencesExt

CONSTANTS
  Child,            \* child structures
  pm,               \* "static" or "dynamic"
  pm_max_children,
  pm_start_servers,
  Fds,              \* numbers for the ends of pipes the master opens
  Written,          \* bound: streams that workers write to
  Inherited         \* streams that processes of a script may keep open

Stream == {"stdout", "stderr"}

ASSUME EventsAssumption ==
  /\ IsFiniteSet(Child) /\ IsFiniteSet(Fds)
  /\ Fds \subseteq Nat \ {0}
  /\ pm_max_children \in 1 .. Cardinality(Child)
  /\ pm \in {"static", "dynamic"}
  /\ pm_start_servers \in 1 .. pm_max_children
  /\ Cardinality(Fds) >= 2 * pm_max_children + 2
  /\ Written \subseteq Stream /\ Inherited \subseteq Stream

Signal == <<"master", "signal">>   \* signal_fd_event
SignalFd == 0
Nil == <<>>
Event == {Signal} \cup (Child \X Stream)

\* Mutant: no room for the signal pipe.
fpm_event_nfds_max_children == 2 * pm_max_children

\* One for the signal pipe and two for every child.
fpm_event_nfds_max == 1 + 2 * pm_max_children

VARIABLES
  \* the master
  pc,         \* where the event loop is
  queue,      \* fpm_event_queue_fd, from its head
  polled,     \* events whose index names an entry of fpm_event_ufds that has
              \* POLLIN and was not passed yet
  cursor,     \* the queue element the loop is at, or Nil
  linked,     \* children of the pool, the newest first
  fd,         \* fd_stdout and fd_stderr of a child, -1 if closed
  forks,      \* children still to be forked by this fpm_children_make
  \* the kernel
  proc,       \* the process of a child: none, running or zombie
  open,       \* ends of pipes the master has open
  data,       \* fds with unread output
  writer,     \* for each fd, who holds the other end
  sigchld,    \* a byte is in the signal pipe
  \* history
  unlogged,   \* streams whose last output no callback has read
  left        \* events left in the queue when their child was freed

loopVars == <<queue, left>>
walkVars == <<polled, cursor>>
childVars == <<linked, fd, forks>>
kernelVars == <<proc, open, data, writer>>
vars == <<pc, loopVars, walkVars, childVars, kernelVars, sigchld, unlogged>>

Init ==
  /\ pc = "start"
  /\ queue = <<>>
  /\ polled = {}
  /\ cursor = Nil
  /\ linked = <<>>
  /\ fd = [c \in Child |-> [s \in Stream |-> -1]]
  /\ forks = IF pm = "static" THEN pm_max_children ELSE pm_start_servers
  /\ proc = [c \in Child |-> "none"]
  /\ open = {}
  /\ data = {}
  /\ writer = [f \in Fds |-> "none"]
  /\ sigchld = FALSE
  /\ unlogged = {}
  /\ left = {}

-----------------------------------------------------------------------------
(* The queue.                                                              *)

fpm_event_queue_isset(q, e) == \E i \in DOMAIN q : q[i] = e

\* Always at the head.
fpm_event_queue_add(q, e) ==
  IF fpm_event_queue_isset(q, e) THEN q ELSE <<e>> \o q

fpm_event_queue_del(q, e) == RemoveFirst(q, e)

\* The rest of the queue, from q->next
After(q, e) ==
  SubSeq(q, SelectInSeq(q, LAMBDA x : x = e) + 1, Len(q))

-----------------------------------------------------------------------------
(* Forking: fpm_children_make, before the loop, for a dead child, or in    *)
(* the idle maintenance.                                                   *)

Forking == pc \in {"start", "restart", "spawn"}

\* Who goes on when enough children have been forked.
AfterFork ==
  CASE pc = "start" -> "init"
    [] pc = "restart" -> "bury"
    [] OTHER -> "top"

\* pipe() takes the lowest two numbers that are free, for reading and writing.
pipe(opened, r, w) ==
  /\ r \notin opened /\ w \notin opened /\ r < w
  /\ \A f \in Fds \ opened : f < w => f = r

\* fpm_stdio_prepare_pipes: the ends of fd_stdout and of fd_stderr.
fpm_stdio_prepare_pipes(out0, out1, err0, err1) ==
  /\ pipe(open, out0, out1)
  /\ pipe(open \cup {out0, out1}, err0, err1)

\* Mutant: if the second pipe cannot be made, the writing end of the first
\* stays open.
fpm_stdio_prepare_pipes_fails_open(out0, out1, err0, err1) ==
  \/ open' = open
  \/ open' = (open \cup {out0, out1}) \ {out0}
  \/ open' = (open \cup {out0, out1, err0, err1}) \ {out0, out1, err0, err1}

\* It fails at the first pipe(), at the second, or at fd_set_blocked, and
\* closes what it has opened.
fpm_stdio_prepare_pipes_fails(out0, out1, err0, err1) ==
  \/ open' = open
  \/ open' = (open \cup {out0, out1}) \ {out0, out1}
  \/ open' = (open \cup {out0, out1, err0, err1}) \ {out0, out1, err0, err1}

\* fpm_stdio_parent_use_pipes: the writing ends are the worker's only.
fpm_stdio_parent_use_pipes(c, out0, out1, err0, err1) ==
  LET e1 == <<c, "stdout">>
      e2 == <<c, "stderr">>
  IN /\ open' = (open \cup {out0, out1, err0, err1}) \ {out1, err1}
     /\ fd' = [fd EXCEPT ![c] = [stdout |-> out0, stderr |-> err0]]
     /\ polled' = polled \ {e1, e2}
     /\ queue' = fpm_event_queue_add(fpm_event_queue_add(queue, e1), e2)
     /\ left' = left \ {e1, e2}

\* Pipes, slot, fork and fpm_child_link.  The allocator may return a
\* structure an event in the queue still points to.
fork ==
  /\ Forking /\ forks > 0
  /\ \E c \in Child \ ToSet(linked), out0, out1, err0, err1 \in Fds :
       /\ fpm_stdio_prepare_pipes(out0, out1, err0, err1)
       /\ fpm_stdio_parent_use_pipes(c, out0, out1, err0, err1)
       /\ writer' = [writer EXCEPT ![out0] = "worker", ![err0] = "worker"]
       /\ linked' = <<c>> \o linked
       /\ proc' = [proc EXCEPT ![c] = "running"]
  /\ forks' = forks - 1
  /\ pc' = IF forks = 1 THEN AfterFork ELSE pc
  /\ UNCHANGED <<cursor, data, sigchld, unlogged>>

fpm_stdio_discard_pipes(out0, out1, err0, err1) ==
  open' = (open \cup {out0, out1, err0, err1}) \ {out1, err1, out0, err0}

\* The pipes, the slot or the fork fail: no more children are tried.
fork_fails ==
  /\ Forking /\ forks > 0
  /\ \E out0, out1, err0, err1 \in Fds :
       /\ fpm_stdio_prepare_pipes(out0, out1, err0, err1)
       /\ \/ fpm_stdio_prepare_pipes_fails(out0, out1, err0, err1)
          \/ fpm_stdio_discard_pipes(out0, out1, err0, err1)
  /\ forks' = 0
  /\ pc' = AfterFork
  /\ UNCHANGED <<loopVars, walkVars, linked, fd, proc, data, writer, sigchld,
                 unlogged>>

-----------------------------------------------------------------------------
(* The loop.                                                               *)

\* fpm_event_loop adds the signal pipe, after the first children.
add_signal_event ==
  /\ pc = "init"
  /\ queue' = fpm_event_queue_add(queue, Signal)
  /\ pc' = "top"
  /\ UNCHANGED <<left, walkVars, childVars, kernelVars, sigchld, unlogged>>

HasData(f) == IF f = SignalFd THEN sigchld ELSE f \in open /\ f \in data
AtEof(f) == f \in open /\ f \notin data /\ writer[f] = "none"
\* POLLHUP makes poll return as well.
Ready(f) == HasData(f) \/ AtEof(f)

FdOf(e) == IF e = Signal THEN SignalFd ELSE fd[e[1]][e[2]]

Polled == SubSeq(queue, 1, IF Len(queue) <= fpm_event_nfds_max
                           THEN Len(queue) ELSE fpm_event_nfds_max)

\* Where the first of the events in S is in rest, or 0.
NextOf(rest, S) == SelectInSeq(rest, LAMBDA e : e \in S)

\* The loop goes on in rest and stops at the first event that fires, or whose
\* child is freed.  No one else looks at what it reads on the way, so that
\* this is no step of its own.
WalkOn(rest, in) ==
  LET i == NextOf(rest, left \cup in)
  IN /\ cursor' = IF i = 0 THEN Nil ELSE rest[i]
     /\ polled' = IF i = 0 THEN {} ELSE in \ {rest[i]}

\* The array is filled and poll returns.  Systems differ in whether POLLIN is
\* set at the end of file.  poll may time out only if nothing is ready; then
\* the loop goes to the timers.
poll ==
  /\ pc = "top" /\ left = {}
  /\ IF \E e \in ToSet(Polled) : Ready(FdOf(e))
     THEN \E eof \in BOOLEAN :
            WalkOn(queue, {e \in ToSet(Polled) :
                             HasData(FdOf(e)) \/ (eof /\ AtEof(FdOf(e)))})
     ELSE cursor' = Nil /\ polled' = {}
  /\ pc' = "fds"
  /\ UNCHANGED <<loopVars, childVars, kernelVars, sigchld, unlogged>>

\* The event of a freed child is read: anything may be found there.
read_freed_event ==
  /\ \/ pc = "top" /\ left # {}
     \/ pc = "fds" /\ cursor \in left
  /\ pc' = "undefined"
  /\ UNCHANGED <<loopVars, walkVars, childVars, kernelVars, sigchld, unlogged>>

\* fpm_stdio_child_said, as the loop calls it: it reads until there is no
\* more; at the end of file it deletes the queue element the loop is at, and
\* the loop takes the next one from the memory that was freed.
fpm_stdio_child_said ==
  /\ pc = "fds" /\ cursor \notin left \cup {Nil, Signal}
  /\ LET c == cursor[1]
         s == cursor[2]
         f == fd[c][s]
         GoOn == WalkOn(After(queue, cursor), polled)
     IN /\ data' = data \ {f}
        /\ unlogged' = unlogged \ {cursor}
        /\ IF writer[f] # "none"
           THEN GoOn /\ UNCHANGED <<pc, queue, fd, open>>
           ELSE /\ queue' = fpm_event_queue_del(queue, cursor)
                /\ fd' = [fd EXCEPT ![c][s] = -1]
                /\ open' = open \ {f}
                /\ \/ GoOn /\ pc' = pc
                   \/ cursor' = Nil /\ polled' = {} /\ pc' \in {pc, "undefined"}
  /\ UNCHANGED <<left, linked, forks, proc, writer, sigchld>>

fpm_got_signal ==
  /\ pc = "fds" /\ cursor = Signal
  /\ sigchld' = FALSE
  /\ pc' = "bury"
  /\ UNCHANGED <<loopVars, walkVars, childVars, kernelVars, unlogged>>

\* The end of the walk, or poll has timed out.
WalkDone == pc = "fds" /\ cursor = Nil

\* Mutant: one child too many is spawned.
timers_one_more ==
  /\ WalkDone
  /\ \/ pc' = "top" /\ forks' = forks
     \/ /\ pm = "dynamic"
        /\ pc' = "spawn"
        /\ forks' \in 1 .. (pm_max_children - Len(linked) + 1)
  /\ UNCHANGED <<loopVars, walkVars, linked, fd, kernelVars, sigchld, unlogged>>

\* The idle maintenance of a dynamic pool may spawn children.
timers ==
  /\ WalkDone
  /\ \/ pc' = "top" /\ forks' = forks
     \/ /\ pm = "dynamic"
        /\ pc' = "spawn"
        /\ forks' \in 1 .. (pm_max_children - Len(linked))
  /\ UNCHANGED <<loopVars, walkVars, linked, fd, kernelVars, sigchld, unlogged>>

-----------------------------------------------------------------------------
(* Burying: fpm_children_bury.                                             *)

Zombies == {c \in ToSet(linked) : proc[c] = "zombie"}

\* waitpid looks at the children in the order of their forks.
NextDead(i) ==
  /\ linked[i] \in Zombies
  /\ \A j \in DOMAIN linked : linked[j] \in Zombies => j <= i

OpenStreams(c) == {s \in Stream : fd[c][s] # -1}
FdsOf(c) == {fd[c][s] : s \in OpenStreams(c)}

\* The callbacks delete the events of the child's streams in S, the standard
\* output's first.
DeleteAll(c, S) ==
  LET out == IF "stdout" \in S THEN fpm_event_queue_del(queue, <<c, "stdout">>)
             ELSE queue
  IN IF "stderr" \in S THEN fpm_event_queue_del(out, <<c, "stderr">>) ELSE out

\* Mutant: the pipes are closed without a last look.
fpm_child_close_unread(c) ==
  /\ queue' = DeleteAll(c, OpenStreams(c))
  /\ left' = left
  /\ open' = open \ FdsOf(c)
  /\ data' = data \ FdsOf(c)
  /\ writer' = [f \in Fds |-> IF f \in FdsOf(c) THEN "none" ELSE writer[f]]
  /\ UNCHANGED unlogged

\* Mutant: the events stay in the queue.
fpm_child_close_kept(c) ==
  /\ UNCHANGED <<queue, left>>
  /\ open' = open \ FdsOf(c)
  /\ data' = data \ FdsOf(c)
  /\ unlogged' = unlogged \ ({c} \X Stream)
  /\ writer' = [f \in Fds |-> IF f \in FdsOf(c) THEN "none" ELSE writer[f]]

\* fpm_child_close fires the callbacks, which read what is left.  At the end
\* of file they delete the event; a pipe that someone else still holds is
\* closed and its event left behind.
fpm_child_close(c) ==
  LET held == {s \in OpenStreams(c) : writer[fd[c][s]] # "none"}
  IN /\ queue' = DeleteAll(c, OpenStreams(c) \ held)
     /\ left' = left \cup {<<c, s>> : s \in held}
     /\ open' = open \ FdsOf(c)
     /\ data' = data \ FdsOf(c)
     /\ writer' = [f \in Fds |-> IF f \in FdsOf(c) THEN "none" ELSE writer[f]]
     /\ unlogged' = unlogged \ ({c} \X Stream)

\* waitpid returns one of the dead: unlink, close, free; and restart it, in a
\* static pool with all that are missing, unless it was retired or the master
\* is shutting down.
bury_child ==
  /\ pc = "bury"
  /\ \E i \in DOMAIN linked :
       /\ NextDead(i)
       /\ LET c == linked[i]
          IN /\ fpm_child_close(c)
             /\ fd' = [fd EXCEPT ![c] = [s \in Stream |-> -1]]
             /\ proc' = [proc EXCEPT ![c] = "none"]
       /\ linked' = RemoveAt(linked, i)
  /\ \/ /\ pc' = "restart"
        /\ forks' = IF pm = "static" THEN pm_max_children - Len(linked') ELSE 1
     \/ pc' = pc /\ forks' = forks
  /\ polled' = polled \cap ToSet(queue')
  /\ UNCHANGED <<cursor, sigchld>>

\* No more dead: the next byte of the signal pipe, or back in the loop.
bury_done ==
  /\ pc = "bury"
  /\ Zombies = {}
  /\ sigchld' = FALSE
  /\ IF sigchld
     THEN UNCHANGED <<pc, walkVars>>
     ELSE pc' = "fds" /\ WalkOn(After(queue, Signal), polled)
  /\ UNCHANGED <<loopVars, childVars, kernelVars, unlogged>>

-----------------------------------------------------------------------------
(* Workers and what they start.                                            *)

worker_writes ==
  /\ \E c \in ToSet(linked), s \in Written :
       /\ proc[c] = "running" /\ fd[c][s] # -1
       /\ data' = data \cup {fd[c][s]}
       /\ unlogged' = unlogged \cup {<<c, s>>}
  /\ UNCHANGED <<pc, loopVars, walkVars, childVars, proc, open, writer, sigchld>>

\* Processes that scripts have started may keep the worker's end of a pipe.
worker_dies ==
  /\ \E c \in ToSet(linked), keeps \in SUBSET Inherited :
       /\ proc[c] = "running"
       /\ proc' = [proc EXCEPT ![c] = "zombie"]
       /\ writer' = [f \in Fds |->
            CASE f \notin FdsOf(c) -> writer[f]
              [] \E s \in keeps : f = fd[c][s] -> "script"
              [] OTHER -> "none"]
  /\ sigchld' = TRUE
  /\ UNCHANGED <<pc, loopVars, walkVars, childVars, open, data, unlogged>>

process_exits ==
  /\ \E f \in Fds : /\ writer[f] = "script"
                    /\ writer' = [writer EXCEPT ![f] = "none"]
  /\ UNCHANGED <<pc, loopVars, walkVars, childVars, proc, open, data, sigchld,
                 unlogged>>

-----------------------------------------------------------------------------
Master ==
  \/ fork \/ fork_fails
  \/ add_signal_event \/ poll \/ read_freed_event
  \/ fpm_stdio_child_said
  \/ fpm_got_signal \/ timers
  \/ bury_child \/ bury_done

Workers ==
  \/ worker_writes \/ worker_dies \/ process_exits

\* Whatever the master does with freed memory, it is not what the code says.
undefined == pc = "undefined" /\ UNCHANGED vars

Next == (pc # "undefined" /\ (Master \/ Workers)) \/ undefined

Spec == Init /\ [][Next]_vars

\* The master runs; its poll returns when something is ready.
FairSpec == Spec /\ WF_vars(pc # "undefined" /\ Master)

-----------------------------------------------------------------------------
\* Type correctness: what the loop (fpm_events.c) and the callbacks keep is
\* well-formed, and never more children are to be forked than a pool has.
TypeOK ==
  /\ pc \in {"start", "init", "top", "fds", "bury", "restart", "spawn", "undefined"}
  /\ queue \in Seq(Event)
  /\ polled \subseteq Event
  /\ cursor \in Event \cup {Nil}
  /\ linked \in Seq(Child) /\ IsInjective(linked)
  /\ fd \in [Child -> [Stream -> Fds \cup {-1}]]
  /\ forks \in 0 .. pm_max_children
  /\ proc \in [Child -> {"none", "running", "zombie"}]
  /\ open \subseteq Fds
  /\ data \subseteq Fds
  /\ writer \in [Fds -> {"worker", "script", "none"}]
  /\ sigchld \in BOOLEAN
  /\ unlogged \subseteq Child \X Stream
  /\ left \subseteq Event

OpenEvents == {e \in ToSet(linked) \X Stream : fd[e[1]][e[2]] # -1}

\* Between two callbacks the queue holds the signal pipe and the open pipes of
\* the pool's children, each once, and nothing of a child that is gone unless
\* its pipe was held by another process; otherwise all
\* of them fit in the array, the signal pipe too.  That is so up to the point
\* where the loop reads a freed element or event, if it comes to that.
QueueMatchesPipes == pc \notin {"start", "init", "undefined"} =>
  /\ IsInjective(queue)
  /\ ToSet(queue) = {Signal} \cup OpenEvents \cup left
  /\ polled \subseteq ToSet(queue)
  /\ left = {} => Len(queue) <= fpm_event_nfds_max

\* The master holds no end of a pipe but the reading ends of its children's:
\* neither forks, nor failures at any point of a fork, nor deaths, with or
\* without the last output read, leak one.
NoFdLeak ==
  /\ open = UNION {FdsOf(c) : c \in ToSet(linked)}
  /\ \A c, d \in ToSet(linked) : \A s, t \in Stream :
       fd[c][s] = fd[d][t] /\ fd[c][s] # -1 => c = d /\ s = t

\* What a worker writes is logged, even if it is written just before it dies:
\* until a callback has read it, it is in an open pipe of the worker, and the
\* pipe's event in the queue; and nothing that one worker wrote waits in the
\* pipe of another that has got the same number (fpm_children.c:67,
\* fpm_stdio.c:100).
OutputLogged ==
  /\ unlogged \subseteq OpenEvents
  /\ data = {FdOf(e) : e \in unlogged}
  /\ unlogged \subseteq ToSet(queue)

\* A dead worker is buried, whatever the callbacks before the signal pipe did
\* to the queue, unless the loop has gone on from a freed element.
DeathsBuried == \A c \in Child :
  proc[c] = "zombie" ~> (proc[c] = "none" \/ pc = "undefined")
=============================================================================
