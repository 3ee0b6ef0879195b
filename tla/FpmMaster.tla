------------------------------- MODULE FpmMaster -------------------------------
(***************************************************************************)
(* The FPM master process and its workers: process control                 *)
(* (fpm_process_ctl.c), forking and burying (fpm_children.c), signals      *)
(* (fpm_signals.c) and the signal and timer part of the event loop         *)
(* (fpm_events.c).                                                         *)
(*                                                                         *)
(* The master is one thread; pc says which handler it is in, and its steps *)
(* interleave with those of the workers and with the arrival of signals.   *)
(* Of a worker the model keeps what the master can see or act on: whether  *)
(* its own signal handlers are installed, whether it serves a request,     *)
(* what stage its shared slot shows, whether the slowlog has it stopped,   *)
(* and how it ended.  Time is abstract: a timer with a positive delay      *)
(* fires at some later pass of the loop.                                   *)
(***************************************************************************)
EXTENDS Integers, Sequences, FiniteSets

CONSTANTS
  Pool,                   \* worker pools
  Child,                  \* processes the system can fork at one time
  NoPool, NoChild,        \* null pointers
  Static,                 \* pools with pm = static; the others are dynamic
  pm_max_children,
  pm_start_servers,
  pm_min_spare_servers,
  pm_max_spare_servers,
  process_control_timeout,
  TerminateTimeout,       \* TRUE: request_terminate_timeout is set
  Slowlog,                \* pools with request_slowlog_timeout set
  EmergencyRestart,       \* TRUE: emergency_restart_threshold is set
  MaxSignals              \* bound: signals an administrator sends

ASSUME NullAssumption == NoPool \notin Pool /\ NoChild \notin Child

ASSUME FiniteAssumption == IsFiniteSet(Pool) /\ IsFiniteSet(Child)

\* What fpm_conf_process_all_pools accepts.
ASSUME ConfigAssumption ==
  /\ Static \subseteq Pool
  /\ pm_max_children \in [Pool -> Nat \ {0}]
  /\ pm_start_servers \in [Pool -> Nat]
  /\ pm_min_spare_servers \in [Pool -> Nat]
  /\ pm_max_spare_servers \in [Pool -> Nat]
  /\ \A p \in Pool \ Static :
       /\ 0 < pm_min_spare_servers[p]
       /\ pm_min_spare_servers[p] <= pm_start_servers[p]
       /\ pm_start_servers[p] <= pm_max_spare_servers[p]
       /\ pm_max_spare_servers[p] <= pm_max_children[p]
  /\ process_control_timeout \in Nat
  /\ TerminateTimeout \in BOOLEAN
  /\ Slowlog \subseteq Pool
  /\ EmergencyRestart \in BOOLEAN
  /\ MaxSignals \in Nat

FPM_MAX_SPAWN_RATE == 32

VARIABLES
  \* the master
  pc,                \* the handler the master is in
  fpm_state,         \* process control state
  fpm_signal_sent,   \* last signal of the shutdown sequence
  pctl_timer,        \* pctl_event: off, due (delay 0) or set
  children,          \* wp->children, as sets
  wp_running,        \* wp->running_children
  running_children,  \* fpm_globals.running_children
  idle_kill,         \* children with child->idle_kill set
  idle_spawn_rate,   \* wp->idle_spawn_rate
  todo,              \* pools the current loop over pools has still to visit
  make,              \* the fpm_children_make in progress: pool, max, return
  scan,              \* the idle count in progress: pool, unread, idle so far
  victim,            \* child found to run a request for too long
  checked,           \* children this pass of the heartbeat has acted on
  slow_logged,       \* children whose request has been traced
  \* signals
  pipe,              \* bytes in the signal socketpair
  sent,              \* signals administrators have sent so far
  \* the workers
  proc,              \* what each process does
  accepting,         \* children whose slot shows FPM_REQUEST_ACCEPTING
  quitting,          \* workers that have run sig_soft_quit
  status,            \* wait status of a dead process
  trace,             \* no, attached (SIGSTOP sent), stopped, or left stopped
  pending,           \* signals held back from an attached process
  deaf               \* history: children that dropped the last kill_all

workerVars == <<proc, accepting, quitting, status, trace, pending>>
killVars == <<proc, status, quitting, trace, pending>>
ctlVars == <<fpm_state, fpm_signal_sent, pctl_timer, deaf>>
listVars == <<children, wp_running, running_children>>
requestVars == <<victim, checked, slow_logged>>
loopVars == <<todo, make, scan, requestVars, idle_spawn_rate>>
signalVars == <<pipe, sent>>
vars == <<pc, ctlVars, listVars, idle_kill, loopVars, signalVars, workerVars>>

Linked == UNION {children[p] : p \in Pool}
Live(c) == proc[c] \notin {"none", "zombie"}
Dynamic == Pool \ Static
Ended == pc \in {"exited", "execed"}

NoMake == [wp |-> NoPool, max |-> 0, ret |-> "poll"]
NoScan == [wp |-> NoPool, unread |-> {}, idle |-> {}]

Init ==
  /\ pc = "create"
  /\ fpm_state = "NORMAL"
  /\ fpm_signal_sent = "none"
  /\ pctl_timer = "off"
  /\ children = [p \in Pool |-> {}]
  /\ wp_running = [p \in Pool |-> 0]
  /\ running_children = 0
  /\ idle_kill = {}
  /\ idle_spawn_rate = [p \in Pool |-> 1]
  /\ todo = Pool
  /\ make = NoMake
  /\ scan = NoScan
  /\ victim = NoChild
  /\ checked = {}
  /\ slow_logged = {}
  /\ pipe = <<>>
  /\ sent = 0
  /\ proc = [c \in Child |-> "none"]
  /\ accepting = {}
  /\ quitting = {}
  /\ status = [c \in Child |-> "none"]
  /\ trace = [c \in Child |-> "no"]
  /\ pending = [c \in Child |-> {}]
  /\ deaf = {}

-----------------------------------------------------------------------------
(***************************************************************************)
(* sig_handler in the master: a byte in the signal pipe q.  The kernel may *)
(* merge a signal with an equal one that is still pending, and a byte      *)
(* right behind an equal one changes nothing: fpm_children_bury loops      *)
(* until waitpid finds nobody, and a state that is already set is ignored. *)
(* So equal neighbours are merged.                                         *)
(***************************************************************************)
sig_handler(q, b) == IF q # <<>> /\ q[Len(q)] = b THEN q ELSE Append(q, b)

(***************************************************************************)
(* kill().  A process that still has the handlers it inherited drops the   *)
(* signals sig_handler catches; SIGQUIT makes a worker quit softly;        *)
(* SIGTERM has its default action; SIGKILL always works.  To a process the *)
(* slowlog has attached SIGQUIT and SIGTERM are not delivered: they stay   *)
(* pending.  The master is told of deaths through its pipe, which holds q  *)
(* at that point.                                                          *)
(***************************************************************************)
Gets(c, sig) == Live(c) /\ (proc[c] # "starting" \/ sig = "KILL")

Hears(c, sig) == Gets(c, sig) /\ (trace[c] = "no" \/ sig = "KILL")

Kill(S, sig, q) ==
  LET hit  == {c \in S : Hears(c, sig)}
      held == {c \in S : Gets(c, sig)} \ hit
      dead == IF sig = "QUIT" THEN {} ELSE hit
  IN  /\ quitting' = quitting \cup (hit \ dead)
      /\ proc' = [c \in Child |-> IF c \in dead THEN "zombie" ELSE proc[c]]
      /\ status' = [c \in Child |-> IF c \in dead THEN "killed" ELSE status[c]]
      /\ trace' = [c \in Child |-> IF c \in dead THEN "no" ELSE trace[c]]
      /\ pending' = [c \in Child |-> CASE c \in dead -> {}
                                      [] c \in held -> pending[c] \cup {sig}
                                      [] OTHER     -> pending[c]]
      /\ pipe' = IF dead = {} THEN q ELSE sig_handler(q, "C")

-----------------------------------------------------------------------------
(***************************************************************************)
(* Process control.  "rest" is where the master goes on if it lives.       *)
(***************************************************************************)

\* fpm_pctl_action_last: reloading ends in execvp, which may fail.
fpm_pctl_action_last(state) ==
  pc' \in IF state = "RELOADING" THEN {"execed", "exited"} ELSE {"exited"}

\* Mutant: SIGTERM is repeated, never SIGKILL.
NextSignal_soft(state, last) ==
  IF last = "none" /\ state # "TERMINATING" THEN "QUIT" ELSE "TERM"

\* The signal fpm_pctl_action_next sends next.
NextSignal(state, last) ==
  CASE last = "none" -> IF state = "TERMINATING" THEN "TERM" ELSE "QUIT"
    [] last = "QUIT" -> "TERM"
    [] OTHER         -> "KILL"

\* Mutant: a master without workers waits for the timer before it ends.
fpm_pctl_action_next_survives(state, last, q, timer, rest) ==
  LET sig == NextSignal(state, last)
  IN  /\ Kill(Linked, sig, q)
      /\ fpm_signal_sent' = sig
      /\ deaf' = {c \in Linked : Live(c) /\ ~Gets(c, sig)}
      /\ pctl_timer' = timer
      /\ pc' = rest

\* fpm_pctl_action_next.  timer is what fpm_pctl_timeout_set leaves in the timer queue.
fpm_pctl_action_next(state, last, q, timer, rest) ==
  IF running_children = 0
    THEN /\ fpm_pctl_action_last(state)
         /\ pipe' = q
         /\ UNCHANGED <<fpm_signal_sent, pctl_timer, deaf, killVars>>
    ELSE LET sig == NextSignal(state, last)
         IN  /\ Kill(Linked, sig, q)
             /\ fpm_signal_sent' = sig
             /\ deaf' = {c \in Linked : Live(c) /\ ~Gets(c, sig)}
             /\ pctl_timer' = timer
             /\ pc' = rest

\* Which states a new one may override; an equal one is a duplicate.
Overrides(new, old) ==
  \/ old = "NORMAL"
  \/ old = "RELOADING" /\ new \in {"FINISHING", "TERMINATING"}
  \/ old = "FINISHING" /\ new = "TERMINATING"

\* fpm_pctl(new, FPM_PCTL_ACTION_SET).
fpm_pctl_set(new, q, rest) ==
  IF Overrides(new, fpm_state)
    THEN /\ fpm_state' = new
         /\ fpm_pctl_action_next(new, "none", q,
              IF process_control_timeout = 0 THEN "due" ELSE "set", rest)
    ELSE /\ pc' = rest
         /\ pipe' = q
         /\ UNCHANGED <<ctlVars, killVars>>

\* Mutant: the state is not consulted.
fpm_pctl_can_spawn_always == TRUE

fpm_pctl_can_spawn_children == fpm_state = "NORMAL"

-----------------------------------------------------------------------------
(***************************************************************************)
(* fpm_children_make: fork until the pool has max children.                *)
(***************************************************************************)
StartMake(p, max, ret) ==
  /\ make' = [wp |-> p, max |-> max, ret |-> ret]
  /\ pc' = "make"

\* fpm_run: the initial children of every pool, then the event loop.
fpm_children_create_initial ==
  /\ pc = "create"
  /\ \/ \E p \in todo :
          /\ StartMake(p, IF p \in Static THEN pm_max_children[p]
                                          ELSE pm_start_servers[p], "create")
          /\ todo' = todo \ {p}
     \/ /\ todo = {}
        /\ pc' = "poll"
        /\ UNCHANGED <<make, todo>>
  /\ UNCHANGED <<ctlVars, listVars, idle_kill, idle_spawn_rate, scan, requestVars,
                 signalVars, workerVars>>

\* Mutant: the global counter is forgotten.
fpm_child_link_uncounted(c, p) ==
  /\ children' = [children EXCEPT ![p] = @ \cup {c}]
  /\ wp_running' = [wp_running EXCEPT ![p] = @ + 1]
  /\ UNCHANGED running_children

fpm_child_link(c, p) ==
  /\ children' = [children EXCEPT ![p] = @ \cup {c}]
  /\ wp_running' = [wp_running EXCEPT ![p] = @ + 1]
  /\ running_children' = running_children + 1

\* Mutant: the counters are decremented once more than the child is unlinked.
fpm_child_unlink_twice(c, p) ==
  /\ children' = [children EXCEPT ![p] = @ \ {c}]
  /\ wp_running' = [wp_running EXCEPT ![p] = @ - 1]
  /\ running_children' = running_children - 2

fpm_child_unlink(c, p) ==
  /\ children' = [children EXCEPT ![p] = @ \ {c}]
  /\ wp_running' = [wp_running EXCEPT ![p] = @ - 1]
  /\ running_children' = running_children - 1

MoreToFork ==
  /\ pc = "make"
  /\ fpm_pctl_can_spawn_children
  /\ wp_running[make.wp] < make.max

\* fork() succeeds: fpm_child_link in the parent; the child starts with the
\* master's signal handlers and a zeroed slot.
fpm_children_make(c) ==
  /\ MoreToFork
  /\ proc[c] = "none"
  /\ proc' = [proc EXCEPT ![c] = "starting"]
  /\ fpm_child_link(c, make.wp)
  /\ UNCHANGED <<pc, ctlVars, idle_kill, loopVars, signalVars, accepting,
                 quitting, status, trace, pending>>

\* The loop ends: enough children, no spawning allowed, or a failure of
\* fpm_resources_prepare or fork, after which the code does not try again.
make_ends ==
  /\ pc = "make"
  /\ pc' = make.ret
  /\ make' = NoMake
  /\ UNCHANGED <<ctlVars, listVars, idle_kill, idle_spawn_rate, todo, scan,
                 requestVars, signalVars, workerVars>>

make_done == ~MoreToFork /\ make_ends

make_fails == MoreToFork /\ make_ends

-----------------------------------------------------------------------------
(***************************************************************************)
(* The event loop: poll, the signal pipe, then the timers.                 *)
(***************************************************************************)

\* php_poll2 returns: the pipe is readable, or the time is up.  (EINTR is
\* as if the signal had come after the time was up.)
poll_returns ==
  /\ pc = "poll"
  /\ pc' = IF pipe = <<>> THEN "timers" ELSE "signals"
  /\ UNCHANGED <<ctlVars, listVars, idle_kill, loopVars, signalVars, workerVars>>

\* The state each byte asks for.  SIGINT is handled as SIGTERM.
StateOf(b) == CASE b = "T" -> "TERMINATING"
                [] b = "Q" -> "FINISHING"
                [] b = "2" -> "RELOADING"

\* fpm_got_signal: one byte of the pipe; EAGAIN leads on to the timers.
fpm_got_signal ==
  /\ pc = "signals"
  /\ \/ /\ pipe = <<>>
        /\ pc' = "timers"
        /\ UNCHANGED <<pipe, ctlVars, killVars>>
     \/ /\ pipe # <<>>
        /\ Head(pipe) = "C"
        /\ pc' = "bury"
        /\ pipe' = Tail(pipe)
        /\ UNCHANGED <<ctlVars, killVars>>
     \/ /\ pipe # <<>>
        /\ Head(pipe) # "C"
        /\ fpm_pctl_set(StateOf(Head(pipe)), Tail(pipe), "signals")
  /\ UNCHANGED <<listVars, idle_kill, loopVars, sent, accepting>>

\* Mutant: one waitpid per SIGCHLD instead of a loop.
bury_ends_early ==
  /\ pc = "bury"
  /\ pc' = "signals"
  /\ UNCHANGED <<ctlVars, listVars, idle_kill, loopVars, signalVars, workerVars>>

\* waitpid finds nobody, dead or newly stopped: back to the pipe.
bury_ends ==
  /\ pc = "bury"
  /\ \A c \in Child : proc[c] # "zombie" /\ trace[c] # "stopped"
  /\ pc' = "signals"
  /\ UNCHANGED <<ctlVars, listVars, idle_kill, loopVars, signalVars, workerVars>>

\* The pending signals of a process that runs on reach it: SIGTERM ends it,
\* SIGQUIT makes it quit softly.
Deliver(c) ==
  /\ trace' = [trace EXCEPT ![c] = "no"]
  /\ pending' = [pending EXCEPT ![c] = {}]
  /\ IF "TERM" \in pending[c]
       THEN /\ proc' = [proc EXCEPT ![c] = "zombie"]
            /\ status' = [status EXCEPT ![c] = "killed"]
            /\ pipe' = sig_handler(pipe, "C")
            /\ UNCHANGED quitting
       ELSE /\ quitting' = IF "QUIT" \in pending[c] THEN quitting \cup {c} ELSE quitting
            /\ UNCHANGED <<proc, status, pipe>>

\* waitpid reports a stopped child: fpm_php_trace dumps it and detaches it,
\* with no signal; or the slowlog cannot be opened, and the child is left
\* attached, where the SIGCONT it is sent does not wake it.
fpm_php_trace(c) ==
  /\ pc = "bury"
  /\ trace[c] = "stopped"
  /\ \/ Deliver(c)
     \/ /\ trace' = [trace EXCEPT ![c] = "left"]
        /\ UNCHANGED <<proc, status, quitting, pending, pipe>>
  /\ UNCHANGED <<pc, ctlVars, listVars, idle_kill, loopVars, sent, accepting>>

\* Whether a dead child is replaced: not if the idle maintenance told it to
\* quit and it did.
restart_child(c) == ~(c \in idle_kill /\ status[c] = "exited")

\* Mutant: the replacement is counted on top of the child just lost.
RestartMax_extra(p) ==
  IF p \in Static THEN pm_max_children[p] + 1 ELSE wp_running[p] + 1

\* fpm_children_make's max for one replacement, running_children having been
\* decremented for the child just lost.
RestartMax(p) == IF p \in Static THEN pm_max_children[p] ELSE wp_running[p]

\* Mutant: the pool's counter is tested instead of the global one.
LastChildExits_pool(p) == fpm_state # "NORMAL" /\ wp_running[p] = 1

\* fpm_pctl_child_exited: this was the last child and a shutdown is on.
LastChildExits(p) == fpm_state # "NORMAL" /\ running_children = 1

\* One round of fpm_children_bury's loop for dead child c of pool p, up to
\* fpm_pctl_child_exited, which ends the master after the last child of a
\* shutdown.
fpm_children_bury(c, p) ==
  /\ pc = "bury"
  /\ proc[c] = "zombie"
  /\ c \in children[p]
  /\ fpm_child_unlink(c, p)
  /\ proc' = [proc EXCEPT ![c] = "none"]
  /\ status' = [status EXCEPT ![c] = "none"]
  /\ idle_kill' = idle_kill \ {c}
  /\ accepting' = accepting \ {c}
  /\ quitting' = quitting \ {c}
  /\ slow_logged' = slow_logged \ {c}
  /\ deaf' = deaf \ {c}
  /\ make' = IF restart_child(c)
               THEN [wp |-> p, max |-> RestartMax(p), ret |-> "bury"]
               ELSE make
  /\ IF LastChildExits(p)
       THEN fpm_pctl_action_last(fpm_state)
       ELSE pc' = CASE EmergencyRestart /\ status[c] = "fault" -> "fault"
                    [] restart_child(c) -> "make"
                    [] OTHER -> "bury"
  /\ UNCHANGED <<fpm_state, fpm_signal_sent, pctl_timer, idle_spawn_rate,
                 todo, scan, victim, checked, signalVars, trace, pending>>

\* The rest of the round for a SIGSEGV or SIGBUS: if last_faults holds
\* enough recent faults, start a reload; then restart the child.
check_last_faults ==
  /\ pc = "fault"
  /\ \/ fpm_pctl_set("RELOADING", pipe, "make")
     \/ /\ pc' = "make"
        /\ UNCHANGED <<ctlVars, killVars, pipe>>
  /\ UNCHANGED <<listVars, idle_kill, loopVars, sent, accepting>>

-----------------------------------------------------------------------------
(***************************************************************************)
(* Timers.                                                                 *)
(***************************************************************************)

\* pctl_event fires: fpm_pctl(UNSPECIFIED, TIMEOUT).  The callback adds the
\* event again while it is still queued, which changes nothing in the queue;
\* then the loop deletes it, because it is not FPM_EV_PERSIST.
fpm_pctl_action ==
  /\ pc = "timers"
  /\ pctl_timer # "off"
  /\ fpm_pctl_action_next(fpm_state, fpm_signal_sent, pipe, "off", "heartbeat")
  /\ UNCHANGED <<fpm_state, listVars, idle_kill, loopVars, sent, accepting>>

\* No pctl_event in the queue, or its time has not come.
pctl_not_due ==
  /\ pc = "timers"
  /\ pctl_timer # "due"
  /\ pc' = "heartbeat"
  /\ UNCHANGED <<ctlVars, listVars, idle_kill, loopVars, signalVars, workerVars>>

\* The idle maintenance timer has expired and spawning is allowed.
idle_heartbeat ==
  /\ pc = "heartbeat"
  /\ fpm_pctl_can_spawn_children
  /\ todo' = Pool
  /\ pc' = "idle"
  /\ UNCHANGED <<ctlVars, listVars, idle_kill, idle_spawn_rate, make, scan,
                 requestVars, signalVars, workerVars>>

\* It has not, or it may not spawn.
no_idle_heartbeat ==
  /\ pc = "heartbeat"
  /\ pc' = "requests"
  /\ UNCHANGED <<ctlVars, listVars, idle_kill, loopVars, signalVars, workerVars>>

\* The loop of fpm_pctl_perform_idle_server_maintenance over the pools.
next_pool ==
  /\ pc = "idle"
  /\ \/ \E p \in todo :
          /\ scan' = [wp |-> p, unread |-> children[p], idle |-> {}]
          /\ todo' = todo \ {p}
          /\ pc' = "scan"
     \/ /\ todo = {}
        /\ pc' = "requests"
        /\ UNCHANGED <<scan, todo>>
  /\ UNCHANGED <<ctlVars, listVars, idle_kill, idle_spawn_rate, make,
                 requestVars, signalVars, workerVars>>

\* fpm_request_is_idle: an unlocked read of one child's slot.
fpm_request_is_idle(c) ==
  /\ pc = "scan"
  /\ c \in scan.unread
  /\ scan' = [scan EXCEPT !.unread = @ \ {c},
                          !.idle = IF c \in accepting THEN @ \cup {c} ELSE @]
  /\ UNCHANGED <<pc, ctlVars, listVars, idle_kill, todo, make, requestVars,
                 idle_spawn_rate, signalVars, workerVars>>

ScanDone == pc = "scan" /\ scan.unread = {}

Smaller(a, b) == IF a < b THEN a ELSE b

TooManyIdle == Cardinality(scan.idle) > pm_max_spare_servers[scan.wp]

\* Mutant: off by one, a pool with no idle child passes for one with enough.
TooFewIdle_late == Cardinality(scan.idle) + 1 < pm_min_spare_servers[scan.wp]

TooFewIdle  == Cardinality(scan.idle) < pm_min_spare_servers[scan.wp]
Full        == wp_running[scan.wp] >= pm_max_children[scan.wp]

\* Too many idle children: the oldest idle one, here any of them, is marked
\* and told to quit.
idle_child_killed ==
  /\ ScanDone
  /\ scan.wp \in Dynamic
  /\ TooManyIdle
  /\ \E c \in scan.idle : idle_kill' = idle_kill \cup {c} /\ Kill({c}, "QUIT", pipe)
  /\ idle_spawn_rate' = [idle_spawn_rate EXCEPT ![scan.wp] = 1]
  /\ scan' = NoScan
  /\ pc' = "idle"
  /\ UNCHANGED <<ctlVars, listVars, todo, make, requestVars, sent, accepting>>

\* Too few: fork as many as the rate, the deficit and max_children allow,
\* and double the rate.
idle_children_forked ==
  LET p == scan.wp
      n == Smaller(Smaller(idle_spawn_rate[p],
                           pm_min_spare_servers[p] - Cardinality(scan.idle)),
                   pm_max_children[p] - wp_running[p])
  IN  /\ ScanDone
      /\ p \in Dynamic
      /\ ~TooManyIdle /\ TooFewIdle /\ ~Full
      /\ StartMake(p, wp_running[p] + n, "idle")
      /\ idle_spawn_rate' =
           [idle_spawn_rate EXCEPT ![p] = IF @ < FPM_MAX_SPAWN_RATE THEN 2 * @ ELSE @]
      /\ scan' = NoScan
      /\ UNCHANGED <<ctlVars, listVars, idle_kill, todo, requestVars,
                     signalVars, workerVars>>

\* Nothing to do: a static pool, a full one, or one with enough idle children.
idle_pool_kept ==
  /\ ScanDone
  /\ scan.wp \in Static \/ (~TooManyIdle /\ (~TooFewIdle \/ Full))
  /\ idle_spawn_rate' =
       IF scan.wp \in Static THEN idle_spawn_rate
                             ELSE [idle_spawn_rate EXCEPT ![scan.wp] = 1]
  /\ scan' = NoScan
  /\ pc' = "idle"
  /\ UNCHANGED <<ctlVars, listVars, idle_kill, todo, make, requestVars,
                 signalVars, workerVars>>

\* fpm_pctl_check_request_timeout finds a request that runs for too long in
\* its copy of the slot ...
RequestRuns(c) ==
  /\ pc = "requests"
  /\ c \notin checked
  /\ proc[c] = "busy" /\ c \notin accepting
  /\ victim' = c
  /\ checked' = checked \cup {c}

request_timed_out(c) ==
  /\ RequestRuns(c)
  /\ TerminateTimeout
  /\ c \in Linked
  /\ pc' = "terminate"
  /\ UNCHANGED <<ctlVars, listVars, idle_kill, todo, make, scan,
                 slow_logged, idle_spawn_rate, signalVars, workerVars>>

\* ... and the worker, whatever it does by now, gets SIGTERM.
terminate_victim ==
  /\ pc = "terminate"
  /\ Kill({victim}, "TERM", pipe)
  /\ victim' = NoChild
  /\ pc' = "requests"
  /\ UNCHANGED <<ctlVars, listVars, idle_kill, todo, make, scan,
                 checked, slow_logged, idle_spawn_rate, sent, accepting>>

\* It finds one that is slow and not traced yet ...
request_slow(c) ==
  /\ RequestRuns(c)
  /\ c \notin slow_logged
  /\ \E p \in Slowlog : c \in children[p]
  /\ slow_logged' = slow_logged \cup {c}
  /\ pc' = "trace"
  /\ UNCHANGED <<ctlVars, listVars, idle_kill, todo, make, scan,
                 idle_spawn_rate, signalVars, workerVars>>

\* ... and attaches the worker, whatever it does by now, which sends it
\* SIGSTOP; or ptrace(PTRACE_ATTACH) fails.
fpm_trace_signal ==
  /\ pc = "trace"
  /\ \/ /\ Live(victim)
        /\ trace[victim] = "no"
        /\ trace' = [trace EXCEPT ![victim] = "attached"]
     \/ UNCHANGED trace
  /\ victim' = NoChild
  /\ pc' = "requests"
  /\ UNCHANGED <<ctlVars, listVars, idle_kill, todo, make, scan, checked,
                 slow_logged, idle_spawn_rate, signalVars, proc, accepting,
                 quitting, status, pending>>

\* The timers are done: the next round of the event loop.
timers_done ==
  /\ pc = "requests"
  /\ checked' = {}
  /\ pc' = "poll"
  /\ UNCHANGED <<ctlVars, listVars, idle_kill, todo, make, scan, victim,
                 slow_logged, idle_spawn_rate, signalVars, workerVars>>

-----------------------------------------------------------------------------
(***************************************************************************)
(* Signals to the master.                                                  *)
(***************************************************************************)

\* An administrator sends SIGTERM or SIGINT, SIGQUIT or SIGUSR2.
send_signal(b) ==
  /\ ~Ended
  /\ sent < MaxSignals
  /\ sent' = sent + 1
  /\ pipe' = sig_handler(pipe, b)
  /\ UNCHANGED <<pc, ctlVars, listVars, idle_kill, loopVars, workerVars>>

-----------------------------------------------------------------------------
(***************************************************************************)
(* The workers.                                                            *)
(***************************************************************************)
workerFrame == <<pc, ctlVars, listVars, idle_kill, todo, make, scan, victim,
                 checked, idle_spawn_rate, sent>>
traceVars == <<trace, pending, slow_logged>>

\* A process that is not stopped.
Runs(c) == trace[c] \in {"no", "attached"}

\* fpm_signals_init_child: from here on SIGQUIT and SIGTERM are heard.
fpm_signals_init_child(c) ==
  /\ proc[c] = "starting"
  /\ proc' = [proc EXCEPT ![c] = "ready"]
  /\ UNCHANGED <<workerFrame, traceVars, pipe, accepting, quitting, status>>

\* fpm_request_accepting, then accept() on the listening socket.
fpm_request_accepting(c) ==
  /\ proc[c] = "ready" /\ c \notin quitting /\ Runs(c)
  /\ proc' = [proc EXCEPT ![c] = "idle"]
  /\ accepting' = accepting \cup {c}
  /\ UNCHANGED <<workerFrame, traceVars, pipe, quitting, status>>

\* accept() returns a connection; a worker that quits softly has no
\* listening socket any more.
fcgi_accept_request(c) ==
  /\ proc[c] = "idle" /\ c \notin quitting /\ Runs(c)
  /\ proc' = [proc EXCEPT ![c] = "busy"]
  /\ UNCHANGED <<workerFrame, traceVars, pipe, accepting, quitting, status>>

\* fpm_request_reading_headers: the slot shows the request, whose accept time
\* is not the one the heartbeat may remember.
fpm_request_reading_headers(c) ==
  /\ proc[c] = "busy" /\ c \in accepting /\ Runs(c)
  /\ accepting' = accepting \ {c}
  /\ slow_logged' = slow_logged \ {c}
  /\ UNCHANGED <<workerFrame, trace, pending, pipe, proc, quitting, status>>

\* fpm_request_finished: the response is sent.
fpm_request_finished(c) ==
  /\ proc[c] = "busy" /\ c \notin accepting /\ Runs(c)
  /\ proc' = [proc EXCEPT ![c] = "ready"]
  /\ UNCHANGED <<workerFrame, traceVars, pipe, accepting, quitting, status>>

Ends(c, how) ==
  /\ Live(c) /\ Runs(c)
  /\ proc' = [proc EXCEPT ![c] = "zombie"]
  /\ status' = [status EXCEPT ![c] = how]
  /\ trace' = [trace EXCEPT ![c] = "no"]
  /\ pending' = [pending EXCEPT ![c] = {}]
  /\ pipe' = sig_handler(pipe, "C")
  /\ UNCHANGED <<workerFrame, slow_logged, accepting, quitting>>

\* in_shutdown is seen: the worker leaves its loop.
soft_quit(c) ==
  /\ proc[c] \in {"ready", "idle"} /\ c \in quitting
  /\ Ends(c, "exited")

\* A worker ends by itself: it fails to initialise, has served max_requests,
\* or accept() or the start of a request fails.
worker_exits(c) == Ends(c, "exited")

\* A worker dies of SIGSEGV or SIGBUS.
worker_faults(c) == Ends(c, "fault")

\* The signal that the stop of an attached process takes the place of: the
\* pending one with the lowest number, and fpm_trace_close passes none on.
\* With none pending it is the SIGSTOP of the attach.
Swallowed(c) == IF "QUIT" \in pending[c] THEN {"QUIT"} ELSE pending[c]

\* The attached worker stops at its first signal; the master gets SIGCHLD.
ptrace_stop(c) ==
  /\ trace[c] = "attached"
  /\ trace' = [trace EXCEPT ![c] = "stopped"]
  /\ pending' = [pending EXCEPT ![c] = @ \ Swallowed(c)]
  /\ deaf' = IF fpm_signal_sent \in Swallowed(c) THEN deaf \cup {c} ELSE deaf
  /\ pipe' = sig_handler(pipe, "C")
  /\ UNCHANGED <<pc, fpm_state, fpm_signal_sent, pctl_timer, listVars, idle_kill,
                 loopVars, sent, proc, accepting, quitting, status>>

-----------------------------------------------------------------------------
\* The master is gone.
ended ==
  /\ Ended
  /\ UNCHANGED vars

MasterNext ==
  \/ fpm_children_create_initial
  \/ \E c \in Child : fpm_children_make(c)
  \/ make_done
  \/ make_fails
  \/ poll_returns
  \/ fpm_got_signal
  \/ bury_ends
  \/ \E c \in Child : fpm_php_trace(c)
  \/ \E c \in Child, p \in Pool : fpm_children_bury(c, p)
  \/ check_last_faults
  \/ fpm_pctl_action
  \/ pctl_not_due
  \/ idle_heartbeat
  \/ no_idle_heartbeat
  \/ next_pool
  \/ \E c \in Child : fpm_request_is_idle(c)
  \/ idle_child_killed
  \/ idle_children_forked
  \/ idle_pool_kept
  \/ \E c \in Child : request_timed_out(c)
  \/ terminate_victim
  \/ \E c \in Child : request_slow(c)
  \/ fpm_trace_signal
  \/ timers_done

SignalNext ==
  \E b \in {"T", "Q", "2"} : send_signal(b)

WorkerNext ==
  \E c \in Child :
    \/ fpm_signals_init_child(c)
    \/ fpm_request_accepting(c)
    \/ fcgi_accept_request(c)
    \/ fpm_request_reading_headers(c)
    \/ fpm_request_finished(c)
    \/ soft_quit(c)
    \/ worker_exits(c)
    \/ worker_faults(c)
    \/ ptrace_stop(c)

Next == MasterNext \/ SignalNext \/ WorkerNext \/ ended

Spec == Init /\ [][Next]_vars

(***************************************************************************)
(* Fairness.  The master keeps going, a timer that may expire again and    *)
(* again does, and fork does not fail forever.  Workers get through their  *)
(* start-up, finish the requests they serve, leave when they are told to   *)
(* quit and stop when they are attached, but no request need arrive, no    *)
(* worker need crash and no signal need be sent.                           *)
(***************************************************************************)
Fairness ==
  /\ WF_vars(MasterNext)
  /\ SF_vars(fpm_pctl_action)
  /\ SF_vars(idle_heartbeat)
  /\ SF_vars(\E c \in Child : fpm_children_make(c))
  /\ \A c \in Child :
       WF_vars(\/ fpm_signals_init_child(c)
               \/ fpm_request_accepting(c)
               \/ fpm_request_reading_headers(c)
               \/ fpm_request_finished(c)
               \/ soft_quit(c)
               \/ ptrace_stop(c))

FairSpec == Spec /\ Fairness

-----------------------------------------------------------------------------
(***************************************************************************)
(* Properties.                                                             *)
(***************************************************************************)

\* Every variable has the values its declaration and its #defines allow.
TypeOK ==
  /\ pc \in {"create", "make", "poll", "signals", "bury", "fault", "timers",
             "heartbeat", "idle", "scan", "requests", "terminate", "trace",
             "exited", "execed"}
  /\ fpm_state \in {"NORMAL", "RELOADING", "FINISHING", "TERMINATING"}
  /\ fpm_signal_sent \in {"none", "QUIT", "TERM", "KILL"}
  /\ pctl_timer \in {"off", "due", "set"}
  /\ children \in [Pool -> SUBSET Child]
  /\ wp_running \in [Pool -> Nat]
  /\ running_children \in Nat
  /\ idle_kill \subseteq Child
  /\ idle_spawn_rate \in [Pool -> Nat]
  /\ todo \subseteq Pool
  /\ make \in [wp : Pool \cup {NoPool}, max : Nat,
               ret : {"create", "poll", "bury", "idle"}]
  /\ scan \in [wp : Pool \cup {NoPool}, unread : SUBSET Child, idle : SUBSET Child]
  /\ victim \in Child \cup {NoChild}
  /\ checked \subseteq Child
  /\ slow_logged \subseteq Child
  /\ pipe \in Seq({"C", "T", "Q", "2"})
  /\ sent \in Nat
  /\ proc \in [Child -> {"none", "starting", "ready", "idle", "busy", "zombie"}]
  /\ accepting \subseteq Child
  /\ quitting \subseteq Child
  /\ status \in [Child -> {"none", "exited", "fault", "killed"}]
  /\ trace \in [Child -> {"no", "attached", "stopped", "left"}]
  /\ pending \in [Child -> SUBSET {"QUIT", "TERM"}]
  /\ deaf \subseteq Child

\* Both counters the control decisions rest on are exact, and every process
\* the kernel may report to waitpid is linked in exactly one pool, so
\* "oops, unknown child" is never logged and no worker is forgotten.
CountersExact ==
  /\ \A p \in Pool : wp_running[p] = Cardinality(children[p])
  /\ running_children = Cardinality(Linked)
  /\ \A p, q \in Pool : p # q => children[p] \cap children[q] = {}
  /\ Linked = {c \in Child : proc[c] # "none"}

\* No pool ever has more than pm.max_children processes, through restarts,
\* idle kills and concurrent spawning decisions.
MaxChildrenRespected ==
  \A p \in Pool : wp_running[p] <= pm_max_children[p]

\* A worker that outlives a signal of the shutdown sequence was still
\* starting when it was sent, lost it to the stop of a slowlog trace, or is
\* attached and has it pending; all others are quitting (SIGQUIT) or dead
\* (SIGTERM), and after SIGKILL every worker is.
EveryoneSignalled ==
  ~Ended =>
    /\ fpm_signal_sent \in {"QUIT", "TERM"} =>
         \A c \in Linked : Live(c) =>
           \/ c \in deaf
           \/ fpm_signal_sent \in pending[c]
           \/ fpm_signal_sent = "QUIT" /\ c \in quitting
    /\ fpm_signal_sent = "KILL" => \A c \in Linked : ~Live(c)

\* No death and no stop goes unnoticed: as long as a dead child is not
\* buried, or a stopped one neither traced nor given up, a SIGCHLD byte is in
\* the pipe or the master is in the waitpid loop, although equal signals are
\* merged and children die while the loop runs.
NoLostSigchld ==
  ~Ended /\ (\E c \in Child : proc[c] = "zombie" \/ trace[c] = "stopped") =>
    \/ \E i \in DOMAIN pipe : pipe[i] = "C"
    \/ pc \in {"bury", "fault"}
    \/ pc = "make" /\ make.ret = "bury"

\* The master exits or re-executes itself only when it has asked for it and
\* every worker is dead and buried: no worker outlives its master.
NoOrphanWorkers ==
  Ended => /\ \A c \in Child : proc[c] = "none"
           /\ fpm_state # "NORMAL"
           /\ pc = "execed" => fpm_state = "RELOADING"

Rank(s) == CASE s = "NORMAL" -> 0 [] s = "RELOADING" -> 1
             [] s = "FINISHING" -> 2 [] s = "TERMINATING" -> 3

\* A shutdown is never called off: the control state only gets stronger, and
\* once it has left NORMAL no step forks a worker.
ShutdownIrrevocable ==
  [][/\ Rank(fpm_state') >= Rank(fpm_state)
     /\ fpm_state # "NORMAL" => Linked' \subseteq Linked]_vars

\* Seen from outside the master is that of FpmLifecycle: it keeps its orders,
\* hires within the limit and only while it has no order to stop, and is over
\* in the very step that removes the last worker of a shutdown, whatever
\* signals, timers, failures and restarts its handlers go through.
Lifecycle ==
  INSTANCE FpmLifecycle
    WITH Limit <- pm_max_children,
         order <- fpm_state,
         workers <- children,
         alive <- {c \in Child : Live(c)},
         over <- IF Ended THEN pc ELSE "no"

KeepsLifecycle == Lifecycle!Spec

\* SIGTERM and SIGINT end the master, whatever its workers do.
TerminatingEnds == (fpm_state = "TERMINATING") ~> Ended

\* A dynamic pool without workers gets one again, as long as no shutdown
\* has begun.
DynamicPoolRecovers ==
  \A p \in Dynamic : []<>(fpm_state # "NORMAL" \/ wp_running[p] > 0)

-----------------------------------------------------------------------------
(***************************************************************************)
(* What the documentation says and the code does not do.                   *)
(***************************************************************************)

\* php-fpm(8): SIGQUIT is a "graceful stop", so a master that is finishing
\* stops.
FinishingEnds == (fpm_state = "FINISHING") ~> Ended

\* php-fpm(8): SIGQUIT is a "graceful stop" and SIGUSR2 a "graceful reload",
\* so the master does not kill a worker while it serves a request.
GracefulStop ==
  [][\A c \in Child :
       fpm_state \in {"FINISHING", "RELOADING"} /\ proc[c] = "busy"
         => status'[c] # "killed"]_vars

=============================================================================
