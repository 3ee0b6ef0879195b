---------------------------- MODULE FpmLifecycleProofs ----------------------------
(***************************************************************************)
(* FpmMaster implements FpmLifecycle, for any pools, processes and         *)
(* configuration.                                                          *)
(***************************************************************************)
EXTENDS FpmMasterProofs

Alive == {c \in Child : Live(c)}
Over == IF Ended THEN pc ELSE "no"

\* What keeps the timer from finding nobody to kill: a master with an order
\* to stop that is not over has a worker.
StaysUp == fpm_state # "NORMAL" /\ ~Ended => \E p \in Pool : children[p] # {}

LifecycleStep == [Lifecycle!Next]_(Lifecycle!vars)

\* What the abstract specification sees of a state.
LEMMA Seen ==
  ASSUME UNCHANGED <<fpm_state, children, proc>>, UNCHANGED Over
  PROVE  UNCHANGED Lifecycle!vars
  <1>1. UNCHANGED Alive
    BY DEF Alive, Live
  <1> QED
    BY <1>1 DEF Lifecycle!vars, Alive, Over

\* A step in which workers may die and nothing else is seen.
LEMMA Deaths ==
  ASSUME ~Ended, ~Ended', UNCHANGED <<fpm_state, children>>,
         \A c \in Child : Live(c)' => Live(c)
  PROVE  LifecycleStep
  <1> DEFINE S == Alive \ Alive'
  <1>1. S \in SUBSET Alive /\ Alive' = Alive \ S
    BY DEF Alive
  <1>2. Lifecycle!Die(S)
    BY <1>1 DEF Lifecycle!Die, Alive
  <1>3. \E T \in SUBSET {c \in Child : Live(c)} : Lifecycle!Die(T)
    BY <1>1, <1>2 DEF Alive
  <1> QED
    BY <1>3 DEF LifecycleStep, Lifecycle!Next

\* The counter the code tests is zero exactly when no pool has a worker.
LEMMA NobodyLeft ==
  ASSUME NEW lists \in [Pool -> SUBSET Child], NEW n,
         n = Cardinality(UNION {lists[p] : p \in Pool})
  PROVE  n = 0 <=> \A p \in Pool : lists[p] = {}
  <1> DEFINE all == UNION {lists[p] : p \in Pool}
  <1>1. IsFiniteSet(all)
    <2>1. all \subseteq Child
      OBVIOUS
    <2> QED
      BY <2>1, FS_Subset, FiniteAssumption
  <1>2. n = 0 <=> all = {}
    BY <1>1, FS_EmptySet
  <1>3. all = {} <=> \A p \in Pool : lists[p] = {}
    OBVIOUS
  <1> QED
    BY <1>2, <1>3

\* Both modules count with the same Cardinality.
LEMMA SameCardinality ==
  ASSUME NEW S
  PROVE  Lifecycle!Cardinality(S) = Cardinality(S)
  BY DEF Lifecycle!Cardinality, Cardinality, Lifecycle!IsFiniteSet, IsFiniteSet

\* fpm_pctl with FPM_PCTL_ACTION_SET is ignored, or is a command.
LEMMA CommandStep ==
  ASSUME TypeOK, CountersExact, ~Ended, NEW new \in States \ {"NORMAL"},
         NEW q \in Seq(Byte), NEW rest, rest \notin {"exited", "execed"},
         fpm_pctl_set(new, q, rest), UNCHANGED children
  PROVE  LifecycleStep
  <1>1. CASE ~Overrides(new, fpm_state)
    <2>1. pc' = rest /\ UNCHANGED <<fpm_state, proc>>
      BY <1>1 DEF fpm_pctl_set, ctlVars, killVars
    <2>2. UNCHANGED Over
      BY <2>1 DEF Over, Ended
    <2> QED
      BY <2>1, <2>2, Seen DEF LifecycleStep
  <1>2. CASE Overrides(new, fpm_state)
    <2>0. running_children = 0 <=> \A p \in Pool : children[p] = {}
      <3>1. children \in [Pool -> SUBSET Child]
        BY DEF TypeOK
      <3>2. running_children = Cardinality(UNION {children[p] : p \in Pool})
        BY DEF CountersExact, Linked
      <3> QED
        BY <3>1, <3>2, NobodyLeft
    <2> DEFINE timer == IF process_control_timeout = 0 THEN "due" ELSE "set"
               S == Alive \ Alive'
    <2>1. fpm_state' = new /\ fpm_pctl_action_next(new, "none", q, timer, rest)
      BY <1>2 DEF fpm_pctl_set
    <2>2. KillEffect(q)
      BY PctlSetLemma
    <2>3. S \in SUBSET Alive /\ Alive' = Alive \ S
      BY <2>2 DEF Alive, KillEffect, Live
    <2>4. S # {} => new = "TERMINATING"
      <3>1. CASE running_children = 0
        BY <2>1, <3>1 DEF fpm_pctl_action_next, killVars, Alive, Live
      <3>2. CASE running_children # 0 /\ new # "TERMINATING"
        <4>1. NextSignal(new, "none") = "QUIT"
          BY <3>2 DEF NextSignal
        <4>2. UNCHANGED proc
          BY <2>1, <3>2, <4>1 DEF fpm_pctl_action_next, Kill, TypeOK
        <4> QED
          BY <4>2 DEF Alive, Live
      <3> QED
        BY <3>1, <3>2
    <2>5. Lifecycle!Rank(new) > Lifecycle!Rank(fpm_state)
      BY <1>2 DEF Overrides, States, TypeOK, Lifecycle!Rank
    <2>6. Lifecycle!Settle
      <3>1. CASE running_children = 0
        <4>1. \A p \in Pool : children'[p] = {}
          BY <2>0, <3>1
        <4>2. pc' \in Lifecycle!Ways(new) /\ Over' = pc'
          BY <2>1, <3>1 DEF fpm_pctl_action_next, fpm_pctl_action_last, Lifecycle!Ways,
             Over, Ended
        <4> QED
          BY <2>1, <4>1, <4>2 DEF Lifecycle!Settle, Over
      <3>2. CASE running_children # 0
        <4>1. ~\A p \in Pool : children'[p] = {}
          BY <2>0, <3>2
        <4>2. Over' = "no"
          BY <2>1, <3>2 DEF fpm_pctl_action_next, Over, Ended
        <4> QED
          BY <4>1, <4>2 DEF Lifecycle!Settle, Over
      <3> QED
        BY <3>1, <3>2
    <2>7. Lifecycle!Command(new, S)
      BY <2>1, <2>3, <2>4, <2>5, <2>6 DEF Lifecycle!Command, Alive
    <2>8. new \in {"RELOADING", "FINISHING", "TERMINATING"}
      BY DEF States
    <2>9. \E s \in {"RELOADING", "FINISHING", "TERMINATING"},
             T \in SUBSET {c \in Child : Live(c)} : Lifecycle!Command(s, T)
      BY <2>3, <2>7, <2>8 DEF Alive
    <2> QED
      BY <2>9 DEF LifecycleStep, Lifecycle!Next
  <1> QED
    BY <1>1, <1>2

\* fpm_got_signal, check_last_faults and the escalation timer.
LEMMA ControlStep ==
  ASSUME MasterInv, StaysUp, fpm_got_signal \/ check_last_faults \/ fpm_pctl_action
  PROVE  LifecycleStep
  <1>0. TypeOK /\ CountersExact /\ pipe \in Seq(Byte)
    BY DEF MasterInv, CoreInv, TypeOK, Byte
  <1>1. ~Ended /\ UNCHANGED children
    BY DEF fpm_got_signal, check_last_faults, fpm_pctl_action, Ended, listVars
  <1>2. ASSUME UNCHANGED <<fpm_state, proc>>, ~Ended'
        PROVE  LifecycleStep
    BY <1>1, <1>2, Deaths DEF Live
  <1>3. CASE fpm_got_signal
    <2>1. CASE pipe = <<>> \/ Head(pipe) = "C"
      BY <1>2, <1>3, <2>1 DEF fpm_got_signal, ctlVars, killVars, Ended
    <2>2. CASE pipe # <<>> /\ Head(pipe) # "C"
      <3>1. Head(pipe) \in Byte /\ Tail(pipe) \in Seq(Byte)
        BY <1>0, <2>2, TailLemma
      <3>2. StateOf(Head(pipe)) \in States \ {"NORMAL"}
        BY <2>2, <3>1 DEF StateOf, States, Byte
      <3>3. fpm_pctl_set(StateOf(Head(pipe)), Tail(pipe), "signals")
        BY <1>3, <2>2 DEF fpm_got_signal
      <3> DEFINE new == StateOf(Head(pipe))
                 rest == Tail(pipe)
      <3>4. new \in States \ {"NORMAL"} /\ rest \in Seq(Byte) /\ fpm_pctl_set(new, rest, "signals")
        BY <3>1, <3>2, <3>3
      <3> HIDE DEF new, rest
      <3> QED
        BY <1>0, <1>1, <3>4, CommandStep
    <2> QED
      BY <2>1, <2>2
  <1>4. CASE check_last_faults
    <2>1. CASE fpm_pctl_set("RELOADING", pipe, "make")
      <3>1. "RELOADING" \in States \ {"NORMAL"}
        BY DEF States
      <3> QED
        BY <1>0, <1>1, <2>1, <3>1, CommandStep
    <2>2. CASE pc' = "make" /\ UNCHANGED <<ctlVars, killVars, pipe>>
      BY <1>2, <2>2 DEF ctlVars, killVars, Ended
    <2> QED
      BY <1>4, <2>1, <2>2 DEF check_last_faults
  <1>5. CASE fpm_pctl_action
    <2>1. /\ pctl_timer # "off"
          /\ fpm_pctl_action_next(fpm_state, fpm_signal_sent, pipe, "off", "heartbeat")
          /\ UNCHANGED fpm_state
      BY <1>5 DEF fpm_pctl_action
    <2>2. running_children # 0
      <3>1. \E p \in Pool : children[p] # {}
        BY <1>1, <2>1 DEF StaysUp, MasterInv, ShutdownOn
      <3> QED
        BY <1>0, <3>1, NobodyLeft DEF TypeOK, CountersExact, Linked
    <2>3. pc' = "heartbeat"
      BY <2>1, <2>2 DEF fpm_pctl_action_next
    <2>4. fpm_state \in States /\ fpm_signal_sent \in {"none", "QUIT", "TERM", "KILL"}
      BY <1>0 DEF TypeOK, States
    <2>5. KillEffect(pipe)
      BY <1>0, <1>1, <2>1, <2>4, ActionNextLemma
    <2>6. \A c \in Child : Live(c)' => Live(c)
      BY <2>5 DEF KillEffect, Live
    <2> QED
      BY <1>1, <2>1, <2>3, <2>6, Deaths DEF Ended
  <1> QED
    BY <1>3, <1>4, <1>5

\* The steps of the workers, and of those that send them signals.
LEMMA WorkerStep ==
  ASSUME MasterInv, SignalNext \/ WorkerNext
  PROVE  LifecycleStep
  <1>1. UNCHANGED <<pc, fpm_state, children>>
    BY DEF SignalNext, send_signal, WorkerNext, workerFrame, fpm_signals_init_child,
       fpm_request_accepting, fcgi_accept_request, fpm_request_reading_headers,
       fpm_request_finished, soft_quit, worker_exits, worker_faults, Ends, ptrace_stop,
       ctlVars, listVars
  <1>2. CASE SignalNext
    BY <1>1, <1>2, Seen DEF SignalNext, send_signal, workerVars, Over, Ended, LifecycleStep
  <1>3. CASE WorkerNext
    <2>1. \A c \in Child : Live(c)' => Live(c)
      BY <1>3 DEF MasterInv, CoreInv, TypeOK, WorkerNext, Live, fpm_signals_init_child,
         fpm_request_accepting, fcgi_accept_request, fpm_request_reading_headers,
         fpm_request_finished, soft_quit, worker_exits, worker_faults, Ends, ptrace_stop
    <2>2. \E c \in Child : proc[c] # "none"
      BY <1>3 DEF WorkerNext, Live, fpm_signals_init_child,
         fpm_request_accepting, fcgi_accept_request, fpm_request_reading_headers,
         fpm_request_finished, soft_quit, worker_exits, worker_faults, Ends, ptrace_stop,
         MasterInv, CoreInv, RequestsOK
    <2>3. ~Ended
      BY <2>2, NotEnded
    <2> QED
      BY <1>1, <2>1, <2>3, Deaths DEF Ended
  <1> QED
    BY <1>2, <1>3

\* Idle maintenance and the request timeout signal one worker, and the end of
\* a trace may deliver the signal that kills it.
LEMMA PokeStep ==
  ASSUME MasterInv,
         idle_child_killed \/ terminate_victim \/ \E c \in Child : fpm_php_trace(c)
  PROVE  LifecycleStep
  <1>1. ~Ended /\ ~Ended' /\ UNCHANGED <<fpm_state, children>>
    BY DEF idle_child_killed, terminate_victim, fpm_php_trace, ScanDone, Ended, ctlVars, listVars
  <1>2. \A c \in Child : Live(c)' => Live(c)
    <2>1. CASE idle_child_killed \/ terminate_victim
      BY <2>1 DEF idle_child_killed, terminate_victim, Kill, Hears, Live
    <2>2. CASE \E c \in Child : fpm_php_trace(c)
      BY <2>2, TraceEffect DEF MasterInv, CoreInv
    <2> QED
      BY <2>1, <2>2
  <1> QED
    BY <1>1, <1>2, Deaths

\* A fork takes on a worker.
LEMMA HireStep ==
  ASSUME MasterInv, NEW c \in Child, fpm_children_make(c)
  PROVE  LifecycleStep
  <1>0. TypeOK /\ CountersExact
    BY DEF MasterInv, CoreInv
  <1> DEFINE p == make.wp
  <1>1. /\ pc = "make" /\ UNCHANGED <<pc, fpm_state>>
        /\ fpm_state = "NORMAL"
        /\ wp_running[p] < make.max
        /\ proc[c] = "none"
        /\ proc' = [proc EXCEPT ![c] = "starting"]
        /\ children' = [children EXCEPT ![p] = @ \cup {c}]
    BY DEF fpm_children_make, MoreToFork, fpm_child_link, fpm_pctl_can_spawn_children, ctlVars
  <1>2. p \in Pool /\ make.max <= pm_max_children[p]
    BY <1>1 DEF MasterInv, CoreInv, MakeBounded
  <1>3. Cardinality(children[p]) < pm_max_children[p]
    <2>1. wp_running[p] = Cardinality(children[p])
      BY <1>0, <1>2 DEF CountersExact
    <2>2. wp_running[p] \in Nat /\ make.max \in Nat /\ pm_max_children[p] \in Nat
      BY <1>0, <1>2, ConfigAssumption DEF TypeOK
    <2> QED
      BY <1>1, <1>2, <2>1, <2>2
  <1>4. c \notin Linked \cup Alive
    BY <1>0, <1>1 DEF CountersExact, Alive, Live
  <1>5. Alive' = Alive \cup {c}
    BY <1>0, <1>1 DEF Alive, Live, TypeOK
  <1>6. Over = "no" /\ Over' = "no"
    BY <1>1 DEF Over, Ended
  <1>7. Lifecycle!Hire(p, c)
    BY <1>1, <1>3, <1>4, <1>5, <1>6, SameCardinality DEF Lifecycle!Hire, Lifecycle!Staff, Linked, Alive, Over
  <1> QED
    BY <1>2, <1>7 DEF LifecycleStep, Lifecycle!Next

\* A burial dismisses a worker, and ends the master with the last one of a
\* shutdown.
LEMMA DismissStep ==
  ASSUME MasterInv, CoreInv', NEW c \in Child, NEW p \in Pool, fpm_children_bury(c, p)
  PROVE  LifecycleStep
  <1>0. TypeOK /\ CountersExact /\ TypeOK' /\ CountersExact'
    BY DEF MasterInv, CoreInv
  <1>1. /\ pc = "bury" /\ UNCHANGED fpm_state
        /\ proc[c] = "zombie"
        /\ proc' = [proc EXCEPT ![c] = "none"]
        /\ c \in children[p]
        /\ children' = [children EXCEPT ![p] = @ \ {c}]
        /\ running_children' = running_children - 1
    BY DEF fpm_children_bury, fpm_child_unlink
  <1>2. Over = "no" /\ c \notin Alive
    BY <1>1 DEF Over, Ended, Alive, Live
  <1>3. UNCHANGED Alive
    BY <1>0, <1>1 DEF Alive, Live, TypeOK
  <1>4. Lifecycle!Settle
    <2>0. running_children' = 0 <=> \A r \in Pool : children'[r] = {}
      <3>1. children' \in [Pool -> SUBSET Child]
        BY <1>0 DEF TypeOK
      <3>2. running_children' = Cardinality(UNION {children'[r] : r \in Pool})
        BY <1>0 DEF CountersExact, Linked
      <3> QED
        BY <3>1, <3>2, NobodyLeft
    <2>1. CASE LastChildExits(p)
      <3>1. running_children' = 0 /\ fpm_state' # "NORMAL"
        BY <1>1, <2>1 DEF LastChildExits
      <3>2. pc' \in Lifecycle!Ways(fpm_state') /\ Over' = pc'
        BY <1>1, <2>1 DEF fpm_children_bury, fpm_pctl_action_last, Lifecycle!Ways, Over, Ended
      <3> QED
        BY <2>0, <3>1, <3>2 DEF Lifecycle!Settle, Over
    <2>2. CASE ~LastChildExits(p)
      <3>1. pc' = CASE EmergencyRestart /\ status[c] = "fault" -> "fault"
                    [] restart_child(c) -> "make"
                    [] OTHER -> "bury"
        BY <2>2 DEF fpm_children_bury
      <3>2. pc' \in {"fault", "make", "bury"}
        <4>1. CASE restart_child(c)
          BY <3>1, <4>1
        <4>2. CASE ~restart_child(c)
          BY <3>1, <4>2
        <4> QED
          BY <4>1, <4>2
      <3>3. fpm_state' = "NORMAL" \/ running_children' # 0
        BY <1>0, <1>1, <2>2 DEF LastChildExits, TypeOK
      <3>4. Over' = "no"
        BY <3>2 DEF Over, Ended
      <3> QED
        BY <2>0, <3>3, <3>4 DEF Lifecycle!Settle, Over
    <2> QED
      BY <2>1, <2>2
  <1>5. Lifecycle!Dismiss(p, c)
    BY <1>1, <1>2, <1>3, <1>4 DEF Lifecycle!Dismiss, Over, Alive
  <1> QED
    BY <1>5 DEF LifecycleStep, Lifecycle!Next

\* Every step of the master, its workers and the kernel is a step of the
\* abstract specification, or is not seen.
LEMMA StepRefines ==
  ASSUME MasterInv, StaysUp, [Next]_vars
  PROVE  LifecycleStep
  <1>0. CoreInv /\ CoreInv'
    BY StepCore DEF MasterInv
  <1>1. CASE \/ fpm_children_create_initial \/ make_done \/ make_fails \/ poll_returns
             \/ bury_ends \/ pctl_not_due \/ idle_heartbeat \/ no_idle_heartbeat
             \/ next_pool \/ idle_pool_kept \/ timers_done \/ idle_children_forked
             \/ \E c \in Child : fpm_request_is_idle(c)
             \/ \E c \in Child : request_timed_out(c)
             \/ \E c \in Child : request_slow(c)
             \/ fpm_trace_signal
    <2>1. ~Ended /\ ~Ended' /\ UNCHANGED <<fpm_state, children, proc>>
      BY <1>0, <1>1, LoopFrame
    <2> QED
      BY <2>1, Seen DEF Over, LifecycleStep
  <1>2. CASE SignalNext \/ WorkerNext
    BY <1>2, WorkerStep
  <1>3. CASE idle_child_killed \/ terminate_victim \/ \E c \in Child : fpm_php_trace(c)
    BY <1>3, PokeStep
  <1>4. CASE fpm_got_signal \/ check_last_faults \/ fpm_pctl_action
    BY <1>4, ControlStep
  <1>5. CASE \E c \in Child : fpm_children_make(c)
    BY <1>5, HireStep
  <1>6. CASE \E c \in Child, p \in Pool : fpm_children_bury(c, p)
    BY <1>0, <1>6, DismissStep
  <1>7. CASE ended \/ UNCHANGED vars
    <2>1. UNCHANGED <<pc, fpm_state, children, proc>>
      BY <1>7 DEF ended, vars, ctlVars, listVars, workerVars
    <2> QED
      BY <2>1, Seen DEF Over, Ended, LifecycleStep
  <1> QED
    BY <1>1, <1>2, <1>3, <1>4, <1>5, <1>6, <1>7 DEF Next, MasterNext

\* The abstract steps keep a master with an order to stop from running on
\* without workers.
LEMMA StaysUpKept ==
  ASSUME StaysUp, TypeOK, LifecycleStep, Over # "no" <=> Ended, Over' # "no" <=> Ended'
  PROVE  StaysUp'
  <1>1. CASE UNCHANGED Lifecycle!vars
    <2>1. UNCHANGED <<fpm_state, children, Over>>
      BY <1>1 DEF Lifecycle!vars, Over
    <2> QED
      BY <2>1 DEF StaysUp
  <1>2. ASSUME Lifecycle!Settle
        PROVE  StaysUp'
    BY <1>2 DEF Lifecycle!Settle, Lifecycle!Ways, StaysUp, Over
  <1>3. ASSUME NEW p \in Pool, NEW c \in Child, Lifecycle!Hire(p, c)
        PROVE  StaysUp'
    BY <1>3 DEF Lifecycle!Hire, StaysUp
  <1>4. ASSUME NEW S \in SUBSET {c \in Child : Live(c)}, Lifecycle!Die(S)
        PROVE  StaysUp'
    <2>1. UNCHANGED <<fpm_state, children, Over>>
      BY <1>4 DEF Lifecycle!Die, Over
    <2> QED
      BY <2>1 DEF StaysUp
  <1>5. ASSUME NEW p \in Pool, NEW c \in Child, Lifecycle!Dismiss(p, c)
        PROVE  StaysUp'
    BY <1>2, <1>5 DEF Lifecycle!Dismiss
  <1>6. ASSUME NEW s, NEW S, Lifecycle!Command(s, S)
        PROVE  StaysUp'
    BY <1>2, <1>6 DEF Lifecycle!Command
  <1> QED
    BY <1>1, <1>3, <1>4, <1>5, <1>6 DEF LifecycleStep, Lifecycle!Next

\* FpmMaster implements FpmLifecycle: through every handler, signal, timer
\* and failure, the administrator sees a master that hires within the limits
\* and only without an order to stop, obeys orders of growing strength, kills
\* at once only for TERMINATING, and is over in the step that buries the last
\* worker of a shutdown.
THEOREM MasterKeepsLifecycle == Spec => KeepsLifecycle
  <1>1. Init => Lifecycle!Init
    BY DEF Init, Lifecycle!Init, Ended, Live
  <1>2. Init => StaysUp
    BY DEF Init, StaysUp
  <1>3. MasterInv /\ StaysUp /\ [Next]_vars => LifecycleStep
    BY StepRefines
  <1>4. MasterInv /\ StaysUp /\ [Next]_vars => StaysUp'
    <2> SUFFICES ASSUME MasterInv, StaysUp, [Next]_vars PROVE StaysUp'
      OBVIOUS
    <2>1. LifecycleStep /\ TypeOK
      BY StepRefines DEF MasterInv, CoreInv
    <2> QED
      BY <2>1, StaysUpKept DEF Over, Ended
  <1> QED
    BY <1>1, <1>2, <1>3, <1>4, MasterInvariant, PTL
    DEF Spec, KeepsLifecycle, Lifecycle!Spec, LifecycleStep

=============================================================================
