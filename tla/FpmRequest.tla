------------------------------ MODULE FpmRequest ------------------------------
(***************************************************************************)
(* One worker serving FastCGI requests (the request loop of fpm_main.c,    *)
(* fastcgi.c), the stages it reports in its shared slot (fpm_request.c),   *)
(* and the master's heartbeat, which reads the slot and traces or          *)
(* terminates a worker whose request takes too long                        *)
(* (fpm_request_check_timed_out, fpm_php_trace.c).                         *)
(*                                                                         *)
(* The slot is written under its spinlock (FpmShmSlots), so one update is  *)
(* one step here; the heartbeat acts on a copy that may be stale by then.  *)
(* What the client sends and what the script does is nondeterministic.     *)
(***************************************************************************)
EXTENDS Integers

CONSTANTS
  request_terminate_timeout,  \* seconds, 0 is off
  request_slowlog_timeout,    \* seconds, 0 is off
  max_requests,               \* 0 is unlimited
  KeepConn,                   \* TRUE: clients may ask to keep the connection
  SlowlogOpens,               \* FALSE: fopen of the slowlog may fail
  MaxFinishes,                \* bound: calls of fastcgi_finish_request in a request
  MaxTime,                    \* bound: the clock stops there
  MaxRequests                 \* bound: requests counted, when max_requests is 0

ASSUME ConfigAssumption ==
  /\ request_terminate_timeout \in Nat
  /\ request_slowlog_timeout \in Nat
  /\ max_requests \in Nat
  /\ MaxTime \in Nat \ {0}
  /\ MaxRequests \in Nat
  /\ KeepConn \in BOOLEAN
  /\ MaxFinishes \in Nat
  /\ SlowlogOpens \in BOOLEAN

VARIABLES
  now,          \* the monotonic clock, in seconds
  \* the worker
  pc,           \* where it is in the request loop
  fd,           \* TRUE: req->fd is an open connection
  keep,         \* req->keep
  closed,       \* req->closed
  in_shutdown,  \* set by fcgi_set_in_shutdown on SIGQUIT
  requests,     \* requests served
  stop,         \* ptrace: no, sent (attached) or stopped
  term,         \* SIGTERM is pending
  \* its slot
  stage,        \* request_stage
  accepted,     \* time the connection was accepted, 0 if cleared
  \* the master
  mpc,          \* what the heartbeat does next
  slow_logged,  \* child->slow_logged: accepted time of the request traced
  tracer,       \* child->tracer is set
  \* history
  began,        \* time the current request began, 0 if there is none
  answers,      \* FCGI_END_REQUEST records written for it
  early,        \* the script has called fastcgi_finish_request
  traces,       \* times the heartbeat found the current request slow
  reused        \* the connection has been kept from an earlier request

workerVars == <<pc, fd, keep, closed, in_shutdown, requests, stop, term>>
slotVars == <<stage, accepted>>
masterVars == <<mpc, slow_logged, tracer>>
requestVars == <<began, answers, early, traces, reused>>
vars == <<now, workerVars, slotVars, masterVars, requestVars>>

Init ==
  /\ now = 1
  /\ pc = "top"
  /\ fd = FALSE /\ keep = FALSE /\ closed = FALSE
  /\ in_shutdown = FALSE
  /\ requests = 0
  /\ stop = "no"
  /\ term = FALSE
  /\ stage = "NONE"
  /\ accepted = 0
  /\ mpc = "idle"
  /\ slow_logged = 0
  /\ tracer = FALSE
  /\ began = 0 /\ answers = 0 /\ early = FALSE /\ traces = 0 /\ reused = FALSE

Alive == pc \notin {"exited", "aborted", "killed"}
Runs == Alive /\ stop # "stopped"

\* The stages for which the heartbeat looks at the clock.
Active == stage \in {"READING_HEADERS", "INFO", "EXECUTING"}

-----------------------------------------------------------------------------
(***************************************************************************)
(* fastcgi.c                                                               *)
(***************************************************************************)

fpm_request_finished ==
  /\ stage' = "FINISHED"
  /\ accepted' = 0

\* Mutant: the end of a request on a kept connection is reported too.
fcgi_close_reported(force, k) ==
  IF fd
    THEN fd' = (~force /\ k) /\ fpm_request_finished
    ELSE UNCHANGED <<fd, slotVars>>

\* fcgi_close: a kept connection stays open, and its stage stays as it is.
fcgi_close(force, k) ==
  IF (force \/ ~k) /\ fd
    THEN fd' = FALSE /\ fpm_request_finished
    ELSE UNCHANGED <<fd, slotVars>>

\* fcgi_finish_request: FCGI_END_REQUEST, unless it was sent, and the close.
\* A failing write clears keep.
fcgi_finish_request(force) ==
  IF fd
    THEN /\ closed' = TRUE
         /\ answers' = IF closed THEN answers ELSE answers + 1
         /\ \E k \in IF closed THEN {keep} ELSE {keep, FALSE} :
              keep' = k /\ fcgi_close(force, k)
    ELSE UNCHANGED <<fd, keep, closed, slotVars, answers>>

\* The worker forgets the request it has served.
NoRequest ==
  began' = 0 /\ answers' = 0 /\ early' = FALSE /\ traces' = 0 /\ reused' = fd

\* fcgi_accept_request: without a connection, fpm_request_accepting and
\* accept(); with a kept one, the next request is read from it.
fcgi_accept_request ==
  /\ Runs /\ pc = "top" /\ ~in_shutdown
  /\ IF fd THEN pc' = "read" /\ UNCHANGED stage
           ELSE pc' = "accept" /\ stage' = "ACCEPTING"
  /\ NoRequest
  /\ UNCHANGED <<now, fd, keep, closed, in_shutdown, requests, stop, term,
                 accepted,
                 masterVars>>

\* accept() returns a connection.
accept_returns ==
  /\ Runs /\ pc = "accept" /\ ~in_shutdown
  /\ pc' = "accepted"
  /\ fd' = TRUE
  /\ UNCHANGED <<now, keep, closed, in_shutdown, requests, stop, term, slotVars,
                 masterVars, requestVars>>

\* accept() is interrupted or aborted, or the client is not allowed.
accept_again ==
  /\ Runs /\ pc = "accept" /\ ~in_shutdown
  /\ pc' = "top"
  /\ UNCHANGED <<now, fd, keep, closed, in_shutdown, requests, stop, term,
                 slotVars,
                 masterVars, requestVars>>

\* Mutant: the accept time is not set.
fpm_request_reading_headers_untimed ==
  /\ Runs /\ pc = "accepted"
  /\ pc' = "poll"
  /\ stage' = "READING_HEADERS"
  /\ began' = now
  /\ UNCHANGED <<now, fd, keep, closed, in_shutdown, requests, stop, term,
                 accepted,
                 masterVars, answers, early, traces, reused>>

fpm_request_reading_headers ==
  /\ Runs /\ pc = "accepted"
  /\ pc' = "poll"
  /\ stage' = "READING_HEADERS"
  /\ accepted' = now
  /\ began' = now
  /\ UNCHANGED <<now, fd, keep, closed, in_shutdown, requests, stop, term,
                 masterVars,
                 answers, early, traces, reused>>

\* poll() finds data, or the client sent nothing for five seconds.
poll_connection ==
  /\ Runs /\ pc = "poll"
  /\ \/ pc' = "read" /\ UNCHANGED <<fd, slotVars>>
     \/ pc' = "top" /\ fcgi_close(TRUE, keep)
  /\ began' = IF pc' = "top" THEN 0 ELSE began
  /\ UNCHANGED <<now, keep, closed, in_shutdown, requests, stop, term,
                 masterVars,
                 answers, early, traces, reused>>

\* fcgi_read_request succeeds, which may take the client any time, or fails.
\* A request on a kept connection begins here.
fcgi_read_request ==
  /\ Runs /\ pc = "read"
  /\ closed' = FALSE
  /\ \/ /\ pc' = "info"
        /\ keep' \in {FALSE, KeepConn}
        /\ began' = IF began = 0 THEN now ELSE began
        /\ UNCHANGED <<fd, slotVars>>
     \/ /\ pc' = "top"
        /\ keep' = FALSE
        /\ fcgi_close(TRUE, FALSE)
        /\ began' = 0
  /\ UNCHANGED <<now, in_shutdown, requests, stop, term, masterVars, answers,
                 early, traces, reused>>

-----------------------------------------------------------------------------
(***************************************************************************)
(* The request loop of fpm_main.c.                                         *)
(***************************************************************************)
fpm_request_info ==
  /\ Runs /\ pc = "info"
  /\ pc' = "startup"
  /\ stage' = "INFO"
  /\ UNCHANGED <<now, fd, keep, closed, in_shutdown, requests, stop, term,
                 accepted,
                 masterVars, requestVars>>

\* php_request_startup fails: the request is ended and so is the worker.
startup_fails ==
  /\ Runs /\ pc = "startup"
  /\ pc' = "exit"
  /\ fcgi_finish_request(TRUE)
  /\ UNCHANGED <<now, in_shutdown, requests, stop, term, masterVars, began,
                 early, traces, reused>>

\* Writing such an answer to a client that is gone bails out of the loop:
\* only the script runs under a zend_try of its own.
bailout ==
  /\ Runs /\ pc = "startup"
  /\ pc' = "aborted"
  /\ UNCHANGED <<now, fd, keep, closed, in_shutdown, requests, stop, term,
                 slotVars,
                 masterVars, requestVars>>

\* Status, ping, no script or no access: answered without running a script.
answered_without_script ==
  /\ Runs /\ pc = "startup"
  /\ pc' = "done"
  /\ keep' \in {keep, FALSE}
  /\ UNCHANGED <<now, fd, closed, in_shutdown, requests, stop, term, slotVars,
                 masterVars, requestVars>>

fpm_request_executing ==
  /\ Runs /\ pc = "startup"
  /\ pc' = "run"
  /\ stage' = "EXECUTING"
  /\ UNCHANGED <<now, fd, keep, closed, in_shutdown, requests, stop, term,
                 accepted,
                 masterVars, requestVars>>

\* The script calls fastcgi_finish_request and goes on: FCGI_END_REQUEST is
\* written at every call, and closed is not set.
fastcgi_finish_request ==
  /\ Runs /\ pc = "run" /\ fd /\ answers < MaxFinishes
  /\ early' = TRUE
  /\ answers' = answers + 1
  /\ \E k \in {keep, FALSE} : keep' = k /\ fcgi_close(FALSE, k)
  /\ UNCHANGED <<now, pc, closed, in_shutdown, requests, stop, term, masterVars,
                 began, traces, reused>>

\* The script ends, or bails out; a write that failed has cleared keep.
script_ends ==
  /\ Runs /\ pc = "run"
  /\ pc' = "done"
  /\ keep' \in {keep, FALSE}
  /\ UNCHANGED <<now, fd, closed, in_shutdown, requests, stop, term, slotVars,
                 masterVars, requestVars>>

\* php_request_shutdown, which ends the request through sapi_cgi_deactivate.
php_request_shutdown ==
  /\ Runs /\ pc = "done"
  /\ pc' = "count"
  /\ fcgi_finish_request(FALSE)
  /\ UNCHANGED <<now, in_shutdown, requests, stop, term, masterVars, began,
                 early, traces, reused>>

\* Mutant: the limit is compared with the count before the request.
count_request_late ==
  /\ Runs /\ pc = "count"
  /\ requests' = IF max_requests = 0 /\ requests = MaxRequests THEN requests ELSE requests + 1
  /\ IF max_requests # 0 /\ requests = max_requests
       THEN pc' = "exit" /\ fcgi_finish_request(TRUE)
       ELSE pc' = "top" /\ UNCHANGED <<fd, keep, closed, slotVars, answers>>
  /\ UNCHANGED <<now, in_shutdown, stop, term, masterVars, began, early,
                 traces, reused>>

\* The request is counted; after max_requests of them the worker leaves.
count_request ==
  /\ Runs /\ pc = "count"
  /\ requests' = IF max_requests = 0 /\ requests = MaxRequests THEN requests ELSE requests + 1
  /\ IF max_requests # 0 /\ requests + 1 = max_requests
       THEN pc' = "exit" /\ fcgi_finish_request(TRUE)
       ELSE pc' = "top" /\ UNCHANGED <<fd, keep, closed, slotVars, answers>>
  /\ UNCHANGED <<now, in_shutdown, stop, term, masterVars, began, early,
                 traces, reused>>

\* Mutant: the signal is acted on wherever the worker is.
leave_anywhere ==
  /\ Runs
  /\ in_shutdown \/ pc \in {"accept", "exit"}
  /\ pc' = "exited"
  /\ UNCHANGED <<now, fd, keep, closed, in_shutdown, requests, stop, term,
                 slotVars,
                 masterVars, requestVars>>

\* in_shutdown is seen before the next request, or accept() fails because
\* sig_soft_quit has replaced the listening socket, or for another reason.
leave ==
  /\ Runs
  /\ \/ pc = "top" /\ in_shutdown
     \/ pc = "accept"
     \/ pc = "exit"
  /\ pc' = "exited"
  /\ UNCHANGED <<now, fd, keep, closed, in_shutdown, requests, stop, term,
                 slotVars,
                 masterVars, requestVars>>

\* SIGQUIT arrives: sig_soft_quit.
sig_soft_quit ==
  /\ Alive /\ stop = "no" /\ ~in_shutdown
  /\ in_shutdown' = TRUE
  /\ UNCHANGED <<now, pc, fd, keep, closed, requests, stop, term, slotVars,
                 masterVars, requestVars>>

\* The worker dies of a SIGTERM.
sigterm_kills ==
  /\ Alive /\ stop = "no" /\ term
  /\ pc' = "killed"
  /\ UNCHANGED <<now, fd, keep, closed, in_shutdown, requests, stop, term,
                 slotVars,
                 masterVars, requestVars>>

\* An attached worker stops at the first signal it takes: a pending SIGTERM
\* goes before the SIGSTOP of PTRACE_ATTACH, and is swallowed by the stop.
ptrace_stops ==
  /\ Alive /\ stop = "sent"
  /\ stop' = "stopped"
  /\ term' = FALSE
  /\ UNCHANGED <<now, pc, fd, keep, closed, in_shutdown, requests, slotVars,
                 masterVars, requestVars>>

-----------------------------------------------------------------------------
(***************************************************************************)
(* The master.                                                             *)
(***************************************************************************)

Slow(logged) ==
  /\ logged = 0
  /\ request_slowlog_timeout # 0
  /\ stage = "EXECUTING"
  /\ now - accepted >= request_slowlog_timeout

\* Mutant: a request that has been traced is not terminated.
Late_traced ==
  /\ slow_logged = 0
  /\ request_terminate_timeout # 0
  /\ now - accepted >= request_terminate_timeout

Late ==
  /\ request_terminate_timeout # 0
  /\ now - accepted >= request_terminate_timeout

\* Mutant: slow_logged is cleared by every heartbeat.
SlowLogged_cleared == 0

\* slow_logged is forgotten when the slot shows another request.
SlowLogged == IF slow_logged # accepted THEN 0 ELSE slow_logged

\* fpm_request_check_timed_out, up to the point where it acts on its copy.
fpm_request_check_timed_out ==
  /\ Alive /\ mpc = "idle"
  /\ mpc' = CASE Active /\ Slow(SlowLogged) -> "trace"
              [] Active /\ ~Slow(SlowLogged) /\ Late -> "terminate"
              [] OTHER -> "idle"
  /\ slow_logged' = IF mpc' = "trace" THEN accepted ELSE SlowLogged
  /\ tracer' = (tracer \/ mpc' = "trace")
  /\ traces' = IF mpc' = "trace" THEN traces + 1 ELSE traces
  /\ UNCHANGED <<now, workerVars, slotVars, began, answers, early, reused>>

\* fpm_trace_signal: PTRACE_ATTACH, which may fail.
fpm_trace_signal ==
  /\ mpc = "trace"
  /\ mpc' = "idle"
  /\ \/ Alive /\ stop = "no" /\ stop' = "sent"
     \/ UNCHANGED stop
  /\ UNCHANGED <<now, pc, fd, keep, closed, in_shutdown, requests, term,
                 slotVars,
                 slow_logged, tracer, requestVars>>

\* fpm_pctl_kill(FPM_PCTL_TERM).
terminate ==
  /\ mpc = "terminate"
  /\ mpc' = "idle"
  /\ term' = (term \/ Alive)
  /\ UNCHANGED <<now, pc, fd, keep, closed, in_shutdown, requests, stop,
                 slotVars,
                 slow_logged, tracer, requestVars>>

\* fpm_php_trace, called when waitpid reports the stop: the dump, then
\* PTRACE_DETACH.  If the slowlog cannot be opened only SIGCONT is sent, and
\* that does not resume a process in a ptrace stop.
fpm_php_trace ==
  /\ Alive /\ mpc = "idle"
  /\ stop = "stopped" /\ tracer
  /\ tracer' = FALSE
  /\ stop' \in IF SlowlogOpens THEN {"no"} ELSE {"no", "stopped"}
  /\ UNCHANGED <<now, pc, fd, keep, closed, in_shutdown, requests, term,
                 slotVars,
                 mpc, slow_logged, requestVars>>

tick ==
  /\ now < MaxTime
  /\ now' = now + 1
  /\ UNCHANGED <<workerVars, slotVars, masterVars, requestVars>>

\* The worker is gone; the master buries it (FpmMaster).
gone ==
  /\ ~Alive
  /\ UNCHANGED vars

WorkerNext ==
  \/ fcgi_accept_request
  \/ accept_returns
  \/ accept_again
  \/ fpm_request_reading_headers
  \/ poll_connection
  \/ fcgi_read_request
  \/ fpm_request_info
  \/ startup_fails
  \/ bailout
  \/ answered_without_script
  \/ fpm_request_executing
  \/ fastcgi_finish_request
  \/ script_ends
  \/ php_request_shutdown
  \/ count_request
  \/ leave
  \/ sig_soft_quit
  \/ sigterm_kills
  \/ ptrace_stops

MasterNext ==
  \/ fpm_request_check_timed_out
  \/ fpm_trace_signal
  \/ terminate
  \/ fpm_php_trace

Next == WorkerNext \/ MasterNext \/ tick \/ gone

Spec == Init /\ [][Next]_vars

(***************************************************************************)
(* The heartbeat fires again and again, the master answers a stop, and the *)
(* kernel delivers signals.  Nothing is assumed of clients and scripts.    *)
(***************************************************************************)
Fairness ==
  /\ SF_vars(fpm_request_check_timed_out)
  /\ WF_vars(fpm_trace_signal)
  /\ WF_vars(terminate)
  /\ SF_vars(fpm_php_trace)
  /\ WF_vars(ptrace_stops)
  /\ WF_vars(sigterm_kills)

FairSpec == Spec /\ Fairness

-----------------------------------------------------------------------------
\* Every variable has the values its declaration allows; in particular a
\* worker counts at most max_requests requests.
TypeOK ==
  /\ now \in 1 .. MaxTime
  /\ pc \in {"top", "accept", "accepted", "poll", "read", "info", "startup", "run",
             "done", "count", "exit", "exited", "aborted", "killed"}
  /\ fd \in BOOLEAN /\ keep \in BOOLEAN /\ closed \in BOOLEAN
  /\ in_shutdown \in BOOLEAN
  /\ requests \in 0 .. (IF max_requests = 0 THEN MaxRequests ELSE max_requests)
  /\ stop \in {"no", "sent", "stopped"}
  /\ term \in BOOLEAN
  /\ stage \in {"NONE", "ACCEPTING", "READING_HEADERS", "INFO", "EXECUTING", "FINISHED"}
  /\ accepted \in 0 .. MaxTime
  /\ mpc \in {"idle", "trace", "terminate"}
  /\ slow_logged \in 0 .. MaxTime
  /\ tracer \in BOOLEAN
  /\ began \in 0 .. MaxTime
  /\ answers \in 0 .. MaxFinishes + 1
  /\ early \in BOOLEAN
  /\ traces \in Nat
  /\ reused \in BOOLEAN

\* The heartbeat decides on a SIGTERM only for a request that has really run
\* for request_terminate_timeout, if it is the first on its connection.  The
\* later ones on a kept connection are left out: the slot still has the time
\* of the accept, so they may be terminated before their time.
TimeoutJustified ==
  [][mpc # "terminate" /\ mpc' = "terminate" /\ ~reused
       => began # 0 /\ now - began >= request_terminate_timeout]_vars

\* A request is traced at most once, however many heartbeats find it slow.
TracedOnce == traces <= 1

\* A soft quit drains the worker: when it leaves the request loop, it has
\* written FCGI_END_REQUEST for the request it has read.  Startup failures, the
\* end of the script and pm.max_requests end a request once; only a script that
\* calls fastcgi_finish_request on a connection to be kept ends it again.
DrainedBeforeExit ==
  /\ pc = "exited" /\ began # 0 => answers >= 1
  /\ answers > 1 => early /\ KeepConn

\* The heartbeat and the idle maintenance see the truth: a slot that shows
\* ACCEPTING or FINISHED belongs to a worker that holds no connection it
\* has begun to read.
SlotTellsTruth ==
  Alive /\ stage \in {"ACCEPTING", "FINISHED"} /\ fd => pc = "accepted"

\* A request that has run for request_terminate_timeout.
Overdue ==
  /\ request_terminate_timeout # 0 /\ began # 0
  /\ pc \in {"read", "run"}
  /\ now - began >= request_terminate_timeout

\* The master has lost sight of the worker: its slot shows FINISHED, or it was
\* left in its ptrace stop.
Unwatched == early \/ (stop = "stopped" /\ ~tracer)

\* An overdue request does not wait on its script or its client for ever: it
\* gets on or its worker is killed, also if it is traced first and the stop
\* swallows a signal, unless the master has lost sight of the worker.
WatchedTimeoutKills == (Overdue /\ ~Unwatched) ~> (~Overdue \/ Unwatched)

\* php-fpm.conf: request_terminate_timeout is "the timeout for serving a single
\* request after which the worker process will be killed".
TimeoutKills == Overdue ~> ~Overdue

=============================================================================
