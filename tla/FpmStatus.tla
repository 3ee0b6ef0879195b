------------------------------ MODULE FpmStatus ------------------------------
(***************************************************************************)
(* The shared status record of a dynamic pool (fpm_status.c).  Every       *)
(* worker counts its accepted connections in it, the master stores the     *)
(* activity it has counted and the times the pool was found full, and a    *)
(* worker that is asked for the status page shows it.                      *)
(*                                                                         *)
(* An update copies the whole record to the stack, changes its fields and  *)
(* copies the whole record back.  The comments call a copy a "one shot     *)
(* operation"; it is a struct assignment, done here word by word, and      *)
(* nothing locks the record.                                               *)
(***************************************************************************)
EXTENDS Integers, Sequences, FiniteSets

CONSTANTS
  Workers,               \* as many as pm.max_children
  Master,
  pm_start_servers,
  pm_min_spare_servers,
  Words,                 \* the fields in each word, by address
  PageReaders,           \* bound: workers asked for the status page
  MaxRequests,           \* bound: connections accepted
  MaxDeaths              \* bound: workers that die

Fields == {"idle", "active", "total", "accepted_conn", "max_children_reached"}

ASSUME StatusAssumption ==
  /\ IsFiniteSet(Workers)
  /\ Master \notin Workers
  /\ pm_start_servers \in 1 .. Cardinality(Workers)
  /\ pm_min_spare_servers \in 1 .. pm_start_servers
  /\ Words \in Seq(SUBSET Fields)
  /\ \A f \in Fields : \E i \in DOMAIN Words : f \in Words[i]
  /\ PageReaders \subseteq Workers
  /\ MaxRequests \in Nat
  /\ MaxDeaths \in Nat

Processes == Workers \cup {Master}

VARIABLES
  shm,               \* the status record in shared memory
  op,                \* the function of fpm_status.c a process is in
  status,            \* its copy of the record, on the stack
  copied,            \* words it has copied: first from shm, then to it
  alive,             \* workers of the pool
  stage,             \* what a worker's slot shows: idle or busy
  maintenance,       \* where the master is in the idle maintenance
  counted,           \* idle and active workers it has counted there
  warn_max_children, \* it has reported that the pool is full
  \* history
  served,            \* connections counted
  reached,           \* times the pool was reported full
  deaths,            \* workers that died
  raced              \* an update has met another operation, or was cut off

shmVars == <<shm, op, status, copied, raced>>
poolVars == <<alive, stage, deaths>>
masterVars == <<maintenance, counted, warn_max_children>>
truthVars == <<served, reached>>
vars == <<shmVars, poolVars, masterVars, truthVars>>

Zero == [f \in Fields |-> 0]

NothingCounted == [idle |-> 0, active |-> 0]

N == Len(Words)

\* fpm_conf.c: no activity is known yet.
InitialStatus == [f \in Fields |->
  IF f \in {"idle", "active", "total"} THEN -1 ELSE 0]

Init ==
  /\ shm = InitialStatus
  /\ op = [p \in Processes |-> "none"]
  /\ status = [p \in Processes |-> Zero]
  /\ copied = [p \in Processes |-> 0]
  /\ alive \in {ws \in SUBSET Workers : Cardinality(ws) = pm_start_servers}
  /\ stage = [w \in Workers |-> "idle"]
  /\ maintenance = "waiting"
  /\ counted = NothingCounted
  /\ warn_max_children = FALSE
  /\ served = 0
  /\ reached = 0
  /\ deaths = 0
  /\ raced = FALSE

-----------------------------------------------------------------------------
(* The functions of fpm_status.c, one word at a time.                      *)

Updates == {"increment_accepted_conn", "increment_max_children_reached",
            "update_activity"}

\* Two operations meet if one of them is an update.
Meets(p, f) == \E q \in Processes \ {p} :
  op[q] # "none" /\ (f \in Updates \/ op[q] \in Updates)

Call(p, f) ==
  /\ op[p] = "none"
  /\ op' = [op EXCEPT ![p] = f]
  /\ status' = [status EXCEPT ![p] = Zero]
  /\ copied' = [copied EXCEPT ![p] = 0]
  /\ raced' = (raced \/ Meets(p, f))
  /\ UNCHANGED shm

CopyWord(from, to, i) == [f \in Fields |->
  IF f \in Words[i] THEN from[f] ELSE to[f]]

\* Mutant: the wrong sign in the total.
Changed_difference(s, f) ==
  CASE f = "increment_accepted_conn" ->
         [s EXCEPT !.accepted_conn = @ + 1]
    [] f = "increment_max_children_reached" ->
         [s EXCEPT !.max_children_reached = @ + 1]
    [] f = "update_activity" ->
         [s EXCEPT !.idle = counted.idle, !.active = counted.active,
                   !.total = counted.active - counted.idle]
    [] OTHER -> s

\* Mutant: a full pool is counted in both counters.
Changed_both(s, f) ==
  CASE f = "increment_accepted_conn" ->
         [s EXCEPT !.accepted_conn = @ + 1]
    [] f = "increment_max_children_reached" ->
         [s EXCEPT !.max_children_reached = @ + 1,
                   !.accepted_conn = @ + 1]
    [] f = "update_activity" ->
         [s EXCEPT !.idle = counted.idle, !.active = counted.active,
                   !.total = counted.idle + counted.active]
    [] OTHER -> s

Changed(s, f) ==
  CASE f = "increment_accepted_conn" ->
         [s EXCEPT !.accepted_conn = @ + 1]
    [] f = "increment_max_children_reached" ->
         [s EXCEPT !.max_children_reached = @ + 1]
    [] f = "update_activity" ->
         [s EXCEPT !.idle = counted.idle, !.active = counted.active,
                   !.total = counted.idle + counted.active]
    [] OTHER -> s

One(b) == IF b THEN 1 ELSE 0

\* status = *(struct fpm_status_s *)shm->mem; with the last word the fields
\* are changed in the copy, which no one else sees.
copy_in(p) ==
  LET i == copied[p] + 1
      s == CopyWord(shm, status[p], i)
      last == i = N
  IN /\ op[p] # "none"
     /\ copied[p] < N
     /\ copied' = [copied EXCEPT ![p] = i]
     /\ status' = [status EXCEPT ![p] = IF last THEN Changed(s, op[p]) ELSE s]
     /\ served' = served + One(last /\ op[p] = "increment_accepted_conn")
     /\ reached' = reached
                     + One(last /\ op[p] = "increment_max_children_reached")
     /\ UNCHANGED <<shm, op, raced, poolVars, masterVars>>

\* Mutant: the size of the copy is a word too short.
copy_out_short(p) ==
  LET i == copied[p] - N + 1
  IN /\ op[p] \in Updates
     /\ copied[p] >= N
     /\ shm' = IF i = N THEN shm ELSE CopyWord(status[p], shm, i)
     /\ IF i = N
        THEN /\ op' = [op EXCEPT ![p] = "none"]
             /\ copied' = [copied EXCEPT ![p] = 0]
             /\ status' = [status EXCEPT ![p] = Zero]
        ELSE /\ copied' = [copied EXCEPT ![p] = @ + 1]
             /\ UNCHANGED <<op, status>>
     /\ UNCHANGED <<raced, poolVars, masterVars, truthVars>>

\* *(struct fpm_status_s *)shm->mem = status
copy_out(p) ==
  LET i == copied[p] - N + 1
  IN /\ op[p] \in Updates
     /\ copied[p] >= N
     /\ shm' = CopyWord(status[p], shm, i)
     /\ IF i = N
        THEN /\ op' = [op EXCEPT ![p] = "none"]
             /\ copied' = [copied EXCEPT ![p] = 0]
             /\ status' = [status EXCEPT ![p] = Zero]
        ELSE /\ copied' = [copied EXCEPT ![p] = @ + 1]
             /\ UNCHANGED <<op, status>>
     /\ UNCHANGED <<raced, poolVars, masterVars, truthVars>>

\* The end of fpm_status_handle_status, and of the request: the page is
\* sent, or error 500 while no activity is known.
show_page(w) ==
  /\ op[w] = "handle_status"
  /\ copied[w] = N
  /\ op' = [op EXCEPT ![w] = "none"]
  /\ copied' = [copied EXCEPT ![w] = 0]
  /\ status' = [status EXCEPT ![w] = Zero]
  /\ stage' = [stage EXCEPT ![w] = "idle"]
  /\ UNCHANGED <<shm, raced, alive, deaths, masterVars, truthVars>>

Known(s) == s.idle >= 0 /\ s.active >= 0 /\ s.total >= 0

-----------------------------------------------------------------------------
(* Workers.                                                                *)

\* The slot shows the request before the connection is counted.
fpm_request_reading_headers(w) ==
  /\ w \in alive
  /\ stage[w] = "idle"
  /\ served + Cardinality({v \in Workers : op[v] = "increment_accepted_conn"})
       < MaxRequests
  /\ Call(w, "increment_accepted_conn")
  /\ stage' = [stage EXCEPT ![w] = "busy"]
  /\ UNCHANGED <<alive, deaths, masterVars, truthVars>>

fpm_status_handle_status(w) ==
  /\ w \in alive \cap PageReaders
  /\ stage[w] = "busy"
  /\ Call(w, "handle_status")
  /\ UNCHANGED <<poolVars, masterVars, truthVars>>

fpm_request_accepting(w) ==
  /\ w \in alive
  /\ stage[w] = "busy"
  /\ op[w] = "none"
  /\ stage' = [stage EXCEPT ![w] = "idle"]
  /\ UNCHANGED <<shmVars, alive, deaths, masterVars, truthVars>>

\* A worker is killed wherever it is; fpm_children_bury starts another in
\* its place, unless it was an idle one the master retired.
worker_dies(w) ==
  /\ w \in alive
  /\ deaths < MaxDeaths
  /\ deaths' = deaths + 1
  /\ raced' = (raced \/ op[w] \in Updates)
  /\ op' = [op EXCEPT ![w] = "none"]
  /\ copied' = [copied EXCEPT ![w] = 0]
  /\ status' = [status EXCEPT ![w] = Zero]
  /\ stage' = [stage EXCEPT ![w] = "idle"]
  /\ \/ alive' = alive
     \/ stage[w] = "idle" /\ alive' = alive \ {w}
  /\ UNCHANGED <<shm, masterVars, truthVars>>

-----------------------------------------------------------------------------
(* The master: fpm_pctl_perform_idle_server_maintenance, every second.     *)

Idle == {w \in alive : stage[w] = "idle"}

\* Mutant: the activity is stored only if the total has changed.
fpm_status_update_activity_changed ==
  /\ maintenance = "waiting"
  /\ counted' = [idle |-> Cardinality(Idle),
                 active |-> Cardinality(alive \ Idle)]
  /\ IF shm.total = Cardinality(alive) THEN UNCHANGED shmVars
     ELSE Call(Master, "update_activity")
  /\ maintenance' = "counted"
  /\ UNCHANGED <<poolVars, warn_max_children, truthVars>>

\* The children are counted and the counts stored in the record.
fpm_status_update_activity ==
  /\ maintenance = "waiting"
  /\ counted' = [idle |-> Cardinality(Idle),
                 active |-> Cardinality(alive \ Idle)]
  /\ Call(Master, "update_activity")
  /\ maintenance' = "counted"
  /\ UNCHANGED <<poolVars, warn_max_children, truthVars>>

Decides ==
  /\ maintenance = "counted" /\ op[Master] = "none"
  /\ maintenance' = "waiting"
  /\ counted' = NothingCounted

TooFewIdle == counted.idle < pm_min_spare_servers
Full == alive = Workers

enough_idle ==
  /\ Decides
  /\ ~TooFewIdle
  /\ UNCHANGED <<shmVars, poolVars, warn_max_children, truthVars>>

report_max_children ==
  /\ Decides
  /\ TooFewIdle /\ Full
  /\ IF warn_max_children
     THEN UNCHANGED shmVars
     ELSE Call(Master, "increment_max_children_reached")
  /\ warn_max_children' = TRUE
  /\ UNCHANGED <<poolVars, truthVars>>

\* How many are spawned depends on the spawn rate (FpmMaster).
spawn_children ==
  /\ Decides
  /\ TooFewIdle /\ ~Full
  /\ \E new \in SUBSET (Workers \ alive) :
       /\ Cardinality(new) \in 1 .. (pm_min_spare_servers - counted.idle)
       /\ alive' = alive \cup new
  /\ warn_max_children' = FALSE
  /\ UNCHANGED <<shmVars, stage, deaths, truthVars>>

-----------------------------------------------------------------------------
Copies(p) == copy_in(p) \/ copy_out(p) \/ (p \in Workers /\ show_page(p))

MasterSteps ==
  \/ fpm_status_update_activity
  \/ enough_idle \/ report_max_children \/ spawn_children

Next ==
  \/ \E p \in Processes : Copies(p)
  \/ \E w \in Workers :
       \/ fpm_request_reading_headers(w)
       \/ fpm_status_handle_status(w)
       \/ fpm_request_accepting(w)
       \/ worker_dies(w)
  \/ MasterSteps

Spec == Init /\ [][Next]_vars

\* Every process gets to run; nothing makes a script end.
FairSpec ==
  /\ Spec
  /\ \A p \in Processes : WF_vars(Copies(p))
  /\ WF_vars(MasterSteps)

-----------------------------------------------------------------------------
Counts == [Fields -> Nat \cup {-1}]

\* The record and the copies hold numbers that have a meaning: a count or,
\* for an activity that is not known yet, -1.
TypeOK ==
  /\ shm \in Counts
  /\ op \in [Processes -> Updates \cup {"none", "handle_status"}]
  /\ status \in [Processes -> Counts]
  /\ copied \in [Processes -> 0 .. (2 * N - 1)]
  /\ alive \subseteq Workers
  /\ stage \in [Workers -> {"idle", "busy"}]
  /\ maintenance \in {"waiting", "counted"}
  /\ counted \in [idle : Nat, active : Nat]
  /\ warn_max_children \in BOOLEAN
  /\ served \in Nat /\ reached \in Nat /\ deaths \in Nat
  /\ raced \in BOOLEAN

\* Updates that meet may lose each other's change, and one that writes back
\* an old copy may undo many; but no interleaving and no death in the middle
\* of a copy makes the record show more connections, or more times the pool
\* was full, than there were.
NeverOvercounts ==
  /\ shm.accepted_conn <= served
  /\ shm.max_children_reached <= reached

Running == {p \in Processes : op[p] # "none"}

AddsUp(s) == Known(s) => s.idle + s.active = s.total

\* As long as no update has met another operation, the record between two
\* operations is exact, and the page a worker is about to show adds up.
ExactAlone == ~raced =>
  /\ Running = {} =>
       /\ shm.accepted_conn = served
       /\ shm.max_children_reached = reached
       /\ AddsUp(shm)
       /\ maintenance = "counted" =>
            shm.idle = counted.idle /\ shm.active = counted.active
  /\ \A w \in Workers :
       op[w] = "handle_status" /\ copied[w] = N => AddsUp(status[w])

\* Whatever updates brought back an old activity or tore it, and even if the
\* page was refused again: once no more requests come, the next maintenance
\* heals the record, and it shows the workers as they are.
ActivityHeals == <>[](
  /\ shm.idle = Cardinality(Idle)
  /\ shm.active = Cardinality(alive \ Idle)
  /\ shm.total = Cardinality(alive))

=============================================================================
