------------------------------ MODULE FpmLifecycle ------------------------------
(***************************************************************************)
(* What php-fpm promises to whoever runs it, without signals, timers or    *)
(* counters: a master with pools of workers that obeys its orders.         *)
(* FpmMaster implements this specification.                                *)
(*                                                                         *)
(* A worker is hired (forked), dies, and is dismissed (buried); between    *)
(* the last two it still counts as a worker of its pool.  An order to      *)
(* reload, finish or terminate ends the master with its last worker.       *)
(***************************************************************************)
EXTENDS Naturals, FiniteSets

CONSTANTS
  Pool,
  Child,
  Limit      \* the most workers each pool may have

VARIABLES
  order,     \* the order the master follows
  workers,   \* the workers of each pool that have not been dismissed
  alive,     \* the processes that run
  over       \* "no", or how the master has ended

vars == <<order, workers, alive, over>>

Staff == UNION {workers[p] : p \in Pool}

Init ==
  /\ order = "NORMAL"
  /\ workers = [p \in Pool |-> {}]
  /\ alive = {}
  /\ over = "no"

\* A reload ends in a new master, or in none if that cannot be executed.
Ways(s) == IF s = "RELOADING" THEN {"execed", "exited"} ELSE {"exited"}

\* A master with another order than NORMAL and without workers is over; no
\* other is.
Settle ==
  over' \in IF order' # "NORMAL" /\ (\A p \in Pool : workers'[p] = {})
              THEN Ways(order') ELSE {"no"}

\* Only a master without orders to stop takes on workers, within the limit.
Hire(p, c) ==
  /\ over = "no"
  /\ order = "NORMAL"
  /\ c \notin Staff \cup alive
  /\ Cardinality(workers[p]) < Limit[p]
  /\ workers' = [workers EXCEPT ![p] = @ \cup {c}]
  /\ alive' = alive \cup {c}
  /\ UNCHANGED <<order, over>>

\* Workers end or are killed, several by one signal.
Die(S) ==
  /\ over = "no"
  /\ alive' = alive \ S
  /\ UNCHANGED <<order, workers, over>>

Dismiss(p, c) ==
  /\ over = "no"
  /\ c \in workers[p] \ alive
  /\ workers' = [workers EXCEPT ![p] = @ \ {c}]
  /\ UNCHANGED <<order, alive>>
  /\ Settle

\* Orders come from weaker to stronger.
Rank(s) == CASE s = "NORMAL" -> 0 [] s = "RELOADING" -> 1
             [] s = "FINISHING" -> 2 [] s = "TERMINATING" -> 3

\* A stronger order replaces the present one.  No order but TERMINATING
\* kills workers at once.
Command(s, S) ==
  /\ over = "no"
  /\ Rank(s) > Rank(order)
  /\ order' = s
  /\ S # {} => s = "TERMINATING"
  /\ alive' = alive \ S
  /\ UNCHANGED workers
  /\ Settle

Next ==
  \/ \E p \in Pool, c \in Child : Hire(p, c) \/ Dismiss(p, c)
  \/ \E S \in SUBSET alive : Die(S)
  \/ \E s \in {"RELOADING", "FINISHING", "TERMINATING"}, S \in SUBSET alive : Command(s, S)

Spec == Init /\ [][Next]_vars

=============================================================================
