------------------------------ MODULE FpmShmSlots ------------------------------
(***************************************************************************)
(* The shared-memory slots of one FPM worker pool: sapi/fpm/fpm/           *)
(* fpm_shm_slots.c, the swap-with-last arrays of fpm_arrays.h, the         *)
(* spinlock of fpm_atomic.h and the way fpm_children.c drives them.        *)
(*                                                                         *)
(* The master owns two arrays of slot pointers, slots_used and slots_free. *)
(* A child struct remembers the INDEX of its slot in slots_used, and that  *)
(* index is rewritten when another child's removal moves the last element  *)
(* into the hole.  The forked process remembers the slot ADDRESS, taken    *)
(* once through the index at fork time.  Everything the master learns of a *)
(* worker (idle, busy, timed out) is read through the index; everything    *)
(* the worker reports is written through the address.                      *)
(*                                                                         *)
(* Arrays are sequences, so index n of the code is n + 1 here.             *)
(***************************************************************************)
EXTENDS Integers, Sequences, FiniteSets

CONSTANTS
  Child,        \* struct fpm_child_s objects (and the processes they stand for)
  Slot,         \* chunks fpm_shm_alloc_chunk can hand out
  NoChild,      \* the null fpm_child_s pointer
  NoSlot,       \* the null fpm_shm_slot_s pointer
  Master,       \* the master process, as the holder of a lock
  MaxFailures   \* bound: failed allocations a behaviour may contain

ASSUME NullAssumption ==
  /\ NoChild \notin Child
  /\ NoSlot \notin Slot
  /\ Master \notin Child \cup {NoChild}
  /\ MaxFailures \in Nat

VARIABLES
  slots_used,   \* wp->slots_used: sequence of [shm_slot, child]
  slots_free,   \* wp->slots_free: sequence of slots
  chunks,       \* the slots allocated from wp->shm_list so far
  shm_slot_i,   \* child->shm_slot_i, for children with a prepared slot
  preparing,    \* the child between fpm_resources_prepare and fork
  procs,        \* forked processes still running
  zombies,      \* dead processes the master has not buried yet
  shm_slot,     \* the static shm_slot of each process
  lock,         \* slot->lock
  report,       \* the worker whose request data the slot holds; NoChild if zero
  holder,       \* history: the process that set slot->lock last, or NoChild
  checking,     \* child whose slot fpm_request_check_timed_out has locked
  lost,         \* history: the slots dropped when slots_free could not grow
  undefined     \* the master has dereferenced an uninitialised child pointer

vars == <<slots_used, slots_free, chunks, shm_slot_i, preparing, procs,
          zombies, shm_slot, lock, report, holder, checking, lost, undefined>>

masterVars == <<slots_used, slots_free, chunks, shm_slot_i, preparing, lost,
                undefined>>

\* Children that own an element of slots_used.
Owners == procs \cup zombies \cup ({preparing} \ {NoChild})

\* fpm_shm_slot(): the slot the master reads for a child.
fpm_shm_slot(c) == slots_used[shm_slot_i[c]].shm_slot

\* What a failed allocation leaves at the end of slots_used.
Orphan == [shm_slot |-> NoSlot, child |-> NoChild]

\* The allocations that have failed so far.
Failures ==
  Cardinality({i \in DOMAIN slots_used : slots_used[i] = Orphan}) + Cardinality(lost)

\* The master runs one handler at a time.
MasterIdle == preparing = NoChild /\ checking = NoChild /\ ~undefined

Init ==
  /\ slots_used = <<>>
  /\ slots_free = <<>>
  /\ chunks = {}
  /\ shm_slot_i = [c \in Child |-> 0]
  /\ preparing = NoChild
  /\ procs = {}
  /\ zombies = {}
  /\ shm_slot = [c \in Child |-> NoSlot]
  /\ lock = [s \in Slot |-> 0]
  /\ report = [s \in Slot |-> NoChild]
  /\ holder = [s \in Slot |-> NoChild]
  /\ checking = NoChild
  /\ lost = {}
  /\ undefined = FALSE

-----------------------------------------------------------------------------
(***************************************************************************)
(* The master.                                                             *)
(***************************************************************************)

\* fpm_array_item_remove: the last element fills the hole.
fpm_array_item_remove(a, n) ==
  [i \in 1 .. Len(a) - 1 |-> IF i = n THEN a[Len(a)] ELSE a[i]]

\* Mutant: the slot is reused without the memset.
UseSlot_dirty(c, s) ==
  /\ shm_slot_i' = [shm_slot_i EXCEPT ![c] = Len(slots_used) + 1]
  /\ slots_used' = Append(slots_used, [shm_slot |-> s, child |-> c])
  /\ preparing' = c
  /\ UNCHANGED <<lock, report, holder>>

\* Struct c takes slot s: it is the last element of slots_used, its slot is
\* zeroed, lock included.
UseSlot(c, s) ==
  /\ shm_slot_i' = [shm_slot_i EXCEPT ![c] = Len(slots_used) + 1]
  /\ slots_used' = Append(slots_used, [shm_slot |-> s, child |-> c])
  /\ lock' = [lock EXCEPT ![s] = 0]
  /\ report' = [report EXCEPT ![s] = NoChild]
  /\ holder' = [holder EXCEPT ![s] = NoChild]
  /\ preparing' = c

\* Mutant: slots_free is not shortened when its last slot is reused.
fpm_shm_slots_prepare_slot_kept(c) ==
  /\ MasterIdle
  /\ c \notin Owners
  /\ \/ /\ slots_free = <<>>
        /\ \E s \in Slot \ chunks : UseSlot(c, s) /\ chunks' = chunks \cup {s}
     \/ /\ slots_free # <<>>
        /\ UseSlot(c, slots_free[Len(slots_free)])
        /\ UNCHANGED chunks
  /\ UNCHANGED <<slots_free, procs, zombies, shm_slot, checking, lost, undefined>>

\* fpm_shm_slots_prepare_slot for a freshly allocated struct c: reuse the
\* last free slot, else allocate a chunk.  When slots_used cannot grow the
\* function returns before it has changed anything.
fpm_shm_slots_prepare_slot(c) ==
  /\ MasterIdle
  /\ c \notin Owners
  /\ \/ /\ slots_free = <<>>
        /\ \E s \in Slot \ chunks : UseSlot(c, s) /\ chunks' = chunks \cup {s}
        /\ UNCHANGED slots_free
     \/ /\ slots_free # <<>>
        /\ UseSlot(c, slots_free[Len(slots_free)])
        /\ slots_free' = SubSeq(slots_free, 1, Len(slots_free) - 1)
        /\ UNCHANGED chunks
  /\ UNCHANGED <<procs, zombies, shm_slot, checking, lost, undefined>>

\* Mutant: the failed element is handed to the free list.
alloc_chunk_fails_freed ==
  /\ MasterIdle
  /\ slots_free = <<>>
  /\ slots_free' = Append(slots_free, NoSlot)
  /\ UNCHANGED <<slots_used, chunks, shm_slot_i, preparing, procs, zombies,
                 shm_slot, lock, report, holder, checking, lost, undefined>>

\* fpm_shm_alloc_chunk fails: the element already pushed stays in slots_used
\* and the struct is freed (fpm_resources_prepare returns 0).
alloc_chunk_fails ==
  /\ MasterIdle
  /\ slots_free = <<>>
  /\ Failures < MaxFailures
  /\ slots_used' = Append(slots_used, Orphan)
  /\ UNCHANGED <<slots_free, chunks, shm_slot_i, preparing, procs, zombies,
                 shm_slot, lock, report, holder, checking, lost, undefined>>

\* fork() succeeds: the child takes its slot's address through the index
\* (fpm_shm_slots_child_use_slot); the parent links the child.
fork_child ==
  /\ preparing # NoChild
  /\ procs' = procs \cup {preparing}
  /\ shm_slot' = [shm_slot EXCEPT ![preparing] = fpm_shm_slot(preparing)]
  /\ preparing' = NoChild
  /\ UNCHANGED <<slots_used, slots_free, chunks, shm_slot_i, zombies, lock,
                 report, holder, checking, lost, undefined>>

\* Mutant: the index of the child that moved is not rewritten.
fpm_shm_slots_discard_slot_stale(c) ==
  /\ slots_free' = Append(slots_free, fpm_shm_slot(c))
  /\ slots_used' = fpm_array_item_remove(slots_used, shm_slot_i[c])
  /\ UNCHANGED <<shm_slot_i, lost, undefined, chunks>>

\* The slot goes to slots_free; when that array is full and cannot grow the
\* code goes on without it, and the slot is nowhere any more.
FreeSlot(s) ==
  \/ /\ slots_free' = Append(slots_free, s)
     /\ UNCHANGED lost
  \/ /\ Failures < MaxFailures
     /\ lost' = lost \cup {s}
     /\ UNCHANGED slots_free

\* fpm_shm_slots_discard_slot: the slot is given up, the last element of
\* slots_used takes its place and the moved child's index is rewritten.
\* The child pointer of an orphan is indeterminate: writing through it has
\* no defined outcome, and the model follows the master no further.
fpm_shm_slots_discard_slot(c) ==
  LET n    == shm_slot_i[c]
      last == slots_used[Len(slots_used)].child
      moved == n < Len(slots_used)
  IN  /\ FreeSlot(fpm_shm_slot(c))
      /\ slots_used' = fpm_array_item_remove(slots_used, n)
      /\ shm_slot_i' = IF moved /\ last # NoChild
                         THEN [shm_slot_i EXCEPT ![last] = n]
                         ELSE shm_slot_i
      /\ undefined' = (undefined \/ (moved /\ last = NoChild))
      /\ UNCHANGED chunks

\* fork() fails: fpm_resources_discard gives the slot back.
fork_fails ==
  /\ preparing # NoChild
  /\ fpm_shm_slots_discard_slot(preparing)
  /\ preparing' = NoChild
  /\ UNCHANGED <<procs, zombies, shm_slot, lock, report, holder, checking>>

\* fpm_children_bury reaps a dead child: its struct is freed.
bury(c) ==
  /\ MasterIdle
  /\ c \in zombies
  /\ fpm_shm_slots_discard_slot(c)
  /\ zombies' = zombies \ {c}
  /\ shm_slot' = [shm_slot EXCEPT ![c] = NoSlot]
  /\ UNCHANGED <<preparing, procs, lock, report, holder, checking>>

\* fpm_request_check_timed_out: fpm_shm_slots_acquire(slot, 1), one try.
check_acquire(c) ==
  LET s == fpm_shm_slot(c)
  IN  /\ MasterIdle
      /\ c \in procs \cup zombies
      /\ lock[s] = 0
      /\ lock' = [lock EXCEPT ![s] = 1]
      /\ holder' = [holder EXCEPT ![s] = Master]
      /\ checking' = c
      /\ UNCHANGED <<masterVars, procs, zombies, shm_slot, report>>

\* The copy of the slot is taken and the lock given back.
check_release ==
  LET s == fpm_shm_slot(checking)
  IN  /\ checking # NoChild
      /\ lock' = [lock EXCEPT ![s] = 0]
      /\ holder' = [holder EXCEPT ![s] = NoChild]
      /\ checking' = NoChild
      /\ UNCHANGED <<masterVars, procs, zombies, shm_slot, report>>

-----------------------------------------------------------------------------
(***************************************************************************)
(* The workers.                                                            *)
(***************************************************************************)

\* fpm_shm_slots_acquire(0, 0): the compare-and-set that ends the spin.
fpm_shm_slots_acquire(c) ==
  LET s == shm_slot[c]
  IN  /\ c \in procs
      /\ lock[s] = 0
      /\ lock' = [lock EXCEPT ![s] = 1]
      /\ holder' = [holder EXCEPT ![s] = c]
      /\ UNCHANGED <<masterVars, procs, zombies, shm_slot, report, checking>>

\* The fpm_request_* functions write request data and release the lock.
fpm_shm_slots_release(c) ==
  LET s == shm_slot[c]
  IN  /\ c \in procs
      /\ holder[s] = c
      /\ report' = [report EXCEPT ![s] = c]
      /\ lock' = [lock EXCEPT ![s] = 0]
      /\ holder' = [holder EXCEPT ![s] = NoChild]
      /\ UNCHANGED <<masterVars, procs, zombies, shm_slot, checking>>

\* A worker exits, crashes or is killed, at any point: a lock it holds
\* stays set in shared memory.
die(c) ==
  /\ c \in procs
  /\ procs' = procs \ {c}
  /\ zombies' = zombies \cup {c}
  /\ UNCHANGED <<masterVars, shm_slot, lock, report, holder, checking>>

\* The write through an indeterminate pointer has stopped the master; the
\* workers run on.
master_lost ==
  /\ undefined
  /\ UNCHANGED vars

Next ==
  \/ \E c \in Child : fpm_shm_slots_prepare_slot(c)
  \/ alloc_chunk_fails
  \/ fork_child
  \/ fork_fails
  \/ \E c \in Child : bury(c)
  \/ \E c \in Child : check_acquire(c)
  \/ check_release
  \/ \E c \in Child : fpm_shm_slots_acquire(c)
  \/ \E c \in Child : fpm_shm_slots_release(c)
  \/ \E c \in Child : die(c)
  \/ master_lost

\* The processes keep running while they live; nothing makes a worker die.
\* A spinning worker wins eventually: the master tries the lock from a
\* periodic timer only and keeps it for one copy of the slot.
Fairness ==
  /\ WF_vars(fork_child \/ fork_fails)
  /\ WF_vars(check_release)
  /\ \A c \in Child : /\ SF_vars(fpm_shm_slots_acquire(c))
                      /\ WF_vars(fpm_shm_slots_release(c))

Spec == Init /\ [][Next]_vars

FairSpec == Spec /\ Fairness

-----------------------------------------------------------------------------
(***************************************************************************)
(* Properties.                                                             *)
(***************************************************************************)

\* Every variable keeps the type its C declaration gives it.
TypeOK ==
  /\ slots_used \in Seq([shm_slot : Slot \cup {NoSlot}, child : Child \cup {NoChild}])
  /\ slots_free \in Seq(Slot)
  /\ chunks \subseteq Slot
  /\ shm_slot_i \in [Child -> Nat]
  /\ preparing \in Child \cup {NoChild}
  /\ procs \subseteq Child
  /\ zombies \subseteq Child
  /\ shm_slot \in [Child -> Slot \cup {NoSlot}]
  /\ lock \in [Slot -> {0, 1}]
  /\ report \in [Slot -> Child \cup {NoChild}]
  /\ holder \in [Slot -> Child \cup {NoChild, Master}]
  /\ checking \in Child \cup {NoChild}
  /\ lost \subseteq Slot
  /\ undefined \in BOOLEAN

\* The index kept in a child struct finds that child's own element, whatever
\* removals have moved it: fpm_shm_slot(child) in the master and shm_slot in
\* the process are the same memory, so the master times out, counts and
\* kills the worker it means.
IndexAgreesWithAddress ==
  \A c \in Owners :
    /\ shm_slot_i[c] \in DOMAIN slots_used
    /\ slots_used[shm_slot_i[c]].child = c
    /\ c \in procs \cup zombies => shm_slot[c] = fpm_shm_slot(c)

\* No slot is handed out twice, and none is lost but by an allocation that
\* fails: every chunk allocated from the pool's shared memory is in exactly
\* one place of the two arrays, unless slots_free could not take it back, and
\* then it is in none, so that no later child gets it while a moved element
\* still stands for it.  And the child that fpm_array_item_remove has to
\* re-index is a live struct, unless an allocation that failed left an
\* element without one.
SlotsConserved ==
  /\ \A s \in chunks :
       Cardinality({i \in DOMAIN slots_used : slots_used[i].shm_slot = s})
         + Cardinality({i \in DOMAIN slots_free : slots_free[i] = s})
         = IF s \in lost THEN 0 ELSE 1
  /\ undefined => \E i \in DOMAIN slots_used : slots_used[i] = Orphan

\* Two running workers never report through the same slot.
NoSharedSlot ==
  \A c, d \in procs : c # d => shm_slot[c] # shm_slot[d]

\* A slot handed out again carries nothing of its former owner.  A running
\* worker waits for its lock only while the master checks that very worker,
\* never for one that a killed owner of the slot left behind; and what the
\* master reads of a worker (idle, busy since when) is what that worker wrote
\* or the zeroes of a fresh slot.
NothingInherited ==
  /\ \A c \in procs :
       lock[shm_slot[c]] = 1 =>
         \/ holder[shm_slot[c]] = c
         \/ holder[shm_slot[c]] = Master /\ checking = c
  /\ \A c \in procs \cup zombies : report[fpm_shm_slot(c)] \in {NoChild, c}

\* A forked worker that keeps running gets its lock, whatever the master's
\* timeout checks and earlier owners of the slot did.
WorkerGetsLock ==
  \A c \in Child : c \in procs ~> (c \notin procs \/ holder[shm_slot[c]] = c)

=============================================================================
