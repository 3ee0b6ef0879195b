---------------------------- MODULE FpmEventsProofs -----------------------------
(***************************************************************************)
(* Theorems about FpmEvents, for any number of children and descriptors.   *)
(*                                                                         *)
(* EventsInv says, at every point of the loop, what is in the queue, which *)
(* of it the loop may still come to, and whose the open descriptors are.   *)
(***************************************************************************)
EXTENDS FpmEvents, SequenceTheorems, FiniteSetTheorems, TLAPS

\* No more children are forked than the pool may have.
Room == Len(linked) + forks <= pm_max_children

\* The loop is at an event of the queue, at the signal pipe's while children
\* are buried; what it may still fire is in the queue, and not where it is.
Walk ==
  /\ pc \in {"bury", "restart"} => cursor = Signal
  /\ pc = "fds" /\ cursor # Nil => cursor \in ToSet(queue)
  /\ pc \in {"start", "init", "top", "spawn"} => cursor = Nil
  /\ cursor \notin polled /\ polled \subseteq ToSet(queue)

\* The queue has the events of the open pipes, and those left behind, once.
InQueue ==
  /\ IsInjective(queue)
  /\ ToSet(queue) = (IF pc \in {"start", "init"} THEN {} ELSE {Signal})
                      \cup OpenEvents \cup left
  /\ left \cap OpenEvents = {} /\ Signal \notin left

EventsInv ==
  /\ TypeOK
  /\ Room
  /\ Walk
  /\ InQueue
  /\ NoFdLeak

-----------------------------------------------------------------------------
(* The operators of the model.                                             *)

\* A set of numbers that is not empty has a least one.
LEMMA LeastNumber ==
  ASSUME NEW S, S \subseteq Nat, S # {}
  PROVE  Min(S) \in S /\ \A x \in S : Min(S) <= x
  <1> DEFINE R == {ss \in Nat \X Nat : ss[1] < ss[2]}
  <1>0. IsWellFoundedOn(R, Nat)
    BY NatLessThanWellFounded DEF OpToRel
  <1> HIDE DEF R
  <1>1. PICK x \in S : \A y \in S : <<y, x>> \notin R
    BY <1>0, WFMin
  <1>2. ASSUME NEW y \in S PROVE x <= y
    <2>1. ~(y < x)
      BY <1>1 DEF R
    <2> QED
      BY <2>1
  <1> QED
    BY <1>2 DEF Min

\* The members of a sequence.
LEMMA Members ==
  ASSUME NEW S, NEW s \in Seq(S)
  PROVE  /\ Len(s) \in Nat /\ DOMAIN s = 1 .. Len(s)
         /\ ToSet(s) \subseteq S
         /\ \A i \in 1 .. Len(s) : s[i] \in ToSet(s) /\ s[i] \in S
         /\ \A x \in ToSet(s) : \E i \in 1 .. Len(s) : x = s[i]
  <1>1. Len(s) \in Nat /\ DOMAIN s = 1 .. Len(s)
    BY LenProperties
  <1>2. \A i \in 1 .. Len(s) : s[i] \in S
    BY ElementOfSeq
  <1> QED
    BY <1>1, <1>2 DEF ToSet

\* The loop comes to an event of S, or to the end.
LEMMA NextOfLemma ==
  ASSUME NEW E, NEW rest \in Seq(E), NEW S
  PROVE  LET i == NextOf(rest, S)
         IN i = 0 \/ (i \in 1 .. Len(rest) /\ rest[i] \in ToSet(rest) /\ rest[i] \in S)
  <1> DEFINE I == {i \in 1 .. Len(rest) : rest[i] \in S}
  <1>1. NextOf(rest, S) = IF I # {} THEN Min(I) ELSE 0
    BY DEF NextOf, SelectInSeq
  <1>2. I # {} => Min(I) \in I
    <2>1. I \subseteq Nat
      OBVIOUS
    <2> QED
      BY <2>1, LeastNumber
  <1> QED
    BY <1>1, <1>2, Members

\* What comes after an event that is in the queue once does not include it.
LEMMA AfterLemma ==
  ASSUME NEW S, NEW q \in Seq(S), IsInjective(q), NEW e
  PROVE  After(q, e) \in Seq(S) /\ ToSet(After(q, e)) \subseteq ToSet(q) \ {e}
  <1> DEFINE I == {i \in 1 .. Len(q) : q[i] = e}
             at == IF I # {} THEN Min(I) ELSE 0
             r == SubSeq(q, at + 1, Len(q))
  <1>1. After(q, e) = r
    BY DEF After, SelectInSeq
  <1>2. I # {} => Min(I) \in I
    <2>1. I \subseteq Nat
      OBVIOUS
    <2> QED
      BY <2>1, LeastNumber
  <1>3. at \in 0 .. Len(q) /\ Len(q) \in Nat /\ (at # 0 => q[at] = e)
        /\ (at = 0 => \A i \in 1 .. Len(q) : q[i] # e)
    BY <1>2, Members
  <1> HIDE DEF at
  <1>4. \A j \in (at + 1) .. Len(q) : q[j] \in S /\ q[j] # e /\ q[j] \in ToSet(q)
    BY <1>3, Members DEF IsInjective
  <1>5. /\ r \in Seq(S)
        /\ Len(r) = IF at + 1 <= Len(q) THEN Len(q) - (at + 1) + 1 ELSE 0
        /\ \A j \in 1 .. (Len(q) - (at + 1) + 1) : r[j] = q[at + 1 + j - 1]
    <2>1. at + 1 \in Int /\ Len(q) \in Int
      BY <1>3
    <2> QED
      BY <1>4, <2>1, SubSeqProperties
  <1> HIDE DEF r
  <1>6. \A j \in 1 .. Len(r) : r[j] \in ToSet(q) \ {e}
    <2> SUFFICES ASSUME NEW j \in 1 .. Len(r)
                 PROVE  r[j] \in ToSet(q) \ {e}
      OBVIOUS
    <2>1. at + j \in (at + 1) .. Len(q) /\ r[j] = q[at + j]
      BY <1>3, <1>5
    <2> QED
      BY <1>4, <2>1
  <1> QED
    BY <1>1, <1>5, <1>6, Members

\* A new head, which was not in the sequence.
LEMMA ConsLemma ==
  ASSUME NEW S, NEW q \in Seq(S), NEW e \in S, IsInjective(q), e \notin ToSet(q)
  PROVE  LET r == <<e>> \o q
         IN /\ r \in Seq(S) /\ IsInjective(r)
            /\ ToSet(r) = ToSet(q) \cup {e} /\ Len(r) = Len(q) + 1
  <1> DEFINE r == <<e>> \o q
  <1>1. Len(q) \in Nat /\ DOMAIN q = 1 .. Len(q)
    BY Members
  <1>2. r \in Seq(S) /\ Len(r) = Len(q) + 1
    OBVIOUS
  <1>3. r[1] = e /\ \A j \in 1 .. Len(q) : r[j + 1] = q[j]
    BY <1>1
  <1> HIDE DEF r
  <1>4. DOMAIN r = 1 .. (Len(q) + 1)
    BY <1>2, Members
  <1>5. \A j \in 2 .. (Len(q) + 1) : j - 1 \in 1 .. Len(q) /\ r[j] = q[j - 1]
    BY <1>1, <1>3
  <1>6. \A j \in 2 .. (Len(q) + 1) : r[j] # e
    BY <1>5, Members
  <1>7. IsInjective(r)
    <2> SUFFICES ASSUME NEW j \in 1 .. (Len(q) + 1), NEW k \in 1 .. (Len(q) + 1), r[j] = r[k]
                 PROVE  j = k
      BY <1>4 DEF IsInjective
    <2>1. CASE j = 1 \/ k = 1
      BY <1>1, <1>3, <1>6, <2>1
    <2>2. CASE j # 1 /\ k # 1
      <3>1. j \in 2 .. (Len(q) + 1) /\ k \in 2 .. (Len(q) + 1)
        BY <1>1, <2>2
      <3>2. j - 1 \in DOMAIN q /\ k - 1 \in DOMAIN q /\ q[j - 1] = q[k - 1]
        BY <1>1, <1>5, <3>1
      <3>3. j - 1 = k - 1
        BY <3>2 DEF IsInjective
      <3> QED
        BY <1>1, <3>3
    <2> QED
      BY <2>1, <2>2
  <1>8. ToSet(r) = ToSet(q) \cup {e}
    <2>1. ASSUME NEW x \in ToSet(r) PROVE x \in ToSet(q) \cup {e}
      <3>1. PICK j \in 1 .. (Len(q) + 1) : x = r[j]
        BY <1>2, Members
      <3>2. CASE j = 1
        BY <1>3, <3>1, <3>2
      <3>3. CASE j # 1
        <4>1. j \in 2 .. (Len(q) + 1)
          BY <1>1, <3>3
        <4> QED
          BY <1>5, <3>1, <4>1, Members
      <3> QED
        BY <3>2, <3>3
    <2>2. ASSUME NEW x \in ToSet(q) PROVE x \in ToSet(r)
      <3>1. PICK j \in 1 .. Len(q) : x = q[j]
        BY Members
      <3>2. j + 1 \in 1 .. Len(r) /\ r[j + 1] = x
        BY <1>1, <1>2, <1>3, <3>1
      <3> QED
        BY <1>2, <3>2, Members
    <2>3. e \in ToSet(r)
      <3>1. 1 \in 1 .. Len(r)
        BY <1>1, <1>2
      <3> QED
        BY <1>2, <1>3, <3>1, Members
    <2> QED
      BY <2>1, <2>2, <2>3
  <1> QED
    BY <1>2, <1>7, <1>8 DEF r

\* fpm_event_queue_add: the event is in the queue once.
LEMMA AddLemma ==
  ASSUME NEW S, NEW q \in Seq(S), NEW e \in S, IsInjective(q)
  PROVE  /\ fpm_event_queue_add(q, e) \in Seq(S) /\ IsInjective(fpm_event_queue_add(q, e))
         /\ ToSet(fpm_event_queue_add(q, e)) = ToSet(q) \cup {e}
  <1>1. fpm_event_queue_isset(q, e) <=> e \in ToSet(q)
    BY DEF fpm_event_queue_isset, ToSet
  <1> QED
    BY <1>1, ConsLemma DEF fpm_event_queue_add

\* One element less.
LEMMA RemoveAtLemma ==
  ASSUME NEW S, NEW s \in Seq(S), IsInjective(s), NEW i \in 1 .. Len(s)
  PROVE  LET r == RemoveAt(s, i)
         IN /\ r \in Seq(S) /\ IsInjective(r)
            /\ ToSet(r) = ToSet(s) \ {s[i]} /\ Len(r) = Len(s) - 1
  <1> DEFINE a == SubSeq(s, 1, i - 1)
             b == SubSeq(s, i + 1, Len(s))
             r == RemoveAt(s, i)
             from(j) == IF j < i THEN j ELSE j + 1
  <1>1. Len(s) \in Nat /\ DOMAIN s = 1 .. Len(s) /\ \A j \in 1 .. Len(s) : s[j] \in S
    BY Members
  <1>2. a \in Seq(S) /\ Len(a) = i - 1 /\ \A j \in 1 .. (i - 1) : a[j] = s[j]
    BY <1>1
  <1>3. b \in Seq(S) /\ Len(b) = Len(s) - i /\ \A j \in 1 .. (Len(s) - i) : b[j] = s[i + j]
    <2>1. i + 1 \in Int /\ Len(s) \in Int /\ \A j \in (i + 1) .. Len(s) : s[j] \in S
      BY <1>1
    <2>2. /\ b \in Seq(S)
          /\ Len(b) = IF i + 1 <= Len(s) THEN Len(s) - (i + 1) + 1 ELSE 0
          /\ \A j \in 1 .. (Len(s) - (i + 1) + 1) : b[j] = s[i + 1 + j - 1]
      BY <2>1, SubSeqProperties
    <2> HIDE DEF b
    <2>3. Len(b) = Len(s) - i
      <3>1. Len(b) = IF i + 1 <= Len(s) THEN Len(s) - (i + 1) + 1 ELSE 0
        BY <2>2
      <3>2. Len(s) \in Nat
        BY <1>1
      <3> QED
        BY <3>1, <3>2
    <2>4. \A j \in 1 .. (Len(s) - i) : b[j] = s[i + j]
      <3> SUFFICES ASSUME NEW j \in 1 .. (Len(s) - i)
                   PROVE  b[j] = s[i + j]
        OBVIOUS
      <3>1. j \in 1 .. (Len(s) - (i + 1) + 1) /\ i + 1 + j - 1 = i + j
        BY <1>1
      <3> QED
        BY <2>2, <3>1
    <2> QED
      BY <2>2, <2>3, <2>4
  <1>4. r = a \o b
    BY DEF RemoveAt
  <1> HIDE DEF a, b, r
  <1>5. /\ r \in Seq(S) /\ Len(r) = Len(s) - 1
        /\ \A j \in 1 .. (Len(s) - 1) : r[j] = IF j < i THEN a[j] ELSE b[j - (i - 1)]
    <2>1. /\ r \in Seq(S) /\ Len(r) = Len(a) + Len(b)
          /\ \A j \in 1 .. (Len(a) + Len(b)) :
               r[j] = IF j <= Len(a) THEN a[j] ELSE b[j - Len(a)]
      BY <1>2, <1>3, <1>4, ConcatProperties
    <2>2. Len(a) + Len(b) = Len(s) - 1
      BY <1>1, <1>2, <1>3
    <2>3. \A j \in 1 .. (Len(s) - 1) : r[j] = IF j < i THEN a[j] ELSE b[j - (i - 1)]
      <3> SUFFICES ASSUME NEW j \in 1 .. (Len(s) - 1)
                   PROVE  r[j] = IF j < i THEN a[j] ELSE b[j - (i - 1)]
        OBVIOUS
      <3>1. r[j] = IF j <= Len(a) THEN a[j] ELSE b[j - Len(a)]
        BY <2>1, <2>2
      <3>2. Len(a) = i - 1 /\ Len(s) \in Nat
        BY <1>1, <1>2
      <3> QED
        BY <3>1, <3>2
    <2> QED
      BY <2>1, <2>2, <2>3
  <1>6. \A j \in 1 .. (Len(s) - 1) : r[j] = s[from(j)]
    <2> SUFFICES ASSUME NEW j \in 1 .. (Len(s) - 1)
                 PROVE  r[j] = s[from(j)]
      OBVIOUS
    <2>1. CASE j < i
      BY <1>1, <1>2, <1>5, <2>1
    <2>2. CASE j >= i
      <3>1. r[j] = b[j - (i - 1)]
        BY <1>1, <1>5, <2>2
      <3>2. j - (i - 1) \in 1 .. (Len(s) - i)
        BY <1>1, <2>2
      <3>3. b[j - (i - 1)] = s[j + 1]
        BY <1>3, <3>2
      <3> QED
        BY <2>2, <3>1, <3>3
    <2> QED
      BY <1>1, <2>1, <2>2
  <1>7. \A j \in 1 .. (Len(s) - 1) : from(j) \in 1 .. Len(s) /\ from(j) # i
    BY <1>1
  <1>8. \A j, k \in 1 .. (Len(s) - 1) : from(j) = from(k) => j = k
    BY <1>1
  <1>9. \A k \in 1 .. Len(s) : k # i => \E j \in 1 .. (Len(s) - 1) : from(j) = k
    <2> SUFFICES ASSUME NEW k \in 1 .. Len(s), k # i
                 PROVE  \E j \in 1 .. (Len(s) - 1) : from(j) = k
      OBVIOUS
    <2>1. CASE k < i
      BY <1>1, <2>1
    <2>2. CASE k > i
      <3>1. k - 1 \in 1 .. (Len(s) - 1) /\ from(k - 1) = k
        BY <1>1, <2>2
      <3> QED
        BY <3>1
    <2> QED
      BY <1>1, <2>1, <2>2
  <1> HIDE DEF from
  <1>10. DOMAIN r = 1 .. (Len(s) - 1)
    BY <1>5, Members
  <1>11. IsInjective(r)
    BY <1>1, <1>6, <1>7, <1>8, <1>10 DEF IsInjective
  <1>12. ToSet(r) = ToSet(s) \ {s[i]}
    <2>1. ASSUME NEW x \in ToSet(r) PROVE x \in ToSet(s) \ {s[i]}
      <3>1. PICK j \in 1 .. (Len(s) - 1) : x = r[j]
        BY <1>5, Members
      <3>2. x = s[from(j)] /\ from(j) \in 1 .. Len(s) /\ from(j) # i
        BY <1>6, <1>7, <3>1
      <3> QED
        BY <1>1, <3>2, Members DEF IsInjective
    <2>2. ASSUME NEW x \in ToSet(s), x # s[i] PROVE x \in ToSet(r)
      <3>1. PICK k \in 1 .. Len(s) : x = s[k]
        BY Members
      <3>2. PICK j \in 1 .. (Len(s) - 1) : from(j) = k
        BY <1>9, <2>2, <3>1
      <3> QED
        BY <1>5, <1>6, <3>1, <3>2, Members
    <2> QED
      BY <2>1, <2>2
  <1> QED
    BY <1>5, <1>11, <1>12 DEF r

\* fpm_event_queue_del: the event is not in the queue any more.
LEMMA DelLemma ==
  ASSUME NEW S, NEW q \in Seq(S), NEW e, IsInjective(q)
  PROVE  /\ fpm_event_queue_del(q, e) \in Seq(S) /\ IsInjective(fpm_event_queue_del(q, e))
         /\ ToSet(fpm_event_queue_del(q, e)) = ToSet(q) \ {e}
  <1> DEFINE I == {i \in 1 .. Len(q) : q[i] = e}
  <1>1. CASE I = {}
    <2>1. fpm_event_queue_del(q, e) = q
      BY <1>1 DEF fpm_event_queue_del, RemoveFirst
    <2>2. e \notin ToSet(q)
      BY <1>1, Members
    <2> QED
      BY <2>1, <2>2
  <1>2. CASE I # {}
    <2>1. Min(I) \in I
      <3>1. I \subseteq Nat
        OBVIOUS
      <3> QED
        BY <1>2, <3>1, LeastNumber
    <2>2. fpm_event_queue_del(q, e) = RemoveAt(q, Min(I))
      BY <1>2 DEF fpm_event_queue_del, RemoveFirst, SelectInSeq
    <2>3. Min(I) \in 1 .. Len(q) /\ q[Min(I)] = e
      BY <2>1
    <2> HIDE DEF I
    <2> QED
      BY <2>2, <2>3, RemoveAtLemma
  <1> QED
    BY <1>1, <1>2

-----------------------------------------------------------------------------
(* The parts of the invariant, one element at a time.                      *)

\* The two streams; what is an event, and what is not.
LEMMA Events ==
  /\ \A c, s : <<c, s>> \in Child \X Stream <=> c \in Child /\ s \in Stream
  /\ \A s \in Stream : s = "stdout" \/ s = "stderr"
  /\ "stdout" \in Stream /\ "stderr" \in Stream
  /\ Nil \notin Event
  /\ Signal \in Event /\ Signal \notin Child \X Stream
  /\ Child \X Stream \subseteq Event
  BY DEF Nil, Event, Signal, Stream

\* Whose the open descriptors are.
FdOwned ==
  \A f : f \in open <=>
           \E c \in ToSet(linked), s \in Stream : f = fd[c][s] /\ f # -1

FdOnce ==
  \A c, d \in ToSet(linked) : \A s, t \in Stream :
    fd[c][s] = fd[d][t] /\ fd[c][s] # -1 => c = d /\ s = t

LEMMA NoFdLeakIs == NoFdLeak <=> FdOwned /\ FdOnce
  BY DEF NoFdLeak, FdOwned, FdOnce, FdsOf, OpenStreams

\* Which streams have an event in OpenEvents.
LEMMA OpenEventsAre ==
  ASSUME TypeOK
  PROVE  /\ OpenEvents \subseteq Child \X Stream
         /\ \A c, s : <<c, s>> \in OpenEvents <=>
                        c \in ToSet(linked) /\ s \in Stream /\ fd[c][s] # -1
         /\ \A e \in OpenEvents : e = <<e[1], e[2]>>
  <1>1. ToSet(linked) \subseteq Child
    BY Members DEF TypeOK
  <1> QED
    BY <1>1 DEF OpenEvents

\* The same events are open while children and descriptors stay.
LEMMA SameOpen ==
  ASSUME UNCHANGED <<linked, fd>>
  PROVE  OpenEvents' = OpenEvents
  BY DEF OpenEvents

\* The descriptors stay with their children.
LEMMA SameFds ==
  ASSUME NoFdLeak, UNCHANGED <<linked, fd, open>>
  PROVE  NoFdLeak'
  BY DEF NoFdLeak, FdsOf, OpenStreams

\* The queue stays as it is.
LEMMA SameQueue ==
  ASSUME InQueue, UNCHANGED <<queue, left, linked, fd>>,
         pc' \in {"start", "init"} <=> pc \in {"start", "init"}
  PROVE  InQueue'
  BY SameOpen DEF InQueue

\* Workers, and what they start, write to pipes, close them and die: nothing
\* of what the master keeps.
LEMMA WorkersStep ==
  ASSUME EventsInv, Workers
  PROVE  EventsInv'
  <1> USE DEF EventsInv
  <1>1. UNCHANGED <<pc, queue, left, polled, cursor, linked, fd, forks, open>>
    BY DEF Workers, worker_writes, worker_dies, process_exits, loopVars, walkVars,
           childVars
  <1>2. ToSet(linked) \subseteq Child
    BY Members DEF TypeOK
  <1>3. data' \subseteq Fds /\ unlogged' \subseteq Child \X Stream
    <2>1. CASE worker_writes
      <3>1. PICK c \in ToSet(linked), s \in Written :
              /\ fd[c][s] # -1 /\ data' = data \cup {fd[c][s]}
              /\ unlogged' = unlogged \cup {<<c, s>>}
        BY <2>1 DEF worker_writes
      <3>2. c \in Child /\ s \in Stream
        BY <1>2, EventsAssumption
      <3> QED
        BY <3>1, <3>2 DEF TypeOK
    <2> QED
      BY <2>1 DEF Workers, worker_dies, process_exits, TypeOK
  <1>4. /\ proc' \in [Child -> {"none", "running", "zombie"}]
        /\ writer' \in [Fds -> {"worker", "script", "none"}]
        /\ sigchld' \in BOOLEAN
    <2>1. CASE worker_dies
      <3>1. PICK c \in ToSet(linked), keeps \in SUBSET Inherited :
              /\ proc' = [proc EXCEPT ![c] = "zombie"]
              /\ writer' = [f \in Fds |->
                   CASE f \notin FdsOf(c) -> writer[f]
                     [] \E s \in keeps : f = fd[c][s] -> "script"
                     [] OTHER -> "none"]
              /\ sigchld' = TRUE
        BY <2>1 DEF worker_dies
      <3> QED
        BY <3>1 DEF TypeOK
    <2> QED
      BY <2>1 DEF Workers, worker_writes, process_exits, TypeOK
  <1>5. TypeOK'
    BY <1>1, <1>3, <1>4 DEF TypeOK
  <1>6. Room' /\ Walk' /\ InQueue' /\ NoFdLeak'
    BY <1>1, SameQueue, SameFds DEF Room, Walk
  <1> QED
    BY <1>5, <1>6

-----------------------------------------------------------------------------
(* The steps of the loop.                                                  *)

\* fpm_event_loop adds the signal pipe to the queue, which does not have it.
LEMMA AddSignalStep ==
  ASSUME EventsInv, add_signal_event
  PROVE  EventsInv'
  <1> USE DEF EventsInv
  <1>1. /\ UNCHANGED <<left, polled, cursor, linked, fd, forks, proc, open, data, writer,
                       sigchld, unlogged>>
        /\ pc = "init" /\ pc' = "top" /\ queue' = fpm_event_queue_add(queue, Signal)
    BY DEF add_signal_event, walkVars, childVars, kernelVars
  <1>2. queue \in Seq(Event) /\ IsInjective(queue)
    BY DEF TypeOK, InQueue
  <1>3. queue' \in Seq(Event) /\ IsInjective(queue') /\ ToSet(queue') = ToSet(queue) \cup {Signal}
    BY <1>1, <1>2, AddLemma, Events
  <1>4. TypeOK'
    BY <1>1, <1>3 DEF TypeOK
  <1>5. Walk'
    BY <1>1, <1>3 DEF Walk
  <1>6. InQueue'
    BY <1>1, <1>3, SameOpen DEF InQueue
  <1> QED
    BY <1>1, <1>4, <1>5, <1>6, SameFds DEF Room

\* The signal handler's turn, the timers, and what is not the code's.
LEMMA OtherSteps ==
  ASSUME EventsInv, read_freed_event \/ fpm_got_signal \/ timers \/ undefined
  PROVE  EventsInv'
  <1> USE DEF EventsInv
  <1>1. UNCHANGED <<queue, left, polled, cursor, linked, fd, proc, open, data, writer, unlogged>>
    BY DEF read_freed_event, fpm_got_signal, timers, undefined, vars, loopVars, walkVars,
           childVars, kernelVars
  <1>2. Len(linked) \in Nat
    BY LenProperties DEF TypeOK
  <1>3. pm_max_children \in Nat
    BY FS_CardinalityType, EventsAssumption
  <1>4. forks' \in 0 .. pm_max_children /\ Len(linked) + forks' <= pm_max_children
    <2>1. CASE timers
      BY <1>2, <1>3, <2>1 DEF timers, TypeOK, Room
    <2> QED
      BY <2>1 DEF read_freed_event, fpm_got_signal, undefined, vars, childVars, TypeOK, Room
  <1>5. /\ sigchld' \in BOOLEAN
        /\ pc' \in {"start", "init", "top", "fds", "bury", "restart", "spawn", "undefined"}
        /\ pc' \in {"start", "init"} <=> pc \in {"start", "init"}
    BY DEF read_freed_event, fpm_got_signal, timers, WalkDone, undefined, vars, TypeOK
  <1>6. TypeOK'
    BY <1>1, <1>4, <1>5 DEF TypeOK
  <1>7. Walk'
    <2>1. CASE read_freed_event
      BY <1>1, <2>1 DEF read_freed_event, Walk
    <2>2. CASE fpm_got_signal
      BY <1>1, <2>2 DEF fpm_got_signal, Walk
    <2>3. CASE timers
      BY <1>1, <2>3 DEF timers, WalkDone, Walk
    <2>4. CASE undefined
      BY <2>4 DEF undefined, vars, loopVars, walkVars, Walk
    <2> QED
      BY <2>1, <2>2, <2>3, <2>4
  <1> QED
    BY <1>1, <1>4, <1>5, <1>6, <1>7, SameQueue, SameFds DEF Room

\* poll returns: the loop starts at the head of the queue.
LEMMA PollStep ==
  ASSUME EventsInv, poll
  PROVE  EventsInv'
  <1> USE DEF EventsInv
  <1>1. /\ UNCHANGED <<queue, left, linked, fd, forks, proc, open, data, writer, sigchld, unlogged>>
        /\ pc = "top" /\ pc' = "fds"
    BY DEF poll, loopVars, childVars, kernelVars
  <1>2. queue \in Seq(Event)
    BY DEF TypeOK
  <1>3. \A e \in ToSet(Polled) : e \in ToSet(queue)
    <2> DEFINE n == IF Len(queue) <= fpm_event_nfds_max THEN Len(queue) ELSE fpm_event_nfds_max
    <2>1. Len(queue) \in Nat /\ fpm_event_nfds_max \in Nat
      BY <1>2, LenProperties, FS_CardinalityType, EventsAssumption DEF fpm_event_nfds_max
    <2>2. n \in Int /\ n <= Len(queue)
      BY <2>1
    <2> HIDE DEF n
    <2>3. \A j \in 1 .. n : queue[j] \in ToSet(queue)
      BY <1>2, <2>1, <2>2, Members
    <2>4. SubSeq(queue, 1, n) \in Seq(ToSet(queue))
      BY <2>2, <2>3, SubSeqProperties
    <2> QED
      BY <2>4, Members DEF Polled, n
  <1>4. \/ cursor' = Nil /\ polled' = {}
        \/ /\ cursor' \in ToSet(queue) /\ cursor' \notin polled'
           /\ polled' \subseteq ToSet(queue)
    <2>1. CASE \E e \in ToSet(Polled) : Ready(FdOf(e))
      <3>1. PICK in \in SUBSET ToSet(queue) : WalkOn(queue, in)
        BY <1>3, <2>1 DEF poll
      <3>2. PICK S : S = left \cup in
        OBVIOUS
      <3>3. LET i == NextOf(queue, S)
            IN /\ cursor' = IF i = 0 THEN Nil ELSE queue[i]
               /\ polled' = IF i = 0 THEN {} ELSE in \ {queue[i]}
        BY <3>1, <3>2 DEF WalkOn
      <3> QED
        BY <1>2, <3>3, NextOfLemma
    <2>2. CASE ~\E e \in ToSet(Polled) : Ready(FdOf(e))
      BY <2>2 DEF poll
    <2> QED
      BY <2>1, <2>2
  <1>5. ToSet(queue) \subseteq Event
    BY <1>2, Members
  <1>6. TypeOK'
    BY <1>1, <1>4, <1>5 DEF TypeOK
  <1>7. Walk'
    BY <1>1, <1>4, <1>5, Events DEF Walk
  <1> QED
    BY <1>1, <1>6, <1>7, SameQueue, SameFds DEF Room

\* The four ends of the two pipes are all new and all different.
LEMMA PipesLemma ==
  ASSUME NEW out \in Fds, NEW outw \in Fds, NEW err \in Fds, NEW errw \in Fds,
         fpm_stdio_prepare_pipes(out, outw, err, errw)
  PROVE  /\ {out, outw, err, errw} \cap open = {}
         /\ out \notin {outw, err, errw} /\ err \notin {outw, errw}
  BY EventsAssumption DEF fpm_stdio_prepare_pipes, pipe

\* A fork fails: the ends of the pipes made for it are closed again, those
\* of a pipe whose second could not be made as well.
LEMMA ForkFailsStep ==
  ASSUME EventsInv, fork_fails
  PROVE  EventsInv'
  <1> USE DEF EventsInv
  <1>1. /\ UNCHANGED <<queue, left, polled, cursor, linked, fd, proc, data, writer, sigchld, unlogged>>
        /\ forks' = 0 /\ forks > 0
        /\ \/ pc = "start" /\ pc' = "init"
           \/ pc = "restart" /\ pc' = "bury"
           \/ pc = "spawn" /\ pc' = "top"
    BY DEF fork_fails, Forking, AfterFork, loopVars, walkVars
  <1>2. open' = open
    <2>1. PICK out \in Fds, outw \in Fds, err \in Fds, errw \in Fds :
            /\ fpm_stdio_prepare_pipes(out, outw, err, errw)
            /\ \/ fpm_stdio_prepare_pipes_fails(out, outw, err, errw)
               \/ fpm_stdio_discard_pipes(out, outw, err, errw)
      BY DEF fork_fails
    <2>2. {out, outw, err, errw} \cap open = {}
      BY <2>1, PipesLemma
    <2> QED
      BY <2>1, <2>2 DEF fpm_stdio_prepare_pipes_fails, fpm_stdio_discard_pipes
  <1>3. pm_max_children \in Nat /\ Len(linked) \in Nat
    BY FS_CardinalityType, EventsAssumption, LenProperties DEF TypeOK
  <1>4. TypeOK'
    BY <1>1, <1>2, <1>3 DEF TypeOK
  <1>5. Room'
    BY <1>1, <1>3 DEF Room, TypeOK
  <1>6. Walk'
    BY <1>1 DEF Walk
  <1> QED
    BY <1>1, <1>2, <1>4, <1>5, <1>6, SameQueue, SameFds

\* A child is forked: two pipes, two events, and the child linked in front.
LEMMA ForkStep ==
  ASSUME EventsInv, fork
  PROVE  EventsInv'
  <1> USE DEF EventsInv
  <1>1. PICK c \in Child \ ToSet(linked),
             out \in Fds, outw \in Fds, err \in Fds, errw \in Fds :
          /\ fpm_stdio_prepare_pipes(out, outw, err, errw)
          /\ fpm_stdio_parent_use_pipes(c, out, outw, err, errw)
          /\ writer' = [writer EXCEPT ![out] = "worker", ![err] = "worker"]
          /\ linked' = <<c>> \o linked
          /\ proc' = [proc EXCEPT ![c] = "running"]
    BY DEF fork
  <1>2. /\ UNCHANGED <<cursor, data, sigchld, unlogged>>
        /\ forks > 0 /\ forks' = forks - 1
        /\ pc \in {"start", "restart", "spawn"}
        /\ pc' = IF forks = 1
                 THEN CASE pc = "start" -> "init" [] pc = "restart" -> "bury" [] OTHER -> "top"
                 ELSE pc
    BY DEF fork, Forking, AfterFork
  <1> DEFINE e1 == <<c, "stdout">>
             e2 == <<c, "stderr">>
  <1>3. /\ out \notin open /\ err \notin open /\ out # err /\ out # -1 /\ err # -1
        /\ open' = open \cup {out, err}
    <2>1. /\ {out, outw, err, errw} \cap open = {}
          /\ out \notin {outw, err, errw} /\ err \notin {outw, errw}
      BY <1>1, PipesLemma
    <2>2. open' = (open \cup {out, outw, err, errw}) \ {outw, errw}
      BY <1>1 DEF fpm_stdio_parent_use_pipes
    <2>3. out # -1 /\ err # -1
      BY EventsAssumption
    <2> QED
      BY <2>1, <2>2, <2>3
  <1>4. /\ fd' = [fd EXCEPT ![c] = [stdout |-> out, stderr |-> err]]
        /\ polled' = polled \ {e1, e2}
        /\ queue' = fpm_event_queue_add(fpm_event_queue_add(queue, e1), e2)
        /\ left' = left \ {e1, e2}
    BY <1>1 DEF fpm_stdio_parent_use_pipes
  <1>5. /\ fd' \in [Child -> [Stream -> Fds \cup {-1}]]
        /\ fd'[c]["stdout"] = out /\ fd'[c]["stderr"] = err
        /\ \A d \in Child : d # c => fd'[d] = fd[d]
    <2>1. [stdout |-> out, stderr |-> err] \in [Stream -> Fds \cup {-1}]
      BY DEF Stream
    <2> QED
      BY <1>4, <2>1 DEF TypeOK
  <1>6. e1 \in Event /\ e2 \in Event
    BY Events
  <1> HIDE DEF e1, e2
  <1>7. queue \in Seq(Event) /\ IsInjective(queue) /\ linked \in Seq(Child) /\ IsInjective(linked)
    BY DEF TypeOK, InQueue
  <1>8. queue' \in Seq(Event) /\ IsInjective(queue') /\ ToSet(queue') = ToSet(queue) \cup {e1, e2}
    <2>1. PICK q : q = fpm_event_queue_add(queue, e1)
      OBVIOUS
    <2>2. q \in Seq(Event) /\ IsInjective(q) /\ ToSet(q) = ToSet(queue) \cup {e1}
      BY <1>6, <1>7, <2>1, AddLemma
    <2>3. queue' = fpm_event_queue_add(q, e2)
      BY <1>4, <2>1
    <2>4. /\ fpm_event_queue_add(q, e2) \in Seq(Event)
          /\ IsInjective(fpm_event_queue_add(q, e2))
          /\ ToSet(fpm_event_queue_add(q, e2)) = ToSet(q) \cup {e2}
      <3>1. q \in Seq(Event) /\ IsInjective(q) /\ e2 \in Event
        BY <1>6, <2>2
      <3> QED
        BY <3>1, AddLemma
    <2> QED
      BY <2>2, <2>3, <2>4
  <1>9. /\ linked' \in Seq(Child) /\ IsInjective(linked')
        /\ ToSet(linked') = ToSet(linked) \cup {c} /\ Len(linked') = Len(linked) + 1
    BY <1>1, <1>7, ConsLemma
  <1>10. Len(linked) \in Nat /\ pm_max_children \in Nat /\ forks \in Nat
    BY <1>7, LenProperties, FS_CardinalityType, EventsAssumption DEF TypeOK
  <1>11. TypeOK'
    <2>1. forks' \in 0 .. pm_max_children
      BY <1>2, <1>10 DEF TypeOK
    <2>2. pc' \in {"start", "init", "top", "fds", "bury", "restart", "spawn", "undefined"}
      BY <1>2
    <2>3. /\ proc' \in [Child -> {"none", "running", "zombie"}]
          /\ writer' \in [Fds -> {"worker", "script", "none"}]
          /\ open' \subseteq Fds
      BY <1>1, <1>3 DEF TypeOK
    <2>4. polled' \subseteq Event /\ left' \subseteq Event
      BY <1>4 DEF TypeOK
    <2> QED
      BY <1>2, <1>5, <1>8, <1>9, <2>1, <2>2, <2>3, <2>4 DEF TypeOK
  <1>12. Room'
    BY <1>2, <1>9, <1>10 DEF Room
  <1>13. Walk'
    BY <1>2, <1>4, <1>8 DEF Walk
  <1>14. OpenEvents' = OpenEvents \cup {e1, e2}
    <2>1. ToSet(linked) \subseteq Child
      BY <1>7, Members
    <2>2. OpenEvents' = {e \in (ToSet(linked) \cup {c}) \X Stream : fd'[e[1]][e[2]] # -1}
      BY <1>9 DEF OpenEvents
    <2>3. \A d \in ToSet(linked) : d # c /\ fd'[d] = fd[d]
      BY <1>5, <2>1
    <2>4. \A s \in Stream : fd'[c][s] # -1
      BY <1>3, <1>5, Events
    <2>5. {e1, e2} = {c} \X Stream
      BY Events DEF e1, e2
    <2> QED
      BY <2>2, <2>3, <2>4, <2>5 DEF OpenEvents
  <1>15. InQueue'
    <2>1. pc' \in {"start", "init"} <=> pc \in {"start", "init"}
      BY <1>2
    <2>2. Signal \notin {e1, e2}
      BY Events DEF e1, e2
    <2> QED
      BY <1>4, <1>8, <1>14, <2>1, <2>2 DEF InQueue
  <1>16. NoFdLeak'
    <2>1. ToSet(linked) \subseteq Child /\ c \notin ToSet(linked)
      BY <1>7, Members
    <2>2. FdOwned /\ FdOnce
      BY NoFdLeakIs
    <2>3. \A d \in ToSet(linked) : d # c /\ fd'[d] = fd[d]
      BY <1>5, <2>1
    <2>4. FdOwned'
      <3> SUFFICES ASSUME NEW f
                   PROVE  f \in open \cup {out, err} <=>
                            \E d \in ToSet(linked) \cup {c}, s \in Stream :
                              f = fd'[d][s] /\ f # -1
        BY <1>3, <1>9 DEF FdOwned
      <3>1. f \in open <=> \E d \in ToSet(linked), s \in Stream : f = fd'[d][s] /\ f # -1
        BY <2>2, <2>3 DEF FdOwned
      <3>2. f \in {out, err} <=> \E s \in Stream : f = fd'[c][s] /\ f # -1
        BY <1>3, <1>5, Events
      <3> QED
        BY <3>1, <3>2
    <2>5. FdOnce'
      <3>1. \A d \in ToSet(linked), s \in Stream : fd[d][s] # out /\ fd[d][s] # err
        BY <1>3, <2>2 DEF FdOwned
      <3> SUFFICES ASSUME NEW d \in ToSet(linked) \cup {c}, NEW e \in ToSet(linked) \cup {c},
                          NEW s \in Stream, NEW t \in Stream,
                          fd'[d][s] = fd'[e][t], fd'[d][s] # -1
                   PROVE  d = e /\ s = t
        BY <1>9 DEF FdOnce
      <3>2. CASE d # c /\ e # c
        BY <2>2, <2>3, <3>2 DEF FdOnce
      <3>3. CASE d = c /\ e = c
        BY <1>3, <1>5, <3>3, Events
      <3>4. CASE d # c /\ e = c
        BY <1>5, <2>3, <3>1, <3>4, Events
      <3>5. CASE d = c /\ e # c
        BY <1>5, <2>3, <3>1, <3>5, Events
      <3> QED
        BY <3>2, <3>3, <3>4, <3>5
    <2> QED
      BY <2>4, <2>5 DEF NoFdLeak, FdOwned, FdOnce, FdsOf, OpenStreams
  <1> QED
    BY <1>11, <1>12, <1>13, <1>15, <1>16

\* fpm_stdio_child_said: nothing changes but what is read, or the pipe is at
\* its end and goes with its event; the loop goes on behind it.
LEMMA ChildSaidStep ==
  ASSUME EventsInv, fpm_stdio_child_said
  PROVE  EventsInv'
  <1> USE DEF EventsInv
  <1>1. /\ UNCHANGED <<left, linked, forks, proc, writer, sigchld>> /\ unlogged' \subseteq unlogged
        /\ pc = "fds" /\ cursor \notin left \cup {Nil, Signal}
    BY DEF fpm_stdio_child_said
  <1>2. queue \in Seq(Event) /\ IsInjective(queue)
    BY DEF TypeOK, InQueue
  <1>3. cursor \in OpenEvents
    BY <1>1 DEF Walk, InQueue
  <1>4. PICK c \in ToSet(linked), s \in Stream : cursor = <<c, s>> /\ fd[c][s] # -1
    BY <1>3, OpenEventsAre
  <1>5. c \in Child
    BY Members DEF TypeOK
  <1>6. PICK f \in Fds : f = fd[c][s] /\ f # -1
    BY <1>4, <1>5 DEF TypeOK
  <1>7. PICK rest : rest = After(queue, cursor)
    OBVIOUS
  <1>8. rest \in Seq(Event) /\ ToSet(rest) \subseteq ToSet(queue) \ {cursor}
    BY <1>2, <1>7, AfterLemma
  <1> DEFINE GoesOn == \/ cursor' = Nil /\ polled' = {}
                       \/ /\ cursor' \in ToSet(queue) \ {cursor} /\ cursor' \notin polled'
                          /\ polled' \subseteq polled
  <1>9. ASSUME WalkOn(After(queue, cursor), polled) PROVE GoesOn
    <2>1. PICK S : S = left \cup polled
      OBVIOUS
    <2>2. LET i == NextOf(rest, S)
          IN /\ cursor' = IF i = 0 THEN Nil ELSE rest[i]
             /\ polled' = IF i = 0 THEN {} ELSE polled \ {rest[i]}
      BY <1>7, <1>9, <2>1 DEF WalkOn
    <2> QED
      BY <1>8, <2>2, NextOfLemma
  <1> HIDE DEF GoesOn
  <1>10. /\ data' = data \ {f} /\ GoesOn /\ pc' \in {"fds", "undefined"}
         /\ \/ UNCHANGED <<queue, fd, open>>
            \/ /\ queue' = fpm_event_queue_del(queue, cursor)
               /\ fd' = [fd EXCEPT ![c][s] = -1] /\ open' = open \ {f}
    <2>1. cursor[1] = c /\ cursor[2] = s
      BY <1>4
    <2>2. cursor' = Nil /\ polled' = {} => GoesOn
      BY DEF GoesOn
    <2>3. CASE writer[f] # "none"
      BY <1>1, <1>6, <1>9, <2>1, <2>3 DEF fpm_stdio_child_said
    <2>4. CASE writer[f] = "none"
      BY <1>1, <1>6, <1>9, <2>1, <2>2, <2>4 DEF fpm_stdio_child_said
    <2> QED
      BY <2>3, <2>4
  <1>11. ToSet(queue) \subseteq Event
    BY <1>2, Members
  <1>12. Room'
    BY <1>1 DEF Room
  <1>13. CASE UNCHANGED <<queue, fd, open>>
    <2>1. TypeOK'
      BY <1>1, <1>10, <1>11, <1>13 DEF TypeOK, GoesOn
    <2>2. Walk'
      BY <1>10, <1>11, <1>13, Events DEF Walk, GoesOn
    <2> QED
      BY <1>1, <1>10, <1>12, <1>13, <2>1, <2>2, SameQueue, SameFds
  <1>14. CASE /\ queue' = fpm_event_queue_del(queue, cursor)
              /\ fd' = [fd EXCEPT ![c][s] = -1] /\ open' = open \ {f}
    <2>1. /\ queue' \in Seq(Event) /\ IsInjective(queue')
          /\ ToSet(queue') = ToSet(queue) \ {cursor}
      BY <1>2, <1>14, DelLemma
    <2>2. /\ fd' \in [Child -> [Stream -> Fds \cup {-1}]]
          /\ fd'[c][s] = -1
          /\ \A d \in Child, t \in Stream : d # c \/ t # s => fd'[d][t] = fd[d][t]
      <3>1. fd[c] \in [Stream -> Fds \cup {-1}]
        BY <1>5 DEF TypeOK
      <3> QED
        BY <1>5, <1>14, <3>1 DEF TypeOK
    <2>3. TypeOK'
      BY <1>1, <1>10, <1>11, <1>14, <2>1, <2>2 DEF TypeOK, GoesOn
    <2>4. Walk'
      BY <1>10, <1>11, <2>1, Events DEF Walk, GoesOn
    <2>5. OpenEvents' = OpenEvents \ {cursor}
      <3>1. ToSet(linked) \subseteq Child
        BY Members DEF TypeOK
      <3>2. OpenEvents' = {e \in ToSet(linked) \X Stream : fd'[e[1]][e[2]] # -1}
        BY <1>1 DEF OpenEvents
      <3>3. \A d \in ToSet(linked), t \in Stream :
              fd'[d][t] # -1 <=> fd[d][t] # -1 /\ <<d, t>> # cursor
        BY <1>4, <1>5, <2>2, <3>1
      <3> QED
        BY <3>2, <3>3 DEF OpenEvents
    <2>6. InQueue'
      BY <1>1, <1>10, <2>1, <2>5 DEF InQueue
    <2>7. NoFdLeak'
      <3>1. FdOwned /\ FdOnce
        BY NoFdLeakIs
      <3>2. ToSet(linked) \subseteq Child
        BY Members DEF TypeOK
      <3>3. \A d \in ToSet(linked), t \in Stream :
              fd'[d][t] = IF d = c /\ t = s THEN -1 ELSE fd[d][t]
        BY <2>2, <3>2
      <3>4. \A d \in ToSet(linked), t \in Stream : fd[d][t] = f => d = c /\ t = s
        BY <1>6, <3>1 DEF FdOnce
      <3>5. FdOwned'
        <4> SUFFICES ASSUME NEW g
                     PROVE  g \in open \ {f} <=>
                              \E d \in ToSet(linked), t \in Stream : g = fd'[d][t] /\ g # -1
          BY <1>1, <1>14 DEF FdOwned
        <4>1. g \in open <=> \E d \in ToSet(linked), t \in Stream : g = fd[d][t] /\ g # -1
          BY <3>1 DEF FdOwned
        <4> QED
          BY <1>6, <3>3, <3>4, <4>1
      <3>6. FdOnce'
        BY <1>1, <3>1, <3>3 DEF FdOnce
      <3> QED
        BY <3>5, <3>6 DEF NoFdLeak, FdOwned, FdOnce, FdsOf, OpenStreams
    <2> QED
      BY <1>12, <2>3, <2>4, <2>6, <2>7
  <1> QED
    BY <1>10, <1>13, <1>14

\* No one is left to bury: the loop goes on behind the signal pipe.
LEMMA BuryDoneStep ==
  ASSUME EventsInv, bury_done
  PROVE  EventsInv'
  <1> USE DEF EventsInv
  <1>1. /\ UNCHANGED <<queue, left, linked, fd, forks, proc, open, data, writer, unlogged>>
        /\ pc = "bury" /\ sigchld' = FALSE
        /\ \/ UNCHANGED <<pc, polled, cursor>>
           \/ pc' = "fds" /\ WalkOn(After(queue, Signal), polled)
    BY DEF bury_done, loopVars, walkVars, childVars, kernelVars
  <1>2. queue \in Seq(Event) /\ IsInjective(queue)
    BY DEF TypeOK, InQueue
  <1>3. ToSet(queue) \subseteq Event
    BY <1>2, Members
  <1>4. PICK rest : rest = After(queue, Signal)
    OBVIOUS
  <1>5. rest \in Seq(Event) /\ ToSet(rest) \subseteq ToSet(queue) \ {Signal}
    BY <1>2, <1>4, AfterLemma
  <1>6. \/ UNCHANGED <<pc, polled, cursor>>
        \/ pc' = "fds" /\ cursor' = Nil /\ polled' = {}
        \/ /\ pc' = "fds" /\ cursor' \in ToSet(queue) /\ cursor' \notin polled'
           /\ polled' \subseteq polled
    <2>1. ASSUME WalkOn(After(queue, Signal), polled)
          PROVE  \/ cursor' = Nil /\ polled' = {}
                 \/ /\ cursor' \in ToSet(queue) /\ cursor' \notin polled'
                    /\ polled' \subseteq polled
      <3>1. PICK S : S = left \cup polled
        OBVIOUS
      <3>2. LET i == NextOf(rest, S)
            IN /\ cursor' = IF i = 0 THEN Nil ELSE rest[i]
               /\ polled' = IF i = 0 THEN {} ELSE polled \ {rest[i]}
        BY <1>4, <2>1, <3>1 DEF WalkOn
      <3> QED
        BY <1>5, <3>2, NextOfLemma
    <2> QED
      BY <1>1, <2>1
  <1>7. TypeOK'
    BY <1>1, <1>3, <1>6 DEF TypeOK
  <1>8. Walk'
    BY <1>1, <1>3, <1>6, Events DEF Walk
  <1>9. pc' \notin {"start", "init"}
    BY <1>1
  <1> QED
    BY <1>1, <1>7, <1>8, <1>9, SameQueue, SameFds DEF Room

\* DeleteAll: the events of the child's streams in S are not in the queue.
LEMMA DeleteAllLemma ==
  ASSUME EventsInv, NEW c, NEW S \in SUBSET Stream
  PROVE  /\ DeleteAll(c, S) \in Seq(Event) /\ IsInjective(DeleteAll(c, S))
         /\ ToSet(DeleteAll(c, S)) = ToSet(queue) \ {<<c, s>> : s \in S}
  <1>1. queue \in Seq(Event) /\ IsInjective(queue)
    BY DEF EventsInv, TypeOK, InQueue
  <1>2. PICK out : out = IF "stdout" \in S THEN fpm_event_queue_del(queue, <<c, "stdout">>)
                         ELSE queue
    OBVIOUS
  <1>3. /\ out \in Seq(Event) /\ IsInjective(out)
        /\ ToSet(out) = ToSet(queue) \ {<<c, s>> : s \in S \cap {"stdout"}}
    <2>1. CASE "stdout" \in S
      <3>1. {<<c, s>> : s \in S \cap {"stdout"}} = {<<c, "stdout">>}
        BY <2>1
      <3> QED
        BY <1>1, <1>2, <2>1, <3>1, DelLemma
    <2>2. CASE "stdout" \notin S
      BY <1>1, <1>2, <2>2
    <2> QED
      BY <2>1, <2>2
  <1>4. DeleteAll(c, S) = IF "stderr" \in S THEN fpm_event_queue_del(out, <<c, "stderr">>)
                          ELSE out
    BY <1>2 DEF DeleteAll
  <1>5. CASE "stderr" \in S
    <2>1. {<<c, s>> : s \in S} = {<<c, s>> : s \in S \cap {"stdout"}} \cup {<<c, "stderr">>}
      BY <1>5, Events
    <2>2. /\ fpm_event_queue_del(out, <<c, "stderr">>) \in Seq(Event)
          /\ IsInjective(fpm_event_queue_del(out, <<c, "stderr">>))
          /\ ToSet(fpm_event_queue_del(out, <<c, "stderr">>)) = ToSet(out) \ {<<c, "stderr">>}
      BY <1>3, DelLemma
    <2> QED
      BY <1>3, <1>4, <1>5, <2>1, <2>2
  <1>6. CASE "stderr" \notin S
    <2>1. {<<c, s>> : s \in S} = {<<c, s>> : s \in S \cap {"stdout"}}
      BY <1>6, Events
    <2> QED
      BY <1>3, <1>4, <1>6, <2>1
  <1> QED
    BY <1>5, <1>6

\* A dead child is unlinked: what is left of its pipes is read, its events
\* leave the queue or are left behind, and nothing of it is open any more.
LEMMA BuryStep ==
  ASSUME EventsInv, bury_child
  PROVE  EventsInv'
  <1> USE DEF EventsInv
  <1>1. PICK i \in DOMAIN linked :
          /\ fpm_child_close(linked[i])
          /\ fd' = [fd EXCEPT ![linked[i]] = [s \in Stream |-> -1]]
          /\ proc' = [proc EXCEPT ![linked[i]] = "none"]
          /\ linked' = RemoveAt(linked, i)
    BY DEF bury_child
  <1>2. PICK c : c = linked[i]
    OBVIOUS
  <1>3. linked \in Seq(Child) /\ IsInjective(linked)
    BY DEF TypeOK
  <1>4. /\ i \in 1 .. Len(linked) /\ c \in ToSet(linked) /\ c \in Child
        /\ ToSet(linked) \subseteq Child
    BY <1>2, <1>3, Members
  <1>5. /\ linked' \in Seq(Child) /\ IsInjective(linked')
        /\ ToSet(linked') = ToSet(linked) \ {c} /\ Len(linked') = Len(linked) - 1
    BY <1>1, <1>2, <1>3, <1>4, RemoveAtLemma
  <1>6. /\ UNCHANGED <<cursor, sigchld>>
        /\ pc = "bury" /\ pc' \in {"bury", "restart"}
        /\ polled' = polled \cap ToSet(queue')
        /\ \/ forks' = pm_max_children - Len(linked')
           \/ forks' = 1
           \/ forks' = forks
    BY DEF bury_child
  <1> DEFINE held == {s \in OpenStreams(c) : writer[fd[c][s]] # "none"}
  <1>7. /\ queue' = DeleteAll(c, OpenStreams(c) \ held)
        /\ left' = left \cup {<<c, s>> : s \in held}
        /\ open' = open \ FdsOf(c)
        /\ data' = data \ FdsOf(c)
        /\ writer' = [f \in Fds |-> IF f \in FdsOf(c) THEN "none" ELSE writer[f]]
        /\ unlogged' \subseteq unlogged
    BY <1>1, <1>2 DEF fpm_child_close
  <1>8. held \subseteq OpenStreams(c) /\ OpenStreams(c) \subseteq Stream
    BY DEF OpenStreams
  <1> HIDE DEF held
  <1>9. /\ queue' \in Seq(Event) /\ IsInjective(queue')
        /\ ToSet(queue') = ToSet(queue) \ {<<c, s>> : s \in OpenStreams(c) \ held}
    <2>1. OpenStreams(c) \ held \in SUBSET Stream
      BY <1>8
    <2> QED
      BY <1>7, <2>1, DeleteAllLemma
  <1>10. /\ fd' \in [Child -> [Stream -> Fds \cup {-1}]]
         /\ \A d \in ToSet(linked) : d # c => fd'[d] = fd[d]
    <2>1. [s \in Stream |-> -1] \in [Stream -> Fds \cup {-1}]
      OBVIOUS
    <2> QED
      BY <1>1, <1>2, <1>4, <2>1 DEF TypeOK
  <1>11. \A s \in held : <<c, s>> \in OpenEvents /\ <<c, s>> \in Event
    BY <1>4, <1>8, OpenEventsAre, Events DEF OpenStreams
  <1>12. /\ Len(linked) \in Nat /\ Len(linked) >= 1
         /\ pm_max_children \in Nat \ {0}
         /\ Len(linked) <= pm_max_children
         /\ forks \in Nat /\ Len(linked) + forks <= pm_max_children
    <2>1. Cardinality(Child) \in Nat
      BY FS_CardinalityType, EventsAssumption
    <2> QED
      BY <1>3, <1>4, <2>1, LenProperties, EventsAssumption DEF TypeOK, Room
  <1>13. forks' \in 0 .. pm_max_children /\ Len(linked') + forks' <= pm_max_children
    BY <1>5, <1>6, <1>12
  <1>14. TypeOK'
    <2>1. /\ proc' \in [Child -> {"none", "running", "zombie"}]
          /\ open' \subseteq Fds /\ data' \subseteq Fds
      BY <1>1, <1>7 DEF TypeOK
    <2>2. writer' \in [Fds -> {"worker", "script", "none"}]
      BY <1>7 DEF TypeOK
    <2>3. polled' \subseteq Event /\ left' \subseteq Event
      BY <1>6, <1>7, <1>11 DEF TypeOK
    <2> QED
      BY <1>5, <1>6, <1>7, <1>9, <1>10, <1>13, <2>1, <2>2, <2>3 DEF TypeOK
  <1>15. Room'
    BY <1>13 DEF Room
  <1>16. Walk'
    BY <1>6 DEF Walk
  <1>17. OpenEvents' = {e \in OpenEvents : e[1] # c}
    <2>1. OpenEvents' = {e \in (ToSet(linked) \ {c}) \X Stream : fd'[e[1]][e[2]] # -1}
      BY <1>5 DEF OpenEvents
    <2> QED
      BY <1>10, <2>1 DEF OpenEvents
  <1>18. InQueue'
    <2>1. pc' \notin {"start", "init"} /\ pc \notin {"start", "init"}
      BY <1>6
    <2>2. ToSet(queue) = {Signal} \cup OpenEvents \cup left
      BY <2>1 DEF InQueue
    <2>3. \A s \in Stream : <<c, s>> \in OpenEvents <=> s \in OpenStreams(c)
      BY <1>4, OpenEventsAre DEF OpenStreams
    <2>4. OpenEvents = OpenEvents' \cup {<<c, s>> : s \in OpenStreams(c)}
      <3>1. \A e \in OpenEvents : e[1] = c => e \in {<<c, s>> : s \in OpenStreams(c)}
        <4> SUFFICES ASSUME NEW e \in OpenEvents, e[1] = c
                     PROVE  e \in {<<c, s>> : s \in OpenStreams(c)}
          OBVIOUS
        <4>1. e = <<c, e[2]>> /\ e[2] \in Stream
          BY OpenEventsAre DEF OpenEvents
        <4> QED
          BY <2>3, <4>1
      <3>2. {<<c, s>> : s \in OpenStreams(c)} \subseteq OpenEvents
        BY <1>8, <2>3
      <3> QED
        BY <1>17, <3>1, <3>2
    <2>5. \A s : <<c, s>> \notin OpenEvents'
      BY <1>17
    <2>6. \A s \in OpenStreams(c) : <<c, s>> \notin left /\ <<c, s>> # Signal
      <3>1. Signal \notin OpenEvents /\ left \cap OpenEvents = {}
        BY OpenEventsAre, Events DEF InQueue
      <3> QED
        BY <2>4, <3>1
    <2>7. {<<c, s>> : s \in OpenStreams(c)} =
            {<<c, s>> : s \in held} \cup {<<c, s>> : s \in OpenStreams(c) \ held}
      BY <1>8
    <2>8. {<<c, s>> : s \in held} \cap {<<c, s>> : s \in OpenStreams(c) \ held} = {}
      OBVIOUS
    <2> DEFINE H == {<<c, s>> : s \in held}
               A == {<<c, s>> : s \in OpenStreams(c) \ held}
    <2>9. ToSet(queue') = {Signal} \cup OpenEvents' \cup left'
      <3>1. ToSet(queue') = ({Signal} \cup OpenEvents \cup left) \ A
        BY <1>9, <2>2
      <3>2. left' = left \cup H
        BY <1>7
      <3>3. OpenEvents = OpenEvents' \cup H \cup A
        BY <2>4, <2>7
      <3>4. H \cap A = {}
        BY <2>8
      <3>5. A \cap OpenEvents' = {}
        BY <2>5
      <3>6. A \cap left = {} /\ Signal \notin A
        BY <2>6
      <3> HIDE DEF A, H
      <3> QED
        BY <3>1, <3>2, <3>3, <3>4, <3>5, <3>6
    <2>10. left' \cap OpenEvents' = {} /\ Signal \notin left'
      BY <1>7, <1>8, <1>17, <2>5, <2>6 DEF InQueue
    <2> QED
      BY <1>9, <2>1, <2>9, <2>10 DEF InQueue
  <1>19. NoFdLeak'
    <2>1. FdOwned /\ FdOnce
      BY NoFdLeakIs
    <2>2. \A f : f \in FdsOf(c) <=> \E s \in Stream : f = fd[c][s] /\ f # -1
      BY DEF FdsOf, OpenStreams
    <2>3. \A d \in ToSet(linked) \ {c} : fd'[d] = fd[d]
      BY <1>10
    <2>4. FdOwned'
      <3> SUFFICES ASSUME NEW f
                   PROVE  f \in open \ FdsOf(c) <=>
                            \E d \in ToSet(linked) \ {c}, s \in Stream :
                              f = fd'[d][s] /\ f # -1
        BY <1>5, <1>7 DEF FdOwned
      <3>1. f \in open <=> \E d \in ToSet(linked), s \in Stream : f = fd[d][s] /\ f # -1
        BY <2>1 DEF FdOwned
      <3>2. ASSUME NEW d \in ToSet(linked) \ {c}, NEW s \in Stream, f = fd[d][s], f # -1
            PROVE  f \notin FdsOf(c)
        BY <1>4, <2>1, <2>2, <3>2 DEF FdOnce
      <3> QED
        BY <2>2, <2>3, <3>1, <3>2
    <2>5. FdOnce'
      BY <1>5, <2>1, <2>3 DEF FdOnce
    <2> QED
      BY <2>4, <2>5 DEF NoFdLeak, FdOwned, FdOnce, FdsOf, OpenStreams
  <1> QED
    BY <1>14, <1>15, <1>16, <1>18, <1>19

-----------------------------------------------------------------------------
(* The theorems.                                                           *)

LEMMA Start ==
  ASSUME Init
  PROVE  EventsInv
  <1>1. ToSet(queue) = {} /\ ToSet(linked) = {} /\ IsInjective(queue) /\ IsInjective(linked)
        /\ Len(linked) = 0 /\ OpenEvents = {}
    BY DEF Init, ToSet, IsInjective, OpenEvents
  <1>2. pm_max_children \in Nat \ {0} /\ pm_start_servers \in 1 .. pm_max_children
    BY FS_CardinalityType, EventsAssumption
  <1>3. forks \in 0 .. pm_max_children /\ Len(linked) + forks <= pm_max_children
    BY <1>1, <1>2 DEF Init
  <1>4. TypeOK
    <2>1. queue \in Seq(Event) /\ linked \in Seq(Child)
      BY DEF Init
    <2>2. /\ fd \in [Child -> [Stream -> Fds \cup {-1}]]
          /\ proc \in [Child -> {"none", "running", "zombie"}]
          /\ writer \in [Fds -> {"worker", "script", "none"}]
      BY DEF Init
    <2>3. /\ polled \subseteq Event /\ cursor \in Event \cup {Nil}
          /\ open \subseteq Fds /\ data \subseteq Fds /\ left \subseteq Event
          /\ sigchld \in BOOLEAN /\ unlogged \subseteq Child \X Stream
          /\ pc \in {"start", "init", "top", "fds", "bury", "restart", "spawn", "undefined"}
      BY DEF Init
    <2> QED
      BY <1>1, <1>3, <2>1, <2>2, <2>3 DEF TypeOK
  <1>5. Room /\ Walk /\ InQueue
    BY <1>1, <1>3, Events DEF Init, Room, Walk, InQueue
  <1>6. NoFdLeak
    BY <1>1 DEF Init, NoFdLeak
  <1> QED
    BY <1>4, <1>5, <1>6 DEF EventsInv

\* The inductive invariant: at every point of the loop, whatever the callbacks
\* did to the queue while the loop was walking over it.
THEOREM EventsInvariant == Spec => []EventsInv
  <1>1. Init => EventsInv
    BY Start
  <1>2. EventsInv /\ [Next]_vars => EventsInv'
    <2> SUFFICES ASSUME EventsInv, [Next]_vars
                 PROVE  EventsInv'
      OBVIOUS
    <2>1. CASE UNCHANGED vars
      <3>1. pc' = pc /\ UNCHANGED <<queue, left, polled, cursor, linked, fd, forks, proc,
                                    open, data, writer, sigchld, unlogged>>
        BY <2>1 DEF vars, loopVars, walkVars, childVars, kernelVars
      <3>2. TypeOK' /\ Room' /\ Walk'
        BY <3>1 DEF EventsInv, TypeOK, Room, Walk
      <3> QED
        BY <3>1, <3>2, SameQueue, SameFds DEF EventsInv
    <2>2. CASE Next
      BY <2>2, ForkStep, ForkFailsStep, AddSignalStep, PollStep, OtherSteps, ChildSaidStep,
         BuryStep, BuryDoneStep, WorkersStep DEF Next, Master
    <2> QED
      BY <2>1, <2>2
  <1> QED
    BY <1>1, <1>2, PTL DEF Spec

\* Type correctness: what the loop and the callbacks keep is well-formed, and
\* never more children are to be forked than a pool has.
THEOREM TypeCorrect == Spec => []TypeOK
  <1>1. EventsInv => TypeOK
    BY DEF EventsInv
  <1> QED
    BY <1>1, EventsInvariant, PTL

\* The master holds no end of a pipe but the reading ends of its children's, each
\* once: neither forks nor deaths leak one, nor a failure of a fork, of either
\* pipe() or of fd_set_blocked (fpm_stdio_prepare_pipes).
THEOREM PipesAreClosed == Spec => []NoFdLeak
  <1>1. EventsInv => NoFdLeak
    BY DEF EventsInv
  <1> QED
    BY <1>1, EventsInvariant, PTL

\* Two events for a child, and the signal pipe's, are all the loop has: they
\* fit in the array.
LEMMA QueueFits ==
  ASSUME EventsInv, left = {}
  PROVE  Len(queue) <= fpm_event_nfds_max
  <1> DEFINE P == ToSet(linked) \X Stream
  <1>1. /\ queue \in Seq(Event) /\ IsInjective(queue)
        /\ linked \in Seq(Child) /\ Len(linked) <= pm_max_children
        /\ Len(linked) \in Nat /\ pm_max_children \in Nat
    BY LenProperties, FS_CardinalityType, EventsAssumption
       DEF EventsInv, TypeOK, InQueue, Room
  <1>2. IsFiniteSet(ToSet(linked)) /\ Cardinality(ToSet(linked)) <= Len(linked)
    <2>1. linked \in Surjection(1 .. Len(linked), ToSet(linked))
      <3>1. linked \in [1 .. Len(linked) -> ToSet(linked)]
        BY <1>1, Members
      <3> QED
        BY <1>1, <3>1, Members DEF Surjection
    <2>2. IsFiniteSet(1 .. Len(linked)) /\ Cardinality(1 .. Len(linked)) = Len(linked)
      <3>1. 1 \in Int /\ Len(linked) \in Int
        BY <1>1
      <3>2. /\ IsFiniteSet(1 .. Len(linked))
            /\ Cardinality(1 .. Len(linked)) =
                 IF 1 > Len(linked) THEN 0 ELSE Len(linked) - 1 + 1
        BY <3>1, FS_Interval
      <3> QED
        BY <1>1, <3>2
    <2> QED
      BY <2>1, <2>2, FS_Surjection
  <1>3. IsFiniteSet(Stream) /\ Cardinality(Stream) = 2
    <2>1. Stream = {"stdout"} \cup {"stderr"} /\ "stderr" \notin {"stdout"}
      BY DEF Stream
    <2>2. IsFiniteSet({"stdout"}) /\ Cardinality({"stdout"}) = 1
      BY FS_Singleton
    <2>3. /\ IsFiniteSet({"stdout"} \cup {"stderr"})
          /\ Cardinality({"stdout"} \cup {"stderr"}) =
               IF "stderr" \in {"stdout"} THEN Cardinality({"stdout"})
               ELSE Cardinality({"stdout"}) + 1
      BY <2>2, FS_AddElement
    <2> QED
      BY <2>1, <2>2, <2>3
  <1>4. IsFiniteSet(P) /\ Cardinality(P) = Cardinality(ToSet(linked)) * 2
    BY <1>2, <1>3, FS_Product
  <1> HIDE DEF P
  <1>5. IsFiniteSet(P \cup {Signal}) /\ Cardinality(P \cup {Signal}) <= Cardinality(P) + 1
    <2>1. Cardinality(P) \in Nat
      BY <1>4, FS_CardinalityType
    <2> QED
      BY <1>4, <2>1, FS_AddElement
  <1>6. ToSet(queue) \subseteq P \cup {Signal}
    BY DEF EventsInv, InQueue, OpenEvents, P
  <1>7. queue \in Injection(1 .. Len(queue), P \cup {Signal})
    <2>1. queue \in [1 .. Len(queue) -> P \cup {Signal}]
      BY <1>1, <1>6, Members
    <2> QED
      BY <1>1, <2>1, Members DEF IsInjective, Injection
  <1>8. Len(queue) <= Cardinality(P \cup {Signal})
    <2>1. Len(queue) \in Nat
      BY <1>1, LenProperties
    <2>2. Cardinality(1 .. Len(queue)) = Len(queue)
      <3>1. 1 \in Int /\ Len(queue) \in Int
        BY <2>1
      <3>2. Cardinality(1 .. Len(queue)) =
              IF 1 > Len(queue) THEN 0 ELSE Len(queue) - 1 + 1
        BY <3>1, FS_Interval
      <3> QED
        BY <2>1, <3>2
    <2> QED
      BY <1>5, <1>7, <2>2, FS_Injection
  <1>9. Cardinality(ToSet(linked)) \in Nat /\ Cardinality(P) \in Nat
        /\ Cardinality(P \cup {Signal}) \in Nat /\ Len(queue) \in Nat
    BY <1>1, <1>2, <1>4, <1>5, FS_CardinalityType, LenProperties
  <1> QED
    BY <1>1, <1>2, <1>4, <1>5, <1>8, <1>9 DEF fpm_event_nfds_max

\* Whenever the loop may look, the queue has the signal pipe and the open pipes
\* of the children, each once, and nothing else but what the closing of a held
\* pipe has left behind; without that they all fit in the array poll is given.
THEOREM QueueIsExact == Spec => []QueueMatchesPipes
  <1>1. EventsInv => QueueMatchesPipes
    BY QueueFits DEF EventsInv, InQueue, Walk, QueueMatchesPipes
  <1> QED
    BY <1>1, EventsInvariant, PTL

-----------------------------------------------------------------------------
(* The output of the workers.                                              *)

\* What is unlogged is in an open pipe, and what is in a pipe is unlogged.
LoggedInv ==
  /\ unlogged \subseteq OpenEvents
  /\ \A f : f \in data <=> \E e \in unlogged : f = fd[e[1]][e[2]]

LEMMA LoggedIs == EventsInv /\ LoggedInv => OutputLogged
  <1> SUFFICES ASSUME EventsInv, LoggedInv
               PROVE  OutputLogged
    OBVIOUS
  <1>1. \A e \in unlogged : FdOf(e) = fd[e[1]][e[2]]
    BY OpenEventsAre, Events DEF LoggedInv, EventsInv, FdOf
  <1>2. data = {FdOf(e) : e \in unlogged}
    BY <1>1 DEF LoggedInv
  <1>3. OpenEvents \subseteq ToSet(queue)
    BY DEF EventsInv, InQueue
  <1> QED
    BY <1>2, <1>3 DEF LoggedInv, OutputLogged

\* Nobody writes, reads, or opens or closes a pipe.
LEMMA LoggedStays ==
  ASSUME LoggedInv, UNCHANGED <<linked, fd, data, unlogged>>
  PROVE  LoggedInv'
  BY SameOpen DEF LoggedInv

LEMMA WorkersKeepLogged ==
  ASSUME EventsInv, LoggedInv, Workers
  PROVE  LoggedInv'
  <1>1. CASE worker_writes
    <2>1. PICK c \in ToSet(linked), s \in Written :
            /\ fd[c][s] # -1 /\ data' = data \cup {fd[c][s]}
            /\ unlogged' = unlogged \cup {<<c, s>>}
      BY <1>1 DEF worker_writes
    <2>2. UNCHANGED <<linked, fd>>
      BY <1>1 DEF worker_writes, childVars
    <2>3. <<c, s>> \in OpenEvents
      BY <2>1, OpenEventsAre, EventsAssumption DEF EventsInv
    <2>4. PICK e : e = <<c, s>>
      OBVIOUS
    <2>5. e[1] = c /\ e[2] = s
      BY <2>4
    <2> QED
      BY <2>1, <2>2, <2>3, <2>4, <2>5, SameOpen DEF LoggedInv
  <1>2. CASE worker_dies \/ process_exits
    BY <1>2, LoggedStays DEF worker_dies, process_exits, childVars
  <1> QED
    BY <1>1, <1>2 DEF Workers

\* A new child has new pipes; those of the others are not touched.
LEMMA ForkKeepsLogged ==
  ASSUME EventsInv, EventsInv', LoggedInv, fork
  PROVE  LoggedInv'
  <1>1. PICK c \in Child \ ToSet(linked),
             out \in Fds, outw \in Fds, err \in Fds, errw \in Fds :
          /\ fpm_stdio_parent_use_pipes(c, out, outw, err, errw)
          /\ linked' = <<c>> \o linked
    BY DEF fork
  <1>2. UNCHANGED <<data, unlogged>>
    BY DEF fork
  <1>3. fd' = [fd EXCEPT ![c] = [stdout |-> out, stderr |-> err]]
    BY <1>1 DEF fpm_stdio_parent_use_pipes
  <1>4. \A d \in ToSet(linked) : d # c /\ d \in Child /\ fd'[d] = fd[d]
    BY <1>1, <1>3, Members DEF EventsInv, TypeOK
  <1>5. ToSet(linked) \subseteq ToSet(linked')
    BY <1>1, ConsLemma DEF EventsInv, TypeOK
  <1>6. \A e \in unlogged : e[1] \in ToSet(linked) /\ e = <<e[1], e[2]>>
    BY OpenEventsAre DEF LoggedInv, EventsInv
  <1>7. \A e \in unlogged : e \in OpenEvents' /\ fd'[e[1]][e[2]] = fd[e[1]][e[2]]
    <2> SUFFICES ASSUME NEW e \in unlogged
                 PROVE  e \in OpenEvents' /\ fd'[e[1]][e[2]] = fd[e[1]][e[2]]
      OBVIOUS
    <2>1. e[1] \in ToSet(linked) /\ e[2] \in Stream /\ fd[e[1]][e[2]] # -1 /\ e = <<e[1], e[2]>>
      BY <1>6, OpenEventsAre DEF LoggedInv, EventsInv
    <2>2. fd'[e[1]] = fd[e[1]] /\ e[1] \in ToSet(linked')
      BY <1>4, <1>5, <2>1
    <2> QED
      BY <2>1, <2>2 DEF OpenEvents
  <1> QED
    BY <1>2, <1>7 DEF LoggedInv

\* The callback reads all that is in the pipe of its event, and only there.
LEMMA ChildSaidKeepsLogged ==
  ASSUME EventsInv, LoggedInv, fpm_stdio_child_said
  PROVE  LoggedInv'
  <1>1. cursor \notin left \cup {Nil, Signal} /\ pc = "fds" /\ linked' = linked
        /\ unlogged' = unlogged \ {cursor}
    BY DEF fpm_stdio_child_said
  <1>2. cursor \in OpenEvents
    BY <1>1 DEF EventsInv, Walk, InQueue
  <1>3. PICK c \in ToSet(linked), s \in Stream : cursor = <<c, s>> /\ fd[c][s] # -1
    BY <1>2, OpenEventsAre DEF EventsInv
  <1>4. PICK f : f = fd[c][s]
    OBVIOUS
  <1>5. cursor[1] = c /\ cursor[2] = s
    BY <1>3
  <1>6. data' = data \ {f} /\ (fd' = fd \/ fd' = [fd EXCEPT ![c][s] = -1])
    BY <1>4, <1>5 DEF fpm_stdio_child_said
  <1>7. fd \in [Child -> [Stream -> Fds \cup {-1}]] /\ ToSet(linked) \subseteq Child
    BY Members DEF EventsInv, TypeOK
  <1>8. ASSUME NEW e \in unlogged, e # cursor
        PROVE  e \in OpenEvents' /\ fd'[e[1]][e[2]] = fd[e[1]][e[2]] /\ fd[e[1]][e[2]] # f
    <2>1. e[1] \in ToSet(linked) /\ e[2] \in Stream /\ fd[e[1]][e[2]] # -1 /\ e = <<e[1], e[2]>>
      BY OpenEventsAre DEF LoggedInv, EventsInv
    <2>2. e[1] # c \/ e[2] # s
      BY <1>3, <1>8, <2>1
    <2>3. fd'[e[1]][e[2]] = fd[e[1]][e[2]]
      <3>1. CASE fd' = [fd EXCEPT ![c][s] = -1]
        <4>1. fd[e[1]] \in [Stream -> Fds \cup {-1}] /\ fd[c] \in [Stream -> Fds \cup {-1}]
          BY <1>3, <1>7, <2>1
        <4> QED
          BY <1>3, <1>7, <2>1, <2>2, <3>1, <4>1
      <3> QED
        BY <1>6, <3>1
    <2>4. fd[e[1]][e[2]] # f
      BY <1>3, <1>4, <2>1, <2>2, NoFdLeakIs DEF EventsInv, FdOnce
    <2>5. e \in OpenEvents'
      BY <1>1, <2>1, <2>3 DEF OpenEvents
    <2> QED
      BY <2>3, <2>4, <2>5
  <1>9. \A g : g \in data' <=> \E e \in unlogged : e # cursor /\ g = fd[e[1]][e[2]]
    BY <1>4, <1>5, <1>6, <1>8 DEF LoggedInv
  <1> QED
    BY <1>1, <1>8, <1>9 DEF LoggedInv

\* The callbacks have a last look at the pipes of the dead before they are closed.
LEMMA BuryKeepsLogged ==
  ASSUME EventsInv, LoggedInv, bury_child
  PROVE  LoggedInv'
  <1>1. PICK i \in DOMAIN linked :
          /\ fpm_child_close(linked[i])
          /\ fd' = [fd EXCEPT ![linked[i]] = [s \in Stream |-> -1]]
          /\ linked' = RemoveAt(linked, i)
    BY DEF bury_child
  <1>2. PICK c : c = linked[i]
    OBVIOUS
  <1>3. data' = data \ FdsOf(c) /\ unlogged' = unlogged \ ({c} \X Stream)
    BY <1>1, <1>2 DEF fpm_child_close
  <1>4. linked \in Seq(Child) /\ IsInjective(linked) /\ ToSet(linked) \subseteq Child
        /\ i \in 1 .. Len(linked) /\ c \in ToSet(linked)
    BY <1>1, <1>2, Members DEF EventsInv, TypeOK
  <1>5. ToSet(linked') = ToSet(linked) \ {c}
    BY <1>1, <1>2, <1>4, RemoveAtLemma
  <1>6. \A d \in ToSet(linked) : d # c => fd'[d] = fd[d]
    BY <1>1, <1>2, <1>4 DEF EventsInv, TypeOK
  <1>7. ASSUME NEW e \in unlogged
        PROVE  /\ e[1] = c => e \notin unlogged' /\ fd[e[1]][e[2]] \in FdsOf(c)
               /\ e[1] # c => /\ e \in unlogged' /\ e \in OpenEvents'
                              /\ fd'[e[1]][e[2]] = fd[e[1]][e[2]]
                              /\ fd[e[1]][e[2]] \notin FdsOf(c)
    <2>1. e[1] \in ToSet(linked) /\ e[2] \in Stream /\ fd[e[1]][e[2]] # -1 /\ e = <<e[1], e[2]>>
      BY OpenEventsAre DEF LoggedInv, EventsInv
    <2>2. ASSUME e[1] = c
          PROVE  e \notin unlogged' /\ fd[e[1]][e[2]] \in FdsOf(c)
      BY <1>3, <2>1, <2>2 DEF FdsOf, OpenStreams
    <2>3. ASSUME e[1] # c
          PROVE  /\ e \in unlogged' /\ e \in OpenEvents'
                 /\ fd'[e[1]][e[2]] = fd[e[1]][e[2]]
                 /\ fd[e[1]][e[2]] \notin FdsOf(c)
      <3>1. e \in unlogged' /\ fd'[e[1]] = fd[e[1]] /\ e[1] \in ToSet(linked')
        BY <1>3, <1>5, <1>6, <2>1, <2>3
      <3>2. e \in OpenEvents'
        BY <2>1, <3>1 DEF OpenEvents
      <3>3. fd[e[1]][e[2]] \notin FdsOf(c)
        BY <1>4, <2>1, <2>3, NoFdLeakIs DEF EventsInv, FdOnce, FdsOf, OpenStreams
      <3> QED
        BY <3>1, <3>2, <3>3
    <2> QED
      BY <2>2, <2>3
  <1>8. unlogged' \subseteq unlogged
    BY <1>3
  <1>9. \A g : g \in data' <=> \E e \in unlogged' : g = fd[e[1]][e[2]]
    BY <1>3, <1>7, <1>8 DEF LoggedInv
  <1>10. \A e \in unlogged' : e[1] # c
    BY <1>7, <1>8
  <1> QED
    BY <1>7, <1>8, <1>9, <1>10 DEF LoggedInv

\* What a worker has written is never thrown away and never taken for that of
\* another: until it is read it is in its own open pipe, whose event is in the
\* queue, also when the worker is buried before the loop comes to that event.
THEOREM OutputIsLogged == Spec => []OutputLogged
  <1>1. Init => LoggedInv
    BY DEF Init, LoggedInv
  <1>2. EventsInv /\ EventsInv' /\ LoggedInv /\ [Next]_vars => LoggedInv'
    <2> SUFFICES ASSUME EventsInv, EventsInv', LoggedInv, [Next]_vars
                 PROVE  LoggedInv'
      OBVIOUS
    <2>1. CASE \/ fork_fails \/ add_signal_event \/ poll \/ read_freed_event
               \/ fpm_got_signal \/ timers \/ bury_done \/ undefined \/ UNCHANGED vars
      <3>1. UNCHANGED <<linked, fd, data, unlogged>>
        BY <2>1 DEF fork_fails, add_signal_event, poll, read_freed_event, fpm_got_signal,
                    timers, bury_done, undefined, vars, childVars, kernelVars
      <3> QED
        BY <3>1, LoggedStays
    <2> QED
      BY <2>1, WorkersKeepLogged, ForkKeepsLogged, ChildSaidKeepsLogged, BuryKeepsLogged
      DEF Next, Master
  <1> QED
    BY <1>1, <1>2, EventsInvariant, LoggedIs, PTL DEF Spec

=============================================================================
