--------------------------- MODULE FpmStatusProofs ---------------------------
(***************************************************************************)
(* The status record never shows more than there was, and it is exact as   *)
(* long as no two updates have met: for any number of workers, and however *)
(* the record is cut into words when it is copied.                         *)
(***************************************************************************)
EXTENDS FpmStatus, FiniteSetTheorems, TLAPS

USE DEF Fields

-----------------------------------------------------------------------------
(* The words.                                                              *)

\* The record is copied in at least one word, and every field is in one.
LEMMA WordsCover ==
  /\ N \in Nat /\ N >= 1
  /\ \A f \in Fields : \E i \in 1 .. N : f \in Words[i]
<1>1. Words \in Seq(SUBSET Fields) /\ DOMAIN Words = 1 .. Len(Words)
      /\ Len(Words) \in Nat
  BY StatusAssumption
<1>2. \A f \in Fields : \E i \in 1 .. N : f \in Words[i]
  BY <1>1, StatusAssumption DEF N
<1>3. PICK i \in 1 .. N : "idle" \in Words[i]
  BY <1>2
<1> QED
  BY <1>1, <1>2, <1>3 DEF N

LEMMA CopyWordType ==
  ASSUME NEW from \in Counts, NEW to \in Counts, NEW i
  PROVE  CopyWord(from, to, i) \in Counts
BY DEF CopyWord, Counts

LEMMA RecordsAreCounts == Zero \in Counts /\ InitialStatus \in Counts
BY DEF Zero, InitialStatus, Counts

LEMMA IdleCounts ==
  ASSUME alive \subseteq Workers
  PROVE  Cardinality(Idle) \in Nat /\ Cardinality(alive \ Idle) \in Nat
<1>1. IsFiniteSet(Idle) /\ IsFiniteSet(alive \ Idle)
  BY StatusAssumption, FS_Subset DEF Idle
<1> QED
  BY <1>1, FS_CardinalityType

LEMMA ChangedType ==
  ASSUME NEW s \in Counts, NEW f, counted \in [idle : Nat, active : Nat]
  PROVE  Changed(s, f) \in Counts
<1> DEFINE total == counted.idle + counted.active
<1>1. counted.idle \in Nat /\ counted.active \in Nat /\ total \in Nat
  OBVIOUS
<1>2. CASE f = "increment_accepted_conn"
  <2>1. Changed(s, f) = [s EXCEPT !.accepted_conn = s.accepted_conn + 1]
    BY <1>2 DEF Changed
  <2>2. s.accepted_conn + 1 \in Nat
    BY DEF Counts
  <2> QED BY <2>1, <2>2 DEF Counts
<1>3. CASE f = "increment_max_children_reached"
  <2>1. Changed(s, f)
          = [s EXCEPT !.max_children_reached = s.max_children_reached + 1]
    BY <1>3 DEF Changed
  <2>2. s.max_children_reached + 1 \in Nat
    BY DEF Counts
  <2> QED BY <2>1, <2>2 DEF Counts
<1>4. CASE f = "update_activity"
  <2>1. Changed(s, f) = [s EXCEPT !.idle = counted.idle,
                                  !.active = counted.active, !.total = total]
    BY <1>4 DEF Changed
  <2> HIDE DEF total
  <2> QED BY <1>1, <2>1 DEF Counts
<1>5. CASE f \notin Updates
  <2>1. Changed(s, f) = s
    BY <1>5 DEF Changed, Updates
  <2> QED BY <2>1
<1> QED
  BY <1>2, <1>3, <1>4, <1>5 DEF Updates

-----------------------------------------------------------------------------
(* Types.                                                                  *)

LEMMA CallType ==
  ASSUME TypeOK, NEW p \in Processes, NEW f \in Updates \cup {"handle_status"},
         Call(p, f)
  PROVE  /\ shm' \in Counts
         /\ op' \in [Processes -> Updates \cup {"none", "handle_status"}]
         /\ status' \in [Processes -> Counts]
         /\ copied' \in [Processes -> 0 .. (2 * N - 1)]
         /\ raced' \in BOOLEAN
<1>1. 0 \in 0 .. (2 * N - 1)
  BY WordsCover
<1>2. raced' \in BOOLEAN
  BY DEF Call, Meets, TypeOK
<1>2a. f \in Updates \cup {"none", "handle_status"}
  OBVIOUS
<1>3. /\ op' = [op EXCEPT ![p] = f]
      /\ status' = [status EXCEPT ![p] = Zero]
      /\ copied' = [copied EXCEPT ![p] = 0]
      /\ shm' = shm
  BY DEF Call
<1> QED
  BY <1>1, <1>2, <1>2a, <1>3, RecordsAreCounts DEF TypeOK

LEMMA InitTypeOK == Init => TypeOK
<1>1. 0 \in 0 .. (2 * N - 1)
  BY WordsCover
<1> SUFFICES ASSUME Init PROVE TypeOK
  OBVIOUS
<1>2. alive \subseteq Workers
  BY DEF Init
<1>3. shm \in Counts /\ status \in [Processes -> Counts]
  BY RecordsAreCounts DEF Init
<1>4. copied \in [Processes -> 0 .. (2 * N - 1)]
  BY <1>1 DEF Init
<1>5. /\ op \in [Processes -> Updates \cup {"none", "handle_status"}]
      /\ stage \in [Workers -> {"idle", "busy"}]
      /\ counted \in [idle : Nat, active : Nat]
      /\ served \in Nat /\ reached \in Nat /\ deaths \in Nat
  BY DEF Init, NothingCounted
<1> QED
  BY <1>2, <1>3, <1>4, <1>5 DEF Init, TypeOK

\* One step per action.
LEMMA TypeStep == TypeOK /\ [Next]_vars => TypeOK'
<1> SUFFICES ASSUME TypeOK, [Next]_vars PROVE TypeOK'
  OBVIOUS
<1> USE DEF poolVars, masterVars, truthVars
<1>0. N \in Nat /\ N >= 1 /\ 0 \in 0 .. (2 * N - 1)
  BY WordsCover
<1>1. CASE UNCHANGED vars
  BY <1>1 DEF TypeOK, vars, shmVars
<1>2. ASSUME NEW p \in Processes, copy_in(p) PROVE TypeOK'
  <2> DEFINE i == copied[p] + 1
             s == CopyWord(shm, status[p], i)
  <2>1. shm \in Counts /\ status[p] \in Counts
    BY DEF TypeOK
  <2>2. s \in Counts
    BY <2>1, CopyWordType
  <2>3. Changed(s, op[p]) \in Counts
    BY <2>2, ChangedType DEF TypeOK
  <2>4. copied[p] \in 0 .. (2 * N - 1) /\ copied[p] < N
    BY <1>2 DEF copy_in, TypeOK
  <2>5. i \in 0 .. (2 * N - 1)
    BY <1>0, <2>4
  <2>6. /\ copied' = [copied EXCEPT ![p] = i]
        /\ status' = [status EXCEPT ![p] =
                        IF i = N THEN Changed(s, op[p]) ELSE s]
        /\ served' = served + One(i = N /\ op[p] = "increment_accepted_conn")
        /\ reached' = reached
              + One(i = N /\ op[p] = "increment_max_children_reached")
        /\ UNCHANGED <<shm, op, raced, poolVars, masterVars>>
    BY <1>2 DEF copy_in
  <2> HIDE DEF i, s
  <2>7. served' \in Nat /\ reached' \in Nat
    BY <2>6 DEF One, TypeOK
  <2> QED
    BY <2>2, <2>3, <2>5, <2>6, <2>7 DEF TypeOK
<1>3. ASSUME NEW p \in Processes, copy_out(p) PROVE TypeOK'
  <2> DEFINE i == copied[p] - N + 1
  <2>1. shm' \in Counts
    BY <1>3, CopyWordType DEF copy_out, TypeOK
  <2>2. copied[p] \in 0 .. (2 * N - 1) /\ copied[p] >= N
    BY <1>3 DEF copy_out, TypeOK
  <2>3. i # N => copied[p] + 1 \in 0 .. (2 * N - 1)
    BY <1>0, <2>2
  <2>4. /\ IF i = N
           THEN /\ op' = [op EXCEPT ![p] = "none"]
                /\ copied' = [copied EXCEPT ![p] = 0]
                /\ status' = [status EXCEPT ![p] = Zero]
           ELSE /\ copied' = [copied EXCEPT ![p] = copied[p] + 1]
                /\ UNCHANGED <<op, status>>
        /\ UNCHANGED <<raced, poolVars, masterVars, truthVars>>
    BY <1>3 DEF copy_out
  <2> HIDE DEF i
  <2> QED
    BY <1>0, <2>1, <2>3, <2>4, RecordsAreCounts DEF TypeOK
<1>4. ASSUME NEW w \in Workers, show_page(w) PROVE TypeOK'
  BY <1>0, <1>4, RecordsAreCounts DEF show_page, TypeOK, Processes
<1>5. ASSUME NEW w \in Workers, fpm_request_reading_headers(w) PROVE TypeOK'
  <2>1. Call(w, "increment_accepted_conn")
    BY <1>5 DEF fpm_request_reading_headers
  <2> QED
    BY <1>5, <2>1, CallType
    DEF fpm_request_reading_headers, TypeOK, Processes, Updates
<1>6. ASSUME NEW w \in Workers, fpm_status_handle_status(w) PROVE TypeOK'
  <2>1. Call(w, "handle_status")
    BY <1>6 DEF fpm_status_handle_status
  <2> QED
    BY <1>6, <2>1, CallType
    DEF fpm_status_handle_status, TypeOK, Processes, Updates
<1>7. ASSUME NEW w \in Workers, fpm_request_accepting(w) PROVE TypeOK'
  BY <1>7 DEF fpm_request_accepting, TypeOK, shmVars
<1>8. ASSUME NEW w \in Workers, worker_dies(w) PROVE TypeOK'
  BY <1>0, <1>8, RecordsAreCounts DEF worker_dies, TypeOK, Processes
<1>9. CASE fpm_status_update_activity
  <2>1. Call(Master, "update_activity")
    BY <1>9 DEF fpm_status_update_activity
  <2>2. counted' \in [idle : Nat, active : Nat]
    BY <1>9, IdleCounts DEF fpm_status_update_activity, TypeOK
  <2> QED
    BY <1>9, <2>1, <2>2, CallType
    DEF fpm_status_update_activity, TypeOK, Processes, Updates
<1>10. CASE enough_idle
  BY <1>10 DEF enough_idle, Decides, NothingCounted, TypeOK, shmVars
<1>11. CASE report_max_children
  <2>1. CASE warn_max_children
    BY <1>11, <2>1
    DEF report_max_children, Decides, NothingCounted, TypeOK, shmVars
  <2>2. CASE ~warn_max_children
    <3>1. Call(Master, "increment_max_children_reached")
      BY <1>11, <2>2 DEF report_max_children
    <3> QED
      BY <1>11, <3>1, CallType
      DEF report_max_children, Decides, NothingCounted, TypeOK, Processes,
          Updates
  <2> QED BY <2>1, <2>2
<1>12. CASE spawn_children
  BY <1>12 DEF spawn_children, Decides, NothingCounted, TypeOK, shmVars
<1> QED
  BY <1>1, <1>2, <1>3, <1>4, <1>5, <1>6, <1>7, <1>8, <1>9, <1>10, <1>11, <1>12
  DEF Next, Copies, MasterSteps

\* Every number in the record and in the copies keeps its meaning, for any
\* number of workers and any way the record is cut into words.
THEOREM StatusTypeCorrect == Spec => []TypeOK
<1> QED
  BY InitTypeOK, TypeStep, PTL DEF Spec

-----------------------------------------------------------------------------
(* The upper bound.                                                        *)

NotOver(s) == s.accepted_conn <= served /\ s.max_children_reached <= reached

\* The record never shows more than there was because no copy of it does.
CountInv ==
  /\ TypeOK
  /\ NotOver(shm)
  /\ \A p \in Processes : NotOver(status[p])

\* The counters of a copy are among those it was made from.
LEMMA CopyWordCounters ==
  ASSUME NEW from, NEW to, NEW i
  PROVE  \A f \in Fields : CopyWord(from, to, i)[f] \in {from[f], to[f]}
BY DEF CopyWord

LEMMA ChangedCounters ==
  ASSUME NEW s \in Counts, NEW f
  PROVE  /\ Changed(s, f).accepted_conn
              = s.accepted_conn + One(f = "increment_accepted_conn")
         /\ Changed(s, f).max_children_reached
              = s.max_children_reached
                  + One(f = "increment_max_children_reached")
<1>1. s.accepted_conn + 0 = s.accepted_conn
      /\ s.max_children_reached + 0 = s.max_children_reached
  BY DEF Counts
<1>2. CASE f = "increment_accepted_conn"
  BY <1>1, <1>2 DEF Changed, One, Counts
<1>3. CASE f = "increment_max_children_reached"
  BY <1>1, <1>3 DEF Changed, One, Counts
<1>4. CASE f = "update_activity"
  <2> DEFINE total == counted.idle + counted.active
  <2>1. Changed(s, f) = [s EXCEPT !.idle = counted.idle,
                                  !.active = counted.active, !.total = total]
    BY <1>4 DEF Changed
  <2> HIDE DEF total
  <2> QED BY <1>1, <1>4, <2>1 DEF One, Counts
<1>5. CASE f \notin Updates
  BY <1>1, <1>5 DEF Changed, One, Updates
<1> QED
  BY <1>2, <1>3, <1>4, <1>5 DEF Updates

LEMMA CountStep == CountInv /\ [Next]_vars => CountInv'
<1> SUFFICES ASSUME CountInv, [Next]_vars PROVE CountInv'
  OBVIOUS
<1>0. TypeOK /\ TypeOK'
  BY TypeStep DEF CountInv
<1> USE DEF poolVars, masterVars, truthVars
<1>z. Zero.accepted_conn = 0 /\ Zero.max_children_reached = 0
  BY DEF Zero
<1>1. ASSUME UNCHANGED <<shm, status, served, reached>> PROVE CountInv'
  BY <1>0, <1>1 DEF CountInv, NotOver
<1>2. ASSUME NEW p \in Processes, copy_in(p) PROVE CountInv'
  <2> DEFINE i == copied[p] + 1
             s == CopyWord(shm, status[p], i)
  <2>1. shm \in Counts /\ status[p] \in Counts /\ served \in Nat
        /\ reached \in Nat /\ status \in [Processes -> Counts]
    BY <1>0 DEF TypeOK
  <2>2. s \in Counts
    BY <2>1, CopyWordType
  <2>3. NotOver(s)
    BY <2>1, <2>2, CopyWordCounters DEF CountInv, NotOver
  <2>4. /\ status' = [status EXCEPT ![p] =
                        IF i = N THEN Changed(s, op[p]) ELSE s]
        /\ served' = served + One(i = N /\ op[p] = "increment_accepted_conn")
        /\ reached' = reached
              + One(i = N /\ op[p] = "increment_max_children_reached")
        /\ shm' = shm
    BY <1>2 DEF copy_in
  <2> HIDE DEF i, s
  <2>5. served' >= served /\ reached' >= reached
        /\ served' \in Nat /\ reached' \in Nat
    BY <2>1, <2>4 DEF One
  <2>6. NotOver(status[p])'
    <3>1. CASE i = N
      <4>1. status'[p] = Changed(s, op[p])
        BY <2>1, <2>4, <3>1
      <4>2. /\ served' = served + One(op[p] = "increment_accepted_conn")
            /\ reached' = reached
                            + One(op[p] = "increment_max_children_reached")
        BY <2>4, <3>1 DEF One
      <4>3. s.accepted_conn \in Int /\ s.max_children_reached \in Int
        BY <2>2 DEF Counts
      <4>4. /\ Changed(s, op[p]).accepted_conn <= served'
            /\ Changed(s, op[p]).max_children_reached <= reached'
        BY <2>1, <2>2, <2>3, <4>2, <4>3, ChangedCounters DEF NotOver, One
      <4> QED BY <4>1, <4>4 DEF NotOver
    <3>2. CASE i # N
      <4>1. status'[p] = s
        BY <2>1, <2>4, <3>2
      <4>2. s.accepted_conn \in Int /\ s.max_children_reached \in Int
        BY <2>2 DEF Counts
      <4> QED BY <2>1, <2>3, <2>5, <4>1, <4>2 DEF NotOver
    <3> QED BY <3>1, <3>2
  <2>7. \A q \in Processes \ {p} : NotOver(status[q])'
    <3> TAKE q \in Processes \ {p}
    <3>1. status'[q] = status[q] /\ status[q] \in Counts
      BY <2>1, <2>4
    <3> QED BY <2>1, <2>5, <3>1 DEF CountInv, NotOver, Counts
  <2>8. NotOver(shm)'
    BY <2>1, <2>4, <2>5 DEF CountInv, NotOver, Counts
  <2> QED BY <1>0, <2>6, <2>7, <2>8 DEF CountInv
<1>3. ASSUME NEW p \in Processes, copy_out(p) PROVE CountInv'
  <2> DEFINE i == copied[p] - N + 1
  <2>1. shm' = CopyWord(status[p], shm, i) /\ served' = served
        /\ reached' = reached
    BY <1>3 DEF copy_out
  <2>2. NotOver(shm)'
    BY <2>1, CopyWordCounters DEF CountInv, NotOver
  <2>3. status' = status \/ status' = [status EXCEPT ![p] = Zero]
    BY <1>3 DEF copy_out
  <2>4. \A q \in Processes : NotOver(status[q])'
    BY <1>0, <1>z, <2>1, <2>3 DEF CountInv, NotOver, TypeOK
  <2> QED BY <1>0, <2>2, <2>4 DEF CountInv
<1>4. ASSUME NEW p \in Processes, status' = [status EXCEPT ![p] = Zero],
             UNCHANGED <<shm, served, reached>>
      PROVE  CountInv'
  BY <1>0, <1>z, <1>4 DEF CountInv, NotOver, TypeOK
<1>5. CASE UNCHANGED vars
  BY <1>1, <1>5 DEF vars, shmVars
<1>6. ASSUME NEW w \in Workers,
             show_page(w) \/ fpm_request_reading_headers(w)
               \/ fpm_status_handle_status(w) \/ worker_dies(w)
      PROVE  CountInv'
  <2>1. w \in Processes
    BY DEF Processes
  <2> QED
    BY <1>4, <1>6, <2>1
    DEF show_page, fpm_request_reading_headers, fpm_status_handle_status,
        worker_dies, Call
<1>7. ASSUME NEW w \in Workers, fpm_request_accepting(w) PROVE CountInv'
  BY <1>1, <1>7 DEF fpm_request_accepting, shmVars
<1>8. CASE MasterSteps
  <2>1. Master \in Processes
    BY DEF Processes
  <2>2. CASE fpm_status_update_activity
    BY <1>4, <2>1, <2>2 DEF fpm_status_update_activity, Call
  <2>3. CASE enough_idle \/ spawn_children
    BY <1>1, <2>3 DEF enough_idle, spawn_children, shmVars
  <2>4. CASE report_max_children
    BY <1>1, <1>4, <2>1, <2>4 DEF report_max_children, Call, shmVars
  <2> QED BY <1>8, <2>2, <2>3, <2>4 DEF MasterSteps
<1> QED
  BY <1>2, <1>3, <1>5, <1>6, <1>7, <1>8 DEF Next, Copies

\* Neither lost updates nor workers killed in the middle of a copy make the
\* status page show more connections, or more often a full pool, than there
\* were.
THEOREM StatusNeverOvercounts == Spec => []NeverOvercounts
<1>1. Init => CountInv
  <2> SUFFICES ASSUME Init PROVE CountInv
    OBVIOUS
  <2>1. shm = InitialStatus /\ served = 0 /\ reached = 0
        /\ \A p \in Processes : status[p] = Zero
    BY DEF Init
  <2> QED
    BY <2>1, InitTypeOK DEF CountInv, NotOver, Zero, InitialStatus
<1>2. CountInv => NeverOvercounts
  BY DEF CountInv, NotOver, NeverOvercounts
<1> QED
  BY <1>1, <1>2, CountStep, PTL DEF Spec

-----------------------------------------------------------------------------
(* Exactness.  The first k words of two records are the same:              *)

Agree(s, t, k) ==
  \A j \in 1 .. k : \A f \in Fields : f \in Words[j] => s[f] = t[f]

LEMMA AgreeAll ==
  ASSUME NEW s \in Counts, NEW t \in Counts, Agree(s, t, N)
  PROVE  s = t
BY WordsCover DEF Agree, Counts

LEMMA AgreeNext ==
  ASSUME NEW s, NEW t, NEW k \in Nat, Agree(s, t, k)
  PROVE  Agree(CopyWord(t, s, k + 1), t, k + 1)
BY DEF Agree, CopyWord

LEMMA AgreeNone == \A s, t : Agree(s, t, 0)
BY DEF Agree

Exact(s, n, m) ==
  /\ s.accepted_conn = n
  /\ s.max_children_reached = m
  /\ AddsUp(s)

ShowsCounted(s) == s.idle = counted.idle /\ s.active = counted.active

\* Between the master's update of the activity and what it decides on it.
Deciding == maintenance = "counted" /\ op[Master] # "update_activity"

Writing(p) == op[p] \in Updates /\ copied[p] >= N

\* Who calls what.
RoleInv ==
  /\ \A w \in Workers : op[w] # "update_activity"
  /\ op[Master] = "update_activity" => maintenance = "counted"
  /\ \A p \in Processes : op[p] = "handle_status" => copied[p] <= N

\* An update is alone; what has been read is what the record shows; the
\* record is exact, or the copy that is being written is.
AloneInv ==
  /\ \A p, q \in Processes :
       p # q /\ op[p] \in Updates => op[q] = "none"
  /\ (\A p \in Processes : ~Writing(p)) =>
       Exact(shm, served, reached) /\ (Deciding => ShowsCounted(shm))
  /\ \A p \in Processes : op[p] # "none" /\ copied[p] < N =>
       Agree(status[p], shm, copied[p])
  /\ \A p \in Processes : Writing(p) =>
       /\ Exact(status[p], served, reached)
       /\ Deciding \/ op[p] = "update_activity" => ShowsCounted(status[p])
       /\ Agree(shm, status[p], copied[p] - N)
  /\ \A p \in Processes : op[p] = "handle_status" /\ copied[p] = N =>
       AddsUp(status[p])

ExactInv ==
  /\ TypeOK
  /\ RoleInv
  /\ ~raced => AloneInv

LEMMA ChangedExact ==
  ASSUME TypeOK, NEW s \in Counts, NEW n \in Nat, NEW m \in Nat,
         Exact(s, n, m), NEW f
  PROVE  /\ Exact(Changed(s, f), n + One(f = "increment_accepted_conn"),
                  m + One(f = "increment_max_children_reached"))
         /\ f = "update_activity" => ShowsCounted(Changed(s, f))
         /\ f # "update_activity" =>
              /\ Changed(s, f).idle = s.idle
              /\ Changed(s, f).active = s.active
<1> DEFINE total == counted.idle + counted.active
           c == Changed(s, f)
<1>1. /\ c.accepted_conn = n + One(f = "increment_accepted_conn")
      /\ c.max_children_reached
           = m + One(f = "increment_max_children_reached")
  BY ChangedCounters DEF Exact
<1>2. CASE f = "update_activity"
  <2>1. c = [s EXCEPT !.idle = counted.idle,
                      !.active = counted.active, !.total = total]
    BY <1>2 DEF Changed
  <2>2. c.idle = counted.idle /\ c.active = counted.active /\ c.total = total
    BY <2>1 DEF Counts
  <2> QED BY <1>1, <1>2, <2>2 DEF Exact, AddsUp, ShowsCounted
<1>3. CASE f # "update_activity"
  <2>1. c.idle = s.idle /\ c.active = s.active /\ c.total = s.total
    BY <1>3 DEF Changed, Counts
  <2>2. AddsUp(c)
    BY <2>1 DEF Exact, AddsUp, Known
  <2> QED BY <1>1, <1>3, <2>1, <2>2 DEF Exact
<1> QED BY <1>2, <1>3

LEMMA RoleStep == TypeOK /\ RoleInv /\ [Next]_vars => RoleInv'
<1> SUFFICES ASSUME TypeOK, RoleInv, [Next]_vars PROVE RoleInv'
  OBVIOUS
<1> USE DEF poolVars, masterVars, truthVars
<1>0. N \in Nat /\ N >= 1 /\ Master \notin Workers
      /\ op \in [Processes -> Updates \cup {"none", "handle_status"}]
      /\ copied \in [Processes -> 0 .. (2 * N - 1)]
  BY WordsCover, StatusAssumption DEF TypeOK
<1>1. CASE UNCHANGED vars
  BY <1>1 DEF RoleInv, vars, shmVars
<1>2. ASSUME NEW p \in Processes, copy_in(p) PROVE RoleInv'
  BY <1>0, <1>2 DEF copy_in, RoleInv
<1>3. ASSUME NEW p \in Processes, copy_out(p) PROVE RoleInv'
  BY <1>0, <1>3 DEF copy_out, RoleInv, Updates, Processes
<1>4. ASSUME NEW w \in Workers, show_page(w) PROVE RoleInv'
  BY <1>0, <1>4 DEF show_page, RoleInv, Processes
<1>5. ASSUME NEW w \in Workers, fpm_request_reading_headers(w) PROVE RoleInv'
  BY <1>0, <1>5 DEF fpm_request_reading_headers, Call, RoleInv, Processes
<1>6. ASSUME NEW w \in Workers, fpm_status_handle_status(w) PROVE RoleInv'
  BY <1>0, <1>6 DEF fpm_status_handle_status, Call, RoleInv, Processes
<1>7. ASSUME NEW w \in Workers, fpm_request_accepting(w) PROVE RoleInv'
  BY <1>7 DEF fpm_request_accepting, RoleInv, shmVars
<1>8. ASSUME NEW w \in Workers, worker_dies(w) PROVE RoleInv'
  BY <1>0, <1>8 DEF worker_dies, RoleInv, Processes
<1>9. CASE fpm_status_update_activity
  BY <1>0, <1>9 DEF fpm_status_update_activity, Call, RoleInv, Processes
<1>10. CASE enough_idle \/ spawn_children
  BY <1>0, <1>10 DEF enough_idle, spawn_children, Decides, RoleInv, shmVars
<1>11. CASE report_max_children
  BY <1>0, <1>11
  DEF report_max_children, Decides, Call, RoleInv, Processes, shmVars
<1> QED
  BY <1>1, <1>2, <1>3, <1>4, <1>5, <1>6, <1>7, <1>8, <1>9, <1>10, <1>11
  DEF Next, Copies, MasterSteps

\* A call that meets no other leaves the record exact: nothing is written yet.
LEMMA CallAlone ==
  ASSUME TypeOK, AloneInv, ~raced', Master \in Processes,
         NEW p \in Processes, NEW f \in Updates \cup {"handle_status"},
         Call(p, f), UNCHANGED <<served, reached>>,
         Deciding' => Deciding /\ counted' = counted
  PROVE  AloneInv'
<1>0. N \in Nat /\ N >= 1
  BY WordsCover
<1>1. /\ op[p] = "none" /\ op' = [op EXCEPT ![p] = f]
      /\ copied' = [copied EXCEPT ![p] = 0]
      /\ status' = [status EXCEPT ![p] = Zero]
      /\ shm' = shm /\ ~raced /\ ~Meets(p, f)
      /\ served' = served /\ reached' = reached
  BY DEF Call
<1>2. /\ op \in [Processes -> Updates \cup {"none", "handle_status"}]
      /\ copied \in [Processes -> 0 .. (2 * N - 1)]
      /\ status \in [Processes -> Counts]
  BY DEF TypeOK
<1>3. \A q \in Processes \ {p} : op[q] # "none" =>
         f \notin Updates /\ op[q] \notin Updates
  BY <1>1 DEF Meets
<1>3a. "none" \notin Updates
  BY DEF Updates
<1>4. \A q \in Processes : ~Writing(q)
  BY <1>1, <1>3, <1>3a DEF Writing
<1>5. \A q \in Processes : ~Writing(q)'
  BY <1>0, <1>1, <1>2, <1>3, <1>3a DEF Writing
<1>6. \A q \in Processes : q = p \/ (op'[q] = op[q] /\ copied'[q] = copied[q]
                                     /\ status'[q] = status[q])
  BY <1>1, <1>2
<1>6a. op'[p] = f /\ copied'[p] = 0
  BY <1>1, <1>2
<1>7. \A q, r \in Processes : q # r /\ op'[q] \in Updates => op'[r] = "none"
  <2> SUFFICES ASSUME NEW q \in Processes, NEW r \in Processes,
                      q # r, op'[q] \in Updates
               PROVE  op'[r] = "none"
    OBVIOUS
  <2>1. CASE q = p
    BY <1>3, <1>6, <1>6a, <2>1
  <2>2. CASE q # p
    BY <1>3, <1>3a, <1>6, <2>2
  <2> QED BY <2>1, <2>2
<1>8. Exact(shm, served, reached)' /\ (Deciding => ShowsCounted(shm))'
  BY <1>1, <1>4 DEF AloneInv, Exact, AddsUp, Known, ShowsCounted
<1>9. \A q \in Processes : op'[q] # "none" /\ copied'[q] < N =>
         Agree(status'[q], shm', copied'[q])
  BY <1>1, <1>6, <1>6a, AgreeNone DEF AloneInv
<1>10. \A q \in Processes : op'[q] = "handle_status" /\ copied'[q] = N =>
         AddsUp(status'[q])
  BY <1>0, <1>6, <1>6a DEF AloneInv
<1> QED
  BY <1>5, <1>7, <1>8, <1>9, <1>10 DEF AloneInv, Exact, AddsUp, Known, Agree

LEMMA CopyInAlone ==
  ASSUME TypeOK, RoleInv, AloneInv, NEW p \in Processes, copy_in(p)
  PROVE  AloneInv'
<1> DEFINE i == copied[p] + 1
           s == CopyWord(shm, status[p], i)
<1>0. N \in Nat /\ N >= 1
  BY WordsCover
<1>1. /\ shm \in Counts /\ status \in [Processes -> Counts]
      /\ served \in Nat /\ reached \in Nat
      /\ copied \in [Processes -> 0 .. (2 * N - 1)]
      /\ status[p] \in Counts
  BY DEF TypeOK
<1>2. s \in Counts
  BY <1>1, CopyWordType
<1>3. /\ op[p] # "none" /\ copied[p] < N /\ copied[p] \in Nat
      /\ copied' = [copied EXCEPT ![p] = i]
      /\ status' = [status EXCEPT ![p] =
                      IF i = N THEN Changed(s, op[p]) ELSE s]
      /\ served' = served + One(i = N /\ op[p] = "increment_accepted_conn")
      /\ reached' = reached
            + One(i = N /\ op[p] = "increment_max_children_reached")
      /\ shm' = shm /\ op' = op /\ counted' = counted
      /\ maintenance' = maintenance
  BY <1>1 DEF copy_in, masterVars
<1>4. i \in 1 .. N
  BY <1>0, <1>3
<1>5. Agree(s, shm, i)
  <2>1. Agree(status[p], shm, copied[p])
    BY <1>3 DEF AloneInv
  <2> QED BY <1>3, <2>1, AgreeNext
<1>6. \A q \in Processes : ~Writing(q)
  <2>1. ~Writing(p)
    BY <1>0, <1>3 DEF Writing
  <2>2. \A q \in Processes \ {p} : ~Writing(q)
    BY <1>3 DEF AloneInv, Writing
  <2> QED BY <2>1, <2>2
<1>7. Exact(shm, served, reached) /\ (Deciding => ShowsCounted(shm))
  BY <1>6 DEF AloneInv
<1>8. \A q \in Processes \ {p} :
         op'[q] = op[q] /\ copied'[q] = copied[q] /\ status'[q] = status[q]
  BY <1>1, <1>3
<1>9. copied'[p] = i
      /\ status'[p] = IF i = N THEN Changed(s, op[p]) ELSE s
  BY <1>1, <1>3
<1> HIDE DEF i, s
<1>10. \A q, r \in Processes : q # r /\ op'[q] \in Updates => op'[r] = "none"
  BY <1>3 DEF AloneInv
<1>11. \A q \in Processes : op'[q] # "none" /\ copied'[q] < N =>
         Agree(status'[q], shm', copied'[q])
  BY <1>3, <1>4, <1>5, <1>8, <1>9 DEF AloneInv
<1>12. CASE i # N
  <2>1. served' = served /\ reached' = reached
    BY <1>1, <1>3, <1>12 DEF One
  <2>2. copied'[p] < N
    BY <1>0, <1>4, <1>9, <1>12
  <2>3. \A q \in Processes : ~Writing(q)'
    <3>1. ~Writing(p)'
      BY <1>0, <1>4, <1>9, <2>2 DEF Writing
    <3>2. \A q \in Processes \ {p} : ~Writing(q)'
      BY <1>6, <1>8 DEF Writing
    <3> QED BY <3>1, <3>2
  <2>4. Exact(shm, served, reached)' /\ (Deciding => ShowsCounted(shm))'
    BY <1>3, <1>7, <2>1 DEF Exact, AddsUp, Known, ShowsCounted, Deciding
  <2>5. \A q \in Processes : op'[q] = "handle_status" /\ copied'[q] = N =>
         AddsUp(status'[q])
    BY <1>0, <1>3, <1>8, <2>2 DEF AloneInv
  <2> QED
    BY <1>10, <1>11, <2>3, <2>4, <2>5
    DEF AloneInv, Agree, AddsUp, Known
<1>13. CASE i = N
  <2>1. s = shm
    BY <1>1, <1>2, <1>5, <1>13, AgreeAll
  <2>2. status'[p] = Changed(shm, op[p]) /\ copied'[p] = N
    BY <1>9, <1>13, <2>1
  <2>3. /\ served' = served + One(op[p] = "increment_accepted_conn")
        /\ reached' = reached + One(op[p] = "increment_max_children_reached")
    BY <1>3, <1>13 DEF One
  <2>4. /\ Exact(Changed(shm, op[p]), served', reached')
        /\ op[p] = "update_activity" => ShowsCounted(Changed(shm, op[p]))
        /\ op[p] # "update_activity" =>
              /\ Changed(shm, op[p]).idle = shm.idle
              /\ Changed(shm, op[p]).active = shm.active
    BY <1>1, <1>7, <2>3, ChangedExact
  <2>5. CASE op[p] \in Updates
    <3>1. Writing(p)'
      BY <1>0, <1>3, <2>2, <2>5 DEF Writing
    <3>2. \A q \in Processes \ {p} : ~Writing(q)'
      BY <1>6, <1>8 DEF Writing
    <3>3. Deciding' \/ op'[p] = "update_activity" => ShowsCounted(status[p])'
      BY <1>3, <1>7, <2>2, <2>4 DEF ShowsCounted, Deciding
    <3>4. Agree(shm', status'[p], copied'[p] - N)
      BY <1>0, <2>2, AgreeNone
    <3>5. \A q \in Processes : op'[q] # "handle_status"
      BY <1>3, <2>5 DEF AloneInv, Updates
    <3>6. Exact(status'[p], served', reached')
      BY <2>2, <2>4
    <3> QED
      BY <1>10, <1>11, <3>1, <3>2, <3>3, <3>4, <3>5, <3>6
      DEF AloneInv, Agree, AddsUp, Known, Exact
  <2>6. CASE op[p] \notin Updates
    <3>1. op[p] = "handle_status"
      BY <1>3, <2>6 DEF TypeOK
    <3>2. \A q \in Processes : ~Writing(q)'
      BY <1>3, <1>6, <1>8, <2>6 DEF Writing
    <3>3. served' = served /\ reached' = reached
      BY <1>1, <2>3, <3>1 DEF One
    <3>4. Exact(shm, served, reached)' /\ (Deciding => ShowsCounted(shm))'
      BY <1>3, <1>7, <3>3 DEF Exact, AddsUp, Known, ShowsCounted, Deciding
    <3>5. AddsUp(status'[p])
      BY <2>2, <2>4 DEF Exact
    <3>6. \A q \in Processes : op'[q] = "handle_status" /\ copied'[q] = N =>
             AddsUp(status'[q])
      BY <1>3, <1>8, <3>5 DEF AloneInv
    <3> QED
      BY <1>10, <1>11, <3>2, <3>4, <3>6
      DEF AloneInv, Agree, AddsUp, Known, Exact
  <2> QED BY <2>5, <2>6
<1> QED BY <1>12, <1>13

LEMMA CopyOutAlone ==
  ASSUME TypeOK, RoleInv, AloneInv, NEW p \in Processes, copy_out(p)
  PROVE  AloneInv'
<1> DEFINE i == copied[p] - N + 1
<1>0. N \in Nat /\ N >= 1
  BY WordsCover
<1>1. /\ shm \in Counts /\ status \in [Processes -> Counts]
      /\ copied \in [Processes -> 0 .. (2 * N - 1)]
      /\ op \in [Processes -> Updates \cup {"none", "handle_status"}]
      /\ status[p] \in Counts /\ copied[p] \in 0 .. (2 * N - 1)
  BY DEF TypeOK
<1>2. /\ op[p] \in Updates /\ copied[p] >= N
      /\ shm' = CopyWord(status[p], shm, i)
      /\ IF i = N
         THEN /\ op' = [op EXCEPT ![p] = "none"]
              /\ copied' = [copied EXCEPT ![p] = 0]
              /\ status' = [status EXCEPT ![p] = Zero]
         ELSE /\ copied' = [copied EXCEPT ![p] = copied[p] + 1]
              /\ UNCHANGED <<op, status>>
      /\ served' = served /\ reached' = reached /\ counted' = counted
      /\ maintenance' = maintenance
  BY DEF copy_out, truthVars, masterVars
<1>3. copied[p] - N \in Nat /\ i \in 1 .. N
  BY <1>0, <1>1, <1>2
<1>4. Writing(p)
  BY <1>2 DEF Writing
<1>5. /\ Exact(status[p], served, reached)
      /\ Deciding \/ op[p] = "update_activity" => ShowsCounted(status[p])
      /\ Agree(shm, status[p], copied[p] - N)
  BY <1>4 DEF AloneInv
<1>6. Agree(shm', status[p], i)
  BY <1>2, <1>3, <1>5, AgreeNext
<1>7. shm' \in Counts
  BY <1>1, <1>2, CopyWordType
<1>8. \A q \in Processes \ {p} : op[q] = "none"
  BY <1>2 DEF AloneInv
<1>8a. "none" \notin Updates
  BY DEF Updates
<1> HIDE DEF i
<1>9. CASE i = N
  <2>1. shm' = status[p]
    BY <1>1, <1>6, <1>7, <1>9, AgreeAll
  <2>2. \A q \in Processes : op'[q] = "none"
    BY <1>1, <1>2, <1>8, <1>9
  <2>3. Deciding' => ShowsCounted(shm)'
    <3> SUFFICES ASSUME Deciding' PROVE ShowsCounted(shm)'
      OBVIOUS
    <3>1. Deciding \/ op[Master] = "update_activity"
      BY <1>2 DEF Deciding
    <3>2. op[Master] = "update_activity" => p = Master
      BY <1>8 DEF Processes
    <3> QED BY <1>2, <1>5, <2>1, <3>1, <3>2 DEF ShowsCounted
  <2>4. Exact(shm, served, reached)'
    BY <1>2, <1>5, <2>1 DEF Exact, AddsUp, Known
  <2> QED
    BY <1>8a, <2>2, <2>3, <2>4 DEF AloneInv, Writing, Exact, AddsUp, Known
<1>10. CASE i # N
  <2>1. /\ op' = op /\ status' = status
        /\ copied' = [copied EXCEPT ![p] = copied[p] + 1]
    BY <1>2, <1>10
  <2>2. copied'[p] = copied[p] + 1 /\ copied'[p] - N = i /\ copied'[p] > N
    BY <1>0, <1>1, <1>2, <2>1 DEF i
  <2>3. Writing(p)'
    BY <1>0, <1>1, <1>2, <2>1, <2>2 DEF Writing
  <2>4. Agree(shm', status'[p], copied'[p] - N)
    BY <1>6, <2>1, <2>2
  <2>5. \A q \in Processes \ {p} : op'[q] = "none"
    BY <1>8, <2>1
  <2>6. \A q, r \in Processes : q # r /\ op'[q] \in Updates => op'[r] = "none"
    BY <1>8a, <2>5
  <2>7. /\ Exact(status'[p], served', reached')
        /\ Deciding' \/ op'[p] = "update_activity" => ShowsCounted(status[p])'
    BY <1>2, <1>5, <2>1 DEF Deciding, ShowsCounted
  <2>8. ~(copied'[p] < N)
    BY <1>0, <1>1, <2>2
  <2>9. op'[p] # "handle_status"
    BY <1>2, <2>1 DEF Updates
  <2>10. \A q \in Processes : Writing(q)' => q = p
    BY <1>8a, <2>5 DEF Writing
  <2> QED
    BY <2>3, <2>4, <2>5, <2>6, <2>7, <2>8, <2>9, <2>10
    DEF AloneInv, Exact, AddsUp, Known, Agree
<1> QED BY <1>9, <1>10

\* An operation that is no update ends, or its process dies.
LEMMA EndAlone ==
  ASSUME TypeOK, RoleInv, AloneInv, NEW p \in Processes, op[p] \notin Updates,
         op' = [op EXCEPT ![p] = "none"], copied' = [copied EXCEPT ![p] = 0],
         status' = [status EXCEPT ![p] = Zero],
         UNCHANGED <<shm, served, reached, maintenance, counted>>
  PROVE  AloneInv'
<1>0. N \in Nat /\ N >= 1 /\ "none" \notin Updates
  BY WordsCover DEF Updates
<1>1. /\ op \in [Processes -> Updates \cup {"none", "handle_status"}]
      /\ copied \in [Processes -> 0 .. (2 * N - 1)]
      /\ status \in [Processes -> Counts]
  BY DEF TypeOK
<1>2. op'[p] = "none"
  BY <1>1
<1>3. \A q \in Processes \ {p} :
         op'[q] = op[q] /\ copied'[q] = copied[q] /\ status'[q] = status[q]
  BY <1>1
<1>4. \A q, r \in Processes : q # r /\ op'[q] \in Updates => op'[r] = "none"
  BY <1>0, <1>2, <1>3 DEF AloneInv
<1>5. ~Writing(p) /\ ~Writing(p)'
  BY <1>0, <1>2 DEF Writing
<1>6. \A q \in Processes \ {p} : Writing(q)' <=> Writing(q)
  BY <1>3 DEF Writing
<1>7. Deciding' => Deciding \/ op[Master] = "update_activity"
  BY DEF Deciding
<1>8. op[Master] = "update_activity" => op'[Master] = op[Master]
  <2>1. op[Master] = "update_activity" => p # Master
    BY DEF Updates
  <2> QED BY <1>1, <2>1
<1>9. Deciding' => Deciding
  BY <1>7, <1>8 DEF Deciding
<1>10. (\A q \in Processes : ~Writing(q)') =>
          Exact(shm, served, reached)' /\ (Deciding => ShowsCounted(shm))'
  BY <1>5, <1>6, <1>9 DEF AloneInv, Exact, AddsUp, Known, ShowsCounted
<1>11. \A q \in Processes : op'[q] # "none" /\ copied'[q] < N =>
          Agree(status'[q], shm', copied'[q])
  BY <1>2, <1>3 DEF AloneInv
<1>12. \A q \in Processes : Writing(q)' =>
       /\ Exact(status'[q], served', reached')
       /\ Deciding' \/ op'[q] = "update_activity" => ShowsCounted(status[q])'
       /\ Agree(shm', status'[q], copied'[q] - N)
  BY <1>3, <1>5, <1>6, <1>9 DEF AloneInv, ShowsCounted
<1>13. \A q \in Processes : op'[q] = "handle_status" /\ copied'[q] = N =>
          AddsUp(status'[q])
  BY <1>2, <1>3 DEF AloneInv
<1> QED
  BY <1>4, <1>10, <1>11, <1>12, <1>13 DEF AloneInv, Exact, AddsUp, Known, Agree

\* What the master decides does not change the record.
LEMMA DecidesAlone ==
  ASSUME TypeOK, RoleInv, AloneInv, Decides,
         UNCHANGED <<shm, op, status, copied, served, reached>>
  PROVE  AloneInv'
<1>1. maintenance' = "waiting" /\ op[Master] = "none"
  BY DEF Decides
<1>2. ~Deciding'
  BY <1>1 DEF Deciding
<1>3. \A p \in Processes : op[p] # "update_activity"
  BY <1>1 DEF RoleInv, Processes
<1>4. \A p \in Processes : Writing(p)' <=> Writing(p)
  BY DEF Writing
<1> QED
  BY <1>2, <1>3, <1>4 DEF AloneInv, Exact, AddsUp, Known, Agree

LEMMA SameAlone ==
  ASSUME AloneInv,
         UNCHANGED <<shm, op, status, copied, served, reached, maintenance,
                     counted>>
  PROVE  AloneInv'
BY DEF AloneInv, Exact, AddsUp, Known, Agree, Writing, Deciding, ShowsCounted

LEMMA ExactStep == ExactInv /\ [Next]_vars => ExactInv'
<1> SUFFICES ASSUME ExactInv, [Next]_vars PROVE ExactInv'
  OBVIOUS
<1>0. TypeOK /\ RoleInv /\ TypeOK' /\ RoleInv'
  BY TypeStep, RoleStep DEF ExactInv
<1> SUFFICES ASSUME ~raced' PROVE AloneInv'
  BY <1>0 DEF ExactInv
<1>1. Master \in Processes /\ Workers \subseteq Processes
      /\ op \in [Processes -> Updates \cup {"none", "handle_status"}]
  BY <1>0 DEF Processes, TypeOK
<1>2. ASSUME NEW p \in Processes, NEW f, Call(p, f) PROVE AloneInv
  BY <1>2 DEF Call, ExactInv
<1>3. ASSUME UNCHANGED raced PROVE AloneInv
  BY <1>3 DEF ExactInv
<1> USE DEF poolVars, masterVars, truthVars
<1>4. ASSUME NEW p \in Processes, copy_in(p) PROVE AloneInv'
  <2>1. AloneInv
    BY <1>3, <1>4 DEF copy_in
  <2> QED BY <1>0, <1>4, <2>1, CopyInAlone
<1>5. ASSUME NEW p \in Processes, copy_out(p) PROVE AloneInv'
  <2>1. AloneInv
    BY <1>3, <1>5 DEF copy_out
  <2> QED BY <1>0, <1>5, <2>1, CopyOutAlone
<1>6. ASSUME NEW w \in Workers, show_page(w) PROVE AloneInv'
  <2>1. AloneInv
    BY <1>3, <1>6 DEF show_page
  <2>2. op[w] \notin Updates
    BY <1>6 DEF show_page, Updates
  <2> QED BY <1>0, <1>1, <1>6, <2>1, <2>2, EndAlone DEF show_page
<1>7. ASSUME NEW w \in Workers, fpm_request_reading_headers(w) PROVE AloneInv'
  <2>1. Call(w, "increment_accepted_conn") /\ w \in Processes
    BY <1>1, <1>7 DEF fpm_request_reading_headers
  <2>2. Deciding' => Deciding /\ counted' = counted
    BY <1>0, <1>1, <1>7, <2>1, StatusAssumption
    DEF fpm_request_reading_headers, Call, Deciding
  <2>3. UNCHANGED <<served, reached>>
    BY <1>7 DEF fpm_request_reading_headers
  <2> QED
    BY <1>0, <1>1, <1>2, <2>1, <2>2, <2>3, CallAlone DEF Updates
<1>8. ASSUME NEW w \in Workers, fpm_status_handle_status(w) PROVE AloneInv'
  <2>1. Call(w, "handle_status") /\ w \in Processes
    BY <1>1, <1>8 DEF fpm_status_handle_status
  <2>2. Deciding' => Deciding /\ counted' = counted
    BY <1>0, <1>1, <1>8, <2>1, StatusAssumption
    DEF fpm_status_handle_status, Call, Deciding
  <2>3. UNCHANGED <<served, reached>>
    BY <1>8 DEF fpm_status_handle_status
  <2> QED
    BY <1>0, <1>1, <1>2, <2>1, <2>2, <2>3, CallAlone
<1>9. ASSUME NEW w \in Workers, fpm_request_accepting(w) PROVE AloneInv'
  BY <1>3, <1>9, SameAlone DEF fpm_request_accepting, shmVars
<1>10. ASSUME NEW w \in Workers, worker_dies(w) PROVE AloneInv'
  <2>1. op[w] \notin Updates /\ ~raced
    BY <1>10 DEF worker_dies
  <2>2. AloneInv
    BY <2>1 DEF ExactInv
  <2> QED BY <1>0, <1>1, <1>10, <2>1, <2>2, EndAlone DEF worker_dies
<1>11. CASE fpm_status_update_activity
  <2>1. Call(Master, "update_activity")
    BY <1>11 DEF fpm_status_update_activity
  <2>2. ~Deciding'
    BY <1>1, <2>1 DEF Call, Deciding
  <2>3. UNCHANGED <<served, reached>>
    BY <1>11 DEF fpm_status_update_activity
  <2> QED
    BY <1>0, <1>1, <1>2, <2>1, <2>2, <2>3, CallAlone DEF Updates
<1>12. CASE enough_idle \/ spawn_children
  <2>1. Decides /\ UNCHANGED <<shm, op, status, copied, served, reached, raced>>
    BY <1>12 DEF enough_idle, spawn_children, shmVars
  <2> QED BY <1>0, <1>3, <2>1, DecidesAlone
<1>13. CASE report_max_children
  <2>1. Decides /\ UNCHANGED <<served, reached>>
    BY <1>13 DEF report_max_children
  <2>2. CASE UNCHANGED shmVars
    BY <1>0, <1>3, <2>1, <2>2, DecidesAlone DEF shmVars
  <2>3. CASE Call(Master, "increment_max_children_reached")
    <3>1. ~Deciding'
      BY <2>1 DEF Decides, Deciding
    <3> QED
      BY <1>0, <1>1, <1>2, <2>1, <2>3, <3>1, CallAlone DEF Updates
  <2> QED BY <1>13, <2>2, <2>3 DEF report_max_children
<1>14. CASE UNCHANGED vars
  BY <1>3, <1>14, SameAlone DEF vars, shmVars
<1> QED
  BY <1>4, <1>5, <1>6, <1>7, <1>8, <1>9, <1>10, <1>11, <1>12, <1>13, <1>14
  DEF Next, Copies, MasterSteps

LEMMA InitExactInv == Init => ExactInv
<1> SUFFICES ASSUME Init PROVE ExactInv
  OBVIOUS
<1>1. \A p \in Processes : op[p] = "none"
  BY DEF Init
<1>2. shm = InitialStatus /\ served = 0 /\ reached = 0
      /\ maintenance = "waiting"
  BY DEF Init
<1>3. Exact(shm, served, reached)
  BY <1>2 DEF Exact, AddsUp, Known, InitialStatus
<1>4. AloneInv
  BY <1>1, <1>2, <1>3 DEF AloneInv, Writing, Deciding, Updates
<1>5. RoleInv
  BY <1>1 DEF RoleInv, Processes
<1> QED BY <1>4, <1>5, InitTypeOK DEF ExactInv

\* As long as no two operations on the record have met, lock or not, the
\* status page is exact.
THEOREM StatusExactAlone == Spec => []ExactAlone
<1>1. ExactInv => ExactAlone
  <2> SUFFICES ASSUME ExactInv, ~raced PROVE
        /\ Running = {} =>
             /\ shm.accepted_conn = served
             /\ shm.max_children_reached = reached
             /\ AddsUp(shm)
             /\ maintenance = "counted" =>
                  shm.idle = counted.idle /\ shm.active = counted.active
        /\ \A w \in Workers :
             op[w] = "handle_status" /\ copied[w] = N => AddsUp(status[w])
    BY DEF ExactAlone
  <2>1. AloneInv
    BY DEF ExactInv
  <2>2. ASSUME Running = {} PROVE \A p \in Processes : op[p] = "none"
    BY <2>2 DEF Running
  <2>3. ASSUME Running = {}
        PROVE  Exact(shm, served, reached) /\ (Deciding => ShowsCounted(shm))
    BY <2>1, <2>2, <2>3 DEF AloneInv, Writing, Updates
  <2>4. ASSUME Running = {} PROVE op[Master] # "update_activity"
    BY <2>2, <2>4 DEF Processes
  <2> QED
    BY <2>1, <2>3, <2>4
    DEF AloneInv, Processes, Exact, Deciding, ShowsCounted
<1> QED
  BY <1>1, InitExactInv, ExactStep, PTL DEF Spec

=============================================================================
