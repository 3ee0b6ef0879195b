--------------------------- MODULE FpmRequestProofs ---------------------------
(***************************************************************************)
(* Theorems about FpmRequest, for every configuration of the timeouts and  *)
(* of pm.max_requests, and for clients and scripts that do what they like. *)
(*                                                                         *)
(* The properties relate the worker's place in its loop, the slot it       *)
(* reports in and what the heartbeat remembers; none is inductive alone.   *)
(* RequestInv says, part by part, how these go together.                   *)
(***************************************************************************)
EXTENDS FpmRequest, TLAPS

\* The last request that pm.max_requests allows ends the loop.
Counting ==
  max_requests # 0 /\ requests = max_requests => pc \in {"exit", "exited", "killed"}

\* Where the loop has a connection, and what its slot then shows: a worker
\* that holds one is active since its accept, unless it has just got it.
Connection ==
  /\ pc \in {"accepted", "poll", "read", "info", "startup"} => fd
  /\ pc \in {"run", "done"} /\ ~fd => early
  /\ fd /\ Alive /\ pc # "accepted" => Active
  /\ Active => accepted # 0
  /\ pc \in {"accept", "accepted"} => stage = "ACCEPTING" /\ began = 0 /\ traces = 0

\* The time in the slot is that of the request, unless the connection has
\* been kept.
Timing ==
  /\ accepted <= now /\ began <= now
  /\ Active /\ ~reused => began # 0 /\ began = accepted

\* The heartbeat remembers what it has traced as long as it can see it.
Tracing == traces = 0 \/ (traces = 1 /\ (Active => slow_logged = accepted))

\* How often FCGI_END_REQUEST has been written.
Answering ==
  /\ keep => KeepConn
  /\ pc \in {"accept", "accepted", "poll", "read", "info", "startup"} =>
       answers = 0 /\ ~early
  /\ pc \in {"run", "done"} =>
       /\ answers <= MaxFinishes
       /\ early => answers >= 1 /\ (fd => KeepConn)
       /\ ~early => answers = 0
  /\ answers > 1 => early /\ KeepConn
  /\ pc \in {"info", "startup", "run", "done"} => ~closed
  /\ pc = "count" /\ fd => closed
  /\ pc \in {"count", "exit"} => answers >= 1
  /\ pc \in {"top", "exited"} /\ began # 0 => answers >= 1

RequestInv ==
  /\ TypeOK
  /\ Counting
  /\ Connection
  /\ Timing
  /\ Tracing
  /\ Answering

-----------------------------------------------------------------------------
(* The two ways a connection is given up.                                  *)

\* fcgi_close keeps the connection and what the slot shows, or gives both up.
LEMMA CloseLemma ==
  ASSUME TypeOK, NEW force \in BOOLEAN, NEW k \in BOOLEAN, fcgi_close(force, k)
  PROVE  /\ fd' \in BOOLEAN
         /\ fd' => fd /\ ~force /\ k
         /\ fd' = fd => UNCHANGED slotVars
         /\ fd' # fd => stage' = "FINISHED" /\ accepted' = 0
  BY DEF TypeOK, fcgi_close, fpm_request_finished, slotVars

\* fcgi_finish_request sends FCGI_END_REQUEST unless it has done so.
LEMMA FinishLemma ==
  ASSUME TypeOK, NEW force \in BOOLEAN, fcgi_finish_request(force)
  PROVE  /\ fd' \in BOOLEAN /\ keep' \in BOOLEAN /\ closed' \in BOOLEAN
         /\ keep' => keep
         /\ fd' => fd /\ ~force
         /\ fd' = fd => UNCHANGED slotVars
         /\ fd' # fd => stage' = "FINISHED" /\ accepted' = 0
         /\ fd => closed'
         /\ answers' = IF fd /\ ~closed THEN answers + 1 ELSE answers
  <1>1. CASE ~fd
    BY <1>1 DEF TypeOK, fcgi_finish_request
  <1>2. CASE fd
    <2>1. PICK k \in IF closed THEN {keep} ELSE {keep, FALSE} :
            keep' = k /\ fcgi_close(force, k)
      BY <1>2 DEF fcgi_finish_request
    <2>2. k \in BOOLEAN
      BY <2>1 DEF TypeOK
    <2>3. keep' => keep
      BY <2>1
    <2> QED
      BY <1>2, <2>1, <2>2, <2>3, CloseLemma DEF TypeOK, fcgi_finish_request
  <1> QED
    BY <1>1, <1>2 DEF TypeOK

-----------------------------------------------------------------------------
(* The induction.                                                          *)

\* Every step of the worker, of the heartbeat and of the clock keeps it: no
\* request is lost or traced twice by the order of the two.
LEMMA RequestStep ==
  ASSUME RequestInv, [Next]_vars
  PROVE  RequestInv'
  <1> USE ConfigAssumption
  <1> USE DEF RequestInv
  <1>1. CASE fcgi_accept_request
    <2>1. early' \in BOOLEAN /\ reused' \in BOOLEAN
      BY <1>1 DEF fcgi_accept_request, TypeOK, NoRequest
    <2>2. TypeOK'
      BY <1>1, <2>1
         DEF fcgi_accept_request, TypeOK, workerVars, slotVars, masterVars,
             requestVars, NoRequest
    <2>3. Counting'
      BY <1>1, <2>1
         DEF fcgi_accept_request, TypeOK, Counting, Connection, Timing,
             Tracing, Answering, Active, Alive, Runs, workerVars, slotVars,
             masterVars, requestVars, NoRequest
    <2>4. Connection'
      BY <1>1, <2>1
         DEF fcgi_accept_request, TypeOK, Counting, Connection, Timing,
             Tracing, Answering, Active, Alive, Runs, workerVars, slotVars,
             masterVars, requestVars, NoRequest
    <2>5. Timing'
      BY <1>1, <2>1
         DEF fcgi_accept_request, TypeOK, Counting, Connection, Timing,
             Tracing, Answering, Active, Alive, Runs, workerVars, slotVars,
             masterVars, requestVars, NoRequest
    <2>6. Tracing'
      BY <1>1, <2>1
         DEF fcgi_accept_request, TypeOK, Counting, Connection, Timing,
             Tracing, Answering, Active, Alive, Runs, workerVars, slotVars,
             masterVars, requestVars, NoRequest
    <2>7. Answering'
      BY <1>1, <2>1
         DEF fcgi_accept_request, TypeOK, Counting, Connection, Timing,
             Tracing, Answering, Active, Alive, Runs, workerVars, slotVars,
             masterVars, requestVars, NoRequest
    <2> QED
      BY <2>2, <2>3, <2>4, <2>5, <2>6, <2>7
  <1>2. CASE accept_returns
    BY <1>2
       DEF accept_returns, TypeOK, Counting, Connection, Timing, Tracing,
           Answering, Active, Alive, Runs, workerVars, slotVars,
           masterVars, requestVars
  <1>3. CASE accept_again
    BY <1>3
       DEF accept_again, TypeOK, Counting, Connection, Timing, Tracing,
           Answering, Active, Alive, Runs, workerVars, slotVars,
           masterVars, requestVars
  <1>4. CASE fpm_request_reading_headers
    BY <1>4
       DEF fpm_request_reading_headers, TypeOK, Counting, Connection,
           Timing, Tracing, Answering, Active, Alive, Runs, workerVars,
           slotVars, masterVars, requestVars
  <1>5. CASE poll_connection
    <2>1. Runs /\ pc = "poll" /\ fd
      BY <1>5 DEF poll_connection, Connection
    <2>2. CASE pc' = "read" /\ UNCHANGED <<fd, slotVars>>
      <3>1. began' = began
        BY <1>5, <2>2 DEF poll_connection
      <3>2. TypeOK'
        BY <1>5, <2>1, <2>2, <3>1
           DEF poll_connection, TypeOK, workerVars, slotVars, masterVars,
               requestVars
      <3>3. Counting'
        BY <1>5, <2>1, <2>2, <3>1
           DEF poll_connection, TypeOK, Counting, Connection, Timing,
               Tracing, Answering, Active, Alive, Runs, workerVars,
               slotVars, masterVars, requestVars
      <3>4. Connection'
        BY <1>5, <2>1, <2>2, <3>1
           DEF poll_connection, TypeOK, Counting, Connection, Timing,
               Tracing, Answering, Active, Alive, Runs, workerVars,
               slotVars, masterVars, requestVars
      <3>5. Timing'
        BY <1>5, <2>1, <2>2, <3>1
           DEF poll_connection, TypeOK, Counting, Connection, Timing,
               Tracing, Answering, Active, Alive, Runs, workerVars,
               slotVars, masterVars, requestVars
      <3>6. Tracing'
        BY <1>5, <2>1, <2>2, <3>1
           DEF poll_connection, TypeOK, Counting, Connection, Timing,
               Tracing, Answering, Active, Alive, Runs, workerVars,
               slotVars, masterVars, requestVars
      <3>7. Answering'
        BY <1>5, <2>1, <2>2, <3>1
           DEF poll_connection, TypeOK, Counting, Connection, Timing,
               Tracing, Answering, Active, Alive, Runs, workerVars,
               slotVars, masterVars, requestVars
      <3> QED
        BY <3>2, <3>3, <3>4, <3>5, <3>6, <3>7
    <2>3. CASE pc' = "top" /\ fcgi_close(TRUE, keep)
      <3>1. /\ began' = 0 /\ fd' \in BOOLEAN /\ ~fd'
            /\ stage' = "FINISHED" /\ accepted' = 0
        BY <1>5, <2>1, <2>3, CloseLemma DEF poll_connection, TypeOK
      <3>2. TypeOK'
        BY <1>5, <2>1, <2>3, <3>1
           DEF poll_connection, TypeOK, workerVars, slotVars, masterVars,
               requestVars
      <3>3. Counting'
        BY <1>5, <2>1, <2>3, <3>1
           DEF poll_connection, TypeOK, Counting, Connection, Timing,
               Tracing, Answering, Active, Alive, Runs, workerVars,
               slotVars, masterVars, requestVars
      <3>4. Connection'
        BY <1>5, <2>1, <2>3, <3>1
           DEF poll_connection, TypeOK, Counting, Connection, Timing,
               Tracing, Answering, Active, Alive, Runs, workerVars,
               slotVars, masterVars, requestVars
      <3>5. Timing'
        BY <1>5, <2>1, <2>3, <3>1
           DEF poll_connection, TypeOK, Counting, Connection, Timing,
               Tracing, Answering, Active, Alive, Runs, workerVars,
               slotVars, masterVars, requestVars
      <3>6. Tracing'
        BY <1>5, <2>1, <2>3, <3>1
           DEF poll_connection, TypeOK, Counting, Connection, Timing,
               Tracing, Answering, Active, Alive, Runs, workerVars,
               slotVars, masterVars, requestVars
      <3>7. Answering'
        BY <1>5, <2>1, <2>3, <3>1
           DEF poll_connection, TypeOK, Counting, Connection, Timing,
               Tracing, Answering, Active, Alive, Runs, workerVars,
               slotVars, masterVars, requestVars
      <3> QED
        BY <3>2, <3>3, <3>4, <3>5, <3>6, <3>7
    <2> QED
      BY <1>5, <2>2, <2>3 DEF poll_connection
  <1>6. CASE fcgi_read_request
    <2>1. Runs /\ pc = "read" /\ fd /\ closed' \in BOOLEAN /\ ~closed'
      BY <1>6 DEF fcgi_read_request, Connection
    <2>2. CASE /\ pc' = "info"
               /\ keep' \in {FALSE, KeepConn}
               /\ began' = IF began = 0 THEN now ELSE began
               /\ UNCHANGED <<fd, slotVars>>
      <3>1. keep' \in BOOLEAN /\ (keep' => KeepConn)
        <4>1. keep' = FALSE \/ keep' = KeepConn
          BY <2>2
        <4>2. keep' \in BOOLEAN
          BY <4>1
        <4>3. keep' => KeepConn
          BY <4>1
        <4> QED
          BY <4>2, <4>3
      <3>2. TypeOK'
        BY <1>6, <2>1, <2>2, <3>1
           DEF fcgi_read_request, TypeOK, workerVars, slotVars, masterVars,
               requestVars
      <3>3. Counting'
        BY <1>6, <2>1, <2>2, <3>1
           DEF fcgi_read_request, TypeOK, Counting, Connection, Timing,
               Tracing, Answering, Active, Alive, Runs, workerVars,
               slotVars, masterVars, requestVars
      <3>4. Connection'
        BY <1>6, <2>1, <2>2, <3>1
           DEF fcgi_read_request, TypeOK, Counting, Connection, Timing,
               Tracing, Answering, Active, Alive, Runs, workerVars,
               slotVars, masterVars, requestVars
      <3>5. Timing'
        BY <1>6, <2>1, <2>2, <3>1
           DEF fcgi_read_request, TypeOK, Counting, Connection, Timing,
               Tracing, Answering, Active, Alive, Runs, workerVars,
               slotVars, masterVars, requestVars
      <3>6. Tracing'
        BY <1>6, <2>1, <2>2, <3>1
           DEF fcgi_read_request, TypeOK, Counting, Connection, Timing,
               Tracing, Answering, Active, Alive, Runs, workerVars,
               slotVars, masterVars, requestVars
      <3>7. Answering'
        BY <1>6, <2>1, <2>2, <3>1
           DEF fcgi_read_request, TypeOK, Counting, Connection, Timing,
               Tracing, Answering, Active, Alive, Runs, workerVars,
               slotVars, masterVars, requestVars
      <3> QED
        BY <3>2, <3>3, <3>4, <3>5, <3>6, <3>7
    <2>3. CASE /\ pc' = "top"
               /\ keep' = FALSE
               /\ fcgi_close(TRUE, FALSE)
               /\ began' = 0
      <3>1. /\ fd' \in BOOLEAN /\ ~fd' /\ keep' \in BOOLEAN
            /\ stage' = "FINISHED" /\ accepted' = 0
        BY <2>1, <2>3, CloseLemma DEF TypeOK
      <3>2. TypeOK'
        BY <1>6, <2>1, <2>3, <3>1
           DEF fcgi_read_request, TypeOK, workerVars, slotVars, masterVars,
               requestVars
      <3>3. Counting'
        BY <1>6, <2>1, <2>3, <3>1
           DEF fcgi_read_request, TypeOK, Counting, Connection, Timing,
               Tracing, Answering, Active, Alive, Runs, workerVars,
               slotVars, masterVars, requestVars
      <3>4. Connection'
        BY <1>6, <2>1, <2>3, <3>1
           DEF fcgi_read_request, TypeOK, Counting, Connection, Timing,
               Tracing, Answering, Active, Alive, Runs, workerVars,
               slotVars, masterVars, requestVars
      <3>5. Timing'
        BY <1>6, <2>1, <2>3, <3>1
           DEF fcgi_read_request, TypeOK, Counting, Connection, Timing,
               Tracing, Answering, Active, Alive, Runs, workerVars,
               slotVars, masterVars, requestVars
      <3>6. Tracing'
        BY <1>6, <2>1, <2>3, <3>1
           DEF fcgi_read_request, TypeOK, Counting, Connection, Timing,
               Tracing, Answering, Active, Alive, Runs, workerVars,
               slotVars, masterVars, requestVars
      <3>7. Answering'
        BY <1>6, <2>1, <2>3, <3>1
           DEF fcgi_read_request, TypeOK, Counting, Connection, Timing,
               Tracing, Answering, Active, Alive, Runs, workerVars,
               slotVars, masterVars, requestVars
      <3> QED
        BY <3>2, <3>3, <3>4, <3>5, <3>6, <3>7
    <2> QED
      BY <1>6, <2>2, <2>3 DEF fcgi_read_request
  <1>7. CASE fpm_request_info
    BY <1>7
       DEF fpm_request_info, TypeOK, Counting, Connection, Timing, Tracing,
           Answering, Active, Alive, Runs, workerVars, slotVars,
           masterVars, requestVars
  <1>8. CASE startup_fails
    <2>1. fcgi_finish_request(TRUE) /\ fd /\ ~closed /\ answers = 0
      BY <1>8 DEF startup_fails, Connection, Answering
    <2>2. /\ fd' \in BOOLEAN /\ keep' \in BOOLEAN /\ closed' \in BOOLEAN
          /\ ~fd'
          /\ fd' # fd => stage' = "FINISHED" /\ accepted' = 0
          /\ fd => closed'
          /\ keep' => keep
          /\ answers' = IF fd /\ ~closed THEN answers + 1 ELSE answers
      BY <2>1, FinishLemma
    <2>3. closed' /\ stage' = "FINISHED" /\ accepted' = 0 /\ answers' = 1
      <3>1. fd' # fd
        BY <2>1, <2>2
      <3>2. answers' = answers + 1
        BY <2>1, <2>2
      <3> QED
        BY <2>1, <2>2, <3>1, <3>2
    <2>4. TypeOK'
      BY <1>8, <2>1, <2>2, <2>3
         DEF startup_fails, TypeOK, workerVars, slotVars, masterVars,
             requestVars
    <2>5. Counting'
      BY <1>8, <2>1, <2>2, <2>3
         DEF startup_fails, TypeOK, Counting, Connection, Timing, Tracing,
             Answering, Active, Alive, Runs, workerVars, slotVars,
             masterVars, requestVars
    <2>6. Connection'
      BY <1>8, <2>1, <2>2, <2>3
         DEF startup_fails, TypeOK, Counting, Connection, Timing, Tracing,
             Answering, Active, Alive, Runs, workerVars, slotVars,
             masterVars, requestVars
    <2>7. Timing'
      BY <1>8, <2>1, <2>2, <2>3
         DEF startup_fails, TypeOK, Counting, Connection, Timing, Tracing,
             Answering, Active, Alive, Runs, workerVars, slotVars,
             masterVars, requestVars
    <2>8. Tracing'
      BY <1>8, <2>1, <2>2, <2>3
         DEF startup_fails, TypeOK, Counting, Connection, Timing, Tracing,
             Answering, Active, Alive, Runs, workerVars, slotVars,
             masterVars, requestVars
    <2>9. Answering'
      BY <1>8, <2>1, <2>2, <2>3
         DEF startup_fails, TypeOK, Counting, Connection, Timing, Tracing,
             Answering, Active, Alive, Runs, workerVars, slotVars,
             masterVars, requestVars
    <2> QED
      BY <2>4, <2>5, <2>6, <2>7, <2>8, <2>9
  <1>9. CASE bailout
    BY <1>9
       DEF bailout, TypeOK, Counting, Connection, Timing, Tracing,
           Answering, Active, Alive, Runs, workerVars, slotVars,
           masterVars, requestVars
  <1>10. CASE answered_without_script
    <2>1. keep' \in BOOLEAN /\ (keep' => keep)
      <3>1. keep' = keep \/ keep' = FALSE
        BY <1>10 DEF answered_without_script
      <3>2. keep' \in BOOLEAN
        BY <3>1 DEF TypeOK
      <3>3. keep' => keep
        BY <3>1
      <3> QED
        BY <3>2, <3>3
    <2>2. TypeOK'
      BY <1>10, <2>1
         DEF answered_without_script, TypeOK, workerVars, slotVars,
             masterVars, requestVars
    <2>3. Counting'
      BY <1>10, <2>1
         DEF answered_without_script, TypeOK, Counting, Connection, Timing,
             Tracing, Answering, Active, Alive, Runs, workerVars, slotVars,
             masterVars, requestVars
    <2>4. Connection'
      BY <1>10, <2>1
         DEF answered_without_script, TypeOK, Counting, Connection, Timing,
             Tracing, Answering, Active, Alive, Runs, workerVars, slotVars,
             masterVars, requestVars
    <2>5. Timing'
      BY <1>10, <2>1
         DEF answered_without_script, TypeOK, Counting, Connection, Timing,
             Tracing, Answering, Active, Alive, Runs, workerVars, slotVars,
             masterVars, requestVars
    <2>6. Tracing'
      BY <1>10, <2>1
         DEF answered_without_script, TypeOK, Counting, Connection, Timing,
             Tracing, Answering, Active, Alive, Runs, workerVars, slotVars,
             masterVars, requestVars
    <2>7. Answering'
      BY <1>10, <2>1
         DEF answered_without_script, TypeOK, Counting, Connection, Timing,
             Tracing, Answering, Active, Alive, Runs, workerVars, slotVars,
             masterVars, requestVars
    <2> QED
      BY <2>2, <2>3, <2>4, <2>5, <2>6, <2>7
  <1>11. CASE fpm_request_executing
    BY <1>11
       DEF fpm_request_executing, TypeOK, Counting, Connection, Timing,
           Tracing, Answering, Active, Alive, Runs, workerVars, slotVars,
           masterVars, requestVars
  <1>12. CASE fastcgi_finish_request
    <2>1. PICK k \in {keep, FALSE} : keep' = k /\ fcgi_close(FALSE, k)
      BY <1>12 DEF fastcgi_finish_request
    <2>2. k \in BOOLEAN /\ (k => keep)
      <3>1. k = keep \/ k = FALSE
        BY <2>1
      <3>2. k \in BOOLEAN
        BY <3>1 DEF TypeOK
      <3>3. k => keep
        BY <3>1
      <3> QED
        BY <3>2, <3>3
    <2>3. /\ keep' \in BOOLEAN /\ early' \in BOOLEAN /\ early'
          /\ keep' => keep
          /\ answers' = answers + 1 /\ answers < MaxFinishes
      BY <1>12, <2>1, <2>2 DEF fastcgi_finish_request
    <2>4. CASE fd' = fd
      <3>1. UNCHANGED <<fd, slotVars>> /\ (fd => keep')
        BY <2>1, <2>2, <2>4, CloseLemma
      <3>2. TypeOK'
        BY <1>12, <2>3, <3>1
           DEF fastcgi_finish_request, TypeOK, workerVars, slotVars,
               masterVars, requestVars
      <3>3. Counting'
        BY <1>12, <2>3, <3>1
           DEF fastcgi_finish_request, TypeOK, Counting, Connection,
               Timing, Tracing, Answering, Active, Alive, Runs, workerVars,
               slotVars, masterVars, requestVars
      <3>4. Connection'
        BY <1>12, <2>3, <3>1
           DEF fastcgi_finish_request, TypeOK, Counting, Connection,
               Timing, Tracing, Answering, Active, Alive, Runs, workerVars,
               slotVars, masterVars, requestVars
      <3>5. Timing'
        BY <1>12, <2>3, <3>1
           DEF fastcgi_finish_request, TypeOK, Counting, Connection,
               Timing, Tracing, Answering, Active, Alive, Runs, workerVars,
               slotVars, masterVars, requestVars
      <3>6. Tracing'
        BY <1>12, <2>3, <3>1
           DEF fastcgi_finish_request, TypeOK, Counting, Connection,
               Timing, Tracing, Answering, Active, Alive, Runs, workerVars,
               slotVars, masterVars, requestVars
      <3>7. Answering'
        BY <1>12, <2>3, <3>1
           DEF fastcgi_finish_request, TypeOK, Counting, Connection,
               Timing, Tracing, Answering, Active, Alive, Runs, workerVars,
               slotVars, masterVars, requestVars
      <3> QED
        BY <3>2, <3>3, <3>4, <3>5, <3>6, <3>7
    <2>5. CASE fd' # fd
      <3>1. fd' \in BOOLEAN /\ ~fd' /\ stage' = "FINISHED" /\ accepted' = 0
        BY <2>1, <2>2, <2>5, CloseLemma DEF TypeOK
      <3>2. TypeOK'
        BY <1>12, <2>3, <3>1
           DEF fastcgi_finish_request, TypeOK, workerVars, slotVars,
               masterVars, requestVars
      <3>3. Counting'
        BY <1>12, <2>3, <3>1
           DEF fastcgi_finish_request, TypeOK, Counting, Connection,
               Timing, Tracing, Answering, Active, Alive, Runs, workerVars,
               slotVars, masterVars, requestVars
      <3>4. Connection'
        BY <1>12, <2>3, <3>1
           DEF fastcgi_finish_request, TypeOK, Counting, Connection,
               Timing, Tracing, Answering, Active, Alive, Runs, workerVars,
               slotVars, masterVars, requestVars
      <3>5. Timing'
        BY <1>12, <2>3, <3>1
           DEF fastcgi_finish_request, TypeOK, Counting, Connection,
               Timing, Tracing, Answering, Active, Alive, Runs, workerVars,
               slotVars, masterVars, requestVars
      <3>6. Tracing'
        BY <1>12, <2>3, <3>1
           DEF fastcgi_finish_request, TypeOK, Counting, Connection,
               Timing, Tracing, Answering, Active, Alive, Runs, workerVars,
               slotVars, masterVars, requestVars
      <3>7. Answering'
        BY <1>12, <2>3, <3>1
           DEF fastcgi_finish_request, TypeOK, Counting, Connection,
               Timing, Tracing, Answering, Active, Alive, Runs, workerVars,
               slotVars, masterVars, requestVars
      <3> QED
        BY <3>2, <3>3, <3>4, <3>5, <3>6, <3>7
    <2> QED
      BY <2>4, <2>5
  <1>13. CASE script_ends
    <2>1. keep' \in BOOLEAN /\ (keep' => keep)
      <3>1. keep' = keep \/ keep' = FALSE
        BY <1>13 DEF script_ends
      <3>2. keep' \in BOOLEAN
        BY <3>1 DEF TypeOK
      <3>3. keep' => keep
        BY <3>1
      <3> QED
        BY <3>2, <3>3
    <2>2. TypeOK'
      BY <1>13, <2>1
         DEF script_ends, TypeOK, workerVars, slotVars, masterVars,
             requestVars
    <2>3. Counting'
      BY <1>13, <2>1
         DEF script_ends, TypeOK, Counting, Connection, Timing, Tracing,
             Answering, Active, Alive, Runs, workerVars, slotVars,
             masterVars, requestVars
    <2>4. Connection'
      BY <1>13, <2>1
         DEF script_ends, TypeOK, Counting, Connection, Timing, Tracing,
             Answering, Active, Alive, Runs, workerVars, slotVars,
             masterVars, requestVars
    <2>5. Timing'
      BY <1>13, <2>1
         DEF script_ends, TypeOK, Counting, Connection, Timing, Tracing,
             Answering, Active, Alive, Runs, workerVars, slotVars,
             masterVars, requestVars
    <2>6. Tracing'
      BY <1>13, <2>1
         DEF script_ends, TypeOK, Counting, Connection, Timing, Tracing,
             Answering, Active, Alive, Runs, workerVars, slotVars,
             masterVars, requestVars
    <2>7. Answering'
      BY <1>13, <2>1
         DEF script_ends, TypeOK, Counting, Connection, Timing, Tracing,
             Answering, Active, Alive, Runs, workerVars, slotVars,
             masterVars, requestVars
    <2> QED
      BY <2>2, <2>3, <2>4, <2>5, <2>6, <2>7
  <1>14. CASE php_request_shutdown
    <2>1. fcgi_finish_request(FALSE)
      BY <1>14 DEF php_request_shutdown
    <2>2. /\ fd' \in BOOLEAN /\ keep' \in BOOLEAN /\ closed' \in BOOLEAN
          /\ fd' => fd
          /\ fd' = fd => UNCHANGED slotVars
          /\ fd' # fd => stage' = "FINISHED" /\ accepted' = 0
          /\ fd => closed'
          /\ keep' => keep
          /\ answers' = IF fd /\ ~closed THEN answers + 1 ELSE answers
      BY <2>1, FinishLemma
    <2>3. TypeOK'
      BY <1>14, <2>2
         DEF php_request_shutdown, TypeOK, Answering, workerVars, slotVars,
             masterVars, requestVars
    <2>4. Counting'
      BY <1>14, <2>2
         DEF php_request_shutdown, TypeOK, Counting, Connection, Timing,
             Tracing, Answering, Active, Alive, Runs, workerVars, slotVars,
             masterVars, requestVars
    <2>5. Connection'
      BY <1>14, <2>2
         DEF php_request_shutdown, TypeOK, Counting, Connection, Timing,
             Tracing, Answering, Active, Alive, Runs, workerVars, slotVars,
             masterVars, requestVars
    <2>6. Timing'
      BY <1>14, <2>2
         DEF php_request_shutdown, TypeOK, Counting, Connection, Timing,
             Tracing, Answering, Active, Alive, Runs, workerVars, slotVars,
             masterVars, requestVars
    <2>7. Tracing'
      BY <1>14, <2>2
         DEF php_request_shutdown, TypeOK, Counting, Connection, Timing,
             Tracing, Answering, Active, Alive, Runs, workerVars, slotVars,
             masterVars, requestVars
    <2>8. Answering'
      BY <1>14, <2>2
         DEF php_request_shutdown, TypeOK, Counting, Connection, Timing,
             Tracing, Answering, Active, Alive, Runs, workerVars, slotVars,
             masterVars, requestVars
    <2> QED
      BY <2>3, <2>4, <2>5, <2>6, <2>7, <2>8
  <1>15. CASE count_request
    <2>1. requests' \in 0 .. (IF max_requests = 0 THEN MaxRequests ELSE max_requests)
      BY <1>15 DEF count_request, TypeOK, Counting
    <2>2. CASE max_requests # 0 /\ requests + 1 = max_requests
      <3>1. pc' = "exit" /\ fcgi_finish_request(TRUE)
        BY <1>15, <2>2 DEF count_request
      <3>2. /\ fd' \in BOOLEAN /\ ~fd' /\ keep' \in BOOLEAN /\ closed' \in BOOLEAN
            /\ answers' = answers /\ (keep' => keep)
            /\ UNCHANGED slotVars \/ (stage' = "FINISHED" /\ accepted' = 0)
        BY <1>15, <3>1, FinishLemma DEF count_request, Answering, TypeOK
      <3>3. TypeOK'
        BY <1>15, <2>1, <3>1, <3>2
           DEF count_request, TypeOK, workerVars, slotVars, masterVars,
               requestVars
      <3>4. Counting'
        BY <1>15, <2>1, <3>1, <3>2
           DEF count_request, TypeOK, Counting, Connection, Timing,
               Tracing, Answering, Active, Alive, Runs, workerVars,
               slotVars, masterVars, requestVars
      <3>5. Connection'
        BY <1>15, <2>1, <3>1, <3>2
           DEF count_request, TypeOK, Counting, Connection, Timing,
               Tracing, Answering, Active, Alive, Runs, workerVars,
               slotVars, masterVars, requestVars
      <3>6. Timing'
        BY <1>15, <2>1, <3>1, <3>2
           DEF count_request, TypeOK, Counting, Connection, Timing,
               Tracing, Answering, Active, Alive, Runs, workerVars,
               slotVars, masterVars, requestVars
      <3>7. Tracing'
        BY <1>15, <2>1, <3>1, <3>2
           DEF count_request, TypeOK, Counting, Connection, Timing,
               Tracing, Answering, Active, Alive, Runs, workerVars,
               slotVars, masterVars, requestVars
      <3>8. Answering'
        BY <1>15, <2>1, <3>1, <3>2
           DEF count_request, TypeOK, Counting, Connection, Timing,
               Tracing, Answering, Active, Alive, Runs, workerVars,
               slotVars, masterVars, requestVars
      <3> QED
        BY <3>3, <3>4, <3>5, <3>6, <3>7, <3>8
    <2>3. CASE ~(max_requests # 0 /\ requests + 1 = max_requests)
      <3>1. pc' = "top" /\ UNCHANGED <<fd, keep, closed, slotVars, answers>>
        BY <1>15, <2>3 DEF count_request
      <3>2. TypeOK'
        BY <1>15, <2>1, <2>3, <3>1
           DEF count_request, TypeOK, workerVars, slotVars, masterVars,
               requestVars
      <3>3. Counting'
        BY <1>15, <2>1, <2>3, <3>1
           DEF count_request, TypeOK, Counting, Connection, Timing,
               Tracing, Answering, Active, Alive, Runs, workerVars,
               slotVars, masterVars, requestVars
      <3>4. Connection'
        BY <1>15, <2>1, <2>3, <3>1
           DEF count_request, TypeOK, Counting, Connection, Timing,
               Tracing, Answering, Active, Alive, Runs, workerVars,
               slotVars, masterVars, requestVars
      <3>5. Timing'
        BY <1>15, <2>1, <2>3, <3>1
           DEF count_request, TypeOK, Counting, Connection, Timing,
               Tracing, Answering, Active, Alive, Runs, workerVars,
               slotVars, masterVars, requestVars
      <3>6. Tracing'
        BY <1>15, <2>1, <2>3, <3>1
           DEF count_request, TypeOK, Counting, Connection, Timing,
               Tracing, Answering, Active, Alive, Runs, workerVars,
               slotVars, masterVars, requestVars
      <3>7. Answering'
        BY <1>15, <2>1, <2>3, <3>1
           DEF count_request, TypeOK, Counting, Connection, Timing,
               Tracing, Answering, Active, Alive, Runs, workerVars,
               slotVars, masterVars, requestVars
      <3> QED
        BY <3>2, <3>3, <3>4, <3>5, <3>6, <3>7
    <2> QED
      BY <2>2, <2>3
  <1>16. CASE leave
    BY <1>16
       DEF leave, TypeOK, Counting, Connection, Timing, Tracing, Answering,
           Active, Alive, Runs, workerVars, slotVars, masterVars,
           requestVars
  <1>17. CASE sig_soft_quit
    BY <1>17
       DEF sig_soft_quit, TypeOK, Counting, Connection, Timing, Tracing,
           Answering, Active, Alive, Runs, workerVars, slotVars,
           masterVars, requestVars
  <1>18. CASE sigterm_kills
    BY <1>18
       DEF sigterm_kills, TypeOK, Counting, Connection, Timing, Tracing,
           Answering, Active, Alive, Runs, workerVars, slotVars,
           masterVars, requestVars
  <1>19. CASE ptrace_stops
    <2>1. term' \in BOOLEAN
      BY <1>19 DEF ptrace_stops
    <2>2. TypeOK'
      BY <1>19, <2>1
         DEF ptrace_stops, TypeOK, workerVars, slotVars, masterVars,
             requestVars
    <2>3. Counting'
      BY <1>19, <2>1
         DEF ptrace_stops, TypeOK, Counting, Connection, Timing, Tracing,
             Answering, Active, Alive, Runs, workerVars, slotVars,
             masterVars, requestVars
    <2>4. Connection'
      BY <1>19, <2>1
         DEF ptrace_stops, TypeOK, Counting, Connection, Timing, Tracing,
             Answering, Active, Alive, Runs, workerVars, slotVars,
             masterVars, requestVars
    <2>5. Timing'
      BY <1>19, <2>1
         DEF ptrace_stops, TypeOK, Counting, Connection, Timing, Tracing,
             Answering, Active, Alive, Runs, workerVars, slotVars,
             masterVars, requestVars
    <2>6. Tracing'
      BY <1>19, <2>1
         DEF ptrace_stops, TypeOK, Counting, Connection, Timing, Tracing,
             Answering, Active, Alive, Runs, workerVars, slotVars,
             masterVars, requestVars
    <2>7. Answering'
      BY <1>19, <2>1
         DEF ptrace_stops, TypeOK, Counting, Connection, Timing, Tracing,
             Answering, Active, Alive, Runs, workerVars, slotVars,
             masterVars, requestVars
    <2> QED
      BY <2>2, <2>3, <2>4, <2>5, <2>6, <2>7
  <1>20. CASE fpm_request_check_timed_out
    BY <1>20
       DEF fpm_request_check_timed_out, TypeOK, Counting, Connection,
           Timing, Tracing, Answering, Active, Alive, Runs, workerVars,
           slotVars, masterVars, requestVars, Slow, SlowLogged, Late
  <1>21. CASE fpm_trace_signal
    BY <1>21
       DEF fpm_trace_signal, TypeOK, Counting, Connection, Timing, Tracing,
           Answering, Active, Alive, Runs, workerVars, slotVars,
           masterVars, requestVars
  <1>22. CASE terminate
    BY <1>22
       DEF terminate, TypeOK, Counting, Connection, Timing, Tracing,
           Answering, Active, Alive, Runs, workerVars, slotVars,
           masterVars, requestVars
  <1>23. CASE fpm_php_trace
    <2>1. tracer' \in BOOLEAN
      BY <1>23 DEF fpm_php_trace
    <2>2. stop' \in {"no", "stopped"}
      BY <1>23 DEF fpm_php_trace
    <2>3. TypeOK'
      BY <1>23, <2>1, <2>2
         DEF fpm_php_trace, TypeOK, workerVars, slotVars, masterVars,
             requestVars
    <2>4. Counting'
      BY <1>23, <2>1, <2>2
         DEF fpm_php_trace, TypeOK, Counting, Connection, Timing, Tracing,
             Answering, Active, Alive, Runs, workerVars, slotVars,
             masterVars, requestVars
    <2>5. Connection'
      BY <1>23, <2>1, <2>2
         DEF fpm_php_trace, TypeOK, Counting, Connection, Timing, Tracing,
             Answering, Active, Alive, Runs, workerVars, slotVars,
             masterVars, requestVars
    <2>6. Timing'
      BY <1>23, <2>1, <2>2
         DEF fpm_php_trace, TypeOK, Counting, Connection, Timing, Tracing,
             Answering, Active, Alive, Runs, workerVars, slotVars,
             masterVars, requestVars
    <2>7. Tracing'
      BY <1>23, <2>1, <2>2
         DEF fpm_php_trace, TypeOK, Counting, Connection, Timing, Tracing,
             Answering, Active, Alive, Runs, workerVars, slotVars,
             masterVars, requestVars
    <2>8. Answering'
      BY <1>23, <2>1, <2>2
         DEF fpm_php_trace, TypeOK, Counting, Connection, Timing, Tracing,
             Answering, Active, Alive, Runs, workerVars, slotVars,
             masterVars, requestVars
    <2> QED
      BY <2>3, <2>4, <2>5, <2>6, <2>7, <2>8
  <1>24. CASE tick
    BY <1>24
       DEF tick, TypeOK, Counting, Connection, Timing, Tracing, Answering,
           Active, Alive, Runs, workerVars, slotVars, masterVars,
           requestVars
  <1>26. CASE UNCHANGED vars
    BY <1>26
       DEF TypeOK, Counting, Connection, Timing, Tracing, Answering,
           Active, Alive, Runs, workerVars, slotVars, masterVars,
           requestVars, vars
  <1>25. CASE gone
    BY <1>25, <1>26 DEF gone
  <1> QED
    BY <1>1, <1>2, <1>3, <1>4, <1>5, <1>6, <1>7, <1>8, <1>9, <1>10, <1>11,
       <1>12, <1>13, <1>14, <1>15, <1>16, <1>17, <1>18, <1>19, <1>20, <1>21,
       <1>22, <1>23, <1>24, <1>25, <1>26
       DEF Next, WorkerNext, MasterNext

\* It holds of a worker that has just been forked: no connection, no request
\* and an empty slot.
LEMMA RequestInit == Init => RequestInv
  <1> SUFFICES ASSUME Init PROVE RequestInv
    OBVIOUS
  <1>1. /\ fd \in BOOLEAN /\ keep \in BOOLEAN /\ closed \in BOOLEAN
        /\ in_shutdown \in BOOLEAN /\ term \in BOOLEAN /\ tracer \in BOOLEAN
        /\ early \in BOOLEAN /\ reused \in BOOLEAN
        /\ ~fd /\ ~early
    BY DEF Init
  <1>2. TypeOK
    BY <1>1, ConfigAssumption DEF Init, TypeOK
  <1>3. Counting /\ Connection
    BY <1>1, ConfigAssumption DEF Init, Counting, Connection, Active
  <1>4. Timing /\ Tracing /\ Answering
    BY <1>1 DEF Init, Timing, Tracing, Answering, Active
  <1> QED
    BY <1>2, <1>3, <1>4 DEF RequestInv

\* RequestInv holds in every state of the request loop of fpm_main.c and of the
\* heartbeat fpm_request_check_timed_out.
THEOREM RequestInvariant == Spec => []RequestInv
  BY RequestInit, RequestStep, PTL DEF Spec

-----------------------------------------------------------------------------
(* What follows for the properties.                                        *)

\* Every variable keeps to its declaration; in particular count_request stops
\* a worker at the max_requests-th request, whichever way requests ended.
THEOREM RequestTypeCorrect == Spec => []TypeOK
  <1>1. RequestInv => TypeOK
    BY DEF RequestInv
  <1> QED
    BY <1>1, RequestInvariant, PTL

\* When fpm_request_check_timed_out decides on a SIGTERM for the first request
\* of a connection, that request has run for request_terminate_timeout: the
\* slot's accept time is the request's own wherever the stage is active.
THEOREM RequestTimeoutJustified == Spec => TimeoutJustified
  <1> DEFINE Justified ==
        mpc # "terminate" /\ mpc' = "terminate" /\ ~reused
          => began # 0 /\ now - began >= request_terminate_timeout
  <1>1. RequestInv /\ [Next]_vars => [Justified]_vars
    <2> SUFFICES ASSUME RequestInv, Next, mpc # "terminate", mpc' = "terminate", ~reused
                 PROVE  began # 0 /\ now - began >= request_terminate_timeout
      BY DEF vars
    <2>1. fpm_request_check_timed_out
      BY DEF Next, WorkerNext, MasterNext, tick, gone, vars, masterVars,
             fcgi_accept_request, accept_returns, accept_again,
             fpm_request_reading_headers, poll_connection, fcgi_read_request,
             fpm_request_info, startup_fails, bailout, answered_without_script,
             fpm_request_executing, fastcgi_finish_request, script_ends,
             php_request_shutdown, count_request, leave, sig_soft_quit,
             sigterm_kills, ptrace_stops, fpm_trace_signal, terminate, fpm_php_trace
    <2>2. Active /\ Late
      BY <2>1 DEF fpm_request_check_timed_out
    <2> QED
      BY <2>2 DEF RequestInv, Timing, Late
  <1>2. Spec => [][Justified]_vars
    BY <1>1, RequestInvariant, PTL DEF Spec
  <1> QED
    BY <1>2 DEF TimeoutJustified

\* fpm_request_check_timed_out traces a request at most once: slow_logged holds
\* the accept time it traced for as long as the slot shows that time.
THEOREM RequestTracedOnce == Spec => []TracedOnce
  <1>1. RequestInv => TracedOnce
    BY DEF RequestInv, Tracing, TracedOnce
  <1> QED
    BY <1>1, RequestInvariant, PTL

\* A worker that leaves the loop of fpm_main.c has answered what it read.  The
\* failing startup, the end of the script and the end of the loop, which may all
\* call fcgi_finish_request, answer it once; a second FCGI_END_REQUEST takes
\* fastcgi_finish_request on a connection to be kept.
THEOREM RequestDrained == Spec => []DrainedBeforeExit
  <1>1. RequestInv => DrainedBeforeExit
    BY DEF RequestInv, Answering, DrainedBeforeExit
  <1> QED
    BY <1>1, RequestInvariant, PTL

\* A slot that shows ACCEPTING or FINISHED is never that of a worker holding a
\* connection it has begun to read, although fcgi_close reports the end of a
\* request only when it really closes the connection.
THEOREM RequestSlotTruth == Spec => []SlotTellsTruth
  <1>1. RequestInv => SlotTellsTruth
    BY DEF RequestInv, Connection, SlotTellsTruth, Active
  <1> QED
    BY <1>1, RequestInvariant, PTL

=============================================================================
