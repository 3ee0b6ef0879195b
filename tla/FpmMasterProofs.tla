---------------------------- MODULE FpmMasterProofs ----------------------------
(***************************************************************************)
(* Proofs about FpmMaster, for any pools, processes and configuration.     *)
(***************************************************************************)
EXTENDS FpmMaster, FiniteSetTheorems, SequenceTheorems, TLAPS

(***************************************************************************)
(* The inductive invariant.  Besides the properties themselves it holds    *)
(* what the code relies on between two handlers: a fpm_children_make in    *)
(* progress never aims above pm.max_children, only living workers are      *)
(* traced, and a shutdown signal or its timer exists only once the state   *)
(* has left NORMAL.                                                        *)
(***************************************************************************)
MakeBounded ==
  /\ pc \in {"make", "fault"} =>
       make.wp \in Pool /\ make.max <= pm_max_children[make.wp]
  /\ pc = "fault" => make.ret = "bury"

RequestsOK ==
  /\ pc \in {"terminate", "trace"} => victim \in Child
  /\ \A c \in Child : trace[c] # "no" => Live(c)

ShutdownOn ==
  pctl_timer # "off" \/ fpm_signal_sent # "none" => fpm_state # "NORMAL"

CoreInv ==
  /\ TypeOK
  /\ CountersExact
  /\ MaxChildrenRespected
  /\ MakeBounded
  /\ RequestsOK

MasterInv ==
  /\ CoreInv
  /\ ShutdownOn
  /\ NoLostSigchld
  /\ NoOrphanWorkers
  /\ EveryoneSignalled

Byte == {"C", "T", "Q", "2"}
Signal == {"QUIT", "TERM", "KILL"}
States == {"NORMAL", "RELOADING", "FINISHING", "TERMINATING"}
Procs == {"none", "starting", "ready", "idle", "busy", "zombie"}
Statuses == {"none", "exited", "fault", "killed"}
Pcs == {"create", "make", "poll", "signals", "bury", "fault", "timers",
        "heartbeat", "idle", "scan", "requests", "terminate", "trace",
        "exited", "execed"}
Traces == {"no", "attached", "stopped", "left"}
Held == SUBSET {"QUIT", "TERM"}

HasC(q) == \E i \in DOMAIN q : q[i] = "C"

\* What a step that only signals workers may do to them when the pipe holds q:
\* it buries nobody, starts nobody, and announces every death it causes.
KillEffect(q) ==
  /\ pipe' \in Seq(Byte)
  /\ proc' \in [Child -> Procs]
  /\ status' \in [Child -> Statuses]
  /\ quitting' \in SUBSET Child
  /\ quitting \subseteq quitting'
  /\ trace' \in [Child -> Traces]
  /\ pending' \in [Child -> Held]
  /\ HasC(q) => HasC(pipe')
  /\ \A c \in Child : /\ proc'[c] = proc[c] \/ (Live(c) /\ proc'[c] = "zombie")
                      /\ proc'[c] # proc[c] => HasC(pipe') /\ trace'[c] = "no"
                      /\ trace'[c] \in {trace[c], "no"}
                      /\ Live(c)' => pending[c] \subseteq pending'[c]

\* EveryoneSignalled, before the master has ended.
AllSignalled ==
  /\ fpm_signal_sent \in {"QUIT", "TERM"} =>
       \A c \in Linked : Live(c) =>
         \/ c \in deaf
         \/ fpm_signal_sent \in pending[c]
         \/ fpm_signal_sent = "QUIT" /\ c \in quitting
  /\ fpm_signal_sent = "KILL" => \A c \in Linked : ~Live(c)

-----------------------------------------------------------------------------
\* A byte added by sig_handler is in the pipe afterwards, and none is lost.
LEMMA SigHandlerLemma ==
  ASSUME NEW q \in Seq(Byte), NEW b \in Byte
  PROVE  /\ sig_handler(q, b) \in Seq(Byte)
         /\ HasC(q) => HasC(sig_handler(q, b))
         /\ b = "C" => HasC(sig_handler(q, b))
  <1>1. CASE q # <<>> /\ q[Len(q)] = b
    <2>1. sig_handler(q, b) = q
      BY <1>1 DEF sig_handler
    <2>2. Len(q) \in DOMAIN q
      BY <1>1
    <2> QED
      BY <1>1, <2>1, <2>2 DEF HasC
  <1>2. CASE ~(q # <<>> /\ q[Len(q)] = b)
    <2>1. sig_handler(q, b) = Append(q, b)
      BY <1>2 DEF sig_handler
    <2>2. /\ Append(q, b) \in Seq(Byte)
          /\ Len(Append(q, b)) = Len(q) + 1
          /\ Append(q, b)[Len(q) + 1] = b
          /\ \A i \in 1 .. Len(q) : Append(q, b)[i] = q[i]
      OBVIOUS
    <2>3. DOMAIN q = 1 .. Len(q) /\ DOMAIN Append(q, b) = 1 .. Len(q) + 1
      BY <2>2
    <2>4. HasC(q) => HasC(Append(q, b))
      BY <2>2, <2>3 DEF HasC
    <2>5. Len(q) + 1 \in DOMAIN Append(q, b)
      BY <2>3
    <2>6. b = "C" => HasC(Append(q, b))
      BY <2>2, <2>5 DEF HasC
    <2> QED
      BY <2>1, <2>2, <2>4, <2>6
  <1> QED
    BY <1>1, <1>2

\* Reading the head of the pipe loses no other byte.
LEMMA TailLemma ==
  ASSUME NEW q \in Seq(Byte), q # <<>>
  PROVE  /\ Head(q) \in Byte
         /\ Tail(q) \in Seq(Byte)
         /\ HasC(q) /\ Head(q) # "C" => HasC(Tail(q))
  <1>1. Head(q) \in Byte /\ Tail(q) \in Seq(Byte)
    OBVIOUS
  <1>2. ASSUME HasC(q), Head(q) # "C" PROVE HasC(Tail(q))
    <2>1. PICK i \in 1 .. Len(q) : q[i] = "C"
      BY <1>2 DEF HasC
    <2>2. i # 1
      BY <2>1, <1>2
    <2>3. i - 1 \in 1 .. Len(Tail(q)) /\ Tail(q)[i - 1] = "C"
      BY <2>1, <2>2
    <2>4. i - 1 \in DOMAIN Tail(q)
      BY <2>3, <1>1
    <2> QED
      BY <2>3, <2>4 DEF HasC
  <1> QED
    BY <1>1, <1>2

\* kill() has the effect just described; whoever hears it reacts, and to
\* whoever is attached it stays pending.
LEMMA KillLemma ==
  ASSUME TypeOK, NEW S \in SUBSET Child, NEW sig \in Signal, NEW q \in Seq(Byte),
         Kill(S, sig, q)
  PROVE  /\ KillEffect(q)
         /\ \A c \in S : Gets(c, sig) =>
              \/ sig # "KILL" /\ sig \in pending'[c]
              \/ sig = "QUIT" /\ c \in quitting'
              \/ sig # "QUIT" /\ proc'[c] = "zombie"
  <1> DEFINE hit  == {c \in S : Hears(c, sig)}
             held == {c \in S : Gets(c, sig)} \ hit
             dead == IF sig = "QUIT" THEN {} ELSE hit
  <1>1. /\ quitting' = quitting \cup (hit \ dead)
        /\ proc' = [c \in Child |-> IF c \in dead THEN "zombie" ELSE proc[c]]
        /\ status' = [c \in Child |-> IF c \in dead THEN "killed" ELSE status[c]]
        /\ trace' = [c \in Child |-> IF c \in dead THEN "no" ELSE trace[c]]
        /\ pending' = [c \in Child |-> CASE c \in dead -> {}
                                         [] c \in held -> pending[c] \cup {sig}
                                         [] OTHER     -> pending[c]]
        /\ pipe' = IF dead = {} THEN q ELSE sig_handler(q, "C")
    BY DEF Kill
  <1>2. /\ sig_handler(q, "C") \in Seq(Byte)
        /\ HasC(sig_handler(q, "C"))
    BY SigHandlerLemma DEF Byte
  <1>3. pipe' \in Seq(Byte) /\ (HasC(q) => HasC(pipe')) /\ (dead # {} => HasC(pipe'))
    BY <1>1, <1>2
  <1>4. /\ hit \subseteq Child /\ dead \subseteq hit
        /\ \A c \in hit : Live(c)
        /\ held # {} => sig \in {"QUIT", "TERM"}
        /\ held \cap dead = {}
    BY DEF Gets, Hears, Signal
  <1>5. \A c \in S : Gets(c, sig) => c \in hit \cup held
    OBVIOUS
  <1>6. sig # "QUIT" => dead = hit
    OBVIOUS
  <1>7. sig = "QUIT" => dead = {}
    OBVIOUS
  <1> HIDE DEF hit, held, dead
  <1>8. /\ proc' \in [Child -> Procs] /\ status' \in [Child -> Statuses]
        /\ trace' \in [Child -> Traces] /\ quitting' \in SUBSET Child
    BY <1>1, <1>4 DEF TypeOK, Procs, Statuses, Traces
  <1>9. /\ \A c \in Child : pending'[c] = CASE c \in dead -> {}
                                            [] c \in held -> pending[c] \cup {sig}
                                            [] OTHER     -> pending[c]
        /\ DOMAIN pending' = Child
        /\ pending' = [c \in Child |-> pending'[c]]
    BY <1>1
  <1>10. ASSUME NEW c \in Child
         PROVE  pending'[c] \in Held /\ (c \notin dead => pending[c] \subseteq pending'[c])
    <2>1. pending[c] \in Held
      BY DEF TypeOK, Held
    <2>2. CASE c \in dead
      BY <1>4, <1>9, <2>2 DEF Held
    <2>3. CASE c \in held
      <3>1. pending'[c] = pending[c] \cup {sig} /\ sig \in {"QUIT", "TERM"}
        BY <1>4, <1>9, <2>3
      <3> QED
        BY <2>1, <3>1 DEF Held
    <2>4. CASE c \notin dead /\ c \notin held
      BY <1>9, <2>1, <2>4
    <2> QED
      BY <2>2, <2>3, <2>4
  <1>11. pending' \in [Child -> Held]
    BY <1>9, <1>10
  <1>12. \A c \in Child : c \in dead => ~Live(c)'
    BY <1>1 DEF Live
  <1>13. \A c \in Child : /\ proc'[c] = proc[c] \/ (Live(c) /\ proc'[c] = "zombie")
                          /\ proc'[c] # proc[c] => HasC(pipe') /\ trace'[c] = "no"
                          /\ trace'[c] \in {trace[c], "no"}
    BY <1>1, <1>3, <1>4
  <1>14. KillEffect(q)
    BY <1>1, <1>3, <1>8, <1>10, <1>11, <1>12, <1>13 DEF KillEffect
  <1>15. \A c \in held : c \in Child => sig # "KILL" /\ sig \in pending'[c]
    BY <1>4, <1>9
  <1>16. \A c \in hit : IF sig = "QUIT" THEN c \in quitting' ELSE proc'[c] = "zombie"
    BY <1>1, <1>4, <1>6, <1>7
  <1> QED
    BY <1>5, <1>14, <1>15, <1>16

\* fpm_pctl_action_next: without children the master ends; otherwise it has
\* signalled every one of them when it goes on.
LEMMA ActionNextLemma ==
  ASSUME TypeOK, NEW state \in States, NEW last \in {"none", "QUIT", "TERM", "KILL"},
         NEW q \in Seq(Byte), NEW timer \in {"off", "due", "set"}, NEW rest,
         fpm_pctl_action_next(state, last, q, timer, rest), UNCHANGED children
  PROVE  /\ KillEffect(q)
         /\ fpm_signal_sent' \in {"none", "QUIT", "TERM", "KILL"}
         /\ pctl_timer' \in {"off", "due", "set"}
         /\ deaf' \in SUBSET Child
         /\ \/ /\ running_children = 0
               /\ pc' \in {"exited", "execed"}
               /\ pc' = "execed" => state = "RELOADING"
               /\ UNCHANGED <<proc, fpm_signal_sent, pctl_timer>>
            \/ pc' = rest /\ AllSignalled'
  <1> USE DEF killVars
  <1>1. CASE running_children = 0
    <2>1. /\ pipe' = q
          /\ fpm_pctl_action_last(state)
          /\ UNCHANGED <<fpm_signal_sent, pctl_timer, deaf, killVars>>
      BY <1>1 DEF fpm_pctl_action_next
    <2>2. KillEffect(q)
      BY <2>1 DEF TypeOK, KillEffect, Procs, Statuses, Traces, Held, Live
    <2>3. pc' \in {"exited", "execed"} /\ (pc' = "execed" => state = "RELOADING")
      BY <2>1 DEF fpm_pctl_action_last
    <2> QED
      BY <1>1, <2>1, <2>2, <2>3 DEF TypeOK
  <1>2. CASE running_children # 0
    <2> DEFINE sig == NextSignal(state, last)
    <2>1. /\ Kill(Linked, sig, q)
          /\ fpm_signal_sent' = sig
          /\ deaf' = {c \in Linked : Live(c) /\ ~Gets(c, sig)}
          /\ pctl_timer' = timer
          /\ pc' = rest
      BY <1>2 DEF fpm_pctl_action_next
    <2>2. sig \in Signal
      BY DEF NextSignal, Signal
    <2>3. Linked \in SUBSET Child /\ Linked' = Linked
      BY DEF Linked, TypeOK
    <2>4. /\ KillEffect(q)
          /\ \A c \in Linked : Gets(c, sig) =>
               \/ sig # "KILL" /\ sig \in pending'[c]
               \/ sig = "QUIT" /\ c \in quitting'
               \/ sig # "QUIT" /\ proc'[c] = "zombie"
      BY <2>1, <2>2, <2>3, KillLemma
    <2>5. \A c \in Linked : Live(c)' => Live(c)
      BY <2>3, <2>4 DEF KillEffect, Live
    <2>6. ASSUME NEW c \in Linked, Live(c)'
          PROVE  /\ \/ c \in deaf'
                    \/ sig \in pending'[c]
                    \/ sig = "QUIT" /\ c \in quitting'
                 /\ sig # "KILL"
      <3>1. Gets(c, sig) => /\ sig # "KILL"
                            /\ \/ sig \in pending'[c]
                               \/ sig = "QUIT" /\ c \in quitting'
        BY <2>4, <2>6 DEF Live
      <3>2. ~Gets(c, sig) => c \in deaf' /\ sig # "KILL"
        BY <2>1, <2>5, <2>6 DEF Gets
      <3> QED
        BY <3>1, <3>2
    <2>7. AllSignalled'
      BY <2>1, <2>3, <2>6 DEF AllSignalled
    <2>8. deaf' \in SUBSET Child
      BY <2>1, <2>3
    <2> QED
      BY <2>1, <2>2, <2>4, <2>7, <2>8 DEF Signal
  <1> QED
    BY <1>1, <1>2

\* fpm_pctl with FPM_PCTL_ACTION_SET: the new state is ignored, or it is
\* stronger than the old one and the master ends or has signalled everyone.
LEMMA PctlSetLemma ==
  ASSUME TypeOK, NEW new \in States \ {"NORMAL"}, NEW q \in Seq(Byte), NEW rest,
         fpm_pctl_set(new, q, rest), UNCHANGED children
  PROVE  /\ KillEffect(q)
         /\ fpm_state' \in States
         /\ fpm_signal_sent' \in {"none", "QUIT", "TERM", "KILL"}
         /\ pctl_timer' \in {"off", "due", "set"}
         /\ deaf' \in SUBSET Child
         /\ Rank(fpm_state') >= Rank(fpm_state)
         /\ \/ /\ running_children = 0
               /\ pc' \in {"exited", "execed"}
               /\ pc' = "execed" => fpm_state' = "RELOADING"
               /\ fpm_state' # "NORMAL"
               /\ UNCHANGED <<proc, fpm_signal_sent, pctl_timer>>
            \/ pc' = rest /\ AllSignalled' /\ fpm_state' # "NORMAL"
            \/ pc' = rest /\ UNCHANGED <<ctlVars, killVars>>
  <1> USE DEF killVars
  <1>1. CASE Overrides(new, fpm_state)
    <2> DEFINE timer == IF process_control_timeout = 0 THEN "due" ELSE "set"
    <2>1. fpm_state' = new /\ fpm_pctl_action_next(new, "none", q, timer, rest)
      BY <1>1 DEF fpm_pctl_set
    <2>2. timer \in {"off", "due", "set"}
      OBVIOUS
    <2> HIDE DEF timer
    <2>3. /\ KillEffect(q)
          /\ fpm_signal_sent' \in {"none", "QUIT", "TERM", "KILL"}
          /\ pctl_timer' \in {"off", "due", "set"}
          /\ deaf' \in SUBSET Child
          /\ \/ /\ running_children = 0
                /\ pc' \in {"exited", "execed"}
                /\ pc' = "execed" => new = "RELOADING"
                /\ UNCHANGED <<proc, fpm_signal_sent, pctl_timer>>
             \/ pc' = rest /\ AllSignalled'
      BY <2>1, <2>2, ActionNextLemma
    <2>4. Rank(new) >= Rank(fpm_state)
      BY <1>1 DEF Overrides, Rank, States, TypeOK
    <2> QED
      BY <2>1, <2>3, <2>4
  <1>2. CASE ~Overrides(new, fpm_state)
    <2>1. /\ pc' = rest
          /\ pipe' = q
          /\ UNCHANGED <<ctlVars, killVars>>
      BY <1>2 DEF fpm_pctl_set
    <2>2. KillEffect(q)
      BY <2>1 DEF TypeOK, KillEffect, Procs, Statuses, Traces, Held, Live
    <2>3. Rank(fpm_state') >= Rank(fpm_state)
      BY <2>1 DEF ctlVars, Rank, States, TypeOK
    <2> QED
      BY <2>1, <2>2, <2>3 DEF ctlVars, TypeOK, States
  <1> QED
    BY <1>1, <1>2

-----------------------------------------------------------------------------
(***************************************************************************)
(* The counters.                                                           *)
(***************************************************************************)

\* A step that neither links, unlinks, starts nor buries a child.
LEMMA ListsKept ==
  ASSUME CountersExact, MaxChildrenRespected, UNCHANGED listVars,
         \A c \in Child : proc'[c] = "none" <=> proc[c] = "none"
  PROVE  CountersExact' /\ MaxChildrenRespected'
  <1>1. /\ children' = children
        /\ wp_running' = wp_running
        /\ running_children' = running_children
    BY DEF listVars
  <1>2. Linked' = Linked
    BY <1>1 DEF Linked
  <1>3. {c \in Child : proc'[c] # "none"} = {c \in Child : proc[c] # "none"}
    OBVIOUS
  <1> QED
    BY <1>1, <1>2, <1>3 DEF CountersExact, MaxChildrenRespected

\* The sets whose cardinality is counted are finite.
LEMMA ListsFinite ==
  ASSUME TypeOK
  PROVE  /\ Linked \subseteq Child
         /\ IsFiniteSet(Linked)
         /\ \A p \in Pool : IsFiniteSet(children[p]) /\ children[p] \subseteq Linked
  <1>1. \A p \in Pool : children[p] \subseteq Child /\ children[p] \subseteq Linked
    BY DEF TypeOK, Linked
  <1>2. Linked \subseteq Child
    BY DEF TypeOK, Linked
  <1> QED
    BY <1>1, <1>2, FS_Subset, FiniteAssumption

\* fpm_child_link keeps the counters exact.
LEMMA LinkLemma ==
  ASSUME TypeOK, CountersExact, NEW c \in Child, NEW p \in Pool, proc[c] = "none",
         fpm_child_link(c, p), proc' = [proc EXCEPT ![c] = "starting"]
  PROVE  /\ CountersExact'
         /\ children' \in [Pool -> SUBSET Child]
         /\ wp_running' \in [Pool -> Nat]
         /\ running_children' \in Nat
  <1>1. /\ children' = [children EXCEPT ![p] = @ \cup {c}]
        /\ wp_running' = [wp_running EXCEPT ![p] = @ + 1]
        /\ running_children' = running_children + 1
    BY DEF fpm_child_link
  <1>2. c \notin Linked
    BY DEF CountersExact
  <1>3. \A q \in Pool : children'[q] = IF q = p THEN children[q] \cup {c} ELSE children[q]
    BY <1>1 DEF TypeOK
  <1>4. \A q \in Pool : wp_running'[q] = IF q = p THEN wp_running[q] + 1 ELSE wp_running[q]
    BY <1>1 DEF TypeOK
  <1>5. Linked' = Linked \cup {c}
    <2>1. \A d : d \in Linked <=> \E q \in Pool : d \in children[q]
      BY DEF Linked
    <2>2. \A d : d \in Linked' <=> \E q \in Pool : d \in children'[q]
      BY DEF Linked
    <2>3. c \in Linked' /\ Linked \subseteq Linked'
      BY <1>3, <2>1, <2>2
    <2>4. \A d \in Linked' : d \in Linked \/ d = c
      BY <1>3, <2>1, <2>2
    <2> QED
      BY <2>3, <2>4
  <1>6. \A q \in Pool : IsFiniteSet(children[q]) /\ c \notin children[q]
    BY <1>2, ListsFinite
  <1>7. Cardinality(children[p] \cup {c}) = Cardinality(children[p]) + 1
    BY <1>6, FS_AddElement
  <1>8. \A q \in Pool : wp_running'[q] = Cardinality(children'[q])
    BY <1>3, <1>4, <1>7 DEF CountersExact
  <1>9. running_children' = Cardinality(Linked')
    BY <1>1, <1>2, <1>5, ListsFinite, FS_AddElement DEF CountersExact
  <1>10. \A q, r \in Pool : q # r => children'[q] \cap children'[r] = {}
    <2> SUFFICES ASSUME NEW q \in Pool, NEW r \in Pool, q # r
                 PROVE  children'[q] \cap children'[r] = {}
      OBVIOUS
    <2>1. children[q] \cap children[r] = {}
      BY DEF CountersExact
    <2>2. c \notin children[q] /\ c \notin children[r]
      BY <1>6
    <2> QED
      BY <1>3, <2>1, <2>2
  <1>11. {d \in Child : proc'[d] # "none"} = {d \in Child : proc[d] # "none"} \cup {c}
    BY DEF TypeOK
  <1>12. Linked' = {d \in Child : proc'[d] # "none"}
    BY <1>5, <1>11 DEF CountersExact
  <1>13. CountersExact'
    BY <1>8, <1>9, <1>10, <1>12 DEF CountersExact
  <1> QED
    BY <1>1, <1>13 DEF TypeOK

\* fpm_child_unlink keeps them exact, and a pool that loses a child had one.
LEMMA UnlinkLemma ==
  ASSUME TypeOK, CountersExact, NEW c \in Child, NEW p \in Pool, c \in children[p],
         fpm_child_unlink(c, p), proc' = [proc EXCEPT ![c] = "none"]
  PROVE  /\ CountersExact'
         /\ children' \in [Pool -> SUBSET Child]
         /\ wp_running' \in [Pool -> Nat]
         /\ running_children' \in Nat
         /\ wp_running'[p] = wp_running[p] - 1
         /\ Linked' = Linked \ {c}
  <1>1. /\ children' = [children EXCEPT ![p] = @ \ {c}]
        /\ wp_running' = [wp_running EXCEPT ![p] = @ - 1]
        /\ running_children' = running_children - 1
    BY DEF fpm_child_unlink
  <1>2. c \in Linked
    BY ListsFinite
  <1>3. \A q \in Pool : children'[q] = IF q = p THEN children[q] \ {c} ELSE children[q]
    BY <1>1 DEF TypeOK
  <1>4. \A q \in Pool : wp_running'[q] = IF q = p THEN wp_running[q] - 1 ELSE wp_running[q]
    BY <1>1 DEF TypeOK
  <1>5. \A q \in Pool : q # p => c \notin children[q]
    BY DEF CountersExact
  <1>6. Linked' = Linked \ {c}
    BY <1>3, <1>5 DEF Linked
  <1>7. \A q \in Pool : IsFiniteSet(children[q]) /\ Cardinality(children[q]) \in Nat
    BY ListsFinite, FS_CardinalityType
  <1>8. /\ IsFiniteSet(children[p] \ {c})
        /\ Cardinality(children[p] \ {c}) = Cardinality(children[p]) - 1
    BY <1>7, FS_RemoveElement
  <1>9. /\ IsFiniteSet(Linked \ {c})
        /\ Cardinality(Linked \ {c}) = Cardinality(Linked) - 1
    BY <1>2, ListsFinite, FS_RemoveElement
  <1>10. Cardinality(children[p] \ {c}) \in Nat /\ Cardinality(Linked \ {c}) \in Nat
    BY <1>8, <1>9, FS_CardinalityType
  <1>11. \A q \in Pool : wp_running'[q] = Cardinality(children'[q])
    BY <1>3, <1>4, <1>8 DEF CountersExact
  <1>12. running_children' = Cardinality(Linked')
    BY <1>1, <1>6, <1>9 DEF CountersExact
  <1>13. \A q, r \in Pool : q # r => children'[q] \cap children'[r] = {}
    BY <1>3 DEF CountersExact
  <1>14. {d \in Child : proc'[d] # "none"} = {d \in Child : proc[d] # "none"} \ {c}
    BY DEF TypeOK
  <1>15. Linked' = {d \in Child : proc'[d] # "none"}
    BY <1>6, <1>14 DEF CountersExact
  <1>16. CountersExact'
    BY <1>11, <1>12, <1>13, <1>15 DEF CountersExact
  <1>17. \A q \in Pool : wp_running'[q] \in Nat
    BY <1>3, <1>7, <1>8, <1>10, <1>11
  <1>18. children' \in [Pool -> SUBSET Child] /\ DOMAIN wp_running' = Pool
    BY <1>1 DEF TypeOK
  <1>19. wp_running' \in [Pool -> Nat]
    BY <1>1, <1>17, <1>18 DEF TypeOK
  <1>20. running_children' \in Nat
    BY <1>6, <1>10, <1>12
  <1> QED
    BY <1>4, <1>6, <1>16, <1>18, <1>19, <1>20

-----------------------------------------------------------------------------
(***************************************************************************)
(* Types, counters and limits are kept by every step.                      *)
(***************************************************************************)

\* The step neither links, unlinks, starts nor buries a child.
Kept ==
  /\ UNCHANGED listVars
  /\ \A c \in Child : proc'[c] = "none" <=> proc[c] = "none"

\* Steps of the master that leave the workers alone.
LEMMA LoopCore ==
  ASSUME CoreInv,
         \/ fpm_children_create_initial
         \/ make_done
         \/ make_fails
         \/ poll_returns
         \/ bury_ends
         \/ pctl_not_due
         \/ idle_heartbeat
         \/ no_idle_heartbeat
         \/ next_pool
         \/ idle_pool_kept
         \/ timers_done
         \/ \E c \in Child : fpm_request_is_idle(c)
         \/ \E c \in Child : request_timed_out(c)
         \/ \E c \in Child : request_slow(c)
         \/ fpm_trace_signal
  PROVE  TypeOK' /\ Kept /\ MakeBounded' /\ RequestsOK'
  <1> USE DEF CoreInv, requestVars
  <1>1. CASE fpm_children_create_initial
    <2>1. /\ Kept
          /\ UNCHANGED <<ctlVars, listVars, idle_kill, idle_spawn_rate, scan, requestVars,
                         signalVars, workerVars>>
      BY <1>1 DEF fpm_children_create_initial, Kept, workerVars
    <2>2. CASE \E p \in todo :
                 /\ StartMake(p, IF p \in Static THEN pm_max_children[p]
                                                 ELSE pm_start_servers[p], "create")
                 /\ todo' = todo \ {p}
      <3>1. PICK p \in todo :
              /\ StartMake(p, IF p \in Static THEN pm_max_children[p]
                                              ELSE pm_start_servers[p], "create")
              /\ todo' = todo \ {p}
        BY <2>2
      <3> DEFINE max == IF p \in Static THEN pm_max_children[p] ELSE pm_start_servers[p]
      <3>2. p \in Pool
        BY DEF TypeOK
      <3>3. max \in Nat /\ max <= pm_max_children[p]
        BY <3>2, ConfigAssumption
      <3>4. pc' = "make" /\ make' = [wp |-> p, max |-> max, ret |-> "create"]
        BY <3>1 DEF StartMake
      <3> HIDE DEF max
      <3> QED
        BY <2>1, <3>1, <3>2, <3>3, <3>4 DEF TypeOK, MakeBounded, RequestsOK, Live, listVars, ctlVars,
           signalVars, workerVars
    <2>3. CASE todo = {} /\ pc' = "poll" /\ UNCHANGED <<make, todo>>
      BY <2>1, <2>3 DEF TypeOK, MakeBounded, RequestsOK, Live, listVars, ctlVars, signalVars, workerVars
    <2> QED
      BY <1>1, <2>2, <2>3 DEF fpm_children_create_initial
  <1>2. CASE make_done
    BY <1>2 DEF make_done, make_ends, NoMake, TypeOK, Kept, MakeBounded, RequestsOK, Live, listVars, loopVars, ctlVars, signalVars, workerVars
  <1>3. CASE make_fails
    BY <1>3 DEF make_fails, make_ends, NoMake, TypeOK, Kept, MakeBounded, RequestsOK, Live, listVars, loopVars, ctlVars, signalVars, workerVars
  <1>4. CASE poll_returns
    BY <1>4 DEF poll_returns, TypeOK, Kept, MakeBounded, RequestsOK, Live, listVars, loopVars, ctlVars, signalVars, workerVars
  <1>5. CASE bury_ends
    BY <1>5 DEF bury_ends, TypeOK, Kept, MakeBounded, RequestsOK, Live, listVars, loopVars, ctlVars, signalVars, workerVars
  <1>6. CASE pctl_not_due
    BY <1>6 DEF pctl_not_due, TypeOK, Kept, MakeBounded, RequestsOK, Live, listVars, loopVars, ctlVars, signalVars, workerVars
  <1>7. CASE idle_heartbeat
    BY <1>7 DEF idle_heartbeat, TypeOK, Kept, MakeBounded, RequestsOK, Live, listVars, loopVars, ctlVars, signalVars, workerVars
  <1>8. CASE no_idle_heartbeat
    BY <1>8 DEF no_idle_heartbeat, TypeOK, Kept, MakeBounded, RequestsOK, Live, listVars, loopVars, ctlVars, signalVars, workerVars
  <1>9. CASE next_pool
    BY <1>9 DEF next_pool, TypeOK, Kept, MakeBounded, RequestsOK, Live, listVars, loopVars, ctlVars, signalVars, workerVars
  <1>10. CASE idle_pool_kept
    BY <1>10 DEF idle_pool_kept, ScanDone, NoScan, TypeOK, Kept, MakeBounded, RequestsOK, Live, listVars, loopVars, ctlVars, signalVars, workerVars
  <1>11. CASE timers_done
    BY <1>11 DEF timers_done, TypeOK, Kept, MakeBounded, RequestsOK, Live, listVars, loopVars, ctlVars, signalVars, workerVars
  <1>12. CASE \E c \in Child : fpm_request_is_idle(c)
    <2>1. PICK c \in Child : fpm_request_is_idle(c)
      BY <1>12
    <2>2. /\ scan' = [scan EXCEPT !.unread = @ \ {c},
                                  !.idle = IF c \in accepting THEN @ \cup {c} ELSE @]
          /\ UNCHANGED <<pc, ctlVars, listVars, idle_kill, todo, make, requestVars,
                         idle_spawn_rate, signalVars, workerVars>>
      BY <2>1 DEF fpm_request_is_idle
    <2>3. scan' \in [wp : Pool \cup {NoPool}, unread : SUBSET Child, idle : SUBSET Child]
      BY <2>2 DEF TypeOK
    <2> QED
      BY <2>2, <2>3 DEF TypeOK, Kept, MakeBounded, RequestsOK, Live, listVars, ctlVars, signalVars, workerVars
  <1>13. CASE \E c \in Child : request_timed_out(c)
    BY <1>13 DEF request_timed_out, RequestRuns, TypeOK, Kept, MakeBounded, RequestsOK, Live, listVars, loopVars, ctlVars, signalVars, workerVars
  <1>14. CASE \E c \in Child : request_slow(c)
    BY <1>14 DEF request_slow, RequestRuns, TypeOK, Kept, MakeBounded, RequestsOK, Live, listVars, loopVars, ctlVars, signalVars, workerVars
  <1>15. CASE fpm_trace_signal
    <2>1. /\ trace' \in [Child -> {"no", "attached", "stopped", "left"}]
          /\ \A c \in Child : trace'[c] # "no" => trace[c] # "no" \/ Live(c)
      BY <1>15 DEF fpm_trace_signal, TypeOK
    <2> QED
      BY <1>15, <2>1 DEF fpm_trace_signal, TypeOK, Kept, MakeBounded, RequestsOK, Live,
         listVars, ctlVars, signalVars
  <1> QED
    BY <1>1, <1>2, <1>3, <1>4, <1>5, <1>6, <1>7, <1>8, <1>9, <1>10, <1>11, <1>12, <1>13,
       <1>14, <1>15

\* The idle maintenance aims at pm.max_children at most.
LEMMA ForkedCore ==
  ASSUME CoreInv, idle_children_forked
  PROVE  TypeOK' /\ Kept /\ MakeBounded' /\ RequestsOK'
  <1> DEFINE p == scan.wp
             i == Cardinality(scan.idle)
             n == Smaller(Smaller(idle_spawn_rate[p], pm_min_spare_servers[p] - i),
                          pm_max_children[p] - wp_running[p])
  <1>1. /\ p \in Dynamic
        /\ TooFewIdle /\ ~Full
        /\ StartMake(p, wp_running[p] + n, "idle")
        /\ idle_spawn_rate' =
             [idle_spawn_rate EXCEPT ![p] = IF @ < FPM_MAX_SPAWN_RATE THEN 2 * @ ELSE @]
        /\ scan' = NoScan
        /\ UNCHANGED <<ctlVars, listVars, idle_kill, todo, requestVars, signalVars, workerVars>>
    BY DEF idle_children_forked
  <1>2. p \in Pool
    BY <1>1 DEF Dynamic
  <1>3. i \in Nat
    BY FS_Subset, FS_CardinalityType, FiniteAssumption DEF CoreInv, TypeOK
  <1>4. /\ idle_spawn_rate[p] \in Nat /\ wp_running[p] \in Nat
        /\ pm_min_spare_servers[p] \in Nat /\ pm_max_children[p] \in Nat
    BY <1>2, ConfigAssumption DEF CoreInv, TypeOK
  <1>5. i < pm_min_spare_servers[p] /\ wp_running[p] < pm_max_children[p]
    BY <1>1, <1>3, <1>4 DEF TooFewIdle, Full
  <1> HIDE DEF i, p
  <1>6. n \in Nat /\ wp_running[p] + n <= pm_max_children[p]
    BY <1>3, <1>4, <1>5 DEF Smaller
  <1> HIDE DEF n
  <1>7. pc' = "make" /\ make' = [wp |-> p, max |-> wp_running[p] + n, ret |-> "idle"]
    BY <1>1 DEF StartMake
  <1>8. make' \in [wp : Pool \cup {NoPool}, max : Nat, ret : {"create", "poll", "bury", "idle"}]
    BY <1>2, <1>4, <1>6, <1>7
  <1>9. idle_spawn_rate' \in [Pool -> Nat]
    BY <1>1, <1>2, <1>4 DEF CoreInv, TypeOK, FPM_MAX_SPAWN_RATE
  <1>10. scan' \in [wp : Pool \cup {NoPool}, unread : SUBSET Child, idle : SUBSET Child]
    BY <1>1 DEF NoScan
  <1>11. MakeBounded'
    BY <1>2, <1>6, <1>7 DEF MakeBounded
  <1>12. Kept
    BY <1>1 DEF Kept, workerVars
  <1> QED
    BY <1>1, <1>7, <1>8, <1>9, <1>10, <1>11, <1>12
       DEF CoreInv, TypeOK, RequestsOK, Live, requestVars, listVars, ctlVars, signalVars,
           workerVars

\* The pipe keeps its type when a byte is added.
LEMMA PipeType ==
  ASSUME TypeOK, NEW b \in Byte
  PROVE  sig_handler(pipe, b) \in Seq({"C", "T", "Q", "2"})
  BY SigHandlerLemma DEF TypeOK, Byte

\* Steps of administrators and workers.
LEMMA WorkerCore ==
  ASSUME CoreInv, SignalNext \/ WorkerNext
  PROVE  TypeOK' /\ Kept /\ MakeBounded' /\ RequestsOK'
  <1> USE DEF CoreInv, requestVars
  <1>1. CASE SignalNext
    <2>1. PICK b \in {"T", "Q", "2"} : send_signal(b)
      BY <1>1 DEF SignalNext
    <2>2. pipe' \in Seq({"C", "T", "Q", "2"})
      BY <2>1, PipeType DEF send_signal, Byte
    <2> QED
      BY <2>1, <2>2 DEF send_signal, TypeOK, Kept, MakeBounded, RequestsOK, Live, listVars, loopVars,
         ctlVars, workerVars
  <1>2. CASE WorkerNext
    <2>1. PICK c \in Child : \/ fpm_signals_init_child(c)
                             \/ fpm_request_accepting(c)
                             \/ fcgi_accept_request(c)
                             \/ fpm_request_reading_headers(c)
                             \/ fpm_request_finished(c)
                             \/ soft_quit(c) \/ worker_exits(c) \/ worker_faults(c)
                             \/ ptrace_stop(c)
      BY <1>2 DEF WorkerNext
    <2>2. CASE \/ fpm_signals_init_child(c) \/ fpm_request_accepting(c)
               \/ fcgi_accept_request(c) \/ fpm_request_reading_headers(c)
               \/ fpm_request_finished(c)
      <3>1. /\ UNCHANGED <<workerFrame, pipe, quitting, status, trace, pending>>
            /\ slow_logged' \subseteq Child
            /\ proc' \in [Child -> {"none", "starting", "ready", "idle", "busy", "zombie"}]
            /\ accepting' \subseteq Child
            /\ \A d \in Child : /\ proc'[d] = "none" <=> proc[d] = "none"
                                /\ proc'[d] = "zombie" <=> proc[d] = "zombie"
        <4> USE DEF traceVars
        <4>1. CASE fpm_signals_init_child(c)
          BY <4>1 DEF fpm_signals_init_child, TypeOK
        <4>2. CASE fpm_request_accepting(c)
          BY <4>2 DEF fpm_request_accepting, TypeOK
        <4>3. CASE fcgi_accept_request(c)
          BY <4>3 DEF fcgi_accept_request, TypeOK
        <4>4. CASE fpm_request_reading_headers(c)
          BY <4>4 DEF fpm_request_reading_headers, TypeOK
        <4>5. CASE fpm_request_finished(c)
          BY <4>5 DEF fpm_request_finished, TypeOK
        <4> QED
          BY <2>2, <4>1, <4>2, <4>3, <4>4, <4>5
      <3>2. UNCHANGED <<pc, ctlVars, listVars, idle_kill, todo, make, scan, victim, checked,
                        idle_spawn_rate, sent>>
        BY <3>1 DEF workerFrame
      <3>3. TypeOK'
        BY <3>1, <3>2 DEF TypeOK, listVars, ctlVars
      <3>4. RequestsOK'
        BY <3>1, <3>2 DEF RequestsOK, Live
      <3> QED
        BY <3>1, <3>2, <3>3, <3>4 DEF Kept, MakeBounded
    <2>3. CASE soft_quit(c) \/ worker_exits(c) \/ worker_faults(c)
      <3>0. \E how \in {"exited", "fault"} : Ends(c, how)
        BY <2>3 DEF soft_quit, worker_exits, worker_faults
      <3>1. PICK how \in {"exited", "fault"} : Live(c) /\ Ends(c, how)
        BY <3>0 DEF Ends
      <3>2. pipe' \in Seq({"C", "T", "Q", "2"})
        BY <3>1, PipeType DEF Ends, Byte
      <3> QED
        BY <3>1, <3>2 DEF Ends, TypeOK, Kept, MakeBounded, RequestsOK, Live, workerFrame, listVars,
           loopVars, ctlVars
    <2>4. CASE ptrace_stop(c)
      <3>1. /\ trace[c] = "attached"
            /\ trace' = [trace EXCEPT ![c] = "stopped"]
            /\ pending' = [pending EXCEPT ![c] = @ \ Swallowed(c)]
            /\ deaf' = IF fpm_signal_sent \in Swallowed(c) THEN deaf \cup {c} ELSE deaf
            /\ UNCHANGED <<pc, fpm_state, fpm_signal_sent, pctl_timer, listVars, idle_kill,
                           loopVars, sent, proc, accepting, quitting, status>>
        BY <2>4 DEF ptrace_stop
      <3>2. pipe' \in Seq({"C", "T", "Q", "2"})
        BY <2>4, PipeType DEF ptrace_stop, Byte
      <3>3. trace' \in [Child -> {"no", "attached", "stopped", "left"}]
        BY <3>1 DEF TypeOK
      <3>4. pending' \in [Child -> SUBSET {"QUIT", "TERM"}]
        BY <3>1 DEF TypeOK
      <3>5. RequestsOK'
        BY <3>1 DEF RequestsOK, TypeOK, Live, loopVars
      <3> QED
        BY <3>1, <3>2, <3>3, <3>4, <3>5 DEF TypeOK, Kept, MakeBounded, listVars, loopVars
    <2> QED
      BY <2>1, <2>2, <2>3, <2>4
  <1> QED
    BY <1>1, <1>2

\* What the steps that signal workers have in common.
EffectOK ==
  /\ Kept
  /\ pipe' \in Seq({"C", "T", "Q", "2"})
  /\ proc' \in [Child -> {"none", "starting", "ready", "idle", "busy", "zombie"}]
  /\ status' \in [Child -> {"none", "exited", "fault", "killed"}]
  /\ quitting' \subseteq Child
  /\ trace' \in [Child -> {"no", "attached", "stopped", "left"}]
  /\ pending' \in [Child -> SUBSET {"QUIT", "TERM"}]
  /\ \A c \in Child : trace'[c] # "no" => Live(c)'

LEMMA EffectKept ==
  ASSUME TypeOK, RequestsOK, NEW q, KillEffect(q), UNCHANGED listVars
  PROVE  EffectOK
  <1>1. \A c \in Child : trace'[c] # "no" => Live(c)'
    BY DEF KillEffect, RequestsOK, Live
  <1>2. Kept
    BY DEF KillEffect, Kept, Live
  <1> QED
    BY <1>1, <1>2 DEF EffectOK, KillEffect, Byte, Procs, Statuses, Traces, Held

\* The end of a trace lets a worker run on, which its pending signals reach.
LEMMA TraceEffect ==
  ASSUME TypeOK, RequestsOK, NEW c \in Child, fpm_php_trace(c)
  PROVE  /\ EffectOK
         /\ HasC(pipe) => HasC(pipe')
         /\ quitting \subseteq quitting'
         /\ \A d \in Child :
              /\ Live(d)' => Live(d)
              /\ Live(d)' =>
                   \/ pending[d] \subseteq pending'[d]
                   \/ pending[d] \subseteq {"QUIT"} /\ ("QUIT" \in pending[d] => d \in quitting')
              /\ proc'[d] = "zombie" => proc[d] = "zombie" \/ HasC(pipe')
              /\ trace'[d] = "stopped" => trace[d] = "stopped"
  <1>0. pipe \in Seq(Byte) /\ "C" \in Byte
    BY DEF TypeOK, Byte
  <1>1. Live(c) /\ UNCHANGED listVars
    BY DEF fpm_php_trace, RequestsOK
  <1>2. CASE trace' = [trace EXCEPT ![c] = "left"] /\ UNCHANGED <<proc, status, quitting, pending, pipe>>
    <2>1. /\ trace' \in [Child -> {"no", "attached", "stopped", "left"}]
          /\ \A d \in Child : d # c => trace'[d] = trace[d]
          /\ trace'[c] = "left"
      BY <1>2 DEF TypeOK
    <2>2. \A d \in Child : trace'[d] # "no" => Live(d)
      BY <1>1, <2>1 DEF RequestsOK
    <2>3. \A d \in Child : Live(d)' <=> Live(d)
      BY <1>2 DEF Live
    <2>4. EffectOK
      BY <1>1, <1>2, <2>1, <2>2, <2>3 DEF TypeOK, EffectOK, Kept
    <2>5. \A d \in Child : trace'[d] = "stopped" => trace[d] = "stopped"
      BY <2>1
    <2> QED
      BY <1>2, <2>3, <2>4, <2>5
  <1>3. CASE Deliver(c)
    <2>1. trace' = [trace EXCEPT ![c] = "no"] /\ pending' = [pending EXCEPT ![c] = {}]
      BY <1>3 DEF Deliver
    <2>2. /\ trace' \in [Child -> {"no", "attached", "stopped", "left"}]
          /\ pending' \in [Child -> SUBSET {"QUIT", "TERM"}]
          /\ \A d \in Child : d # c => trace'[d] = trace[d] /\ pending'[d] = pending[d]
          /\ trace'[c] = "no"
      BY <2>1 DEF TypeOK
    <2>3. CASE "TERM" \in pending[c]
      <3>1. /\ proc' = [proc EXCEPT ![c] = "zombie"]
            /\ status' = [status EXCEPT ![c] = "killed"]
            /\ pipe' = sig_handler(pipe, "C")
            /\ UNCHANGED quitting
        BY <1>3, <2>3 DEF Deliver
      <3>2. HasC(pipe') /\ pipe' \in Seq(Byte)
        BY <1>0, <3>1, SigHandlerLemma
      <3>3. /\ proc' \in [Child -> {"none", "starting", "ready", "idle", "busy", "zombie"}]
            /\ status' \in [Child -> {"none", "exited", "fault", "killed"}]
            /\ \A d \in Child : d # c => proc'[d] = proc[d]
            /\ proc'[c] = "zombie"
        BY <3>1 DEF TypeOK
      <3>4. EffectOK
        BY <1>1, <2>2, <3>1, <3>2, <3>3 DEF TypeOK, EffectOK, Kept, RequestsOK, Live, Byte
      <3>5. \A d \in Child : /\ Live(d)' => Live(d) /\ pending'[d] = pending[d]
                             /\ trace'[d] = "stopped" => trace[d] = "stopped"
        BY <2>2, <3>3 DEF Live
      <3> QED
        BY <3>1, <3>2, <3>4, <3>5
    <2>4. CASE "TERM" \notin pending[c]
      <3>1. /\ quitting' = IF "QUIT" \in pending[c] THEN quitting \cup {c} ELSE quitting
            /\ UNCHANGED <<proc, status, pipe>>
        BY <1>3, <2>4 DEF Deliver
      <3>2. EffectOK
        BY <1>1, <2>2, <3>1 DEF TypeOK, EffectOK, Kept, RequestsOK, Live
      <3>3. pending[c] \subseteq {"QUIT"}
        BY <2>4 DEF TypeOK
      <3>4. "QUIT" \in pending[c] => c \in quitting'
        BY <3>1
      <3>5. \A d \in Child : /\ Live(d)' => Live(d)
                             /\ trace'[d] = "stopped" => trace[d] = "stopped"
        BY <2>2, <3>1 DEF Live
      <3> QED
        BY <2>2, <3>1, <3>2, <3>3, <3>4, <3>5
    <2> QED
      BY <2>3, <2>4
  <1> QED
    BY <1>2, <1>3 DEF fpm_php_trace

\* Steps that signal workers.
LEMMA SignalCore ==
  ASSUME CoreInv,
         \/ fpm_got_signal
         \/ check_last_faults
         \/ fpm_pctl_action
         \/ idle_child_killed
         \/ terminate_victim
         \/ \E c \in Child : fpm_php_trace(c)
  PROVE  TypeOK' /\ Kept /\ MakeBounded' /\ RequestsOK'
  <1> USE DEF CoreInv, requestVars
  <1>0. pipe \in Seq(Byte)
    BY DEF TypeOK, Byte
  <1>1. CASE fpm_got_signal
    <2>1. UNCHANGED <<listVars, idle_kill, loopVars, sent, accepting>> /\ pc = "signals"
      BY <1>1 DEF fpm_got_signal
    <2>2. CASE /\ pipe = <<>>
               /\ pc' = "timers"
               /\ UNCHANGED <<pipe, ctlVars, killVars>>
      BY <2>1, <2>2 DEF TypeOK, Kept, MakeBounded, RequestsOK, Live, killVars, loopVars, listVars, ctlVars
    <2>3. CASE /\ pipe # <<>>
               /\ pc' = "bury"
               /\ pipe' = Tail(pipe)
               /\ UNCHANGED <<ctlVars, killVars>>
      <3>1. pipe' \in Seq({"C", "T", "Q", "2"})
        BY <2>3, <1>0, TailLemma DEF Byte
      <3> QED
        BY <2>1, <2>3, <3>1 DEF TypeOK, Kept, MakeBounded, RequestsOK, Live, killVars, loopVars, listVars, ctlVars
    <2>4. CASE /\ pipe # <<>>
               /\ Head(pipe) # "C"
               /\ fpm_pctl_set(StateOf(Head(pipe)), Tail(pipe), "signals")
      <3>1. Head(pipe) \in Byte /\ Tail(pipe) \in Seq(Byte)
        BY <2>4, <1>0, TailLemma
      <3>2. StateOf(Head(pipe)) \in States \ {"NORMAL"}
        BY <2>4, <3>1 DEF StateOf, States, Byte
      <3>3. UNCHANGED children
        BY <2>1 DEF listVars
      <3>4. /\ KillEffect(Tail(pipe))
            /\ fpm_state' \in States
            /\ fpm_signal_sent' \in {"none", "QUIT", "TERM", "KILL"}
            /\ pctl_timer' \in {"off", "due", "set"}
            /\ deaf' \in SUBSET Child
            /\ pc' \in {"exited", "execed", "signals"}
        BY <2>4, <3>1, <3>2, <3>3, PctlSetLemma
      <3>5. EffectOK
        BY <2>1, <3>4, EffectKept
      <3> QED
        BY <2>1, <3>4, <3>5 DEF TypeOK, MakeBounded, RequestsOK, EffectOK, loopVars, listVars, States
    <2> QED
      BY <1>1, <2>2, <2>3, <2>4 DEF fpm_got_signal
  <1>2. CASE check_last_faults
    <2>1. UNCHANGED <<listVars, idle_kill, loopVars, sent, accepting>> /\ pc = "fault"
      BY <1>2 DEF check_last_faults
    <2>2. CASE fpm_pctl_set("RELOADING", pipe, "make")
      <3>1. "RELOADING" \in States \ {"NORMAL"} /\ UNCHANGED children
        BY <2>1 DEF States, listVars
      <3>2. /\ KillEffect(pipe)
            /\ fpm_state' \in States
            /\ fpm_signal_sent' \in {"none", "QUIT", "TERM", "KILL"}
            /\ pctl_timer' \in {"off", "due", "set"}
            /\ deaf' \in SUBSET Child
            /\ pc' \in {"exited", "execed", "make"}
        BY <1>0, <2>2, <3>1, PctlSetLemma
      <3>3. EffectOK
        BY <2>1, <3>2, EffectKept
      <3> QED
        BY <2>1, <3>2, <3>3 DEF TypeOK, MakeBounded, RequestsOK, EffectOK, loopVars, listVars, States
    <2>3. CASE pc' = "make" /\ UNCHANGED <<ctlVars, killVars, pipe>>
      BY <2>1, <2>3 DEF TypeOK, Kept, MakeBounded, RequestsOK, Live, killVars, loopVars, listVars, ctlVars
    <2> QED
      BY <1>2, <2>2, <2>3 DEF check_last_faults
  <1>3. CASE fpm_pctl_action
    <2>1. /\ UNCHANGED <<fpm_state, listVars, idle_kill, loopVars, sent, accepting>>
          /\ fpm_pctl_action_next(fpm_state, fpm_signal_sent, pipe, "off", "heartbeat")
      BY <1>3 DEF fpm_pctl_action
    <2>2. /\ fpm_state \in States
          /\ fpm_signal_sent \in {"none", "QUIT", "TERM", "KILL"}
          /\ UNCHANGED children
      BY <2>1 DEF TypeOK, States, listVars
    <2>3. /\ KillEffect(pipe)
          /\ fpm_signal_sent' \in {"none", "QUIT", "TERM", "KILL"}
          /\ pctl_timer' \in {"off", "due", "set"}
          /\ deaf' \in SUBSET Child
          /\ pc' \in {"exited", "execed", "heartbeat"}
      BY <1>0, <2>1, <2>2, ActionNextLemma
    <2>4. EffectOK
      BY <2>1, <2>3, EffectKept
    <2> QED
      BY <2>1, <2>3, <2>4 DEF TypeOK, MakeBounded, RequestsOK, EffectOK, loopVars, listVars
  <1>4. CASE idle_child_killed
    <2>1. PICK c \in scan.idle : idle_kill' = idle_kill \cup {c} /\ Kill({c}, "QUIT", pipe)
      BY <1>4 DEF idle_child_killed
    <2>2. c \in Child
      BY DEF TypeOK
    <2>3. /\ idle_spawn_rate' = [idle_spawn_rate EXCEPT ![scan.wp] = 1]
          /\ scan' = NoScan
          /\ pc' = "idle"
          /\ UNCHANGED <<ctlVars, listVars, todo, make, requestVars, sent, accepting>>
      BY <1>4 DEF idle_child_killed
    <2>4. KillEffect(pipe)
      BY <1>0, <2>1, <2>2, KillLemma DEF Signal
    <2>5. EffectOK
      BY <2>3, <2>4, EffectKept
    <2>6. idle_kill' \subseteq Child /\ idle_spawn_rate' \in [Pool -> Nat]
      BY <2>1, <2>2, <2>3 DEF TypeOK
    <2>7. scan' \in [wp : Pool \cup {NoPool}, unread : SUBSET Child, idle : SUBSET Child]
      BY <2>3 DEF NoScan
    <2> QED
      BY <2>3, <2>5, <2>6, <2>7 DEF TypeOK, MakeBounded, RequestsOK, EffectOK, listVars, ctlVars
  <1>5. CASE terminate_victim
    <2>1. /\ Kill({victim}, "TERM", pipe)
          /\ victim' = NoChild
          /\ pc' = "requests"
          /\ UNCHANGED <<ctlVars, listVars, idle_kill, todo, make, scan, checked,
                         slow_logged, idle_spawn_rate, sent, accepting>>
      BY <1>5 DEF terminate_victim
    <2>2. victim \in Child
      BY <1>5 DEF terminate_victim, RequestsOK
    <2>3. KillEffect(pipe)
      BY <1>0, <2>1, <2>2, KillLemma DEF Signal
    <2>4. EffectOK
      BY <2>1, <2>3, EffectKept
    <2> QED
      BY <2>1, <2>4 DEF TypeOK, MakeBounded, RequestsOK, EffectOK, listVars, ctlVars
  <1>6. CASE \E c \in Child : fpm_php_trace(c)
    <2>1. PICK c \in Child : fpm_php_trace(c)
      BY <1>6
    <2>2. EffectOK
      BY <2>1, TraceEffect
    <2> QED
      BY <2>1, <2>2 DEF fpm_php_trace, TypeOK, MakeBounded, RequestsOK, EffectOK, loopVars,
         listVars, ctlVars
  <1> QED
    BY <1>1, <1>2, <1>3, <1>4, <1>5, <1>6

\* fork() keeps the pool within the limit fpm_children_make was called with.
LEMMA MakeCore ==
  ASSUME CoreInv, NEW c \in Child, fpm_children_make(c)
  PROVE  CoreInv'
  <1> USE DEF CoreInv
  <1>1. /\ MoreToFork
        /\ proc[c] = "none"
        /\ proc' = [proc EXCEPT ![c] = "starting"]
        /\ fpm_child_link(c, make.wp)
        /\ UNCHANGED <<pc, ctlVars, idle_kill, loopVars, signalVars, accepting,
                       quitting, status, trace, pending>>
    BY DEF fpm_children_make
  <1>2. /\ pc = "make"
        /\ wp_running[make.wp] < make.max
        /\ make.wp \in Pool
        /\ make.max <= pm_max_children[make.wp]
    BY <1>1 DEF MoreToFork, MakeBounded
  <1>3. /\ CountersExact'
        /\ children' \in [Pool -> SUBSET Child]
        /\ wp_running' \in [Pool -> Nat]
        /\ running_children' \in Nat
    BY <1>1, <1>2, LinkLemma
  <1>4. proc' \in [Child -> {"none", "starting", "ready", "idle", "busy", "zombie"}]
    BY <1>1 DEF TypeOK
  <1>5. TypeOK'
    BY <1>1, <1>3, <1>4 DEF TypeOK, ctlVars, loopVars, requestVars, signalVars
  <1>6. wp_running' = [wp_running EXCEPT ![make.wp] = @ + 1]
    BY <1>1 DEF fpm_child_link
  <1>7. make.max \in Nat /\ pm_max_children[make.wp] \in Nat /\ wp_running[make.wp] \in Nat
    BY <1>2, ConfigAssumption DEF TypeOK
  <1>8. \A p \in Pool : wp_running'[p] <= pm_max_children[p]
    BY <1>2, <1>6, <1>7 DEF TypeOK, MaxChildrenRespected
  <1>9. MakeBounded' /\ RequestsOK'
    BY <1>1, <1>4 DEF MakeBounded, RequestsOK, TypeOK, Live, loopVars, requestVars
  <1> QED
    BY <1>3, <1>5, <1>8, <1>9 DEF MaxChildrenRespected

\* The restart after a burial aims at the number of children before it, or
\* at pm.max_children.
LEMMA BuryCore ==
  ASSUME CoreInv, NEW c \in Child, NEW p \in Pool, fpm_children_bury(c, p)
  PROVE  /\ CoreInv'
         /\ wp_running'[p] = wp_running[p] - 1
         /\ Linked' = Linked \ {c}
  <1> USE DEF CoreInv
  <1>1. /\ pc = "bury"
        /\ proc[c] = "zombie"
        /\ c \in children[p]
        /\ fpm_child_unlink(c, p)
        /\ proc' = [proc EXCEPT ![c] = "none"]
        /\ status' = [status EXCEPT ![c] = "none"]
        /\ idle_kill' = idle_kill \ {c}
        /\ accepting' = accepting \ {c}
        /\ quitting' = quitting \ {c}
        /\ deaf' = deaf \ {c}
        /\ make' = IF restart_child(c)
                     THEN [wp |-> p, max |-> RestartMax(p), ret |-> "bury"]
                     ELSE make
        /\ UNCHANGED <<fpm_state, fpm_signal_sent, pctl_timer, idle_spawn_rate,
                       todo, scan, victim, checked, signalVars, trace, pending>>
        /\ slow_logged' = slow_logged \ {c}
    BY DEF fpm_children_bury
  <1>2. /\ CountersExact'
        /\ children' \in [Pool -> SUBSET Child]
        /\ wp_running' \in [Pool -> Nat]
        /\ running_children' \in Nat
        /\ wp_running'[p] = wp_running[p] - 1
        /\ Linked' = Linked \ {c}
    BY <1>1, UnlinkLemma
  <1>3. /\ RestartMax(p) \in Nat
        /\ RestartMax(p) <= pm_max_children[p]
    BY ConfigAssumption DEF RestartMax, TypeOK, MaxChildrenRespected
  <1>4. make' \in [wp : Pool \cup {NoPool}, max : Nat, ret : {"create", "poll", "bury", "idle"}]
    BY <1>1, <1>3 DEF TypeOK
  <1>5. /\ pc' \in {"exited", "execed", "fault", "make", "bury"}
        /\ pc' \in {"fault", "make"} => restart_child(c)
    <2>1. CASE LastChildExits(p)
      BY <2>1 DEF fpm_children_bury, fpm_pctl_action_last
    <2>2. CASE ~LastChildExits(p)
      <3>1. pc' = CASE EmergencyRestart /\ status[c] = "fault" -> "fault"
                    [] restart_child(c) -> "make"
                    [] OTHER -> "bury"
        BY <2>2 DEF fpm_children_bury
      <3>2. status[c] = "fault" => restart_child(c)
        BY DEF restart_child
      <3>3. CASE EmergencyRestart /\ status[c] = "fault" /\ ~restart_child(c)
        BY <3>2, <3>3
      <3>4. CASE restart_child(c)
        BY <3>1, <3>4
      <3>5. CASE ~restart_child(c) /\ ~(EmergencyRestart /\ status[c] = "fault")
        BY <3>1, <3>5
      <3> QED
        BY <3>3, <3>4, <3>5
    <2> QED
      BY <2>1, <2>2
  <1>6. MakeBounded'
    BY <1>1, <1>3, <1>5 DEF MakeBounded
  <1>7. /\ proc' \in [Child -> {"none", "starting", "ready", "idle", "busy", "zombie"}]
        /\ status' \in [Child -> {"none", "exited", "fault", "killed"}]
        /\ idle_kill' \subseteq Child
        /\ accepting' \subseteq Child
        /\ quitting' \subseteq Child
        /\ deaf' \subseteq Child
        /\ slow_logged' \subseteq Child
    BY <1>1 DEF TypeOK
  <1>8. TypeOK'
    BY <1>1, <1>2, <1>4, <1>5, <1>7 DEF TypeOK, signalVars
  <1>9. wp_running' = [wp_running EXCEPT ![p] = @ - 1]
    BY <1>1 DEF fpm_child_unlink
  <1>10. \A q \in Pool : wp_running'[q] <= pm_max_children[q]
    <2> SUFFICES ASSUME NEW q \in Pool PROVE wp_running'[q] <= pm_max_children[q]
      OBVIOUS
    <2>1. wp_running[q] \in Nat /\ pm_max_children[q] \in Nat
      BY ConfigAssumption DEF TypeOK
    <2>2. wp_running'[q] = wp_running[q] \/ wp_running'[q] = wp_running[q] - 1
      BY <1>9 DEF TypeOK
    <2>3. wp_running[q] <= pm_max_children[q]
      BY DEF MaxChildrenRespected
    <2> QED
      BY <2>1, <2>2, <2>3
  <1>11. RequestsOK'
    BY <1>1, <1>5 DEF RequestsOK, TypeOK, Live
  <1> QED
    BY <1>2, <1>6, <1>8, <1>10, <1>11 DEF MaxChildrenRespected

\* Init establishes the core invariant.
LEMMA InitCore == Init => CoreInv
  <1> SUFFICES ASSUME Init PROVE CoreInv
    OBVIOUS
  <1>1. pipe \in Seq({"C", "T", "Q", "2"})
    BY EmptySeq DEF Init
  <1>2. TypeOK
    BY <1>1 DEF Init, TypeOK, NoMake, NoScan
  <1>3. Linked = {}
    BY DEF Init, Linked
  <1>4. Cardinality({}) = 0
    BY FS_EmptySet
  <1>5. CountersExact
    BY <1>3, <1>4 DEF Init, CountersExact
  <1>6. MaxChildrenRespected
    BY ConfigAssumption DEF Init, MaxChildrenRespected
  <1> QED
    BY <1>2, <1>5, <1>6 DEF Init, CoreInv, MakeBounded, RequestsOK, Live

\* Every step keeps it.
LEMMA StepCore ==
  ASSUME CoreInv, [Next]_vars
  PROVE  CoreInv'
  <1>1. ASSUME TypeOK', Kept, MakeBounded', RequestsOK' PROVE CoreInv'
    BY <1>1, ListsKept DEF CoreInv, Kept
  <1>2. CASE \/ fpm_children_create_initial \/ make_done \/ make_fails \/ poll_returns
             \/ bury_ends \/ pctl_not_due \/ idle_heartbeat \/ no_idle_heartbeat
             \/ next_pool \/ idle_pool_kept \/ timers_done
             \/ \E c \in Child : fpm_request_is_idle(c)
             \/ \E c \in Child : request_timed_out(c)
             \/ \E c \in Child : request_slow(c)
             \/ fpm_trace_signal
    BY <1>1, <1>2, LoopCore
  <1>3. CASE idle_children_forked
    BY <1>1, <1>3, ForkedCore
  <1>4. CASE SignalNext \/ WorkerNext
    BY <1>1, <1>4, WorkerCore
  <1>5. CASE \/ fpm_got_signal \/ check_last_faults \/ fpm_pctl_action
             \/ idle_child_killed \/ terminate_victim
             \/ \E c \in Child : fpm_php_trace(c)
    BY <1>1, <1>5, SignalCore
  <1>6. CASE \E c \in Child : fpm_children_make(c)
    BY <1>6, MakeCore
  <1>7. CASE \E c \in Child, p \in Pool : fpm_children_bury(c, p)
    BY <1>7, BuryCore
  <1>8. CASE ended \/ UNCHANGED vars
    <2>1. UNCHANGED vars
      BY <1>8 DEF ended
    <2>2. TypeOK' /\ Kept /\ MakeBounded' /\ RequestsOK'
      BY <2>1 DEF CoreInv, TypeOK, Kept, MakeBounded, RequestsOK, Live, vars, listVars,
         loopVars, requestVars, ctlVars, signalVars, workerVars
    <2> QED
      BY <1>1, <2>2
  <1> QED
    BY <1>2, <1>3, <1>4, <1>5, <1>6, <1>7, <1>8 DEF Next, MasterNext

\* The core invariant holds in every reachable state.
THEOREM CoreInvariant == Spec => []CoreInv
  <1>1. Init => CoreInv
    BY InitCore
  <1>2. CoreInv /\ [Next]_vars => CoreInv'
    BY StepCore
  <1> QED
    BY <1>1, <1>2, PTL DEF Spec

-----------------------------------------------------------------------------
(***************************************************************************)
(* Deaths, signals and the end of the master.                              *)
(***************************************************************************)

\* waitpid has this child to report.
Waited(c) == proc[c] = "zombie" \/ trace[c] = "stopped"

\* The master is in the waitpid loop, or will be back in it.
Burying ==
  \/ pc \in {"bury", "fault"}
  \/ pc = "make" /\ make.ret = "bury"

\* The steps of LoopCore and ForkedCore leave workers, signals and state
\* alone, stop nobody, and leave the waitpid loop only when it has nobody to
\* report.
LEMMA LoopFrame ==
  ASSUME CoreInv,
         \/ fpm_children_create_initial
         \/ make_done
         \/ make_fails
         \/ poll_returns
         \/ bury_ends
         \/ pctl_not_due
         \/ idle_heartbeat
         \/ no_idle_heartbeat
         \/ next_pool
         \/ idle_pool_kept
         \/ timers_done
         \/ idle_children_forked
         \/ \E c \in Child : fpm_request_is_idle(c)
         \/ \E c \in Child : request_timed_out(c)
         \/ \E c \in Child : request_slow(c)
         \/ fpm_trace_signal
  PROVE  /\ ~Ended /\ ~Ended'
         /\ UNCHANGED <<fpm_state, fpm_signal_sent, pctl_timer, deaf, children, proc,
                        quitting, pending, pipe>>
         /\ \A c \in Child : trace'[c] = "stopped" => trace[c] = "stopped"
         /\ Burying => Burying' \/ \A c \in Child : ~Waited(c)
  <1> USE DEF CoreInv, Ended, Burying, ctlVars, listVars, loopVars, signalVars, workerVars
  <1>1. CASE fpm_children_create_initial
    BY <1>1 DEF fpm_children_create_initial, StartMake
  <1>2. CASE make_done \/ make_fails
    BY <1>2 DEF make_done, make_fails, make_ends, TypeOK
  <1>3. CASE poll_returns
    BY <1>3 DEF poll_returns
  <1>4. CASE bury_ends
    BY <1>4 DEF bury_ends, Waited
  <1>5. CASE pctl_not_due
    BY <1>5 DEF pctl_not_due
  <1>6. CASE idle_heartbeat
    BY <1>6 DEF idle_heartbeat
  <1>7. CASE no_idle_heartbeat
    BY <1>7 DEF no_idle_heartbeat
  <1>8. CASE next_pool
    BY <1>8 DEF next_pool
  <1>9. CASE idle_pool_kept
    BY <1>9 DEF idle_pool_kept, ScanDone
  <1>10. CASE timers_done
    BY <1>10 DEF timers_done
  <1>11. CASE idle_children_forked
    BY <1>11 DEF idle_children_forked, StartMake, ScanDone
  <1>12. CASE \E c \in Child : fpm_request_is_idle(c)
    BY <1>12 DEF fpm_request_is_idle
  <1>13. CASE \E c \in Child : request_timed_out(c)
    BY <1>13 DEF request_timed_out, RequestRuns
  <1>14. CASE \E c \in Child : request_slow(c)
    BY <1>14 DEF request_slow, RequestRuns
  <1>15. CASE fpm_trace_signal
    BY <1>15 DEF fpm_trace_signal, TypeOK
  <1> QED
    BY <1>1, <1>2, <1>3, <1>4, <1>5, <1>6, <1>7, <1>8, <1>9, <1>10, <1>11, <1>12, <1>13,
       <1>14, <1>15

\* The invariants in terms of the names used here.
LEMMA Unfolded ==
  /\ EveryoneSignalled <=> (~Ended => AllSignalled)
  /\ NoLostSigchld <=>
       (~Ended /\ (\E c \in Child : Waited(c)) => HasC(pipe) \/ Burying)
  BY DEF EveryoneSignalled, AllSignalled, NoLostSigchld, HasC, Burying, Waited

\* Everyone stays signalled if a pending signal is lost only by the deaf and
\* taken only by workers that quit.
LEMMA SignalledKept ==
  ASSUME TypeOK, AllSignalled, UNCHANGED <<children, fpm_signal_sent>>,
         deaf \subseteq deaf', quitting \subseteq quitting',
         \A c \in Child : Live(c)' => Live(c),
         \A c \in Child : Live(c)' /\ fpm_signal_sent \in pending[c] =>
           \/ c \in deaf'
           \/ fpm_signal_sent \in pending'[c]
           \/ fpm_signal_sent = "QUIT" /\ c \in quitting'
  PROVE  AllSignalled'
  <1>1. Linked' = Linked /\ Linked \subseteq Child
    BY DEF Linked, TypeOK
  <1> QED
    BY <1>1 DEF AllSignalled

\* A step that goes on: whoever waitpid has to report is announced or about
\* to be waited for.
LEMMA GoesOn ==
  ASSUME MasterInv, CoreInv', ~Ended, ~Ended', ShutdownOn', AllSignalled',
         NEW q, HasC(pipe) => HasC(q) \/ Burying', HasC(q) => HasC(pipe'),
         Burying => Burying' \/ \A c \in Child : ~Waited(c),
         \A c \in Child : Waited(c)' => Waited(c) \/ HasC(pipe')
  PROVE  MasterInv'
  <1>1. EveryoneSignalled'
    BY DEF EveryoneSignalled, AllSignalled
  <1>2. (\E c \in Child : Waited(c)') => HasC(pipe') \/ Burying'
    BY Unfolded DEF MasterInv
  <1>3. NoLostSigchld'
    BY <1>2 DEF NoLostSigchld, HasC, Burying, Waited
  <1> QED
    BY <1>1, <1>3 DEF MasterInv, NoOrphanWorkers

\* A step that ends the master: there is no worker left, and the state has
\* left NORMAL.
LEMMA Stops ==
  ASSUME MasterInv, CoreInv', pc' \in {"exited", "execed"}, running_children' = 0,
         fpm_state' # "NORMAL", pc' = "execed" => fpm_state' = "RELOADING"
  PROVE  MasterInv'
  <1>1. IsFiniteSet(Linked)'
    BY ListsFinite, PTL DEF CoreInv
  <1>2. Cardinality(Linked') = 0
    BY DEF CoreInv, CountersExact
  <1>3. Linked' = {}
    BY <1>1, <1>2, FS_EmptySet
  <1>4. \A c \in Child : proc'[c] = "none"
    BY <1>3 DEF CoreInv, CountersExact
  <1>5. Ended'
    BY DEF Ended
  <1> QED
    BY <1>4, <1>5 DEF MasterInv, NoOrphanWorkers, NoLostSigchld, EveryoneSignalled,
       ShutdownOn

\* Only a master that has not ended has workers.
LEMMA NotEnded ==
  ASSUME MasterInv, NEW c \in Child, proc[c] # "none"
  PROVE  ~Ended
  BY DEF MasterInv, NoOrphanWorkers

\* Steps that leave workers and signals alone.
LEMMA LoopMaster ==
  ASSUME MasterInv, CoreInv', ~Ended, ~Ended',
         UNCHANGED <<fpm_state, fpm_signal_sent, pctl_timer, deaf, children, proc,
                     quitting, pending, pipe>>,
         \A c \in Child : trace'[c] = "stopped" => trace[c] = "stopped",
         Burying => Burying' \/ \A c \in Child : ~Waited(c)
  PROVE  MasterInv'
  <1>1. AllSignalled
    BY Unfolded DEF MasterInv
  <1>2. AllSignalled'
    BY <1>1 DEF AllSignalled, Linked, Live
  <1>3. ShutdownOn'
    BY DEF MasterInv, ShutdownOn
  <1>4. HasC(pipe) => HasC(pipe')
    OBVIOUS
  <1>5. \A c \in Child : Waited(c)' => Waited(c)
    BY DEF Waited
  <1> QED
    BY <1>2, <1>3, <1>4, <1>5, GoesOn

\* Steps of administrators and workers.
LEMMA WorkerMaster ==
  ASSUME MasterInv, CoreInv', SignalNext \/ WorkerNext
  PROVE  MasterInv'
  <1>0. TypeOK /\ pipe \in Seq(Byte) /\ "C" \in Byte
    BY DEF MasterInv, CoreInv, TypeOK, Byte
  <1>1. SUFFICES /\ ~Ended
                 /\ UNCHANGED <<pc, make, fpm_state, fpm_signal_sent, pctl_timer,
                                children, quitting>>
                 /\ deaf \subseteq deaf'
                 /\ HasC(pipe) => HasC(pipe')
                 /\ \A c \in Child : Waited(c)' => Waited(c) \/ HasC(pipe')
                 /\ \A c \in Child : Live(c)' => Live(c)
                 /\ \A c \in Child : Live(c)' /\ fpm_signal_sent \in pending[c] =>
                      c \in deaf' \/ fpm_signal_sent \in pending'[c]
    <2>1. ~Ended' /\ (Burying <=> Burying')
      BY <1>1 DEF Ended, Burying
    <2>2. AllSignalled
      BY <1>1, Unfolded DEF MasterInv
    <2>3. AllSignalled'
      BY <1>0, <1>1, <2>2, SignalledKept
    <2>4. ShutdownOn'
      BY <1>1 DEF MasterInv, ShutdownOn
    <2> QED
      BY <1>1, <2>1, <2>3, <2>4, GoesOn
  <1>2. CASE SignalNext
    <2>1. PICK b \in {"T", "Q", "2"} : send_signal(b)
      BY <1>2 DEF SignalNext
    <2>2. HasC(pipe) => HasC(pipe')
      BY <1>0, <2>1, SigHandlerLemma DEF send_signal, Byte
    <2>3. /\ ~Ended
          /\ UNCHANGED <<pc, ctlVars, listVars, idle_kill, loopVars, workerVars>>
      BY <2>1 DEF send_signal
    <2> QED
      BY <2>2, <2>3 DEF ctlVars, listVars, loopVars, workerVars, Live, Waited
  <1>3. CASE WorkerNext
    <2>1. PICK c \in Child : \/ fpm_signals_init_child(c)
                             \/ fpm_request_accepting(c)
                             \/ fcgi_accept_request(c)
                             \/ fpm_request_reading_headers(c)
                             \/ fpm_request_finished(c)
                             \/ soft_quit(c) \/ worker_exits(c) \/ worker_faults(c)
                             \/ ptrace_stop(c)
      BY <1>3 DEF WorkerNext
    <2>2. CASE \/ fpm_signals_init_child(c) \/ fpm_request_accepting(c)
               \/ fcgi_accept_request(c) \/ fpm_request_reading_headers(c)
               \/ fpm_request_finished(c)
      <3>1. UNCHANGED <<workerFrame, pipe, quitting, trace, pending>> /\ Live(c)
        BY <2>2 DEF fpm_signals_init_child, fpm_request_accepting, fcgi_accept_request,
           fpm_request_reading_headers, fpm_request_finished, Live, traceVars
      <3>2. \A d \in Child : /\ proc'[d] = "zombie" <=> proc[d] = "zombie"
                             /\ proc'[d] = "none" <=> proc[d] = "none"
        <4>1. CASE fpm_signals_init_child(c)
          BY <1>0, <4>1 DEF fpm_signals_init_child, TypeOK
        <4>2. CASE fpm_request_accepting(c)
          BY <1>0, <4>2 DEF fpm_request_accepting, TypeOK
        <4>3. CASE fcgi_accept_request(c)
          BY <1>0, <4>3 DEF fcgi_accept_request, TypeOK
        <4>4. CASE fpm_request_reading_headers(c)
          BY <4>4 DEF fpm_request_reading_headers
        <4>5. CASE fpm_request_finished(c)
          BY <1>0, <4>5 DEF fpm_request_finished, TypeOK
        <4> QED
          BY <2>2, <4>1, <4>2, <4>3, <4>4, <4>5
      <3>3. ~Ended
        BY <3>1, NotEnded DEF Live
      <3> QED
        BY <3>1, <3>2, <3>3 DEF workerFrame, ctlVars, listVars, Live, Waited
    <2>3. CASE soft_quit(c) \/ worker_exits(c) \/ worker_faults(c)
      <3>0. \E how \in {"exited", "fault"} : Ends(c, how)
        BY <2>3 DEF soft_quit, worker_exits, worker_faults
      <3>1. PICK how \in {"exited", "fault"} : Live(c) /\ Ends(c, how)
        BY <3>0 DEF Ends
      <3>2. HasC(pipe')
        BY <1>0, <3>1, SigHandlerLemma DEF Ends
      <3>3. ~Ended
        BY <3>1, NotEnded DEF Live
      <3>4. \A d \in Child : Live(d)' => Live(d)
        BY <1>0, <3>1 DEF Ends, Live, TypeOK
      <3>5. UNCHANGED <<workerFrame, quitting>>
        BY <3>1 DEF Ends
      <3>6. \A d \in Child : Live(d)' => pending'[d] = pending[d]
        BY <1>0, <3>1 DEF Ends, Live, TypeOK
      <3> QED
        BY <3>2, <3>3, <3>4, <3>5, <3>6 DEF workerFrame, ctlVars, listVars
    <2>4. CASE ptrace_stop(c)
      <3>1. /\ trace[c] = "attached"
            /\ pending' = [pending EXCEPT ![c] = @ \ Swallowed(c)]
            /\ deaf' = IF fpm_signal_sent \in Swallowed(c) THEN deaf \cup {c} ELSE deaf
            /\ pipe' = sig_handler(pipe, "C")
            /\ UNCHANGED <<pc, fpm_state, fpm_signal_sent, pctl_timer, listVars,
                           loopVars, proc, quitting>>
        BY <2>4 DEF ptrace_stop
      <3>2. HasC(pipe')
        BY <1>0, <3>1, SigHandlerLemma
      <3>3. ~Ended
        BY <3>1, NotEnded DEF MasterInv, CoreInv, RequestsOK, Live
      <3>4. \A d \in Child : fpm_signal_sent \in pending[d] =>
              d \in deaf' \/ fpm_signal_sent \in pending'[d]
        BY <1>0, <3>1 DEF TypeOK
      <3> QED
        BY <3>1, <3>2, <3>3, <3>4 DEF listVars, loopVars, Live
    <2> QED
      BY <2>1, <2>2, <2>3, <2>4
  <1> QED
    BY <1>2, <1>3

\* Steps that signal workers without changing the control state.
LEMMA PokeMaster ==
  ASSUME MasterInv, CoreInv', idle_child_killed \/ terminate_victim
  PROVE  MasterInv'
  <1>0. TypeOK /\ pipe \in Seq(Byte) /\ RequestsOK
    BY DEF MasterInv, CoreInv, TypeOK, Byte
  <1>1. KillEffect(pipe)
    <2>1. CASE idle_child_killed
      <3>1. PICK c \in scan.idle : Kill({c}, "QUIT", pipe)
        BY <2>1 DEF idle_child_killed
      <3>2. {c} \in SUBSET Child
        BY <1>0 DEF TypeOK
      <3> QED
        BY <1>0, <3>1, <3>2, KillLemma DEF Signal
    <2>2. CASE terminate_victim
      <3>1. {victim} \in SUBSET Child /\ Kill({victim}, "TERM", pipe)
        BY <1>0, <2>2 DEF terminate_victim, RequestsOK
      <3> QED
        BY <1>0, <3>1, KillLemma DEF Signal
    <2> QED
      BY <2>1, <2>2
  <1>2. /\ UNCHANGED <<ctlVars, listVars>>
        /\ pc \in {"scan", "terminate"}
        /\ pc' \in {"idle", "requests"}
    BY DEF idle_child_killed, terminate_victim, ScanDone
  <1>3. /\ \A c \in Child : Live(c)' => Live(c)
        /\ \A c \in Child : Waited(c)' => Waited(c) \/ HasC(pipe')
    BY <1>1 DEF KillEffect, Live, Waited
  <1>4. ~Ended /\ ~Ended' /\ ~Burying
    BY <1>2 DEF Ended, Burying
  <1>5. AllSignalled
    BY <1>4, Unfolded DEF MasterInv
  <1>6. AllSignalled'
    BY <1>0, <1>1, <1>2, <1>3, <1>5, SignalledKept DEF KillEffect, ctlVars, listVars
  <1>7. ShutdownOn'
    BY <1>2 DEF MasterInv, ShutdownOn, ctlVars
  <1>8. HasC(pipe) => HasC(pipe')
    BY <1>1 DEF KillEffect
  <1> QED
    BY <1>3, <1>4, <1>6, <1>7, <1>8, GoesOn

\* fpm_pctl called with a new state, in a handler that goes on at rest.
LEMMA SetMaster ==
  ASSUME MasterInv, CoreInv', ~Ended, NEW new \in States \ {"NORMAL"}, NEW q \in Seq(Byte),
         NEW rest, fpm_pctl_set(new, q, rest), UNCHANGED listVars,
         rest \notin {"exited", "execed"}, HasC(pipe) => HasC(q) \/ (pc' = rest => Burying'),
         Burying => (pc' = rest => Burying')
  PROVE  MasterInv'
  <1>0. TypeOK /\ UNCHANGED <<children, running_children>>
    BY DEF MasterInv, CoreInv, listVars
  <1>1. /\ KillEffect(q)
        /\ \/ /\ running_children = 0
              /\ pc' \in {"exited", "execed"}
              /\ pc' = "execed" => fpm_state' = "RELOADING"
              /\ fpm_state' # "NORMAL"
           \/ pc' = rest /\ AllSignalled' /\ fpm_state' # "NORMAL"
           \/ pc' = rest /\ UNCHANGED <<ctlVars, killVars>>
    BY <1>0, PctlSetLemma
  <1>2. CASE /\ running_children = 0
             /\ pc' \in {"exited", "execed"}
             /\ pc' = "execed" => fpm_state' = "RELOADING"
             /\ fpm_state' # "NORMAL"
    BY <1>0, <1>2, Stops
  <1>3. CASE pc' = rest /\ AllSignalled' /\ ShutdownOn'
    <2>1. ~Ended'
      BY <1>3 DEF Ended
    <2>2. /\ \A c \in Child : Waited(c)' => Waited(c) \/ HasC(pipe')
          /\ HasC(q) => HasC(pipe')
      BY <1>1 DEF KillEffect, Waited
    <2> QED
      BY <1>3, <2>1, <2>2, GoesOn
  <1>4. CASE pc' = rest /\ AllSignalled' /\ fpm_state' # "NORMAL"
    BY <1>3, <1>4 DEF ShutdownOn
  <1>5. CASE pc' = rest /\ UNCHANGED <<ctlVars, killVars>>
    <2>1. AllSignalled
      BY Unfolded DEF MasterInv
    <2>2. AllSignalled'
      BY <1>0, <1>5, <2>1 DEF AllSignalled, Linked, Live, ctlVars, killVars
    <2>3. ShutdownOn'
      BY <1>5 DEF MasterInv, ShutdownOn, ctlVars
    <2> QED
      BY <1>3, <1>5, <2>2, <2>3
  <1> QED
    BY <1>1, <1>2, <1>4, <1>5

\* The signal handler, the emergency restart and the shutdown timer.
LEMMA ControlMaster ==
  ASSUME MasterInv, CoreInv', fpm_got_signal \/ check_last_faults \/ fpm_pctl_action
  PROVE  MasterInv'
  <1>0. TypeOK /\ MakeBounded /\ pipe \in Seq(Byte)
    BY DEF MasterInv, CoreInv, TypeOK, Byte
  <1>1. CASE fpm_got_signal
    <2>1. UNCHANGED listVars /\ pc = "signals" /\ ~Ended /\ ~Burying
      BY <1>1 DEF fpm_got_signal, Ended, Burying
    <2>2. CASE /\ pipe = <<>> /\ pc' = "timers"
               /\ UNCHANGED <<pipe, ctlVars, killVars>>
      <3>1. ~Ended'
        BY <2>2 DEF Ended
      <3> QED
        BY <2>1, <2>2, <3>1, LoopMaster DEF ctlVars, listVars, killVars
    <2>3. CASE /\ pipe # <<>> /\ pc' = "bury" /\ pipe' = Tail(pipe)
               /\ UNCHANGED <<ctlVars, killVars>>
      <3>1. ~Ended' /\ Burying'
        BY <2>3 DEF Ended, Burying
      <3>2. AllSignalled
        BY <2>1, Unfolded DEF MasterInv
      <3>3. AllSignalled' /\ ShutdownOn'
        BY <2>1, <2>3, <3>2 DEF MasterInv, ShutdownOn, AllSignalled, Linked, Live, ctlVars,
           listVars, killVars
      <3>4. \A c \in Child : Waited(c)' => Waited(c)
        BY <2>3 DEF Waited, killVars
      <3> QED
        BY <2>1, <2>3, <3>1, <3>3, <3>4, GoesOn
    <2>4. CASE /\ pipe # <<>> /\ Head(pipe) # "C"
               /\ fpm_pctl_set(StateOf(Head(pipe)), Tail(pipe), "signals")
      <3>1. /\ Head(pipe) \in Byte /\ Tail(pipe) \in Seq(Byte)
            /\ HasC(pipe) => HasC(Tail(pipe))
        BY <1>0, <2>4, TailLemma
      <3>2. StateOf(Head(pipe)) \in States \ {"NORMAL"}
        BY <2>4, <3>1 DEF StateOf, States, Byte
      <3>3. /\ HasC(pipe) => HasC(Tail(pipe)) \/ (pc' = "signals" => Burying')
            /\ Burying => (pc' = "signals" => Burying')
        BY <2>1, <3>1
      <3>4. UNCHANGED listVars /\ ~Ended /\ "signals" \notin {"exited", "execed"}
        BY <2>1
      <3>5. fpm_pctl_set(StateOf(Head(pipe)), Tail(pipe), "signals")
        BY <2>4
      <3> QED
        BY <3>1, <3>2, <3>3, <3>4, <3>5, SetMaster
    <2> QED
      BY <1>1, <2>2, <2>3, <2>4 DEF fpm_got_signal
  <1>2. CASE check_last_faults
    <2>1. UNCHANGED <<listVars, loopVars>> /\ pc = "fault" /\ ~Ended
      BY <1>2 DEF check_last_faults, Ended
    <2>2. make' = make /\ make.ret = "bury"
      BY <1>0, <2>1 DEF MakeBounded, loopVars
    <2>3. pc' = "make" => Burying'
      BY <2>2 DEF Burying
    <2>4. CASE fpm_pctl_set("RELOADING", pipe, "make")
      <3>1. "RELOADING" \in States \ {"NORMAL"}
        BY DEF States
      <3> QED
        BY <1>0, <2>1, <2>3, <2>4, <3>1, SetMaster
    <2>5. CASE pc' = "make" /\ UNCHANGED <<ctlVars, killVars, pipe>>
      <3>1. ~Ended'
        BY <2>5 DEF Ended
      <3> QED
        BY <2>1, <2>3, <2>5, <3>1, LoopMaster DEF ctlVars, listVars, killVars
    <2> QED
      BY <1>2, <2>4, <2>5 DEF check_last_faults
  <1>3. CASE fpm_pctl_action
    <2>1. /\ UNCHANGED <<fpm_state, listVars>>
          /\ pc = "timers"
          /\ pctl_timer # "off"
          /\ fpm_pctl_action_next(fpm_state, fpm_signal_sent, pipe, "off", "heartbeat")
      BY <1>3 DEF fpm_pctl_action
    <2>2. ~Ended /\ ~Burying /\ fpm_state # "NORMAL"
      BY <2>1 DEF Ended, Burying, MasterInv, ShutdownOn
    <2>3. /\ fpm_state \in States
          /\ fpm_signal_sent \in {"none", "QUIT", "TERM", "KILL"}
          /\ UNCHANGED <<children, running_children>>
      BY <1>0, <2>1 DEF TypeOK, States, listVars
    <2>4. /\ KillEffect(pipe)
          /\ \/ /\ running_children = 0
                /\ pc' \in {"exited", "execed"}
                /\ pc' = "execed" => fpm_state = "RELOADING"
             \/ pc' = "heartbeat" /\ AllSignalled'
      BY <1>0, <2>1, <2>3, ActionNextLemma
    <2>5. CASE /\ running_children = 0
               /\ pc' \in {"exited", "execed"}
               /\ pc' = "execed" => fpm_state = "RELOADING"
      BY <2>1, <2>2, <2>3, <2>5, Stops
    <2>6. CASE pc' = "heartbeat" /\ AllSignalled'
      <3>1. ~Ended' /\ ShutdownOn'
        BY <2>1, <2>2, <2>6 DEF Ended, ShutdownOn
      <3>2. /\ HasC(pipe) => HasC(pipe')
            /\ \A c \in Child : Waited(c)' => Waited(c) \/ HasC(pipe')
        BY <2>4 DEF KillEffect, Waited
      <3> QED
        BY <2>2, <2>6, <3>1, <3>2, GoesOn
    <2> QED
      BY <2>4, <2>5, <2>6
  <1> QED
    BY <1>1, <1>2, <1>3

\* A worker is forked only in NORMAL state, before any shutdown signal.
LEMMA MakeMaster ==
  ASSUME MasterInv, CoreInv', NEW c \in Child, fpm_children_make(c)
  PROVE  MasterInv'
  <1>1. /\ pc = "make" /\ fpm_state = "NORMAL"
        /\ proc' = [proc EXCEPT ![c] = "starting"]
        /\ UNCHANGED <<pc, ctlVars, loopVars, signalVars, trace>>
    BY DEF fpm_children_make, MoreToFork, fpm_pctl_can_spawn_children
  <1>2. ~Ended /\ ~Ended' /\ ShutdownOn' /\ (Burying => Burying')
    BY <1>1 DEF Ended, Burying, MasterInv, ShutdownOn, ctlVars, loopVars
  <1>3. fpm_signal_sent' = "none"
    BY <1>1 DEF MasterInv, ShutdownOn, ctlVars
  <1>4. AllSignalled'
    BY <1>3 DEF AllSignalled
  <1>5. \A d \in Child : Waited(d)' => Waited(d)
    BY <1>1 DEF MasterInv, CoreInv, TypeOK, Waited
  <1>6. HasC(pipe) => HasC(pipe')
    BY <1>1 DEF signalVars
  <1> QED
    BY <1>2, <1>4, <1>5, <1>6, GoesOn

\* A burial either ends the master, nobody being left, or goes back to the
\* waitpid loop.
LEMMA BuryMaster ==
  ASSUME MasterInv, CoreInv', NEW c \in Child, NEW p \in Pool, fpm_children_bury(c, p)
  PROVE  MasterInv'
  <1>0. CoreInv /\ TypeOK
    BY DEF MasterInv, CoreInv
  <1>1. /\ pc = "bury"
        /\ proc' = [proc EXCEPT ![c] = "none"]
        /\ quitting' = quitting \ {c}
        /\ deaf' = deaf \ {c}
        /\ running_children' = running_children - 1
        /\ UNCHANGED <<fpm_state, fpm_signal_sent, pctl_timer, pipe, trace, pending>>
    BY DEF fpm_children_bury, fpm_child_unlink, signalVars
  <1>2. Linked' = Linked \ {c} /\ Linked \subseteq Child
    BY <1>0, BuryCore, ListsFinite
  <1>3. ~Ended
    BY <1>1 DEF Ended
  <1>4. CASE LastChildExits(p)
    <2>1. running_children' = 0 /\ fpm_state' # "NORMAL"
      BY <1>1, <1>4 DEF LastChildExits
    <2>2. pc' \in {"exited", "execed"} /\ (pc' = "execed" => fpm_state' = "RELOADING")
      BY <1>1, <1>4 DEF fpm_children_bury, fpm_pctl_action_last
    <2> QED
      BY <2>1, <2>2, Stops
  <1>5. CASE ~LastChildExits(p)
    <2>1. pc' = CASE EmergencyRestart /\ status[c] = "fault" -> "fault"
                  [] restart_child(c) -> "make"
                  [] OTHER -> "bury"
      BY <1>5 DEF fpm_children_bury
    <2>2. make' = IF restart_child(c)
                    THEN [wp |-> p, max |-> RestartMax(p), ret |-> "bury"]
                    ELSE make
      BY DEF fpm_children_bury
    <2>3. pc' \in {"fault", "bury"} \/ (pc' = "make" /\ make'.ret = "bury")
      <3>1. CASE restart_child(c)
        BY <2>1, <2>2, <3>1
      <3>2. CASE ~restart_child(c)
        BY <2>1, <3>2
      <3> QED
        BY <3>1, <3>2
    <2>4. Burying' /\ ~Ended'
      BY <2>3 DEF Burying, Ended
    <2>5. AllSignalled
      BY <1>3, Unfolded DEF MasterInv
    <2>6. \A d \in Child : d # c => (Live(d)' <=> Live(d))
      BY <1>0, <1>1 DEF Live, TypeOK
    <2>7. AllSignalled'
      BY <1>1, <1>2, <2>5, <2>6 DEF AllSignalled
    <2>8. ShutdownOn'
      BY <1>1 DEF MasterInv, ShutdownOn
    <2>9. \A d \in Child : Waited(d)' => Waited(d)
      BY <1>0, <1>1 DEF TypeOK, Waited
    <2> QED
      BY <1>1, <1>3, <2>4, <2>7, <2>8, <2>9, GoesOn
  <1> QED
    BY <1>4, <1>5

\* A trace given up or ended takes a pending signal from nobody who lives on
\* without heeding it.
LEMMA TraceMaster ==
  ASSUME MasterInv, CoreInv', NEW c \in Child, fpm_php_trace(c)
  PROVE  MasterInv'
  <1>0. TypeOK /\ RequestsOK
    BY DEF MasterInv, CoreInv
  <1>1. UNCHANGED <<pc, ctlVars, listVars, loopVars>> /\ pc = "bury"
    BY DEF fpm_php_trace
  <1>2. ~Ended /\ ~Ended' /\ (Burying => Burying')
    BY <1>1 DEF Ended, Burying
  <1>3. /\ HasC(pipe) => HasC(pipe')
        /\ quitting \subseteq quitting'
        /\ \A d \in Child :
             /\ Live(d)' => Live(d)
             /\ Live(d)' =>
                  \/ pending[d] \subseteq pending'[d]
                  \/ pending[d] \subseteq {"QUIT"} /\ ("QUIT" \in pending[d] => d \in quitting')
             /\ Waited(d)' => Waited(d) \/ HasC(pipe')
    BY <1>0, TraceEffect DEF Waited
  <1>4. AllSignalled
    BY <1>2, Unfolded DEF MasterInv
  <1>5. AllSignalled'
    BY <1>0, <1>1, <1>3, <1>4, SignalledKept DEF ctlVars, listVars
  <1>6. ShutdownOn'
    BY <1>1 DEF MasterInv, ShutdownOn, ctlVars
  <1> QED
    BY <1>2, <1>3, <1>5, <1>6, GoesOn

\* Every step keeps the invariant.
LEMMA StepMaster ==
  ASSUME MasterInv, [Next]_vars
  PROVE  MasterInv'
  <1>0. CoreInv /\ CoreInv'
    BY StepCore DEF MasterInv
  <1>1. CASE \/ fpm_children_create_initial \/ make_done \/ make_fails \/ poll_returns
             \/ bury_ends \/ pctl_not_due \/ idle_heartbeat \/ no_idle_heartbeat
             \/ next_pool \/ idle_pool_kept \/ timers_done \/ idle_children_forked
             \/ \E c \in Child : fpm_request_is_idle(c)
             \/ \E c \in Child : request_timed_out(c)
             \/ \E c \in Child : request_slow(c)
             \/ fpm_trace_signal
    BY <1>0, <1>1, LoopFrame, LoopMaster
  <1>2. CASE SignalNext \/ WorkerNext
    BY <1>0, <1>2, WorkerMaster
  <1>3. CASE idle_child_killed \/ terminate_victim
    BY <1>0, <1>3, PokeMaster
  <1>4. CASE fpm_got_signal \/ check_last_faults \/ fpm_pctl_action
    BY <1>0, <1>4, ControlMaster
  <1>5. CASE \E c \in Child : fpm_children_make(c)
    BY <1>0, <1>5, MakeMaster
  <1>6. CASE \E c \in Child, p \in Pool : fpm_children_bury(c, p)
    BY <1>0, <1>6, BuryMaster
  <1>7. CASE ended \/ UNCHANGED vars
    <2>1. UNCHANGED vars
      BY <1>7 DEF ended
    <2>2. UNCHANGED <<pc, make, fpm_state, fpm_signal_sent, pctl_timer, deaf, children,
                      proc, quitting, trace, pending, pipe>>
      BY <2>1 DEF vars, ctlVars, listVars, loopVars, signalVars, workerVars
    <2> QED
      BY <1>0, <2>2 DEF MasterInv, ShutdownOn, NoLostSigchld, NoOrphanWorkers,
         EveryoneSignalled, Linked, Live, Ended
  <1>8. CASE \E c \in Child : fpm_php_trace(c)
    BY <1>0, <1>8, TraceMaster
  <1> QED
    BY <1>1, <1>2, <1>3, <1>4, <1>5, <1>6, <1>7, <1>8 DEF Next, MasterNext

\* The whole invariant holds in every reachable state.
THEOREM MasterInvariant == Spec => []MasterInv
  <1>1. Init => MasterInv
    <2> SUFFICES ASSUME Init PROVE MasterInv
      OBVIOUS
    <2>1. CoreInv
      BY InitCore
    <2>2. ShutdownOn /\ NoLostSigchld /\ NoOrphanWorkers /\ EveryoneSignalled
      BY DEF Init, ShutdownOn, NoLostSigchld, NoOrphanWorkers, EveryoneSignalled, Ended
    <2> QED
      BY <2>1, <2>2 DEF MasterInv
  <1>2. MasterInv /\ [Next]_vars => MasterInv'
    BY StepMaster
  <1> QED
    BY <1>1, <1>2, PTL DEF Spec

\* Type correctness of the process manager.
THEOREM MasterTypeCorrect == Spec => []TypeOK
  <1>1. MasterInv => TypeOK
    BY DEF MasterInv, CoreInv
  <1> QED
    BY <1>1, MasterInvariant, PTL

\* wp->running_children and fpm_globals.running_children count exactly the
\* processes that exist, each linked in one pool, whatever the number of
\* pools and processes: the decisions to spawn, to stop and to exit rest on
\* true numbers.
THEOREM CountersAreExact == Spec => []CountersExact
  <1>1. MasterInv => CountersExact
    BY DEF MasterInv, CoreInv
  <1> QED
    BY <1>1, MasterInvariant, PTL

\* No interleaving of restarts, idle maintenance and failing forks takes a
\* pool above pm.max_children.
THEOREM PoolsStayWithinLimit == Spec => []MaxChildrenRespected
  <1>1. MasterInv => MaxChildrenRespected
    BY DEF MasterInv, CoreInv
  <1> QED
    BY <1>1, MasterInvariant, PTL

\* A dead child is never forgotten, nor is a stopped one: a SIGCHLD byte or
\* the waitpid loop is ahead as long as it is not buried or traced.
THEOREM DeathsAreNoticed == Spec => []NoLostSigchld
  <1>1. MasterInv => NoLostSigchld
    BY DEF MasterInv
  <1> QED
    BY <1>1, MasterInvariant, PTL

\* The master ends only after its last worker, and only when asked to.
THEOREM MasterEndsLast == Spec => []NoOrphanWorkers
  <1>1. MasterInv => NoOrphanWorkers
    BY DEF MasterInv
  <1> QED
    BY <1>1, MasterInvariant, PTL

\* A signal of the shutdown sequence misses only workers that were still
\* starting when it was sent or lost it to the stop of a trace; for a worker
\* that is attached it is pending.
THEOREM ShutdownReachesAll == Spec => []EveryoneSignalled
  <1>1. MasterInv => EveryoneSignalled
    BY DEF MasterInv
  <1> QED
    BY <1>1, MasterInvariant, PTL

-----------------------------------------------------------------------------
(***************************************************************************)
(* What a step may never do.                                               *)
(***************************************************************************)

\* Only fpm_children_make links a child and only a burial unlinks one.
LEMMA ListSteps ==
  ASSUME CoreInv, [Next]_vars
  PROVE  \/ Kept
         \/ \E c \in Child : fpm_children_make(c)
         \/ \E c \in Child, p \in Pool : fpm_children_bury(c, p)
  <1>1. CASE \/ fpm_children_create_initial \/ make_done \/ make_fails \/ poll_returns
             \/ bury_ends \/ pctl_not_due \/ idle_heartbeat \/ no_idle_heartbeat
             \/ next_pool \/ idle_pool_kept \/ timers_done
             \/ \E c \in Child : fpm_request_is_idle(c)
             \/ \E c \in Child : request_timed_out(c)
             \/ \E c \in Child : request_slow(c)
             \/ fpm_trace_signal
    BY <1>1, LoopCore
  <1>2. CASE idle_children_forked
    BY <1>2, ForkedCore
  <1>3. CASE SignalNext \/ WorkerNext
    BY <1>3, WorkerCore
  <1>4. CASE \/ fpm_got_signal \/ check_last_faults \/ fpm_pctl_action
             \/ idle_child_killed \/ terminate_victim
             \/ \E c \in Child : fpm_php_trace(c)
    BY <1>4, SignalCore
  <1>5. CASE ended \/ UNCHANGED vars
    BY <1>5 DEF ended, vars, Kept, workerVars
  <1> QED
    BY <1>1, <1>2, <1>3, <1>4, <1>5 DEF Next, MasterNext

\* Only fpm_pctl changes the state, and never to a weaker one.
LEMMA StateSteps ==
  ASSUME CoreInv, [Next]_vars
  PROVE  Rank(fpm_state') >= Rank(fpm_state)
  <1>0. TypeOK /\ pipe \in Seq(Byte)
    BY DEF CoreInv, TypeOK, Byte
  <1>1. Rank(fpm_state) \in Nat
    BY <1>0 DEF TypeOK, Rank
  <1>2. CASE UNCHANGED fpm_state
    BY <1>1, <1>2
  <1>3. CASE fpm_got_signal
    <2>1. UNCHANGED children
      BY <1>3 DEF fpm_got_signal, listVars
    <2>2. CASE UNCHANGED ctlVars
      BY <1>2, <2>2 DEF ctlVars
    <2>3. CASE /\ pipe # <<>> /\ Head(pipe) # "C"
               /\ fpm_pctl_set(StateOf(Head(pipe)), Tail(pipe), "signals")
      <3>1. Head(pipe) \in Byte /\ Tail(pipe) \in Seq(Byte)
        BY <1>0, <2>3, TailLemma
      <3>2. StateOf(Head(pipe)) \in States \ {"NORMAL"}
        BY <2>3, <3>1 DEF StateOf, States, Byte
      <3> QED
        BY <1>0, <2>1, <2>3, <3>1, <3>2, PctlSetLemma
    <2> QED
      BY <1>3, <2>2, <2>3 DEF fpm_got_signal
  <1>4. CASE check_last_faults
    <2>1. UNCHANGED children
      BY <1>4 DEF check_last_faults, listVars
    <2>2. CASE UNCHANGED ctlVars
      BY <1>2, <2>2 DEF ctlVars
    <2>3. CASE fpm_pctl_set("RELOADING", pipe, "make")
      <3>1. "RELOADING" \in States \ {"NORMAL"}
        BY DEF States
      <3> QED
        BY <1>0, <2>1, <2>3, <3>1, PctlSetLemma
    <2> QED
      BY <1>4, <2>2, <2>3 DEF check_last_faults
  <1>5. CASE \/ fpm_children_create_initial \/ make_done \/ make_fails \/ poll_returns
             \/ bury_ends \/ pctl_not_due \/ idle_heartbeat \/ no_idle_heartbeat
             \/ next_pool \/ idle_pool_kept \/ timers_done \/ idle_children_forked
             \/ \E c \in Child : fpm_request_is_idle(c)
             \/ \E c \in Child : request_timed_out(c)
             \/ \E c \in Child : request_slow(c)
             \/ fpm_trace_signal
    BY <1>2, <1>5, LoopFrame
  <1>6. CASE \/ idle_child_killed \/ terminate_victim \/ fpm_pctl_action
             \/ \E c \in Child : fpm_php_trace(c)
    BY <1>2, <1>6 DEF idle_child_killed, terminate_victim, fpm_pctl_action, fpm_php_trace,
       ctlVars
  <1>7. CASE \E c \in Child : fpm_children_make(c)
    BY <1>2, <1>7 DEF fpm_children_make, ctlVars
  <1>8. CASE \E c \in Child, p \in Pool : fpm_children_bury(c, p)
    BY <1>2, <1>8 DEF fpm_children_bury
  <1>9. CASE SignalNext
    BY <1>2, <1>9 DEF SignalNext, send_signal, ctlVars
  <1>10. CASE WorkerNext
    <2>1. UNCHANGED workerFrame \/ UNCHANGED fpm_state
      BY <1>10 DEF WorkerNext, fpm_signals_init_child, fpm_request_accepting,
         fcgi_accept_request, fpm_request_reading_headers, fpm_request_finished,
         soft_quit, worker_exits, worker_faults, Ends, ptrace_stop
    <2> QED
      BY <1>2, <2>1 DEF workerFrame, ctlVars
  <1>11. CASE ended \/ UNCHANGED vars
    BY <1>2, <1>11 DEF ended, vars, ctlVars
  <1> QED
    BY <1>3, <1>4, <1>5, <1>6, <1>7, <1>8, <1>9, <1>10, <1>11 DEF Next, MasterNext

\* A shutdown is never called off, and no worker is forked during it.
THEOREM ShutdownIsFinal == Spec => ShutdownIrrevocable
  <1> DEFINE A == /\ Rank(fpm_state') >= Rank(fpm_state)
                  /\ fpm_state # "NORMAL" => Linked' \subseteq Linked
  <1>1. CoreInv /\ [Next]_vars => A
    <2> SUFFICES ASSUME CoreInv, [Next]_vars PROVE A
      OBVIOUS
    <2>1. CASE Kept
      BY <2>1, StateSteps DEF Kept, listVars, Linked
    <2>2. CASE \E c \in Child : fpm_children_make(c)
      BY <2>2, StateSteps DEF fpm_children_make, MoreToFork, fpm_pctl_can_spawn_children
    <2>3. CASE \E c \in Child, p \in Pool : fpm_children_bury(c, p)
      BY <2>3, StateSteps, BuryCore
    <2> QED
      BY <2>1, <2>2, <2>3, ListSteps
  <1>2. CoreInv /\ [Next]_vars => [A]_vars
    BY <1>1
  <1> HIDE DEF A
  <1>3. Spec => [][A]_vars
    BY <1>2, CoreInvariant, PTL DEF Spec
  <1> QED
    BY <1>3 DEF ShutdownIrrevocable, A

=============================================================================
