------------------------------ MODULE FpmSockets ------------------------------
(***************************************************************************)
(* The listening sockets of FPM's masters (fpm_sockets.c): created or      *)
(* found for every pool of the configuration, handed to the master's next  *)
(* image by a reload through the environment, closed and unlinked when no  *)
(* pool needs them any more.                                               *)
(*                                                                         *)
(* A service script stops one master and starts another; a master may fail *)
(* at any point of its start, or be killed and leave its workers behind.   *)
(* The descriptor of a socket is identified with the socket: a master      *)
(* never duplicates one.                                                   *)
(***************************************************************************)
EXTENDS Integers, Sequences, FiniteSets, SequencesExt

CONSTANTS
  Master,           \* processes that run as a master, one after the other
  Inet, Unix,       \* addresses
  Comma,            \* paths with a comma in them
  Config,           \* configurations: the addresses of the pools, in order
  Sock,             \* the kernel's sockets
  RestartWaitsFor   \* what the script takes for the end of a master

Address == Inet \cup Unix
None == "none"
Stale == "stale"    \* a path no socket is bound to any more

ASSUME SocketsAssumption ==
  /\ IsFiniteSet(Sock)
  /\ Inet \cap Unix = {} /\ Comma \subseteq Unix
  /\ None \notin Address /\ \A a \in Comma : <<"rest of", a>> \notin Address
  /\ Config \subseteq Seq(Address) \ {<<>>}
  /\ RestartWaitsFor \in {"exit", "pid_file"}
  /\ {None, Stale} \cap Sock = {}

VARIABLES
  file,       \* the configuration file
  pid_file,   \* the master whose pid is in the pid file, or None
  \* a master
  pc,         \* where it is
  pools,      \* the configuration it has read
  env,        \* FPM_SOCKETS: pairs of a key and a socket
  sockets,    \* sockets_list: keys, sockets and refcounts
  listening,  \* listening_socket of the pools that have one already
  open,       \* sockets it has open
  \* the kernel
  path,       \* what a path leads to
  bound,      \* the address a socket is bound to
  orphaned,   \* sockets held by workers whose master was killed
  \* history
  handed,     \* the sockets by address when a master re-executed itself
  abandoned   \* paths that a master has not lived to unlink

masterVars == <<pc, pools, env, sockets, listening, open>>
kernelVars == <<path, bound, orphaned>>
vars == <<file, pid_file, masterVars, kernelVars, handed, abandoned>>

Init ==
  /\ file \in Config
  /\ pid_file = None
  /\ pc = [m \in Master |-> "absent"]
  /\ pools = [m \in Master |-> <<>>]
  /\ env = [m \in Master |-> <<>>]
  /\ sockets = [m \in Master |-> <<>>]
  /\ listening = [m \in Master |-> <<>>]
  /\ open = [m \in Master |-> {}]
  /\ path = [a \in Unix |-> None]
  /\ bound = [s \in Sock |-> None]
  /\ orphaned = {}
  /\ handed = [m \in Master |-> [a \in Address |-> None]]
  /\ abandoned = {}

-----------------------------------------------------------------------------
(* The kernel.                                                             *)

\* m keeps the sockets in keep and the others' are as they were: what nobody
\* holds is gone, and only its path is left.
Close(m, keep, p) ==
  LET held == orphaned' \cup keep \cup UNION {open[n] : n \in Master \ {m}}
  IN /\ open' = [open EXCEPT ![m] = keep]
     /\ bound' = [s \in Sock |-> IF s \in held THEN bound[s] ELSE None]
     /\ path' = [a \in Unix |-> IF p[a] \in Sock \ held THEN Stale ELSE p[a]]

Unlink(paths) == [a \in Unix |-> IF a \in paths THEN None ELSE path[a]]

\* The process ends: everything it had is closed and forgotten.
Exit(m, p) ==
  /\ pc' = [pc EXCEPT ![m] = "absent"]
  /\ Close(m, {}, p)
  /\ pools' = [pools EXCEPT ![m] = <<>>]
  /\ env' = [env EXCEPT ![m] = <<>>]
  /\ sockets' = [sockets EXCEPT ![m] = <<>>]
  /\ listening' = [listening EXCEPT ![m] = <<>>]
  /\ handed' = [handed EXCEPT ![m] = [a \in Address |-> None]]

-----------------------------------------------------------------------------
(* The script.                                                             *)

\* start, also as the second half of restart, which has seen the end of the
\* former master in its pid file.
start(m) ==
  /\ pc[m] = "absent"
  /\ \A n \in Master : \/ pc[n] = "absent"
                       \/ RestartWaitsFor = "pid_file" /\ pc[n] = "cleanup"
  /\ pc' = [pc EXCEPT ![m] = "import"]
  /\ pools' = [pools EXCEPT ![m] = file]
  /\ UNCHANGED <<file, pid_file, env, sockets, listening, open, kernelVars,
                 handed, abandoned>>

edit_configuration ==
  /\ file' \in Config \ {file}
  /\ UNCHANGED <<pid_file, masterVars, kernelVars, handed, abandoned>>

-----------------------------------------------------------------------------
(* fpm_sockets_init_main.                                                  *)

Entry(key, s, refcount) == [key |-> key, sock |-> s, refcount |-> refcount]

\* The list is split at every comma: of a path with a comma in it the last
\* part is taken for the key.
KeyRead(key) == IF key \in Comma THEN <<"rest of", key>> ELSE key

\* Mutant: an inherited socket counts as used.
import_used(m) ==
  /\ pc[m] = "import"
  /\ sockets' = [sockets EXCEPT ![m] =
       [i \in DOMAIN env[m] |-> Entry(KeyRead(env[m][i][1]), env[m][i][2], 1)]]
  /\ pc' = [pc EXCEPT ![m] = "create"]
  /\ UNCHANGED <<file, pid_file, pools, env, listening, open, kernelVars,
                 handed, abandoned>>

\* Mutant: the loop ends at the last comma.
import_short(m) ==
  /\ pc[m] = "import"
  /\ sockets' = [sockets EXCEPT ![m] =
       [i \in 1 .. (Len(env[m]) - 1) |->
          Entry(KeyRead(env[m][i][1]), env[m][i][2], 0)]]
  /\ pc' = [pc EXCEPT ![m] = "create"]
  /\ UNCHANGED <<file, pid_file, pools, env, listening, open, kernelVars,
                 handed, abandoned>>

import(m) ==
  /\ pc[m] = "import"
  /\ sockets' = [sockets EXCEPT ![m] =
       [i \in DOMAIN env[m] |-> Entry(KeyRead(env[m][i][1]), env[m][i][2], 0)]]
  /\ pc' = [pc EXCEPT ![m] = "create"]
  /\ UNCHANGED <<file, pid_file, pools, env, listening, open, kernelVars,
                 handed, abandoned>>

\* The address of the pool whose turn it is.
ToCreate(m) == pools[m][Len(listening[m]) + 1]
Creating(m) == pc[m] = "create" /\ Len(listening[m]) < Len(pools[m])

\* FPM_GET_USE_SOCKET: the first entry with the key, or 0.
fpm_sockets_hash_op(m, key) ==
  SelectInSeq(sockets[m], LAMBDA e : e.key = key)

use_socket(m) ==
  /\ Creating(m)
  /\ LET i == fpm_sockets_hash_op(m, ToCreate(m))
     IN /\ i # 0
        /\ sockets' = [sockets EXCEPT ![m][i].refcount = @ + 1]
        /\ listening' = [listening EXCEPT ![m] = Append(@, sockets[m][i].sock)]
  /\ UNCHANGED <<file, pid_file, pc, pools, env, open, kernelVars, handed,
                 abandoned>>

InUse(a) == \E s \in Sock : bound[s] = a

\* fpm_sockets_new_listening_socket: a path is unlinked first, an internet
\* address must be free.
fpm_sockets_new_listening_socket(m) ==
  /\ Creating(m)
  /\ LET a == ToCreate(m)
     IN /\ fpm_sockets_hash_op(m, a) = 0
        /\ a \in Inet => ~InUse(a)
        /\ \E s \in Sock :
             /\ bound[s] = None
             /\ bound' = [bound EXCEPT ![s] = a]
             /\ path' = [b \in Unix |-> IF b = a THEN s ELSE path[b]]
             /\ open' = [open EXCEPT ![m] = @ \cup {s}]
             /\ sockets' = [sockets EXCEPT ![m] = Append(@, Entry(a, s, 1))]
             /\ listening' = [listening EXCEPT ![m] = Append(@, s)]
        /\ abandoned' = abandoned \ {a}
  /\ UNCHANGED <<file, pid_file, pc, pools, env, orphaned, handed>>

\* fpm_array_item_remove: the last entry takes the place of the one removed.
fpm_array_item_remove(list, i) ==
  [j \in 1 .. (Len(list) - 1) |-> IF j = i THEN list[Len(list)] ELSE list[j]]

\* Where the loop over the list stops next: an entry of no pool, or 0.
NextUnused(m) == SelectInSeq(sockets[m], LAMBDA e : e.refcount = 0)
AllCreated(m) == pc[m] = "create" /\ ~Creating(m)

\* Mutant: the path is left.
close_unused_linked(m) ==
  LET i == NextUnused(m)
  IN /\ AllCreated(m) /\ i # 0
     /\ sockets' = [sockets EXCEPT ![m] = fpm_array_item_remove(@, i)]
     /\ orphaned' = orphaned
     /\ Close(m, open[m] \ {sockets[m][i].sock}, path)
     /\ UNCHANGED <<file, pid_file, pc, pools, env, listening, handed, abandoned>>

\* An inherited socket that no pool has asked for is closed and unlinked.
close_unused(m) ==
  LET i == NextUnused(m)
  IN /\ AllCreated(m) /\ i # 0
     /\ sockets' = [sockets EXCEPT ![m] = fpm_array_item_remove(@, i)]
     /\ orphaned' = orphaned
     /\ Close(m, open[m] \ {sockets[m][i].sock}, Unlink({sockets[m][i].key}))
     /\ UNCHANGED <<file, pid_file, pc, pools, env, listening, handed, abandoned>>

\* Mutant: the entry that a removal has moved is not looked at again.
sockets_created_early(m) ==
  /\ AllCreated(m) /\ NextUnused(m) \in {0, Len(sockets[m])}
  /\ pc' = [pc EXCEPT ![m] = "write_pid"]
  /\ UNCHANGED <<file, pid_file, pools, env, sockets, listening, open,
                 kernelVars, handed, abandoned>>

\* The loop has come to the end of the list.
sockets_created(m) ==
  /\ AllCreated(m) /\ NextUnused(m) = 0
  /\ pc' = [pc EXCEPT ![m] = "write_pid"]
  /\ UNCHANGED <<file, pid_file, pools, env, sockets, listening, open,
                 kernelVars, handed, abandoned>>

fpm_conf_write_pid(m) ==
  /\ pc[m] = "write_pid"
  /\ pid_file' = m
  /\ pc' = [pc EXCEPT ![m] = "run"]
  /\ UNCHANGED <<file, pools, env, sockets, listening, open, kernelVars,
                 handed, abandoned>>

PathsOf(m) == {a \in Unix : path[a] \in open[m]}

\* The configuration, a system call, an address in use or any later part of
\* fpm_init fails: main returns, and no cleanup is run.  A pool's path may
\* have been unlinked by then, or bound to a socket that never listened.
init_fails(m) ==
  /\ pc[m] \in {"import", "write_pid"} \/ Creating(m)
  /\ orphaned' = orphaned
  /\ \/ Exit(m, path) /\ abandoned' = abandoned \cup PathsOf(m)
     \/ /\ Creating(m) /\ ToCreate(m) \in Unix
        /\ fpm_sockets_hash_op(m, ToCreate(m)) = 0
        /\ \E p \in {None, Stale} : Exit(m, [path EXCEPT ![ToCreate(m)] = p])
        /\ abandoned' = abandoned \cup PathsOf(m) \cup {ToCreate(m)}
  /\ UNCHANGED <<file, pid_file>>

-----------------------------------------------------------------------------
(* The end of a master's image: its last child has died, or it is killed.  *)

\* The entries in the order of the list.
Inheritance(m) ==
  [i \in DOMAIN sockets[m] |-> <<sockets[m][i].key, sockets[m][i].sock>>]

HandedBy(m) == [a \in Address |->
  IF \E e \in ToSet(sockets[m]) : e.key = a
  THEN (CHOOSE e \in ToSet(sockets[m]) : e.key = a).sock ELSE None]

\* Mutant: the paths are unlinked as well.
fpm_pctl_exec_unlinks(m) ==
  /\ pc[m] = "run"
  /\ env' = [env EXCEPT ![m] = Inheritance(m)]
  /\ sockets' = [sockets EXCEPT ![m] = <<>>]
  /\ listening' = [listening EXCEPT ![m] = <<>>]
  /\ pools' = [pools EXCEPT ![m] = file]
  /\ path' = Unlink({e.key : e \in ToSet(sockets[m])})
  /\ pc' = [pc EXCEPT ![m] = "import"]
  /\ handed' = [handed EXCEPT ![m] = HandedBy(m)]
  /\ UNCHANGED <<file, pid_file, open, bound, orphaned, abandoned>>

\* fpm_pctl_exec with fpm_sockets_cleanup for FPM_CLEANUP_PARENT_EXEC; the new
\* image has the sockets and the environment of the old one.
fpm_pctl_exec(m) ==
  /\ pc[m] = "run"
  /\ env' = [env EXCEPT ![m] = Inheritance(m)]
  /\ sockets' = [sockets EXCEPT ![m] = <<>>]
  /\ listening' = [listening EXCEPT ![m] = <<>>]
  /\ pools' = [pools EXCEPT ![m] = file]
  /\ pc' = [pc EXCEPT ![m] = "import"]
  /\ handed' = [handed EXCEPT ![m] = HandedBy(m)]
  /\ UNCHANGED <<file, pid_file, open, kernelVars, abandoned>>

exec_fails(m) ==
  /\ pc[m] = "run"
  /\ orphaned' = orphaned
  /\ Exit(m, path)
  /\ abandoned' = abandoned \cup PathsOf(m)
  /\ UNCHANGED <<file, pid_file>>

\* fpm_pctl_exit: the pid file first.
fpm_conf_unlink_pid(m) ==
  /\ pc[m] = "run"
  /\ pid_file' = None
  /\ pc' = [pc EXCEPT ![m] = "cleanup"]
  /\ UNCHANGED <<file, pools, env, sockets, listening, open, kernelVars,
                 handed, abandoned>>

\* Then fpm_sockets_cleanup for FPM_CLEANUP_PARENT_EXIT_MAIN.
fpm_sockets_cleanup(m) ==
  /\ pc[m] = "cleanup"
  /\ orphaned' = orphaned
  /\ Exit(m, Unlink({e.key : e \in ToSet(sockets[m])}))
  /\ UNCHANGED <<file, pid_file, abandoned>>

\* Its workers live on and keep the sockets.
killed(m) ==
  /\ pc[m] # "absent"
  /\ orphaned' \in {orphaned} \cup
       (IF pc[m] = "run" THEN {orphaned \cup open[m]} ELSE {})
  /\ Exit(m, path)
  /\ abandoned' = abandoned \cup PathsOf(m)
  /\ UNCHANGED <<file, pid_file>>

workers_exit ==
  /\ orphaned # {}
  /\ orphaned' = {}
  /\ LET held == UNION {open[n] : n \in Master}
     IN /\ bound' = [s \in Sock |-> IF s \in held THEN bound[s] ELSE None]
        /\ path' = [a \in Unix |->
             IF path[a] \in Sock \ held THEN Stale ELSE path[a]]
  /\ UNCHANGED <<file, pid_file, masterVars, handed, abandoned>>

-----------------------------------------------------------------------------
fpm_init(m) ==
  \/ import(m) \/ use_socket(m) \/ fpm_sockets_new_listening_socket(m)
  \/ close_unused(m) \/ sockets_created(m) \/ fpm_conf_write_pid(m)
  \/ init_fails(m)

End(m) ==
  \/ fpm_pctl_exec(m) \/ exec_fails(m)
  \/ fpm_conf_unlink_pid(m) \/ fpm_sockets_cleanup(m)
  \/ killed(m)

Next ==
  \/ \E m \in Master : start(m) \/ fpm_init(m) \/ End(m)
  \/ edit_configuration \/ workers_exit

Spec == Init /\ [][Next]_vars

-----------------------------------------------------------------------------
Key == Address \cup {<<"rest of", a>> : a \in Comma}

Entries == [key : Key, sock : Sock, refcount : Nat]

Typed ==
  /\ file \in Config
  /\ pid_file \in Master \cup {None}
  /\ pc \in [Master -> {"absent", "import", "create", "write_pid", "run",
                        "cleanup"}]
  /\ pools \in [Master -> Config \cup {<<>>}]
  /\ env \in [Master -> Seq(Address \X Sock)]
  /\ sockets \in [Master -> Seq(Entries)]
  /\ listening \in [Master -> Seq(Sock)]
  /\ open \in [Master -> SUBSET Sock]
  /\ path \in [Unix -> Sock \cup {None, Stale}]
  /\ bound \in [Sock -> Address \cup {None}]
  /\ orphaned \subseteq Sock
  /\ handed \in [Master -> [Address -> Sock \cup {None}]]
  /\ abandoned \subseteq Unix

\* Type correctness: what init, reload and cleanup (fpm_sockets.c) keep of the
\* sockets is well-formed, and no refcount exceeds the number of pools.
TypeOK ==
  /\ Typed
  /\ \A m \in Master : \A e \in ToSet(sockets[m]) :
       e.refcount <= Len(pools[m])

\* A master that serves can be reached: every pool has a socket, open and
\* bound to the pool's address, and the pool's path leads to it, whatever was
\* reloaded, edited, or left behind by a master that failed or was killed.
PoolsReachable == \A m \in Master : pc[m] = "run" =>
  /\ Len(listening[m]) = Len(pools[m])
  /\ \A i \in DOMAIN pools[m] :
       LET s == listening[m][i]
       IN /\ s \in open[m] /\ bound[s] = pools[m][i]
          /\ pools[m][i] \in Unix => path[pools[m][i]] = s

\* Reload after reload, a master holds the sockets its pools use and no
\* others, one for each address, with a refcount that says for how many.
NoSocketLeak == \A m \in Master : pc[m] = "run" =>
  /\ open[m] = ToSet(listening[m])
  /\ open[m] = {e.sock : e \in ToSet(sockets[m])}
  /\ \A e, f \in ToSet(sockets[m]) : e.key = f.key => e = f
  /\ \A e \in ToSet(sockets[m]) :
       e.refcount = Cardinality({i \in DOMAIN pools[m] : pools[m][i] = e.key})

\* A reload keeps the socket of every address that stays in the configuration,
\* with the connections that wait in it, unless the address has a comma.
ReloadKeepsSockets == \A m \in Master : pc[m] = "run" =>
  \A i \in DOMAIN pools[m] :
    LET a == pools[m][i]
    IN handed[m][a] # None /\ a \notin Comma => listening[m][i] = handed[m][a]

\* A path in the file system leads to a socket some master still has, or was
\* left by one that failed or was killed: neither a reload that drops a pool
\* nor an orderly exit leaves a path behind, unless it has a comma.
NoPathLeft == \A a \in Unix \ Comma :
  path[a] # None => a \in abandoned \/ \E m \in Master : path[a] \in open[m]

=============================================================================
