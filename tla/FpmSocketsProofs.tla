---------------------------- MODULE FpmSocketsProofs ----------------------------
(***************************************************************************)
(* Theorems about FpmSockets, for any sockets, addresses, configurations   *)
(* and masters, as long as a new master is started when the former one has *)
(* exited.  With a script that only waits for the pid file they are false  *)
(* (run restart_by_pid_file).                                              *)
(*                                                                         *)
(* SocketsInv follows a socket through the life of a master: the entry of  *)
(* the environment, the entry of the list, the descriptor, the kernel's    *)
(* binding and the path all speak of the same address.                     *)
(***************************************************************************)
EXTENDS FpmSockets, SequenceTheorems, FiniteSetTheorems, TLAPS

\* The script starts a master when the former one has exited.
OneMaster ==
  \A m, n \in Master : pc[m] # "absent" /\ pc[n] # "absent" => m = n

\* What is left of a master that has ended, and what one that has not begun
\* with its list has.
Blank ==
  \A m \in Master :
    /\ pc[m] = "absent" => /\ env[m] = <<>> /\ open[m] = {}
                           /\ handed[m] = [a \in Address |-> None]
    /\ pc[m] \in {"absent", "import"} => sockets[m] = <<>> /\ listening[m] = <<>>
    /\ pc[m] # "absent" => pools[m] \in Config

\* A socket lives as long as someone has it; a path leads to a socket bound
\* to it, or to none.
Kernel ==
  /\ \A s \in Sock : bound[s] # None <=> s \in orphaned \/ \E m \in Master : s \in open[m]
  /\ \A a \in Unix : path[a] \in Sock => bound[path[a]] = a

\* What the environment hands to the next image: all the sockets, each under
\* its own address, and the paths still lead to them.
Environment ==
  \A m \in Master : pc[m] = "import" =>
    /\ open[m] = {env[m][i][2] : i \in DOMAIN env[m]}
    /\ \A i, j \in DOMAIN env[m] :
         env[m][i][1] = env[m][j][1] \/ env[m][i][2] = env[m][j][2] => i = j
    /\ \A i \in DOMAIN env[m] :
         /\ bound[env[m][i][2]] = env[m][i][1]
         /\ env[m][i][1] \in Unix => path[env[m][i][1]] = env[m][i][2]
    /\ \A a \in Address :
         handed[m][a] # None => \E i \in DOMAIN env[m] : env[m][i] = <<a, handed[m][a]>>

Listing(m) == pc[m] \in {"create", "write_pid", "run", "cleanup"}

\* Which of the first n pools have the address.
Users(n, addresses, key) == {k \in 1 .. n : addresses[k] = key}

\* The list has every open socket once, under its address, or under a key no
\* pool can have.
ListsOpen(m) ==
  /\ open[m] = {sockets[m][i].sock : i \in DOMAIN sockets[m]}
  /\ \A i, j \in DOMAIN sockets[m] :
       sockets[m][i].key = sockets[m][j].key \/ sockets[m][i].sock = sockets[m][j].sock
         => i = j
  /\ \A i \in DOMAIN sockets[m] :
       /\ \/ sockets[m][i].key = bound[sockets[m][i].sock]
          \/ sockets[m][i].key = KeyRead(bound[sockets[m][i].sock])
       /\ sockets[m][i].key \in Unix => path[sockets[m][i].key] = sockets[m][i].sock

\* The refcount of an entry counts the pools that use it, and those that none
\* uses are gone before the master serves.
Counts(m) ==
  /\ \A i \in DOMAIN sockets[m] :
       sockets[m][i].refcount =
         Cardinality(Users(Len(listening[m]), pools[m], sockets[m][i].key))
  /\ pc[m] # "create" => \A i \in DOMAIN sockets[m] : sockets[m][i].refcount # 0

\* A pool has the socket listed for its address, which is the one that was
\* handed over if there was one.
Serves(m) ==
  /\ Len(listening[m]) <= Len(pools[m])
  /\ pc[m] # "create" => Len(listening[m]) = Len(pools[m])
  /\ \A k \in DOMAIN listening[m] : \E i \in DOMAIN sockets[m] :
       sockets[m][i].key = pools[m][k] /\ sockets[m][i].sock = listening[m][k]
  /\ \A k \in DOMAIN pools[m] :
       handed[m][pools[m][k]] # None /\ pools[m][k] \notin Comma =>
         \E i \in DOMAIN sockets[m] :
           sockets[m][i].key = pools[m][k] /\ sockets[m][i].sock = handed[m][pools[m][k]]

Listed == \A m \in Master : Listing(m) => ListsOpen(m)
Counted == \A m \in Master : Listing(m) => Counts(m)
Serving == \A m \in Master : Listing(m) => Serves(m)

SocketsInv ==
  /\ Typed
  /\ OneMaster
  /\ Blank
  /\ Kernel
  /\ Environment
  /\ Listed
  /\ Counted
  /\ Serving
  /\ NoPathLeft

-----------------------------------------------------------------------------
(* The operators of the model.                                             *)

\* A set of numbers that is not empty has a least one.
LEMMA LeastNumber ==
  ASSUME NEW S, S \subseteq Nat, S # {}
  PROVE  Min(S) \in S /\ \A x \in S : Min(S) <= x
  <1> DEFINE R == {ss \in Nat \X Nat : ss[1] < ss[2]}
  <1>0. IsWellFoundedOn(R, Nat)
    BY NatLessThanWellFounded DEF OpToRel
  <1> HIDE DEF R
  <1>1. PICK x \in S : \A y \in S : <<y, x>> \notin R
    BY <1>0, WFMin
  <1>2. ASSUME NEW y \in S PROVE x <= y
    <2>1. ~(y < x)
      BY <1>1 DEF R
    <2> QED
      BY <2>1
  <1> QED
    BY <1>2 DEF Min

\* A function on the first n numbers is a sequence.
LEMMA IndexFunction ==
  ASSUME NEW S, NEW n \in Nat, NEW f \in [1 .. n -> S]
  PROVE  f \in Seq(S) /\ Len(f) = n
  OBVIOUS

\* What the entries of a list are.
LEMMA EntryTypes ==
  ASSUME NEW S \in Seq(Entries)
  PROVE  /\ Len(S) \in Nat /\ DOMAIN S = 1 .. Len(S)
         /\ \A j \in DOMAIN S : /\ S[j] \in Entries /\ S[j].key \in Key
                                /\ S[j].sock \in Sock /\ S[j].refcount \in Nat
  <1>1. Len(S) \in Nat /\ DOMAIN S = 1 .. Len(S)
    BY LenProperties
  <1>2. \A j \in DOMAIN S : S[j] \in Entries
    BY <1>1, ElementOfSeq
  <1> QED
    BY <1>1, <1>2 DEF Entries

\* fpm_sockets_hash_op finds an entry with the key, or there is none.
LEMMA HashOp ==
  ASSUME NEW m, NEW key, NEW S, sockets[m] \in Seq(S)
  PROVE  LET i == fpm_sockets_hash_op(m, key)
         IN /\ i # 0 => i \in 1 .. Len(sockets[m]) /\ sockets[m][i].key = key
            /\ i = 0 => \A j \in 1 .. Len(sockets[m]) : sockets[m][j].key # key
  <1> DEFINE I == {i \in 1 .. Len(sockets[m]) : sockets[m][i].key = key}
  <1>1. fpm_sockets_hash_op(m, key) = IF I # {} THEN Min(I) ELSE 0
    BY DEF fpm_sockets_hash_op, SelectInSeq
  <1>2. I \subseteq Nat /\ 0 \notin I
    OBVIOUS
  <1>3. I # {} => Min(I) \in I
    BY <1>2, LeastNumber
  <1> QED
    BY <1>1, <1>2, <1>3

\* The loop over the list stops at an entry of no pool, or there is none.
LEMMA NextUnusedFound ==
  ASSUME NEW m, NEW S, sockets[m] \in Seq(S)
  PROVE  LET i == NextUnused(m)
         IN /\ i # 0 => i \in 1 .. Len(sockets[m]) /\ sockets[m][i].refcount = 0
            /\ i = 0 => \A j \in 1 .. Len(sockets[m]) : sockets[m][j].refcount # 0
  <1> DEFINE I == {i \in 1 .. Len(sockets[m]) : sockets[m][i].refcount = 0}
  <1>1. NextUnused(m) = IF I # {} THEN Min(I) ELSE 0
    BY DEF NextUnused, SelectInSeq
  <1>2. I \subseteq Nat /\ 0 \notin I
    OBVIOUS
  <1>3. I # {} => Min(I) \in I
    BY <1>2, LeastNumber
  <1> QED
    BY <1>1, <1>2, <1>3

\* fpm_array_item_remove takes one entry out and keeps every other one.
LEMMA RemoveLemma ==
  ASSUME NEW S, NEW list \in Seq(S), NEW i \in 1 .. Len(list)
  PROVE  LET r == fpm_array_item_remove(list, i)
         IN /\ r \in Seq(S) /\ Len(r) = Len(list) - 1
            /\ \A j \in 1 .. Len(r) : \E k \in 1 .. Len(list) : k # i /\ r[j] = list[k]
            /\ \A k \in 1 .. Len(list) : k # i => \E j \in 1 .. Len(r) : r[j] = list[k]
            /\ \A j \in 1 .. Len(r) : r[j] = list[IF j = i THEN Len(list) ELSE j]
  <1> DEFINE r == fpm_array_item_remove(list, i)
  <1>1. Len(list) \in Nat /\ Len(list) - 1 \in Nat
    OBVIOUS
  <1>2. \A j \in 1 .. (Len(list) - 1) : r[j] = list[IF j = i THEN Len(list) ELSE j]
    BY DEF fpm_array_item_remove
  <1>3. r \in [1 .. (Len(list) - 1) -> S]
    BY <1>1, <1>2 DEF fpm_array_item_remove
  <1>4. r \in Seq(S) /\ Len(r) = Len(list) - 1
    BY <1>1, <1>3
  <1>5. \A k \in 1 .. Len(list) : k # i => \E j \in 1 .. Len(r) : r[j] = list[k]
    <2> SUFFICES ASSUME NEW k \in 1 .. Len(list), k # i
                 PROVE  \E j \in 1 .. Len(r) : r[j] = list[k]
      OBVIOUS
    <2>1. CASE k = Len(list)
      BY <1>2, <1>4, <2>1
    <2>2. CASE k # Len(list)
      BY <1>2, <1>4, <2>2
    <2> QED
      BY <2>1, <2>2
  <1>6. \A j \in 1 .. Len(r) : \E k \in 1 .. Len(list) : k # i /\ r[j] = list[k]
    <2> SUFFICES ASSUME NEW j \in 1 .. Len(r)
                 PROVE  \E k \in 1 .. Len(list) : k # i /\ r[j] = list[k]
      OBVIOUS
    <2>1. CASE j = i
      BY <1>2, <1>4, <2>1
    <2>2. CASE j # i
      BY <1>2, <1>4, <2>2
    <2> QED
      BY <2>1, <2>2
  <1> QED
    BY <1>2, <1>4, <1>5, <1>6

\* The key of an inherited socket tells its address, and is one a pool can have
\* unless there is a comma in it.
LEMMA KeyReadLemma ==
  /\ \A a \in Address : KeyRead(a) \in Key
  /\ \A a \in Address : KeyRead(a) \in Address => a \notin Comma /\ KeyRead(a) = a
  /\ \A a \in Address \ Comma : KeyRead(a) = a
  /\ \A a, b \in Address : KeyRead(a) = KeyRead(b) => a = b
  BY SocketsAssumption DEF KeyRead, Key, Address

\* One more pool has its socket.
LEMMA UsersLemma ==
  ASSUME NEW p, NEW key, NEW n \in Nat
  PROVE  /\ Cardinality(Users(n, p, key)) \in 0 .. n
         /\ Cardinality(Users(n, p, key)) = 0 <=> \A i \in 1 .. n : p[i] # key
         /\ Cardinality(Users(n + 1, p, key)) =
              Cardinality(Users(n, p, key)) + (IF p[n + 1] = key THEN 1 ELSE 0)
  <1> DEFINE U(k) == Users(k, p, key)
  <1> USE DEF Users
  <1>1. IsFiniteSet(1 .. n) /\ Cardinality(1 .. n) = n
    <2>1. 1 \in Int /\ n \in Int
      OBVIOUS
    <2>2. /\ IsFiniteSet(1 .. n)
          /\ Cardinality(1 .. n) = IF 1 > n THEN 0 ELSE n - 1 + 1
      BY <2>1, FS_Interval
    <2> QED
      BY <2>2
  <1>2. IsFiniteSet(U(n)) /\ Cardinality(U(n)) <= n
    <2>1. U(n) \in SUBSET (1 .. n)
      OBVIOUS
    <2> QED
      BY <1>1, <2>1, FS_Subset
  <1>3. Cardinality(U(n)) \in Nat
    BY <1>2, FS_CardinalityType
  <1>4. Cardinality(U(n)) = 0 <=> U(n) = {}
    BY <1>2, FS_EmptySet
  <1>5. CASE p[n + 1] = key
    <2>1. U(n + 1) = U(n) \cup {n + 1} /\ n + 1 \notin U(n)
      BY <1>5
    <2> QED
      BY <1>2, <1>3, <1>4, <1>5, <2>1, FS_AddElement
  <1>6. CASE p[n + 1] # key
    <2>1. U(n + 1) = U(n)
      BY <1>6
    <2> QED
      BY <1>2, <1>3, <1>4, <1>6, <2>1
  <1> QED
    BY <1>5, <1>6

\* Sockets that a master or a worker has.
Held == {s \in Sock : s \in orphaned \/ \E n \in Master : s \in open[n]}

\* When sockets are closed, one lives on if someone still has it, and only a
\* path that led to one that does not is stale.
LEMMA CloseLemma ==
  ASSUME Typed, Kernel,
         NEW p, \A a \in Unix : p[a] \in Sock => bound[p[a]] = a,
         Held' \subseteq Held, orphaned' \subseteq Sock,
         open' \in [Master -> SUBSET Sock],
         \A s \in Sock : bound'[s] = IF s \in Held' THEN bound[s] ELSE None,
         \A a \in Unix : path'[a] = IF p[a] \in Sock /\ p[a] \notin Held' THEN Stale ELSE p[a]
  PROVE  /\ Kernel'
         /\ \A n \in Master : \A s \in open'[n] : bound'[s] = bound[s]
         /\ \A a \in Unix : path'[a] # None => p[a] # None
         /\ \A a \in Unix, n \in Master : p[a] \in open'[n] => path'[a] = p[a]
  <1>1. \A s \in Sock : s \in Held' <=> s \in orphaned' \/ \E n \in Master : s \in open'[n]
    BY DEF Held
  <1>2. \A s \in Held' : s \in Sock /\ bound[s] # None
    BY DEF Held, Kernel
  <1>3. \A s \in Sock : bound'[s] # None <=> s \in orphaned' \/ \E n \in Master : s \in open'[n]
    BY <1>1, <1>2
  <1>4. \A a \in Unix : path'[a] \in Sock => path'[a] = p[a] /\ p[a] \in Held'
    BY SocketsAssumption
  <1>5. \A a \in Unix : path'[a] \in Sock => bound'[path'[a]] = a
    BY <1>4
  <1>6. \A n \in Master : \A s \in open'[n] : s \in Sock /\ s \in Held'
    BY <1>1
  <1>7. \A a \in Unix : path'[a] # None => p[a] # None
    BY SocketsAssumption
  <1> QED
    BY <1>3, <1>5, <1>6, <1>7 DEF Kernel

\* Nothing changes for the kernel.
LEMMA Undisturbed ==
  ASSUME Kernel, NoPathLeft, UNCHANGED <<open, kernelVars, abandoned>>
  PROVE  Kernel' /\ NoPathLeft'
  BY DEF Kernel, NoPathLeft, kernelVars

-----------------------------------------------------------------------------
(* The steps of a start.                                                   *)

\* The new master has an empty environment and no socket.
LEMMA StartStep ==
  ASSUME SocketsInv, RestartWaitsFor = "exit", NEW m \in Master, start(m)
  PROVE  SocketsInv'
  <1>1. \A n \in Master : pc[n] = "absent"
    BY DEF start
  <1>2. /\ pc' = [pc EXCEPT ![m] = "import"]
        /\ pools' = [pools EXCEPT ![m] = file]
        /\ UNCHANGED <<file, pid_file, env, sockets, listening, open, kernelVars,
                       handed, abandoned>>
    BY DEF start
  <1>3. Typed'
    BY <1>2 DEF SocketsInv, Typed, kernelVars
  <1>4. pc'[m] = "import" /\ \A n \in Master \ {m} : pc'[n] = "absent"
    BY <1>1, <1>2 DEF SocketsInv, Typed
  <1>5. OneMaster'
    BY <1>4 DEF OneMaster
  <1>6. Blank'
    BY <1>1, <1>2, <1>4 DEF SocketsInv, Typed, Blank
  <1>7. Kernel' /\ NoPathLeft'
    BY <1>2, Undisturbed DEF SocketsInv
  <1>8. Environment'
    <2>1. env'[m] = <<>> /\ open'[m] = {} /\ handed'[m] = [a \in Address |-> None]
      BY <1>1, <1>2 DEF SocketsInv, Blank
    <2> QED
      BY <1>4, <2>1 DEF Environment
  <1>9. Listed' /\ Counted' /\ Serving'
    BY <1>4 DEF Listed, Counted, Serving, Listing
  <1> QED
    BY <1>3, <1>5, <1>6, <1>7, <1>8, <1>9 DEF SocketsInv

\* The environment becomes the list; every key but that of a path with a comma
\* comes back as it was.
LEMMA ImportStep ==
  ASSUME SocketsInv, NEW m \in Master, import(m)
  PROVE  SocketsInv'
  <1> DEFINE list == [i \in DOMAIN env[m] |->
                        Entry(KeyRead(env[m][i][1]), env[m][i][2], 0)]
  <1>1. /\ pc[m] = "import"
        /\ pc' = [pc EXCEPT ![m] = "create"]
        /\ sockets' = [sockets EXCEPT ![m] = list]
        /\ UNCHANGED <<file, pid_file, pools, env, listening, open, kernelVars,
                       handed, abandoned>>
    BY DEF import
  <1>2. env[m] \in Seq(Address \X Sock)
    BY DEF SocketsInv, Typed
  <1>3. /\ DOMAIN list = DOMAIN env[m] /\ DOMAIN list = 1 .. Len(env[m])
        /\ \A i \in DOMAIN list : /\ env[m][i] \in Address \X Sock
                                  /\ list[i].key = KeyRead(env[m][i][1])
                                  /\ list[i].sock = env[m][i][2]
                                  /\ list[i].refcount = 0
                                  /\ list[i] \in Entries
    BY <1>2, KeyReadLemma DEF Entry, Entries
  <1>4. list \in Seq(Entries)
    <2>1. Len(env[m]) \in Nat
      BY <1>2
    <2>2. list \in [1 .. Len(env[m]) -> Entries]
      BY <1>3
    <2> HIDE DEF list
    <2> QED
      BY <2>1, <2>2, IndexFunction
  <1> HIDE DEF list
  <1>5. Typed'
    BY <1>1, <1>4 DEF SocketsInv, Typed, kernelVars
  <1>6. /\ pc'[m] = "create" /\ \A n \in Master \ {m} : pc'[n] = "absent" /\ pc[n] = "absent"
        /\ sockets'[m] = list /\ \A n \in Master \ {m} : sockets'[n] = sockets[n]
    BY <1>1 DEF SocketsInv, Typed, OneMaster
  <1>7. OneMaster'
    BY <1>6 DEF OneMaster
  <1>8. Blank'
    BY <1>1, <1>6 DEF SocketsInv, Typed, Blank
  <1>9. Kernel' /\ NoPathLeft'
    BY <1>1, Undisturbed DEF SocketsInv
  <1>10. Environment'
    BY <1>6 DEF Environment
  <1>11. Listed'
    <2>1. open'[m] = {list[i].sock : i \in DOMAIN list}
      BY <1>1, <1>3 DEF SocketsInv, Environment
    <2>2. \A i, j \in DOMAIN list : list[i].key = list[j].key \/ list[i].sock = list[j].sock
            => i = j
      BY <1>1, <1>3, KeyReadLemma DEF SocketsInv, Environment
    <2>3. \A i \in DOMAIN list :
            /\ list[i].key = KeyRead(bound'[list[i].sock])
            /\ list[i].key \in Unix => path'[list[i].key] = list[i].sock
      BY <1>1, <1>3, KeyReadLemma DEF SocketsInv, Environment, kernelVars, Address
    <2> QED
      BY <1>6, <2>1, <2>2, <2>3 DEF Listed, ListsOpen, Listing
  <1>12. listening'[m] = <<>>
    BY <1>1 DEF SocketsInv, Blank
  <1>13. Counted'
    <2>1. \A key : Users(Len(listening'[m]), pools'[m], key) = {}
      BY <1>12 DEF Users
    <2>2. \A key : Cardinality(Users(Len(listening'[m]), pools'[m], key)) = 0
      BY <2>1, FS_EmptySet
    <2> QED
      BY <1>3, <1>6, <2>2 DEF Counted, Counts, Listing
  <1>14. Serving'
    <2>1. pools'[m] \in Seq(Address)
      BY <1>1, SocketsAssumption DEF SocketsInv, Blank
    <2>2. ASSUME NEW k \in DOMAIN pools'[m], handed'[m][pools'[m][k]] # None,
                 pools'[m][k] \notin Comma
          PROVE  \E i \in DOMAIN list : list[i].key = pools'[m][k]
                                        /\ list[i].sock = handed'[m][pools'[m][k]]
      <3>1. pools'[m][k] \in Address
        BY <2>1
      <3>2. PICK i \in DOMAIN env[m] : env[m][i] = <<pools'[m][k], handed[m][pools'[m][k]]>>
        BY <1>1, <2>2, <3>1 DEF SocketsInv, Environment
      <3> QED
        BY <1>1, <1>3, <2>2, <3>1, <3>2, KeyReadLemma
    <2> QED
      BY <1>6, <1>12, <2>1, <2>2 DEF Serving, Serves, Listing
  <1> QED
    BY <1>5, <1>7, <1>8, <1>9, <1>10, <1>11, <1>13, <1>14 DEF SocketsInv


\* A master that runs is the only one, and has all that is open.
LEMMA Alone ==
  ASSUME SocketsInv, NEW m \in Master, pc[m] # "absent"
  PROVE  /\ \A n \in Master \ {m} : pc[n] = "absent" /\ open[n] = {}
         /\ \A a \in Unix \ Comma : path[a] # None => a \in abandoned \/ path[a] \in open[m]
         /\ pools[m] \in Config /\ pools[m] \in Seq(Address)
  <1>1. \A n \in Master \ {m} : pc[n] = "absent" /\ open[n] = {}
    BY DEF SocketsInv, OneMaster, Blank
  <1>2. \A a \in Unix \ Comma : path[a] # None => a \in abandoned \/ path[a] \in open[m]
    BY <1>1 DEF SocketsInv, NoPathLeft
  <1>3. pools[m] \in Config
    BY DEF SocketsInv, Blank
  <1> QED
    BY <1>1, <1>2, <1>3, SocketsAssumption

\* FPM_GET_USE_SOCKET: the entry has one user more.
LEMMA UseStep ==
  ASSUME SocketsInv, NEW m \in Master, use_socket(m)
  PROVE  SocketsInv'
  <1> DEFINE i == fpm_sockets_hash_op(m, ToCreate(m))
             S == sockets[m]
             n == Len(listening[m])
  <1>1. /\ pc[m] = "create" /\ Len(listening[m]) < Len(pools[m]) /\ i # 0
        /\ sockets' = [sockets EXCEPT ![m][i].refcount = @ + 1]
        /\ listening' = [listening EXCEPT ![m] = Append(@, S[i].sock)]
        /\ UNCHANGED <<file, pid_file, pc, pools, env, open, kernelVars, handed, abandoned>>
    BY DEF use_socket, Creating
  <1>2. /\ S \in Seq(Entries)
        /\ listening[m] \in Seq(Sock) /\ n \in Nat /\ DOMAIN listening[m] = 1 .. n
        /\ DOMAIN S = 1 .. Len(S) /\ Len(S) \in Nat
        /\ \A j \in DOMAIN S : /\ S[j] \in Entries /\ S[j].key \in Key
                               /\ S[j].sock \in Sock /\ S[j].refcount \in Nat
    <2>1. S \in Seq(Entries) /\ listening[m] \in Seq(Sock)
      BY DEF SocketsInv, Typed
    <2> HIDE DEF S
    <2> QED
      BY <2>1, EntryTypes, LenProperties
  <1>3. i \in 1 .. Len(S) /\ S[i].key = pools[m][n + 1]
    BY <1>1, <1>2, HashOp DEF ToCreate
  <1>4. pools[m] \in Seq(Address) /\ \A o \in Master \ {m} : pc[o] = "absent"
    BY <1>1, Alone
  <1>5. /\ \A o \in Master \ {m} : sockets'[o] = sockets[o] /\ listening'[o] = listening[o]
        /\ sockets'[m] \in Seq(Entries)
        /\ DOMAIN sockets'[m] = DOMAIN S
        /\ \A j \in DOMAIN S : /\ sockets'[m][j].key = S[j].key
                               /\ sockets'[m][j].sock = S[j].sock
                               /\ sockets'[m][j].refcount = S[j].refcount + (IF j = i THEN 1 ELSE 0)
    <2> DEFINE e == [S[i] EXCEPT !.refcount = @ + 1]
               T == [S EXCEPT ![i] = e]
    <2>1. sockets' = [sockets EXCEPT ![m] = T]
      BY <1>1, <1>2, <1>3
    <2> HIDE DEF i, S
    <2>2. sockets'[m] = T /\ \A o \in Master \ {m} : sockets'[o] = sockets[o]
      BY <2>1 DEF SocketsInv, Typed
    <2>3. S[i] \in Entries
      BY <1>2, <1>3
    <2>4. /\ e \in Entries /\ e.key = S[i].key /\ e.sock = S[i].sock
          /\ e.refcount = S[i].refcount + 1
      BY <2>3 DEF Entries
    <2> HIDE DEF e
    <2>6. /\ T \in Seq(Entries) /\ DOMAIN T = DOMAIN S
          /\ \A j \in DOMAIN S : T[j] = IF j = i THEN e ELSE S[j]
      BY <1>2, <1>3, <2>4, ExceptSeq, LenProperties
    <2> HIDE DEF T
    <2>7. \A o \in Master \ {m} : listening'[o] = listening[o]
      BY <1>1 DEF SocketsInv, Typed
    <2> QED
      BY <1>2, <2>2, <2>4, <2>6, <2>7
  <1>6. /\ S[i].sock \in Sock
        /\ listening'[m] = Append(listening[m], S[i].sock)
        /\ Len(listening'[m]) = n + 1
        /\ \A k \in 1 .. n : listening'[m][k] = listening[m][k]
        /\ listening'[m][n + 1] = S[i].sock
    <2>2. S[i].sock \in Sock
      BY <1>2, <1>3
    <2>3. listening'[m] = Append(listening[m], S[i].sock)
      BY <1>1 DEF SocketsInv, Typed
    <2> QED
      BY <1>2, <2>2, <2>3, AppendProperties
  <1> HIDE DEF i, S
  <1>7. Typed'
    <2>1. sockets' \in [Master -> Seq(Entries)]
      <3>1. sockets' = [sockets EXCEPT ![m] = sockets'[m]]
        BY <1>1 DEF SocketsInv, Typed
      <3> QED
        BY <1>5, <3>1 DEF SocketsInv, Typed
    <2>2. listening' \in [Master -> Seq(Sock)]
      BY <1>1, <1>2, <1>6 DEF SocketsInv, Typed
    <2> QED
      BY <1>1, <2>1, <2>2 DEF SocketsInv, Typed, kernelVars
  <1>8. OneMaster' /\ Kernel' /\ NoPathLeft'
    BY <1>1, Undisturbed DEF SocketsInv, OneMaster
  <1>9. Blank'
    BY <1>1, <1>4, <1>5 DEF SocketsInv, Blank
  <1>10. Environment'
    BY <1>1, <1>4 DEF Environment
  <1>11. Listed'
    <2>1. ListsOpen(m)
      BY <1>1 DEF SocketsInv, Listed, Listing
    <2>2. ListsOpen(m)'
      <3>1. {sockets'[m][j].sock : j \in DOMAIN sockets'[m]} = {S[j].sock : j \in DOMAIN S}
        BY <1>5
      <3>2. open'[m] = open[m] /\ bound' = bound /\ path' = path
        BY <1>1 DEF kernelVars
      <3>3. open'[m] = {sockets'[m][j].sock : j \in DOMAIN sockets'[m]}
        BY <2>1, <3>1, <3>2 DEF ListsOpen, S
      <3>4. \A j, k \in DOMAIN sockets'[m] :
              sockets'[m][j].key = sockets'[m][k].key \/ sockets'[m][j].sock = sockets'[m][k].sock
                => j = k
        BY <1>5, <2>1 DEF ListsOpen, S
      <3>5. \A j \in DOMAIN sockets'[m] :
              /\ \/ sockets'[m][j].key = bound'[sockets'[m][j].sock]
                 \/ sockets'[m][j].key = KeyRead(bound'[sockets'[m][j].sock])
              /\ sockets'[m][j].key \in Unix =>
                   path'[sockets'[m][j].key] = sockets'[m][j].sock
        BY <1>5, <2>1, <3>2 DEF ListsOpen, S
      <3> QED
        BY <3>3, <3>4, <3>5 DEF ListsOpen
    <2> QED
      BY <1>1, <1>4, <2>2 DEF Listed, Listing
  <1>12. Counted'
    <2>1. \A j \in DOMAIN S : S[j].refcount = Cardinality(Users(n, pools[m], S[j].key))
      BY <1>1 DEF SocketsInv, Counted, Counts, Listing, S
    <2>2. \A j \in DOMAIN S : S[j].key = pools[m][n + 1] <=> j = i
      BY <1>1, <1>2, <1>3 DEF SocketsInv, Listed, ListsOpen, Listing, S
    <2>3. \A j \in DOMAIN S : sockets'[m][j].refcount
                                = Cardinality(Users(n + 1, pools[m], S[j].key))
      <3> SUFFICES ASSUME NEW j \in DOMAIN S
                   PROVE  sockets'[m][j].refcount
                            = Cardinality(Users(n + 1, pools[m], S[j].key))
        OBVIOUS
      <3>1. n \in Nat
        BY <1>2
      <3> HIDE DEF n
      <3>2. Cardinality(Users(n + 1, pools[m], S[j].key)) =
              Cardinality(Users(n, pools[m], S[j].key))
                + (IF pools[m][n + 1] = S[j].key THEN 1 ELSE 0)
        BY <3>1, UsersLemma
      <3> QED
        BY <1>5, <2>1, <2>2, <3>2
    <2>4. Counts(m)'
      BY <1>1, <1>5, <1>6, <2>3 DEF Counts
    <2> QED
      BY <1>1, <1>4, <2>4 DEF Counted, Listing
  <1>13. Serving'
    <2>1. n + 1 <= Len(pools[m])
      BY <1>1, <1>2, <1>4
    <2>2. \A k \in 1 .. n : \E j \in DOMAIN S :
            S[j].key = pools[m][k] /\ S[j].sock = listening[m][k]
      BY <1>1, <1>2 DEF SocketsInv, Serving, Serves, Listing, S
    <2>3. \A k \in DOMAIN listening'[m] : \E j \in DOMAIN S :
            S[j].key = pools[m][k] /\ S[j].sock = listening'[m][k]
      <3>1. ASSUME NEW k \in DOMAIN listening'[m]
            PROVE  \E j \in DOMAIN S : S[j].key = pools[m][k] /\ S[j].sock = listening'[m][k]
        <4>1. k \in 1 .. n \/ k = n + 1
          BY <1>2, <1>6
        <4> QED
          BY <1>2, <1>3, <1>6, <2>2, <4>1
      <3> QED
        BY <3>1
    <2>4. \A k \in DOMAIN pools[m] :
            handed[m][pools[m][k]] # None /\ pools[m][k] \notin Comma =>
              \E j \in DOMAIN S : S[j].key = pools[m][k] /\ S[j].sock = handed[m][pools[m][k]]
      BY <1>1 DEF SocketsInv, Serving, Serves, Listing, S
    <2>5. Serves(m)'
      BY <1>1, <1>5, <1>6, <2>1, <2>3, <2>4 DEF Serves
    <2> QED
      BY <1>1, <1>4, <2>5 DEF Serving, Listing
  <1> QED
    BY <1>7, <1>8, <1>9, <1>10, <1>11, <1>12, <1>13 DEF SocketsInv

\* A new socket: its address was not listed and nobody had the socket.
LEMMA NewSocketStep ==
  ASSUME SocketsInv, NEW m \in Master, fpm_sockets_new_listening_socket(m)
  PROVE  SocketsInv'
  <1> DEFINE a == ToCreate(m)
             S == sockets[m]
             n == Len(listening[m])
  <1>1. PICK s \in Sock :
        /\ pc[m] = "create" /\ n < Len(pools[m])
        /\ fpm_sockets_hash_op(m, a) = 0
        /\ bound[s] = None
        /\ bound' = [bound EXCEPT ![s] = a]
        /\ path' = [b \in Unix |-> IF b = a THEN s ELSE path[b]]
        /\ open' = [open EXCEPT ![m] = @ \cup {s}]
        /\ sockets' = [sockets EXCEPT ![m] = Append(@, Entry(a, s, 1))]
        /\ listening' = [listening EXCEPT ![m] = Append(@, s)]
        /\ abandoned' = abandoned \ {a}
        /\ UNCHANGED <<file, pid_file, pc, pools, env, orphaned, handed>>
    BY DEF fpm_sockets_new_listening_socket, Creating
  <1>2. /\ S \in Seq(Entries)
        /\ listening[m] \in Seq(Sock) /\ n \in Nat /\ DOMAIN listening[m] = 1 .. n
        /\ DOMAIN S = 1 .. Len(S) /\ Len(S) \in Nat
        /\ \A j \in DOMAIN S : /\ S[j] \in Entries /\ S[j].key \in Key
                               /\ S[j].sock \in Sock /\ S[j].refcount \in Nat
    <2>1. S \in Seq(Entries) /\ listening[m] \in Seq(Sock)
      BY DEF SocketsInv, Typed
    <2> HIDE DEF S
    <2> QED
      BY <2>1, EntryTypes, LenProperties
  <1>3. /\ pools[m] \in Seq(Address) /\ \A o \in Master \ {m} : pc[o] = "absent"
        /\ \A o \in Master \ {m} : open[o] = {}
    BY <1>1, Alone
  <1>4. a = pools[m][n + 1] /\ a \in Address /\ a \in Key
    <2>1. n + 1 \in 1 .. Len(pools[m])
      BY <1>1, <1>2, <1>3, LenProperties
    <2>2. pools[m][n + 1] \in Address
      BY <1>3, <2>1, ElementOfSeq
    <2> QED
      BY <2>2 DEF ToCreate, Key
  <1>5. \A j \in DOMAIN S : S[j].key # a
    BY <1>1, <1>2, HashOp
  <1>6. s \notin open[m] /\ s \notin orphaned
    BY <1>1 DEF SocketsInv, Kernel
  <1>7. /\ sockets'[m] = Append(S, Entry(a, s, 1))
        /\ listening'[m] = Append(listening[m], s)
        /\ open'[m] = open[m] \cup {s}
        /\ \A o \in Master \ {m} : /\ sockets'[o] = sockets[o] /\ listening'[o] = listening[o]
                                   /\ open'[o] = open[o]
    BY <1>1 DEF SocketsInv, Typed
  <1>8. Entry(a, s, 1) \in Entries
    BY <1>4 DEF Entry, Entries
  <1> HIDE DEF a, S
  <1>9. /\ Len(sockets'[m]) = Len(S) + 1 /\ DOMAIN sockets'[m] = 1 .. (Len(S) + 1)
        /\ \A j \in DOMAIN S : j \in DOMAIN sockets'[m] /\ sockets'[m][j] = S[j]
        /\ Len(S) + 1 \in DOMAIN sockets'[m]
        /\ sockets'[m][Len(S) + 1] = Entry(a, s, 1)
        /\ Len(listening'[m]) = n + 1
        /\ \A k \in 1 .. n : listening'[m][k] = listening[m][k]
        /\ listening'[m][n + 1] = s
        /\ sockets'[m] \in Seq(Entries)
        /\ listening'[m] \in Seq(Sock)
    BY <1>2, <1>7, <1>8, AppendProperties, LenProperties
  <1>10. Entry(a, s, 1).key = a /\ Entry(a, s, 1).sock = s /\ Entry(a, s, 1).refcount = 1
    BY DEF Entry
  <1>11. Typed'
    <2>1. sockets' \in [Master -> Seq(Entries)]
      <3>1. sockets' = [sockets EXCEPT ![m] = sockets'[m]]
        BY <1>1 DEF SocketsInv, Typed
      <3> QED
        BY <1>9, <3>1 DEF SocketsInv, Typed
    <2>2. listening' \in [Master -> Seq(Sock)]
      <3>1. listening' = [listening EXCEPT ![m] = listening'[m]]
        BY <1>1 DEF SocketsInv, Typed
      <3> QED
        BY <1>9, <3>1 DEF SocketsInv, Typed
    <2>3. /\ open' \in [Master -> SUBSET Sock]
          /\ path' \in [Unix -> Sock \cup {None, Stale}]
          /\ bound' \in [Sock -> Address \cup {None}]
          /\ abandoned' \subseteq Unix
      BY <1>1, <1>4 DEF SocketsInv, Typed
    <2> QED
      BY <1>1, <2>1, <2>2, <2>3 DEF SocketsInv, Typed
  <1>12. OneMaster' /\ Blank' /\ Environment'
    BY <1>1, <1>3, <1>7 DEF SocketsInv, OneMaster, Blank, Environment
  <1>13. bound'[s] = a /\ \A t \in Sock \ {s} : bound'[t] = bound[t]
    BY <1>1 DEF SocketsInv, Typed
  <1>14. a # None
    BY <1>4, SocketsAssumption
  <1>15. \A b \in Unix : path'[b] = IF b = a THEN s ELSE path[b]
    BY <1>1
  <1>16. Kernel'
    <2>1. ASSUME NEW t \in Sock
          PROVE  bound'[t] # None <=> t \in orphaned' \/ \E o \in Master : t \in open'[o]
      <3>1. CASE t = s
        BY <1>7, <1>13, <1>14, <3>1
      <3>2. CASE t # s
        <4>1. \A o \in Master : t \in open'[o] <=> t \in open[o]
          BY <1>7, <3>2
        <4> QED
          BY <1>1, <1>13, <3>2, <4>1 DEF SocketsInv, Kernel
      <3> QED
        BY <3>1, <3>2
    <2>2. ASSUME NEW b \in Unix, path'[b] \in Sock
          PROVE  bound'[path'[b]] = b
      <3>1. CASE b = a
        BY <1>13, <1>15, <3>1
      <3>2. CASE b # a
        <4>1. path[b] \in Sock /\ bound[path[b]] = b /\ path'[b] = path[b]
          BY <1>15, <2>2, <3>2 DEF SocketsInv, Kernel
        <4>2. b # None
          BY SocketsAssumption DEF Address
        <4> QED
          BY <1>1, <1>13, <4>1, <4>2
      <3> QED
        BY <3>1, <3>2
    <2> QED
      BY <2>1, <2>2 DEF Kernel
  <1>17. NoPathLeft'
    BY <1>1, <1>7, <1>15 DEF SocketsInv, NoPathLeft
  <1>18. \A j \in DOMAIN S : S[j].sock \in open[m] /\ S[j].sock # s
    BY <1>1, <1>6 DEF SocketsInv, Listed, ListsOpen, Listing, S
  <1>19. Listed'
    <2>1. open[m] = {S[j].sock : j \in DOMAIN S}
      BY <1>1 DEF SocketsInv, Listed, ListsOpen, Listing, S
    <2>2. open'[m] = {sockets'[m][j].sock : j \in DOMAIN sockets'[m]}
      <3>1. \A j \in DOMAIN sockets'[m] : j \in DOMAIN S \/ j = Len(S) + 1
        BY <1>2, <1>9
      <3>2. {sockets'[m][j].sock : j \in DOMAIN sockets'[m]}
              = {S[j].sock : j \in DOMAIN S} \cup {s}
        BY <1>9, <1>10, <3>1
      <3> QED
        BY <1>7, <2>1, <3>2
    <2>3. ASSUME NEW j \in DOMAIN sockets'[m], NEW k \in DOMAIN sockets'[m],
                 \/ sockets'[m][j].key = sockets'[m][k].key
                 \/ sockets'[m][j].sock = sockets'[m][k].sock
          PROVE  j = k
      <3>1. /\ j \in DOMAIN S \/ j = Len(S) + 1
            /\ k \in DOMAIN S \/ k = Len(S) + 1
        BY <1>2, <1>9
      <3>2. CASE j \in DOMAIN S /\ k \in DOMAIN S
        BY <1>1, <1>9, <2>3, <3>2 DEF SocketsInv, Listed, ListsOpen, Listing, S
      <3> QED
        BY <1>5, <1>9, <1>10, <1>18, <2>3, <3>1, <3>2
    <2>4. ASSUME NEW j \in DOMAIN sockets'[m]
          PROVE  /\ \/ sockets'[m][j].key = bound'[sockets'[m][j].sock]
                    \/ sockets'[m][j].key = KeyRead(bound'[sockets'[m][j].sock])
                 /\ sockets'[m][j].key \in Unix =>
                      path'[sockets'[m][j].key] = sockets'[m][j].sock
      <3>1. CASE j \in DOMAIN S
        <4>1. S[j].sock \in Sock
          BY <1>2, <3>1
        <4> QED
          <5>1. ListsOpen(m)
            BY <1>1 DEF SocketsInv, Listed, Listing
          <5>2. bound'[S[j].sock] = bound[S[j].sock]
            BY <1>13, <1>18, <3>1, <4>1
          <5>3. S[j].key \in Unix => path'[S[j].key] = S[j].sock
            BY <1>5, <1>15, <3>1, <5>1 DEF ListsOpen, S
          <5>4. \/ S[j].key = bound[S[j].sock] \/ S[j].key = KeyRead(bound[S[j].sock])
            BY <3>1, <5>1 DEF ListsOpen, S
          <5> QED
            BY <1>9, <3>1, <5>2, <5>3, <5>4
      <3>2. CASE j = Len(S) + 1
        BY <1>9, <1>10, <1>13, <1>15, <3>2
      <3> QED
        BY <1>2, <1>9, <3>1, <3>2
    <2>5. ListsOpen(m)'
      BY <2>2, <2>3, <2>4 DEF ListsOpen
    <2> QED
      BY <1>1, <1>3, <2>5 DEF Listed, Listing
  <1>20. Counted'
    <2>1. \A j \in DOMAIN S : S[j].refcount = Cardinality(Users(n, pools[m], S[j].key))
      BY <1>1 DEF SocketsInv, Counted, Counts, Listing, S
    <2>2. Cardinality(Users(n, pools[m], a)) = 0
      <3>1. \A k \in 1 .. n : pools[m][k] # a
        <4>1. Serves(m)
          BY <1>1 DEF SocketsInv, Serving, Listing
        <4> QED
          BY <1>2, <1>5, <4>1 DEF Serves, S
      <3> QED
        <4>1. n \in Nat
          BY <1>2
        <4> HIDE DEF n
        <4> QED
          BY <3>1, <4>1, UsersLemma
    <2>3. ASSUME NEW j \in DOMAIN sockets'[m]
          PROVE  sockets'[m][j].refcount
                   = Cardinality(Users(n + 1, pools[m], sockets'[m][j].key))
      <3>1. CASE j \in DOMAIN S
        <4>1. Cardinality(Users(n, pools[m], S[j].key)) \in Nat
          BY <1>2, <2>1, <3>1
        <4> QED
          <5>1. Cardinality(Users(n + 1, pools[m], S[j].key)) =
                  Cardinality(Users(n, pools[m], S[j].key))
                    + (IF pools[m][n + 1] = S[j].key THEN 1 ELSE 0)
            BY <1>2, UsersLemma
          <5> QED
            BY <1>4, <1>5, <1>9, <2>1, <3>1, <4>1, <5>1
      <3>2. CASE j = Len(S) + 1
        <4>1. Cardinality(Users(n + 1, pools[m], a)) = Cardinality(Users(n, pools[m], a)) + 1
          <5>1. n \in Nat /\ pools[m][n + 1] = a
            BY <1>2, <1>4
          <5> HIDE DEF n
          <5>2. Cardinality(Users(n + 1, pools[m], a)) =
                  Cardinality(Users(n, pools[m], a)) + (IF pools[m][n + 1] = a THEN 1 ELSE 0)
            BY <5>1, UsersLemma
          <5> QED
            BY <5>1, <5>2
        <4> QED
          BY <1>9, <1>10, <2>2, <3>2, <4>1
      <3> QED
        BY <1>2, <1>9, <3>1, <3>2
    <2>4. Counts(m)'
      BY <1>1, <1>9, <2>3 DEF Counts
    <2> QED
      BY <1>1, <1>3, <2>4 DEF Counted, Listing
  <1>21. Serving'
    <2>1. n + 1 <= Len(pools[m])
      BY <1>1, <1>2, <1>3
    <2>2. ASSUME NEW k \in DOMAIN listening'[m]
          PROVE  \E j \in DOMAIN sockets'[m] : /\ sockets'[m][j].key = pools[m][k]
                                               /\ sockets'[m][j].sock = listening'[m][k]
      <3>1. CASE k \in 1 .. n
        <4>1. PICK j \in DOMAIN S : S[j].key = pools[m][k] /\ S[j].sock = listening[m][k]
          BY <1>1, <1>2, <3>1 DEF SocketsInv, Serving, Serves, Listing, S
        <4> QED
          BY <1>9, <3>1, <4>1
      <3>2. CASE k = n + 1
        BY <1>2, <1>4, <1>9, <1>10, <3>2
      <3> QED
        BY <1>2, <1>9, <3>1, <3>2
    <2>3. ASSUME NEW k \in DOMAIN pools[m], handed[m][pools[m][k]] # None,
                 pools[m][k] \notin Comma
          PROVE  \E j \in DOMAIN sockets'[m] : /\ sockets'[m][j].key = pools[m][k]
                                               /\ sockets'[m][j].sock = handed[m][pools[m][k]]
      <3>1. PICK j \in DOMAIN S : S[j].key = pools[m][k] /\ S[j].sock = handed[m][pools[m][k]]
        BY <1>1, <2>3 DEF SocketsInv, Serving, Serves, Listing, S
      <3> QED
        BY <1>2, <1>9, <3>1
    <2>4. Serves(m)'
      <3>1. pc'[m] = "create" /\ pools'[m] = pools[m] /\ handed'[m] = handed[m]
        BY <1>1
      <3> QED
        BY <1>9, <2>1, <2>2, <2>3, <3>1 DEF Serves
    <2> QED
      BY <1>1, <1>3, <2>4 DEF Serving, Listing
  <1> QED
    BY <1>11, <1>12, <1>16, <1>17, <1>19, <1>20, <1>21 DEF SocketsInv

\* An inherited socket of no pool goes, with its path and its entry; another
\* entry takes its place in the list.
LEMMA CloseStep ==
  ASSUME SocketsInv, NEW m \in Master, close_unused(m)
  PROVE  SocketsInv'
  <1> DEFINE i == NextUnused(m)
             S == sockets[m]
             T == fpm_array_item_remove(S, i)
             gone == S[i].sock
             p == Unlink({S[i].key})
  <1>1. /\ pc[m] = "create" /\ ~Creating(m) /\ i # 0
        /\ sockets' = [sockets EXCEPT ![m] = T]
        /\ orphaned' = orphaned
        /\ Close(m, open[m] \ {gone}, p)
        /\ UNCHANGED <<file, pid_file, pc, pools, env, listening, handed, abandoned>>
    BY DEF close_unused, AllCreated
  <1>2. /\ S \in Seq(Entries) /\ DOMAIN S = 1 .. Len(S) /\ Len(S) \in Nat
        /\ \A j \in DOMAIN S : /\ S[j] \in Entries /\ S[j].key \in Key
                               /\ S[j].sock \in Sock /\ S[j].refcount \in Nat
    <2>1. S \in Seq(Entries)
      BY DEF SocketsInv, Typed
    <2> HIDE DEF S
    <2> QED
      BY <2>1, EntryTypes
  <1>3. i \in DOMAIN S /\ S[i].refcount = 0
    BY <1>1, <1>2, NextUnusedFound
  <1>4. /\ \A o \in Master \ {m} : pc[o] = "absent" /\ open[o] = {}
        /\ pools[m] \in Seq(Address)
        /\ \A a \in Unix \ Comma : path[a] # None => a \in abandoned \/ path[a] \in open[m]
    BY <1>1, Alone
  <1>5. ListsOpen(m) /\ Counts(m) /\ Serves(m)
    BY <1>1 DEF SocketsInv, Listed, Counted, Serving, Listing
  <1>6. /\ p \in [Unix -> Sock \cup {None, Stale}]
        /\ \A a \in Unix : p[a] = IF a = S[i].key THEN None ELSE path[a]
    BY DEF SocketsInv, Typed, Unlink
  <1>7. \A a \in Unix : p[a] \in Sock => bound[p[a]] = a
    BY <1>6, SocketsAssumption DEF SocketsInv, Kernel
  <1> HIDE DEF S, p, i
  <1>8. /\ T \in Seq(Entries) /\ DOMAIN T = 1 .. Len(T)
        /\ \A j \in DOMAIN T : \E k \in DOMAIN S : k # i /\ T[j] = S[k]
        /\ \A k \in DOMAIN S : k # i => \E j \in DOMAIN T : T[j] = S[k]
        /\ \A j \in DOMAIN T : T[j] = S[IF j = i THEN Len(S) ELSE j]
        /\ Len(T) = Len(S) - 1
    <2>1. S \in Seq(Entries) /\ i \in 1 .. Len(S)
      BY <1>2, <1>3
    <2>2. /\ T \in Seq(Entries) /\ Len(T) = Len(S) - 1
          /\ \A j \in 1 .. Len(T) : \E k \in 1 .. Len(S) : k # i /\ T[j] = S[k]
          /\ \A k \in 1 .. Len(S) : k # i => \E j \in 1 .. Len(T) : T[j] = S[k]
          /\ \A j \in 1 .. Len(T) : T[j] = S[IF j = i THEN Len(S) ELSE j]
      BY <2>1, RemoveLemma
    <2> HIDE DEF T
    <2> QED
      BY <1>2, <2>2, LenProperties
  <1> HIDE DEF T
  <1>9. sockets'[m] = T /\ \A o \in Master \ {m} : sockets'[o] = sockets[o]
    BY <1>1 DEF SocketsInv, Typed
  <1>10. /\ Kernel'
         /\ open' \in [Master -> SUBSET Sock]
         /\ open'[m] = open[m] \ {gone} /\ \A n \in Master \ {m} : open'[n] = open[n]
         /\ path' \in [Unix -> Sock \cup {None, Stale}]
         /\ bound' \in [Sock -> Address \cup {None}]
         /\ \A n \in Master : \A s \in open'[n] : bound'[s] = bound[s]
         /\ \A a \in Unix : path'[a] # None => p[a] # None
         /\ \A a \in Unix, n \in Master : p[a] \in open'[n] => path'[a] = p[a]
    <2>1. /\ open' = [open EXCEPT ![m] = open[m] \ {gone}]
          /\ orphaned' \subseteq Sock
      BY <1>1 DEF SocketsInv, Typed, Close
    <2>2. /\ open' \in [Master -> SUBSET Sock]
          /\ open'[m] = open[m] \ {gone} /\ \A n \in Master \ {m} : open'[n] = open[n]
      BY <2>1 DEF SocketsInv, Typed
    <2>3. \A s \in Sock :
            s \in Held' <=> s \in orphaned' \cup (open[m] \ {gone})
                                   \cup UNION {open[n] : n \in Master \ {m}}
      BY <2>2 DEF Held
    <2>4. /\ bound' \in [Sock -> Address \cup {None}]
          /\ \A s \in Sock : bound'[s] = IF s \in Held' THEN bound[s] ELSE None
      BY <1>1, <2>3 DEF Close, SocketsInv, Typed
    <2>5. /\ path' \in [Unix -> Sock \cup {None, Stale}]
          /\ \A a \in Unix :
               path'[a] = IF p[a] \in Sock /\ p[a] \notin Held' THEN Stale ELSE p[a]
      BY <1>1, <1>6, <2>3 DEF Close
    <2>6. Held' \subseteq Held /\ Typed /\ Kernel
      BY <1>1, <2>2 DEF Held, SocketsInv
    <2> HIDE DEF gone
    <2> QED
      BY <1>7, <2>1, <2>2, <2>4, <2>5, <2>6, CloseLemma
  <1>11. Typed'
    <2>1. sockets' \in [Master -> Seq(Entries)]
      BY <1>1, <1>8 DEF SocketsInv, Typed
    <2> QED
      BY <1>1, <1>10, <2>1 DEF SocketsInv, Typed
  <1>12. OneMaster' /\ Blank' /\ Environment'
    BY <1>1, <1>4, <1>9, <1>10 DEF SocketsInv, OneMaster, Blank, Environment
  <1>13. \A j, k \in DOMAIN S : S[j].key = S[k].key \/ S[j].sock = S[k].sock => j = k
    BY <1>5 DEF ListsOpen, S
  <1>14. open[m] = {S[j].sock : j \in DOMAIN S}
    BY <1>5 DEF ListsOpen, S
  <1>15. \A k \in DOMAIN S : k # i => S[k].sock \in open'[m] /\ S[k].key # S[i].key
    BY <1>3, <1>10, <1>13, <1>14
  <1>16. Listed'
    <2>1. open'[m] = {T[j].sock : j \in DOMAIN T}
      <3>1. ASSUME NEW s \in open'[m] PROVE \E j \in DOMAIN T : s = T[j].sock
        <4>1. PICK k \in DOMAIN S : s = S[k].sock /\ k # i
          BY <1>10, <1>14
        <4> QED
          BY <1>8, <4>1
      <3>2. ASSUME NEW j \in DOMAIN T PROVE T[j].sock \in open'[m]
        BY <1>8, <1>15
      <3> QED
        BY <3>1, <3>2
    <2>2. \A j, k \in DOMAIN T : T[j].key = T[k].key \/ T[j].sock = T[k].sock => j = k
      <3> SUFFICES ASSUME NEW j \in DOMAIN T, NEW k \in DOMAIN T,
                          T[j].key = T[k].key \/ T[j].sock = T[k].sock
                   PROVE  j = k
        OBVIOUS
      <3> DEFINE at(x) == IF x = i THEN Len(S) ELSE x
      <3>1. \A x \in DOMAIN T : at(x) \in DOMAIN S
        <4>1. Len(T) = Len(S) - 1 /\ Len(S) \in Nat /\ DOMAIN S = 1 .. Len(S)
              /\ DOMAIN T = 1 .. Len(T)
          BY <1>2, <1>8
        <4> QED
          BY <4>1
      <3>2. T[j] = S[at(j)] /\ T[k] = S[at(k)]
        BY <1>8
      <3>3. at(j) = at(k)
        BY <1>13, <3>1, <3>2
      <3> QED
        BY <1>2, <1>8, <3>3
    <2>3. ASSUME NEW j \in DOMAIN T
          PROVE  /\ \/ T[j].key = bound'[T[j].sock]
                    \/ T[j].key = KeyRead(bound'[T[j].sock])
                 /\ T[j].key \in Unix => path'[T[j].key] = T[j].sock
      <3>1. PICK k \in DOMAIN S : k # i /\ T[j] = S[k]
        BY <1>8
      <3>2. /\ S[k].key = bound[S[k].sock] \/ S[k].key = KeyRead(bound[S[k].sock])
            /\ S[k].key \in Unix => path[S[k].key] = S[k].sock
        BY <1>5 DEF ListsOpen, S
      <3>3. bound'[S[k].sock] = bound[S[k].sock]
        BY <1>10, <1>15, <3>1
      <3>4. S[k].key \in Unix => path'[S[k].key] = S[k].sock
        BY <1>6, <1>10, <1>15, <3>1, <3>2
      <3> QED
        BY <3>1, <3>2, <3>3, <3>4
    <2>4. ListsOpen(m)'
      BY <1>9, <2>1, <2>2, <2>3 DEF ListsOpen
    <2> QED
      BY <1>1, <1>4, <2>4 DEF Listed, Listing
  <1>17. Counted'
    <2>1. \A k \in DOMAIN S :
            S[k].refcount = Cardinality(Users(Len(listening[m]), pools[m], S[k].key))
      BY <1>5 DEF Counts, S
    <2>2. \A j \in DOMAIN T :
            T[j].refcount = Cardinality(Users(Len(listening[m]), pools[m], T[j].key))
      BY <1>8, <2>1
    <2>3. Counts(m)'
      BY <1>1, <1>9, <2>2 DEF Counts
    <2> QED
      BY <1>1, <1>4, <2>3 DEF Counted, Listing
  <1>18. Serving'
    <2>1. /\ Len(listening[m]) \in Nat /\ Len(pools[m]) \in Nat
          /\ DOMAIN listening[m] = 1 .. Len(listening[m])
          /\ DOMAIN pools[m] = 1 .. Len(pools[m])
      <3>1. listening[m] \in Seq(Sock)
        BY DEF SocketsInv, Typed
      <3> QED
        BY <1>4, <3>1, LenProperties
    <2>2. Len(listening[m]) = Len(pools[m])
      BY <1>1, <1>5, <2>1 DEF Serves, Creating
    <2>3. \A k \in DOMAIN pools[m] : pools[m][k] # S[i].key
      <3>1. Cardinality(Users(Len(listening[m]), pools[m], S[i].key)) = 0
        BY <1>3, <1>5 DEF Counts, S
      <3> QED
        <4> DEFINE n == Len(listening[m])
        <4>1. n \in Nat /\ DOMAIN pools[m] = 1 .. n
          BY <2>1, <2>2
        <4> HIDE DEF n
        <4>2. Cardinality(Users(n, pools[m], S[i].key)) = 0
                <=> \A k \in 1 .. n : pools[m][k] # S[i].key
          BY <4>1, UsersLemma
        <4> QED
          BY <3>1, <4>1, <4>2 DEF n
    <2>4. ASSUME NEW k \in DOMAIN listening[m]
          PROVE  \E j \in DOMAIN T : T[j].key = pools[m][k] /\ T[j].sock = listening[m][k]
      <3>1. PICK j \in DOMAIN S : S[j].key = pools[m][k] /\ S[j].sock = listening[m][k]
        BY <1>5 DEF Serves, S
      <3>2. j # i
        BY <2>1, <2>2, <2>3, <3>1
      <3> QED
        BY <1>8, <3>1, <3>2
    <2>5. ASSUME NEW k \in DOMAIN pools[m], handed[m][pools[m][k]] # None,
                 pools[m][k] \notin Comma
          PROVE  \E j \in DOMAIN T :
                   T[j].key = pools[m][k] /\ T[j].sock = handed[m][pools[m][k]]
      <3>1. PICK j \in DOMAIN S : S[j].key = pools[m][k] /\ S[j].sock = handed[m][pools[m][k]]
        BY <1>5, <2>5 DEF Serves, S
      <3>2. j # i
        BY <2>3, <3>1
      <3> QED
        BY <1>8, <3>1, <3>2
    <2>6. Serves(m)'
      <3>1. /\ pc'[m] = "create" /\ pools'[m] = pools[m] /\ handed'[m] = handed[m]
            /\ listening'[m] = listening[m] /\ Len(listening[m]) <= Len(pools[m])
        BY <1>1, <1>5 DEF Serves
      <3> QED
        BY <1>9, <2>4, <2>5, <3>1 DEF Serves
    <2> QED
      BY <1>1, <1>4, <2>6 DEF Serving, Listing
  <1>19. NoPathLeft'
    <2> SUFFICES ASSUME NEW a \in Unix \ Comma, path'[a] # None
                 PROVE  a \in abandoned' \/ \E n \in Master : path'[a] \in open'[n]
      BY DEF NoPathLeft
    <2>1. p[a] # None /\ a # S[i].key /\ p[a] = path[a]
      BY <1>6, <1>10
    <2>2. CASE a \in abandoned
      BY <1>1, <2>2
    <2>3. CASE path[a] \in open[m]
      <3>1. path[a] \in Sock /\ bound[path[a]] = a
        BY <2>3 DEF SocketsInv, Typed, Kernel
      <3>2. path[a] # gone
        <4>1. S[i].key = bound[S[i].sock] \/ S[i].key = KeyRead(bound[S[i].sock])
          BY <1>3, <1>5 DEF ListsOpen, S
        <4> QED
          BY <2>1, <3>1, <4>1, KeyReadLemma DEF Address
      <3>3. path[a] \in open'[m]
        BY <1>10, <2>3, <3>2
      <3> QED
        BY <1>10, <2>1, <3>3
    <2> QED
      BY <1>4, <2>1, <2>2, <2>3
  <1> QED
    BY <1>10, <1>11, <1>12, <1>16, <1>17, <1>18, <1>19 DEF SocketsInv

\* The master goes on with its list as it is, every entry in use.
LEMMA GoesOn ==
  ASSUME SocketsInv, NEW m \in Master, Listing(m),
         NEW next \in {"write_pid", "run", "cleanup"},
         pc' = [pc EXCEPT ![m] = next], pid_file' \in Master \cup {None},
         Len(listening[m]) = Len(pools[m]),
         \A i \in DOMAIN sockets[m] : sockets[m][i].refcount # 0,
         UNCHANGED <<file, pools, env, sockets, listening, open, kernelVars,
                     handed, abandoned>>
  PROVE  SocketsInv'
  <1>1. \A n \in Master \ {m} : pc[n] = "absent" /\ pc'[n] = "absent"
    BY Alone DEF Listing, SocketsInv, Typed
  <1>2. pc'[m] = next
    BY DEF SocketsInv, Typed
  <1>3. Typed'
    BY DEF SocketsInv, Typed, kernelVars
  <1>4. OneMaster' /\ Environment'
    BY <1>1, <1>2 DEF OneMaster, Environment
  <1>5. Blank'
    BY <1>1, <1>2 DEF SocketsInv, Blank, Listing
  <1>6. Kernel' /\ NoPathLeft'
    BY Undisturbed DEF SocketsInv
  <1>7. ListsOpen(m) /\ Counts(m) /\ Serves(m)
    BY DEF SocketsInv, Listed, Counted, Serving
  <1>8. ListsOpen(m)' /\ Counts(m)' /\ Serves(m)'
    BY <1>7 DEF ListsOpen, Counts, Serves, kernelVars
  <1>9. Listed' /\ Counted' /\ Serving'
    BY <1>1, <1>8 DEF Listed, Counted, Serving, Listing
  <1> QED
    BY <1>3, <1>4, <1>5, <1>6, <1>9 DEF SocketsInv

\* What a master that has started has: every entry in use, under the address
\* its socket is bound to.
LEMMA Started ==
  ASSUME SocketsInv, NEW m \in Master, pc[m] \in {"write_pid", "run", "cleanup"}
  PROVE  /\ ListsOpen(m) /\ Counts(m) /\ Serves(m)
         /\ Len(listening[m]) = Len(pools[m])
         /\ sockets[m] \in Seq(Entries)
         /\ \A i \in DOMAIN sockets[m] :
              /\ sockets[m][i].refcount # 0
              /\ sockets[m][i].sock \in Sock
              /\ sockets[m][i].key \in Address
              /\ bound[sockets[m][i].sock] = sockets[m][i].key
  <1>1. ListsOpen(m) /\ Counts(m) /\ Serves(m)
    BY DEF SocketsInv, Listed, Counted, Serving, Listing
  <1>2. /\ Len(listening[m]) = Len(pools[m])
        /\ \A i \in DOMAIN sockets[m] : sockets[m][i].refcount # 0
    BY <1>1 DEF Serves, Counts
  <1>3. pools[m] \in Seq(Address) /\ sockets[m] \in Seq(Entries)
    BY Alone DEF SocketsInv, Typed
  <1>4. \A i \in DOMAIN sockets[m] : sockets[m][i].key \in Address
    <2> SUFFICES ASSUME NEW i \in DOMAIN sockets[m]
                 PROVE  sockets[m][i].key \in Address
      OBVIOUS
    <2> DEFINE n == Len(pools[m])
               key == sockets[m][i].key
    <2>1. n \in Nat
      BY <1>3, LenProperties
    <2>2. Cardinality(Users(n, pools[m], key)) # 0
      BY <1>1, <1>2 DEF Counts
    <2> HIDE DEF n
    <2>3. PICK k \in 1 .. n : pools[m][k] = key
      BY <2>1, <2>2, UsersLemma
    <2> QED
      BY <1>3, <2>3, ElementOfSeq DEF n
  <1>5. \A i \in DOMAIN sockets[m] : sockets[m][i].sock \in Sock
    BY <1>3, EntryTypes
  <1>6. \A i \in DOMAIN sockets[m] : bound[sockets[m][i].sock] = sockets[m][i].key
    <2> SUFFICES ASSUME NEW i \in DOMAIN sockets[m]
                 PROVE  bound[sockets[m][i].sock] = sockets[m][i].key
      OBVIOUS
    <2>1. sockets[m][i].sock \in open[m]
      BY <1>1 DEF ListsOpen
    <2>2. bound[sockets[m][i].sock] # None
      BY <1>5, <2>1 DEF SocketsInv, Kernel
    <2>3. bound[sockets[m][i].sock] \in Address
      BY <1>5, <2>2 DEF SocketsInv, Typed
    <2>4. \/ sockets[m][i].key = bound[sockets[m][i].sock]
          \/ sockets[m][i].key = KeyRead(bound[sockets[m][i].sock])
      BY <1>1 DEF ListsOpen
    <2> QED
      BY <1>4, <2>3, <2>4, KeyReadLemma
  <1> QED
    BY <1>1, <1>2, <1>3, <1>4, <1>5, <1>6

LEMMA CreatedStep ==
  ASSUME SocketsInv, NEW m \in Master, sockets_created(m)
  PROVE  SocketsInv'
  <1>1. pc[m] = "create" /\ ~Creating(m) /\ NextUnused(m) = 0
        /\ pc' = [pc EXCEPT ![m] = "write_pid"]
        /\ UNCHANGED <<file, pid_file, pools, env, sockets, listening, open,
                       kernelVars, handed, abandoned>>
    BY DEF sockets_created, AllCreated
  <1>2. sockets[m] \in Seq(Entries) /\ listening[m] \in Seq(Sock) /\ pools[m] \in Seq(Address)
    BY <1>1, Alone DEF SocketsInv, Typed
  <1>3. \A i \in DOMAIN sockets[m] : sockets[m][i].refcount # 0
    BY <1>1, <1>2, NextUnusedFound, LenProperties
  <1>4. Len(listening[m]) <= Len(pools[m])
    BY <1>1 DEF SocketsInv, Serving, Serves, Listing
  <1>5. Len(listening[m]) = Len(pools[m])
    BY <1>1, <1>2, <1>4, LenProperties DEF Creating
  <1>6. Listing(m) /\ pid_file' \in Master \cup {None}
    BY <1>1 DEF Listing, SocketsInv, Typed
  <1> QED
    BY <1>1, <1>3, <1>5, <1>6, GoesOn

LEMMA PidFileStep ==
  ASSUME SocketsInv, NEW m \in Master, fpm_conf_write_pid(m) \/ fpm_conf_unlink_pid(m)
  PROVE  SocketsInv'
  <1>1. PICK next \in {"run", "cleanup"} :
          /\ pc[m] \in {"write_pid", "run"}
          /\ pc' = [pc EXCEPT ![m] = next]
          /\ pid_file' \in Master \cup {None}
          /\ UNCHANGED <<file, pools, env, sockets, listening, open, kernelVars,
                         handed, abandoned>>
    BY DEF fpm_conf_write_pid, fpm_conf_unlink_pid
  <1>2. Listing(m)
    BY <1>1 DEF Listing
  <1>3. /\ Len(listening[m]) = Len(pools[m])
        /\ \A i \in DOMAIN sockets[m] : sockets[m][i].refcount # 0
    BY <1>1, Started
  <1> QED
    BY <1>1, <1>2, <1>3, GoesOn

-----------------------------------------------------------------------------
(* The steps that end a master's image, and the others.                    *)

\* Every socket goes into the environment, under its own address.
LEMMA ExecStep ==
  ASSUME SocketsInv, NEW m \in Master, fpm_pctl_exec(m)
  PROVE  SocketsInv'
  <1> DEFINE S == sockets[m]
  <1>1. /\ pc[m] = "run"
        /\ env' = [env EXCEPT ![m] = Inheritance(m)]
        /\ sockets' = [sockets EXCEPT ![m] = <<>>]
        /\ listening' = [listening EXCEPT ![m] = <<>>]
        /\ pools' = [pools EXCEPT ![m] = file]
        /\ pc' = [pc EXCEPT ![m] = "import"]
        /\ handed' = [handed EXCEPT ![m] = HandedBy(m)]
        /\ UNCHANGED <<file, pid_file, open, kernelVars, abandoned>>
    BY DEF fpm_pctl_exec
  <1>2. \A o \in Master \ {m} : pc[o] = "absent"
    BY <1>1, Alone
  <1>3. /\ ListsOpen(m) /\ S \in Seq(Entries)
        /\ \A i \in DOMAIN S : /\ S[i].sock \in Sock /\ S[i].key \in Address
                               /\ bound[S[i].sock] = S[i].key
    BY <1>1, Started
  <1>4. /\ env'[m] = Inheritance(m) /\ handed'[m] = HandedBy(m) /\ pc'[m] = "import"
        /\ sockets'[m] = <<>> /\ listening'[m] = <<>> /\ pools'[m] = file
        /\ \A o \in Master \ {m} :
             /\ env'[o] = env[o] /\ handed'[o] = handed[o] /\ pc'[o] = "absent"
             /\ sockets'[o] = sockets[o] /\ listening'[o] = listening[o]
    BY <1>1, <1>2 DEF SocketsInv, Typed
  <1>5. /\ DOMAIN Inheritance(m) = DOMAIN S
        /\ \A i \in DOMAIN S : /\ Inheritance(m)[i] = <<S[i].key, S[i].sock>>
                               /\ Inheritance(m)[i][1] = S[i].key
                               /\ Inheritance(m)[i][2] = S[i].sock
    BY DEF Inheritance
  <1>6. Inheritance(m) \in Seq(Address \X Sock)
    <2> DEFINE n == Len(S)
               Pairs == Address \X Sock
    <2>1. n \in Nat /\ DOMAIN S = 1 .. n
      BY <1>3, LenProperties
    <2>2. Inheritance(m) \in [1 .. n -> Pairs]
      BY <1>3, <2>1 DEF Inheritance
    <2> HIDE DEF n, Pairs
    <2>3. Inheritance(m) \in Seq(Pairs)
      BY <2>1, <2>2, IndexFunction
    <2> QED
      BY <2>3 DEF Pairs
  <1>7. /\ \A e \in ToSet(S) : \E i \in DOMAIN S : e = S[i]
        /\ \A i \in DOMAIN S : S[i] \in ToSet(S)
    BY DEF ToSet
  <1>8. \A a \in Address : HandedBy(m)[a] # None =>
          \E i \in DOMAIN S : S[i].key = a /\ S[i].sock = HandedBy(m)[a]
    <2> SUFFICES ASSUME NEW a \in Address, HandedBy(m)[a] # None
                 PROVE  \E i \in DOMAIN S : S[i].key = a /\ S[i].sock = HandedBy(m)[a]
      OBVIOUS
    <2> DEFINE e == CHOOSE x \in ToSet(S) : x.key = a
    <2>1. \E x \in ToSet(S) : x.key = a
      BY DEF HandedBy
    <2>2. HandedBy(m)[a] = e.sock
      BY <2>1 DEF HandedBy
    <2>3. e \in ToSet(S) /\ e.key = a
      BY <2>1
    <2> QED
      BY <1>7, <2>2, <2>3
  <1>9. HandedBy(m) \in [Address -> Sock \cup {None}]
    <2>1. \A a \in Address : HandedBy(m)[a] \in Sock \cup {None}
      BY <1>3, <1>8
    <2>2. HandedBy(m) = [a \in Address |-> HandedBy(m)[a]]
      BY DEF HandedBy
    <2> QED
      BY <2>1, <2>2
  <1>10. Typed'
    <2>1. env' \in [Master -> Seq(Address \X Sock)]
      BY <1>1, <1>6 DEF SocketsInv, Typed
    <2>2. handed' \in [Master -> [Address -> Sock \cup {None}]]
      BY <1>1, <1>9 DEF SocketsInv, Typed
    <2>3. /\ sockets' \in [Master -> Seq(Entries)]
          /\ listening' \in [Master -> Seq(Sock)]
      BY <1>1 DEF SocketsInv, Typed
    <2> QED
      BY <1>1, <2>1, <2>2, <2>3 DEF SocketsInv, Typed, kernelVars
  <1>11. OneMaster'
    BY <1>4 DEF OneMaster
  <1>12. Blank'
    <2>1. file \in Config
      BY DEF SocketsInv, Typed
    <2> QED
      BY <1>1, <1>2, <1>4, <2>1 DEF SocketsInv, Blank
  <1>13. Kernel' /\ NoPathLeft'
    BY <1>1, Undisturbed DEF SocketsInv
  <1>14. Environment'
    <2>1. open'[m] = open[m] /\ bound' = bound /\ path' = path
      BY <1>1 DEF kernelVars
    <2>2. open[m] = {S[i].sock : i \in DOMAIN S}
      BY <1>3 DEF ListsOpen
    <2>3. open'[m] = {env'[m][i][2] : i \in DOMAIN env'[m]}
      BY <1>4, <1>5, <2>1, <2>2
    <2>4. \A i, j \in DOMAIN S : S[i].key = S[j].key \/ S[i].sock = S[j].sock => i = j
      BY <1>3 DEF ListsOpen
    <2>5. \A i \in DOMAIN S : S[i].key \in Unix => path[S[i].key] = S[i].sock
      BY <1>3 DEF ListsOpen
    <2>6. \A i, j \in DOMAIN env'[m] :
            env'[m][i][1] = env'[m][j][1] \/ env'[m][i][2] = env'[m][j][2] => i = j
      BY <1>4, <1>5, <2>4
    <2>7. \A i \in DOMAIN env'[m] :
            /\ bound'[env'[m][i][2]] = env'[m][i][1]
            /\ env'[m][i][1] \in Unix => path'[env'[m][i][1]] = env'[m][i][2]
      BY <1>3, <1>4, <1>5, <2>1, <2>5
    <2>8. \A a \in Address : handed'[m][a] # None =>
            \E i \in DOMAIN env'[m] : env'[m][i] = <<a, handed'[m][a]>>
      BY <1>4, <1>5, <1>8
    <2> QED
      BY <1>4, <2>3, <2>6, <2>7, <2>8 DEF Environment
  <1>15. Listed' /\ Counted' /\ Serving'
    BY <1>4 DEF Listed, Counted, Serving, Listing
  <1> QED
    BY <1>10, <1>11, <1>12, <1>13, <1>14, <1>15 DEF SocketsInv

\* Whatever ends a master, with the paths as they are in p when its sockets are
\* closed: no master is left, and no path that is not accounted for.
LEMMA ExitLemma ==
  ASSUME SocketsInv, NEW m \in Master, pc[m] # "absent",
         NEW p \in [Unix -> Sock \cup {None, Stale}],
         \A a \in Unix : p[a] \in Sock => bound[p[a]] = a,
         \A a \in Unix \ Comma : p[a] # None => a \in abandoned',
         orphaned' \subseteq orphaned \cup open[m], abandoned' \subseteq Unix,
         Exit(m, p), UNCHANGED <<file, pid_file>>
  PROVE  SocketsInv'
  <1>1. /\ pc' = [pc EXCEPT ![m] = "absent"]
        /\ pools' = [pools EXCEPT ![m] = <<>>]
        /\ env' = [env EXCEPT ![m] = <<>>]
        /\ sockets' = [sockets EXCEPT ![m] = <<>>]
        /\ listening' = [listening EXCEPT ![m] = <<>>]
        /\ handed' = [handed EXCEPT ![m] = [a \in Address |-> None]]
    BY DEF Exit
  <1>2. orphaned' \subseteq Sock /\ Typed /\ Kernel
    BY DEF SocketsInv, Typed
  <1>3. /\ open' \in [Master -> SUBSET Sock]
        /\ open'[m] = {} /\ \A n \in Master \ {m} : open'[n] = open[n]
    BY DEF Exit, Close, SocketsInv, Typed
  <1>4. /\ Kernel'
        /\ path' \in [Unix -> Sock \cup {None, Stale}]
        /\ bound' \in [Sock -> Address \cup {None}]
        /\ \A a \in Unix : path'[a] # None => p[a] # None
    <2>1. \A s \in Sock :
            s \in Held' <=> s \in orphaned' \cup UNION {open[n] : n \in Master \ {m}}
      BY <1>3 DEF Held
    <2>2. /\ bound' \in [Sock -> Address \cup {None}]
          /\ \A s \in Sock : bound'[s] = IF s \in Held' THEN bound[s] ELSE None
      BY <2>1 DEF Exit, Close, SocketsInv, Typed
    <2>3. /\ path' \in [Unix -> Sock \cup {None, Stale}]
          /\ \A a \in Unix :
               path'[a] = IF p[a] \in Sock /\ p[a] \notin Held' THEN Stale ELSE p[a]
      BY <2>1 DEF Exit, Close
    <2>4. Held' \subseteq Held
      BY <1>3 DEF Held
    <2> QED
      BY <1>2, <1>3, <2>2, <2>3, <2>4, CloseLemma
  <1>5. Typed'
    BY <1>1, <1>2, <1>3, <1>4 DEF SocketsInv, Typed
  <1>6. \A n \in Master : pc'[n] = "absent"
    BY <1>1, Alone DEF SocketsInv, Typed
  <1>7. OneMaster' /\ Environment' /\ Listed' /\ Counted' /\ Serving'
    BY <1>6 DEF OneMaster, Environment, Listed, Counted, Serving, Listing
  <1>8. Blank'
    <2>1. ASSUME NEW n \in Master
          PROVE  /\ env'[n] = <<>> /\ open'[n] = {}
                 /\ handed'[n] = [a \in Address |-> None]
                 /\ sockets'[n] = <<>> /\ listening'[n] = <<>>
      <3>1. CASE n = m
        BY <1>1, <1>3, <3>1 DEF SocketsInv, Typed
      <3>2. CASE n # m
        <4>1. pc[n] = "absent"
          BY <3>2, Alone
        <4> QED
          BY <1>1, <1>3, <3>2, <4>1 DEF SocketsInv, Typed, Blank
      <3> QED
        BY <3>1, <3>2
    <2> QED
      BY <1>6, <2>1 DEF Blank
  <1>9. NoPathLeft'
    BY <1>4 DEF NoPathLeft
  <1> QED
    BY <1>4, <1>5, <1>7, <1>8, <1>9 DEF SocketsInv

\* A failure leaves the paths as they are.
LEMMA FailLemma ==
  ASSUME SocketsInv, NEW m \in Master, pc[m] # "absent",
         orphaned' \subseteq orphaned \cup open[m],
         Exit(m, path), abandoned' = abandoned \cup PathsOf(m), UNCHANGED <<file, pid_file>>
  PROVE  SocketsInv'
  <1>0. PICK p : p = path
    OBVIOUS
  <1>1. p \in [Unix -> Sock \cup {None, Stale}] /\ \A a \in Unix : p[a] \in Sock => bound[p[a]] = a
    BY <1>0 DEF SocketsInv, Typed, Kernel
  <1>2. abandoned' \subseteq Unix
    BY DEF PathsOf, SocketsInv, Typed
  <1>3. \A a \in Unix \ Comma : p[a] # None => a \in abandoned'
    BY <1>0, Alone DEF PathsOf
  <1>4. Exit(m, p)
    BY <1>0 DEF Exit, Close
  <1> QED
    BY <1>1, <1>2, <1>3, <1>4, ExitLemma

LEMMA InitFailsStep ==
  ASSUME SocketsInv, NEW m \in Master, init_fails(m)
  PROVE  SocketsInv'
  <1>1. pc[m] # "absent" /\ orphaned' = orphaned /\ UNCHANGED <<file, pid_file>>
    BY DEF init_fails, Creating
  <1>2. CASE Exit(m, path) /\ abandoned' = abandoned \cup PathsOf(m)
    BY <1>1, <1>2, FailLemma
  <1>3. ASSUME ToCreate(m) \in Unix, NEW v \in {None, Stale},
               Exit(m, [path EXCEPT ![ToCreate(m)] = v]),
               abandoned' = abandoned \cup PathsOf(m) \cup {ToCreate(m)}
        PROVE  SocketsInv'
    <2>0. PICK p : p = [path EXCEPT ![ToCreate(m)] = v]
      OBVIOUS
    <2>1. /\ p \in [Unix -> Sock \cup {None, Stale}]
          /\ \A a \in Unix : a # ToCreate(m) => p[a] = path[a]
          /\ p[ToCreate(m)] = v
      BY <1>3, <2>0 DEF SocketsInv, Typed
    <2>2. \A a \in Unix : p[a] \in Sock => bound[p[a]] = a
      BY <2>1, SocketsAssumption DEF SocketsInv, Kernel
    <2>3. abandoned' \subseteq Unix
      BY <1>3 DEF PathsOf, SocketsInv, Typed
    <2>4. \A a \in Unix \ Comma : p[a] # None => a \in abandoned'
      BY <1>1, <1>3, <2>1, Alone DEF PathsOf
    <2>5. Exit(m, p)
      BY <1>3, <2>0 DEF Exit, Close
    <2> QED
      BY <1>1, <2>1, <2>2, <2>3, <2>4, <2>5, ExitLemma
  <1> QED
    BY <1>2, <1>3 DEF init_fails

LEMMA ExecFailsStep ==
  ASSUME SocketsInv, NEW m \in Master, exec_fails(m) \/ killed(m)
  PROVE  SocketsInv'
  BY FailLemma DEF exec_fails, killed

\* An orderly end unlinks the path of every socket it has.
LEMMA CleanupStep ==
  ASSUME SocketsInv, NEW m \in Master, fpm_sockets_cleanup(m)
  PROVE  SocketsInv'
  <1> DEFINE keys == {e.key : e \in ToSet(sockets[m])}
  <1>1. /\ pc[m] = "cleanup" /\ orphaned' = orphaned
        /\ Exit(m, Unlink(keys))
        /\ UNCHANGED <<file, pid_file, abandoned>>
    BY DEF fpm_sockets_cleanup
  <1>2. /\ ListsOpen(m)
        /\ \A i \in DOMAIN sockets[m] : bound[sockets[m][i].sock] = sockets[m][i].key
    BY <1>1, Started
  <1>3. \A i \in DOMAIN sockets[m] : sockets[m][i].key \in keys
    BY DEF ToSet
  <1>4. PICK p : p = Unlink(keys)
    OBVIOUS
  <1>5. \A a \in Unix : p[a] = IF a \in keys THEN None ELSE path[a]
    BY <1>4 DEF Unlink
  <1>6. p \in [Unix -> Sock \cup {None, Stale}]
    BY <1>4 DEF Unlink, SocketsInv, Typed
  <1>7. Exit(m, p)
    BY <1>1, <1>4 DEF Exit, Close
  <1> HIDE DEF keys
  <1>8. \A a \in Unix : p[a] \in Sock => bound[p[a]] = a
    BY <1>5, SocketsAssumption DEF SocketsInv, Kernel
  <1>9. ASSUME NEW a \in Unix \ Comma, p[a] # None
        PROVE  a \in abandoned'
    <2>1. a \notin keys /\ path[a] # None
      BY <1>5, <1>9
    <2>2. path[a] \notin open[m]
      <3> SUFFICES ASSUME path[a] \in open[m]
                   PROVE  FALSE
        OBVIOUS
      <3>1. PICK i \in DOMAIN sockets[m] : path[a] = sockets[m][i].sock
        BY <1>2 DEF ListsOpen
      <3>2. path[a] \in Sock
        BY DEF SocketsInv, Typed
      <3>3. bound[path[a]] = a
        BY <3>2 DEF SocketsInv, Kernel
      <3> QED
        BY <1>2, <1>3, <2>1, <3>1, <3>3
    <2> QED
      BY <1>1, <2>1, <2>2, Alone
  <1>10. abandoned' \subseteq Unix
    BY <1>1 DEF SocketsInv, Typed
  <1> QED
    BY <1>1, <1>6, <1>7, <1>8, <1>9, <1>10, ExitLemma

\* The workers of a killed master end: the sockets only they had are gone.
LEMMA WorkersStep ==
  ASSUME SocketsInv, workers_exit
  PROVE  SocketsInv'
  <1> DEFINE held == UNION {open[n] : n \in Master}
  <1>1. /\ orphaned' = {}
        /\ bound' = [s \in Sock |-> IF s \in held THEN bound[s] ELSE None]
        /\ path' = [a \in Unix |-> IF path[a] \in Sock \ held THEN Stale ELSE path[a]]
        /\ UNCHANGED <<file, pid_file, masterVars, handed, abandoned>>
    BY DEF workers_exit
  <1>2. /\ open' = open /\ env' = env /\ sockets' = sockets /\ listening' = listening
        /\ pools' = pools /\ pc' = pc /\ handed' = handed /\ abandoned' = abandoned
        /\ file' = file /\ pid_file' = pid_file
    BY <1>1 DEF masterVars
  <1>3. Typed'
    BY <1>1, <1>2 DEF SocketsInv, Typed
  <1>4. OneMaster' /\ Blank'
    BY <1>2 DEF SocketsInv, OneMaster, Blank
  <1>5. \A s \in Sock : s \in Held' <=> s \in held
    BY <1>1, <1>2 DEF Held
  <1>6. /\ Held' \subseteq Held /\ Typed /\ Kernel /\ orphaned' \subseteq Sock
        /\ open' \in [Master -> SUBSET Sock]
        /\ \A a \in Unix : path[a] \in Sock => bound[path[a]] = a
    BY <1>1, <1>2 DEF Held, SocketsInv, Typed, Kernel
  <1>7. /\ \A s \in Sock : bound'[s] = IF s \in Held' THEN bound[s] ELSE None
        /\ \A a \in Unix :
             path'[a] = IF path[a] \in Sock /\ path[a] \notin Held' THEN Stale ELSE path[a]
    BY <1>1, <1>5
  <1> HIDE DEF held
  <1>8. /\ Kernel'
        /\ \A n \in Master : \A s \in open[n] : bound'[s] = bound[s]
        /\ \A a \in Unix : path'[a] # None => path[a] # None
        /\ \A a \in Unix, n \in Master : path[a] \in open[n] => path'[a] = path[a]
    <2>0. PICK p : p = path
      OBVIOUS
    <2> QED
      BY <1>2, <1>6, <1>7, <2>0, CloseLemma
  <1>9. NoPathLeft'
    BY <1>2, <1>8 DEF SocketsInv, NoPathLeft
  <1>10. Environment'
    <2> SUFFICES ASSUME NEW m \in Master, pc'[m] = "import"
                 PROVE  \A i \in DOMAIN env[m] :
                          /\ bound'[env[m][i][2]] = env[m][i][1]
                          /\ env[m][i][1] \in Unix => path'[env[m][i][1]] = env[m][i][2]
      BY <1>2 DEF SocketsInv, Environment
    <2>1. \A i \in DOMAIN env[m] : env[m][i][2] \in open[m]
      BY <1>2 DEF SocketsInv, Environment
    <2> QED
      BY <1>2, <1>8, <2>1 DEF SocketsInv, Environment
  <1>11. Listed'
    <2> SUFFICES ASSUME NEW m \in Master, Listing(m)
                 PROVE  ListsOpen(m)'
      BY <1>2 DEF Listed, Listing
    <2>1. ListsOpen(m)
      BY DEF SocketsInv, Listed
    <2>2. \A i \in DOMAIN sockets[m] : sockets[m][i].sock \in open[m]
      BY <2>1 DEF ListsOpen
    <2>3. \A i \in DOMAIN sockets[m] :
            /\ bound'[sockets[m][i].sock] = bound[sockets[m][i].sock]
            /\ sockets[m][i].key \in Unix => path'[sockets[m][i].key] = sockets[m][i].sock
      BY <1>8, <2>1, <2>2 DEF ListsOpen
    <2> QED
      BY <1>2, <2>1, <2>3 DEF ListsOpen
  <1>12. Counted' /\ Serving'
    BY <1>2 DEF SocketsInv, Counted, Serving, Counts, Serves, Listing
  <1> QED
    BY <1>3, <1>4, <1>8, <1>9, <1>10, <1>11, <1>12 DEF SocketsInv

\* Neither an edit of the configuration file nor a stutter touches a socket.
LEMMA OtherStep ==
  ASSUME SocketsInv, file' \in Config,
         UNCHANGED <<pid_file, masterVars, kernelVars, handed, abandoned>>
  PROVE  SocketsInv'
  <1>1. /\ open' = open /\ env' = env /\ sockets' = sockets /\ listening' = listening
        /\ pools' = pools /\ pc' = pc /\ handed' = handed /\ abandoned' = abandoned
        /\ path' = path /\ bound' = bound /\ orphaned' = orphaned /\ pid_file' = pid_file
    BY DEF masterVars, kernelVars
  <1>2. Typed'
    BY <1>1 DEF SocketsInv, Typed
  <1>3. Kernel' /\ NoPathLeft'
    BY <1>1, Undisturbed DEF SocketsInv, masterVars
  <1>5. OneMaster' /\ Blank'
    BY <1>1 DEF SocketsInv, OneMaster, Blank
  <1>6. Environment'
    BY <1>1 DEF SocketsInv, Environment
  <1>4. Listed' /\ Counted' /\ Serving'
    BY <1>1 DEF SocketsInv, Listed, Counted, Serving, ListsOpen, Counts, Serves, Listing
  <1> QED
    BY <1>2, <1>3, <1>4, <1>5, <1>6 DEF SocketsInv

-----------------------------------------------------------------------------
(* The invariant and what follows from it.                                 *)

LEMMA InitInv ==
  ASSUME Init
  PROVE  SocketsInv
  <1>1. Typed
    BY DEF Init, Typed
  <1>2. OneMaster /\ Blank
    BY DEF Init, OneMaster, Blank
  <1>3. Kernel /\ NoPathLeft
    BY SocketsAssumption DEF Init, Kernel, NoPathLeft
  <1>4. Environment /\ Listed /\ Counted /\ Serving
    BY DEF Init, Environment, Listed, Counted, Serving, Listing
  <1> QED
    BY <1>1, <1>2, <1>3, <1>4 DEF SocketsInv

LEMMA NextInv ==
  ASSUME SocketsInv, RestartWaitsFor = "exit", [Next]_vars
  PROVE  SocketsInv'
  <1>1. ASSUME NEW m \in Master, start(m) PROVE SocketsInv'
    BY <1>1, StartStep
  <1>2. ASSUME NEW m \in Master, fpm_init(m) PROVE SocketsInv'
    <2>1. CASE import(m)
      BY <2>1, ImportStep
    <2>2. CASE use_socket(m)
      BY <2>2, UseStep
    <2>3. CASE fpm_sockets_new_listening_socket(m)
      BY <2>3, NewSocketStep
    <2>4. CASE close_unused(m)
      BY <2>4, CloseStep
    <2>5. CASE sockets_created(m)
      BY <2>5, CreatedStep
    <2>6. CASE fpm_conf_write_pid(m)
      BY <2>6, PidFileStep
    <2>7. CASE init_fails(m)
      BY <2>7, InitFailsStep
    <2> QED
      BY <1>2, <2>1, <2>2, <2>3, <2>4, <2>5, <2>6, <2>7 DEF fpm_init
  <1>3. ASSUME NEW m \in Master, End(m) PROVE SocketsInv'
    <2>1. CASE fpm_pctl_exec(m)
      BY <2>1, ExecStep
    <2>2. CASE exec_fails(m) \/ killed(m)
      BY <2>2, ExecFailsStep
    <2>3. CASE fpm_conf_unlink_pid(m)
      BY <2>3, PidFileStep
    <2>4. CASE fpm_sockets_cleanup(m)
      BY <2>4, CleanupStep
    <2> QED
      BY <1>3, <2>1, <2>2, <2>3, <2>4 DEF End
  <1>4. CASE edit_configuration
    BY <1>4, OtherStep DEF edit_configuration
  <1>5. CASE workers_exit
    BY <1>5, WorkersStep
  <1>6. CASE UNCHANGED vars
    <2>1. file' \in Config /\ UNCHANGED <<pid_file, masterVars, kernelVars, handed, abandoned>>
      BY <1>6 DEF vars, SocketsInv, Typed
    <2> QED
      BY <2>1, OtherStep
  <1> QED
    BY <1>1, <1>2, <1>3, <1>4, <1>5, <1>6 DEF Next

\* What a start, a reload, a failure and an end (fpm_sockets.c, fpm.c) keep of
\* the sockets, the list, the environment and the paths agrees at all times.
THEOREM SocketsInvariant ==
  ASSUME RestartWaitsFor = "exit"
  PROVE  Spec => []SocketsInv
  <1>1. Init => SocketsInv
    BY InitInv
  <1>2. SocketsInv /\ [Next]_vars => SocketsInv'
    BY NextInv
  <1> QED
    BY <1>1, <1>2, PTL DEF Spec

LEMMA InvTypeOK ==
  ASSUME SocketsInv
  PROVE  TypeOK
  <1> SUFFICES ASSUME NEW m \in Master, NEW e \in ToSet(sockets[m])
               PROVE  e.refcount <= Len(pools[m])
    BY DEF SocketsInv, TypeOK
  <1>1. PICK i \in DOMAIN sockets[m] : e = sockets[m][i]
    BY DEF ToSet
  <1>2. Listing(m)
    <2>1. sockets[m] # <<>>
      BY <1>1
    <2> QED
      BY <2>1 DEF SocketsInv, Blank, Typed, Listing
  <1>3. /\ sockets[m][i].refcount =
             Cardinality(Users(Len(listening[m]), pools[m], sockets[m][i].key))
        /\ Len(listening[m]) <= Len(pools[m])
    BY <1>2 DEF SocketsInv, Counted, Counts, Serving, Serves
  <1>4. listening[m] \in Seq(Sock) /\ pools[m] \in Seq(Address)
    BY <1>2, Alone DEF SocketsInv, Typed, Listing
  <1> DEFINE n == Len(listening[m])
  <1>5. n \in Nat /\ Len(pools[m]) \in Nat
    BY <1>4, LenProperties
  <1> HIDE DEF n
  <1>6. Cardinality(Users(n, pools[m], sockets[m][i].key)) \in 0 .. n
    BY <1>5, UsersLemma
  <1> QED
    BY <1>1, <1>3, <1>5, <1>6 DEF n

LEMMA InvReachable ==
  ASSUME SocketsInv
  PROVE  PoolsReachable
  <1> SUFFICES ASSUME NEW m \in Master, pc[m] = "run"
               PROVE  /\ Len(listening[m]) = Len(pools[m])
                      /\ \A k \in DOMAIN pools[m] :
                           LET s == listening[m][k]
                           IN /\ s \in open[m] /\ bound[s] = pools[m][k]
                              /\ pools[m][k] \in Unix => path[pools[m][k]] = s
    BY DEF PoolsReachable
  <1>1. /\ ListsOpen(m) /\ Serves(m) /\ Len(listening[m]) = Len(pools[m])
        /\ \A i \in DOMAIN sockets[m] : bound[sockets[m][i].sock] = sockets[m][i].key
    BY Started
  <1>2. listening[m] \in Seq(Sock) /\ pools[m] \in Seq(Address)
    BY Alone DEF SocketsInv, Typed
  <1>3. DOMAIN listening[m] = DOMAIN pools[m]
    BY <1>1, <1>2, LenProperties
  <1>4. ASSUME NEW k \in DOMAIN pools[m]
        PROVE  /\ listening[m][k] \in open[m] /\ bound[listening[m][k]] = pools[m][k]
               /\ pools[m][k] \in Unix => path[pools[m][k]] = listening[m][k]
    <2>1. PICK i \in DOMAIN sockets[m] :
            sockets[m][i].key = pools[m][k] /\ sockets[m][i].sock = listening[m][k]
      BY <1>1, <1>3 DEF Serves
    <2> QED
      BY <1>1, <2>1 DEF ListsOpen
  <1> QED
    BY <1>1, <1>4

LEMMA InvNoLeak ==
  ASSUME SocketsInv
  PROVE  NoSocketLeak
  <1> SUFFICES ASSUME NEW m \in Master, pc[m] = "run"
               PROVE  /\ open[m] = ToSet(listening[m])
                      /\ open[m] = {e.sock : e \in ToSet(sockets[m])}
                      /\ \A e, f \in ToSet(sockets[m]) : e.key = f.key => e = f
                      /\ \A e \in ToSet(sockets[m]) :
                           e.refcount = Cardinality({i \in DOMAIN pools[m] : pools[m][i] = e.key})
    BY DEF NoSocketLeak
  <1>1. /\ ListsOpen(m) /\ Counts(m) /\ Serves(m) /\ Len(listening[m]) = Len(pools[m])
        /\ \A i \in DOMAIN sockets[m] : sockets[m][i].refcount # 0
    BY Started
  <1>2. listening[m] \in Seq(Sock) /\ pools[m] \in Seq(Address)
    BY Alone DEF SocketsInv, Typed
  <1> DEFINE n == Len(listening[m])
  <1>3. n \in Nat /\ DOMAIN listening[m] = 1 .. n /\ DOMAIN pools[m] = 1 .. n
    BY <1>1, <1>2, LenProperties
  <1>4. /\ \A e \in ToSet(sockets[m]) : \E i \in DOMAIN sockets[m] : e = sockets[m][i]
        /\ \A i \in DOMAIN sockets[m] : sockets[m][i] \in ToSet(sockets[m])
    BY DEF ToSet
  <1>5. /\ \A s \in ToSet(listening[m]) : \E k \in DOMAIN listening[m] : s = listening[m][k]
        /\ \A k \in DOMAIN listening[m] : listening[m][k] \in ToSet(listening[m])
    BY DEF ToSet
  <1>6. open[m] = {e.sock : e \in ToSet(sockets[m])}
    BY <1>1, <1>4 DEF ListsOpen
  <1>7. open[m] \subseteq ToSet(listening[m])
    <2> SUFFICES ASSUME NEW s \in open[m]
                 PROVE  s \in ToSet(listening[m])
      OBVIOUS
    <2>1. PICK i \in DOMAIN sockets[m] : s = sockets[m][i].sock
      BY <1>1 DEF ListsOpen
    <2>2. Cardinality(Users(n, pools[m], sockets[m][i].key)) # 0
      BY <1>1 DEF Counts
    <2> HIDE DEF n
    <2>3. PICK k \in 1 .. n : pools[m][k] = sockets[m][i].key
      BY <1>3, <2>2, UsersLemma
    <2>4. PICK j \in DOMAIN sockets[m] :
            sockets[m][j].key = pools[m][k] /\ sockets[m][j].sock = listening[m][k]
      BY <1>1, <1>3 DEF Serves
    <2>5. i = j
      BY <1>1, <2>3, <2>4 DEF ListsOpen
    <2> QED
      BY <1>3, <1>5, <2>1, <2>4, <2>5
  <1>8. ToSet(listening[m]) \subseteq open[m]
    <2> SUFFICES ASSUME NEW k \in DOMAIN listening[m]
                 PROVE  listening[m][k] \in open[m]
      BY <1>5
    <2>1. PICK i \in DOMAIN sockets[m] : sockets[m][i].sock = listening[m][k]
      BY <1>1 DEF Serves
    <2> QED
      BY <1>1, <2>1 DEF ListsOpen
  <1>9. \A e, f \in ToSet(sockets[m]) : e.key = f.key => e = f
    BY <1>1, <1>4 DEF ListsOpen
  <1>10. \A e \in ToSet(sockets[m]) :
           e.refcount = Cardinality({i \in DOMAIN pools[m] : pools[m][i] = e.key})
    <2> SUFFICES ASSUME NEW j \in DOMAIN sockets[m]
                 PROVE  sockets[m][j].refcount =
                          Cardinality({i \in DOMAIN pools[m] : pools[m][i] = sockets[m][j].key})
      BY <1>4
    <2>1. {i \in DOMAIN pools[m] : pools[m][i] = sockets[m][j].key}
            = Users(n, pools[m], sockets[m][j].key)
      BY <1>3 DEF Users
    <2> QED
      BY <1>1, <2>1 DEF Counts
  <1> QED
    BY <1>6, <1>7, <1>8, <1>9, <1>10

LEMMA InvReload ==
  ASSUME SocketsInv
  PROVE  ReloadKeepsSockets
  <1> SUFFICES ASSUME NEW m \in Master, pc[m] = "run", NEW k \in DOMAIN pools[m],
                      handed[m][pools[m][k]] # None, pools[m][k] \notin Comma
               PROVE  listening[m][k] = handed[m][pools[m][k]]
    BY DEF ReloadKeepsSockets
  <1>1. ListsOpen(m) /\ Serves(m) /\ Len(listening[m]) = Len(pools[m])
    BY Started
  <1>2. listening[m] \in Seq(Sock) /\ pools[m] \in Seq(Address)
    BY Alone DEF SocketsInv, Typed
  <1>3. DOMAIN listening[m] = DOMAIN pools[m]
    BY <1>1, <1>2, LenProperties
  <1>4. PICK i \in DOMAIN sockets[m] :
          sockets[m][i].key = pools[m][k] /\ sockets[m][i].sock = listening[m][k]
    BY <1>1, <1>3 DEF Serves
  <1>5. PICK j \in DOMAIN sockets[m] :
          sockets[m][j].key = pools[m][k] /\ sockets[m][j].sock = handed[m][pools[m][k]]
    BY <1>1 DEF Serves
  <1> QED
    BY <1>1, <1>4, <1>5 DEF ListsOpen

\* What fpm_sockets_init_main, a reload and a cleanup keep is well-formed, and
\* no refcount exceeds the number of pools of the configuration.
THEOREM TypeCorrect ==
  ASSUME RestartWaitsFor = "exit"
  PROVE  Spec => []TypeOK
  BY SocketsInvariant, InvTypeOK, PTL

\* Once fpm_init has ended, every pool has an open socket bound to its address,
\* and the path of the address leads to it.
THEOREM EveryPoolReachable ==
  ASSUME RestartWaitsFor = "exit"
  PROVE  Spec => []PoolsReachable
  BY SocketsInvariant, InvReachable, PTL

\* However often it was reloaded, a master holds no socket that none of its
\* pools uses, and the refcounts of sockets_list are exact.
THEOREM SocketsExact ==
  ASSUME RestartWaitsFor = "exit"
  PROVE  Spec => []NoSocketLeak
  BY SocketsInvariant, InvNoLeak, PTL

\* FPM_SOCKETS hands over the socket of every address that stays: the pool of
\* the new image listens on the very socket the old image had.
THEOREM ReloadHandsOver ==
  ASSUME RestartWaitsFor = "exit"
  PROVE  Spec => []ReloadKeepsSockets
  BY SocketsInvariant, InvReload, PTL

\* fpm_sockets_cleanup and the close of unused sockets unlink every path, but
\* those of a master that failed or was killed and those with a comma.
THEOREM PathsAccountedFor ==
  ASSUME RestartWaitsFor = "exit"
  PROVE  Spec => []NoPathLeft
  <1>1. SocketsInv => NoPathLeft
    BY DEF SocketsInv
  <1> QED
    BY <1>1, SocketsInvariant, PTL
=============================================================================
