----------------------------- MODULE ZendGCProofs ------------------------------
(***************************************************************************)
(* Theorems about ZendGC, for any zvals, objects, variables, keys and      *)
(* properties and a buffer of any size.                                    *)
(*                                                                         *)
(* HeapInv adds to the counts what the calls under way owe: the references *)
(* of nodes that are freed already and have still to be released, and the  *)
(* assignment or unset that a collection has interrupted.  FoundInv is the *)
(* induction for GarbageHasRoot; the steps of the refinement of ZendHeap   *)
(* come last.                                                              *)
(***************************************************************************)
EXTENDS ZendGC, SequenceTheorems, FiniteSetTheorems, TLAPS

Handle == Zval \X {"handle"}

\* Handles refer to objects, everything else to zvals; an object zval has its
\* handle as long as it lives.
Kinds ==
  /\ \A p \in Handle : at[p] \in Obj \cup {Nil}
  /\ \A p \in Place \ Handle : at[p] \in Array \cup Zval \cup {Nil}
  /\ \A z \in live \cap Zval : at[<<z, "handle">>] # Nil

\* An address in the gc info is that of an entry.
Buffered == buffered \subseteq Roots

\* The places that the calls of s have yet to release,
Owed(s) == UNION {s[i].places : i \in {j \in DOMAIN s : s[j].do = "release"}}

\* each one by one of them.
OwedOnce(s) ==
  \A i, j \in DOMAIN s : s[i].do = "release" /\ s[j].do = "release" /\ i # j =>
    s[i].places \cap s[j].places = {}

\* A call keeps n by an additional reference.
Keeps(c, n) == c.do = "root" /\ c.zv = n /\ ~c.held
KeptBy(s, n) == {i \in DOMAIN s : Keeps(s[i], n)}

\* A call has to end the assignment of zend_assign_to_variable, or the unset of
\* zend_std_unset_property.
Assigns(c) == c.do = "root" /\ c.held
Assigning(s) == {s[i] : i \in {j \in DOMAIN s : Assigns(s[j])}}

\* It is the outermost call.
AssignsLast(s) == \A i \in DOMAIN s : Assigns(s[i]) => i = Len(s)

\* What is still held from freed nodes is what the calls have to release.
Releases ==
  /\ OwedOnce(todo)
  /\ \A p \in Place :
       p \in Owed(todo) <=> at[p] # Nil /\ p \notin ScriptPlace /\ p[1] \notin live

\* The place of an interrupted assignment or unset is still there and has the
\* old value, and the script still has the new one.
Assignment ==
  /\ AssignsLast(todo)
  /\ \A t \in Assigning(todo) :
       /\ t.place \in Accessible
       /\ at[t.place] = t.zv
       /\ t.zv \in Array \cup Zval
       /\ t.value \in Reach(ScriptRefs) \cup {Nil}

\* What the buffer of possible roots is.
BufferInv ==
  /\ purple \subseteq Container
  /\ buffered \subseteq Container
  /\ entries \in [Container -> Nat]
  /\ Buffered

\* The two parts of RefcountsExact.
Refer(f, n) == {p \in Place : f[p] = n}
Counts ==
  \A n \in Node : refcount[n] = Cardinality(Refer(at, n)) + Cardinality(KeptBy(todo, n))
Alive == \A n \in Node : n \in live <=> refcount[n] > 0 \/ n \in forgotten

HeapInv ==
  /\ TypeOK
  /\ RefcountsExact
  /\ Kinds
  /\ Buffered
  /\ Releases
  /\ Assignment

-----------------------------------------------------------------------------
(* The places.                                                             *)

\* What is a place, and of what.
LEMMA Places ==
  /\ IsFiniteSet(Place)
  /\ Handle \subseteq Place /\ ScriptPlace \subseteq Place \ Handle
  /\ Garbage \in Place \ Handle /\ Garbage \notin ScriptPlace
  /\ \A z \in Zval : <<z, "handle">> \in Handle
  /\ \A p \in Place : p[1] \in Zval => p = <<p[1], "handle">> /\ p \in Handle
  /\ \A p \in Handle : p[1] \in Zval
  /\ \A p \in Place : p[1] \in Container => p \notin Handle
  /\ \A p \in ScriptPlace \cup {Garbage} : p[1] = "script" /\ p[1] \notin Node
  /\ \A p \in Place : p \in ScriptPlace \cup {Garbage} \/ p[1] \in Node
  /\ Array \cap Zval = {} /\ Container \cap Zval = {} /\ Array \cap Obj = {}
  /\ Zval \cap Obj = {} /\ Nil \notin Node
  <1>1. IsFiniteSet(Place)
    <2>1. /\ IsFiniteSet(Array) /\ IsFiniteSet(Zval) /\ IsFiniteSet(Obj) /\ IsFiniteSet(Var)
          /\ IsFiniteSet(Key) /\ IsFiniteSet(Property)
      BY ConstantsAssumption
    <2>2. /\ IsFiniteSet({"script"}) /\ IsFiniteSet({"handle"}) /\ IsFiniteSet({Garbage})
      BY FS_Singleton
    <2>3. /\ IsFiniteSet(ScriptPlace) /\ IsFiniteSet(Array \X Key)
          /\ IsFiniteSet(Obj \X Property) /\ IsFiniteSet(Zval \X {"handle"})
      BY <2>1, <2>2, FS_Product DEF ScriptPlace
    <2> QED
      BY <2>2, <2>3, FS_Union DEF Place
  <1>2. /\ Array \cap Zval = {} /\ Container \cap Zval = {} /\ Array \cap Obj = {}
        /\ Zval \cap Obj = {} /\ Nil \notin Node /\ "script" \notin Node
    BY ConstantsAssumption DEF Container, Node
  <1>3. "garbage" \notin Var
    BY ConstantsAssumption
  <1> QED
    BY <1>1, <1>2, <1>3 DEF Place, ScriptPlace, Garbage, Handle, Node, Container

-----------------------------------------------------------------------------
(* What is reachable.                                                      *)

\* T leads nowhere else.
Shut(T) == \A p \in Place : p[1] \in T /\ at[p] # Nil => at[p] \in T

\* Reach(S) is the least set of live nodes that has S and leads nowhere else.
LEMMA ReachIs ==
  ASSUME NEW S, NEW n
  PROVE  n \in Reach(S) <=>
           n \in live /\ \A T \in SUBSET live : S \subseteq T /\ Shut(T) => n \in T
  <1> DEFINE Edges == {<<p[1], at[p]>> : p \in Held(live)}
             Open(T) == \E e \in Edges : e[1] \in T /\ e[2] \notin T
  <1>1. Reach(S) = {m \in live : \A T \in SUBSET (live \ {m}) : S \subseteq T => Open(T)}
    BY Zenon DEF Reach
  <1>2. \A T \in SUBSET live : ~Open(T) <=> Shut(T)
    <2>1. \A e \in Edges : \E p \in Held(live) : e[1] = p[1] /\ e[2] = at[p]
      OBVIOUS
    <2>2. \A p \in Held(live) : \E e \in Edges : e[1] = p[1] /\ e[2] = at[p]
      <3> SUFFICES ASSUME NEW p \in Held(live)
                   PROVE  \E e \in Edges : e[1] = p[1] /\ e[2] = at[p]
        OBVIOUS
      <3> WITNESS <<p[1], at[p]>> \in Edges
      <3> QED
        OBVIOUS
    <2> HIDE DEF Edges
    <2> QED
      BY <2>1, <2>2 DEF Held, Shut
  <1> HIDE DEF Edges
  <1> QED
    BY <1>1, <1>2

LEMMA ReachBasics ==
  ASSUME NEW S
  PROVE  /\ Reach(S) \subseteq live
         /\ S \subseteq live => S \subseteq Reach(S)
         /\ \A p \in Place : p[1] \in Reach(S) /\ at[p] \in live /\ at[p] # Nil => at[p] \in Reach(S)
  <1>1. \A n : n \in Reach(S) <=>
          n \in live /\ \A T \in SUBSET live : S \subseteq T /\ Shut(T) => n \in T
    BY ReachIs
  <1> QED
    BY <1>1 DEF Shut

\* A set that has S and leads nowhere else has what S leads to.
LEMMA ReachLeast ==
  ASSUME NEW S, NEW T \in SUBSET live, S \subseteq T, Shut(T)
  PROVE  Reach(S) \subseteq T
  BY ReachIs

\* What is reachable and no member of S is held by another reachable node.
LEMMA ReachBefore ==
  ASSUME NEW S, S \subseteq live, NEW n \in Reach(S), n \notin S,
         \A p \in Place : at[p] # Nil => at[p] \in live
  PROVE  \E p \in Place : p[1] \in Reach(S) /\ p[1] # n /\ at[p] = n
  <1> SUFFICES ASSUME \A p \in Place : p[1] \in Reach(S) /\ p[1] # n => at[p] # n
               PROVE  FALSE
    OBVIOUS
  <1>1. Reach(S) \subseteq live /\ S \subseteq Reach(S)
    BY ReachBasics
  <1>2. Shut(Reach(S) \ {n})
    <2>1. \A p \in Place : p[1] \in Reach(S) /\ at[p] # Nil => at[p] \in Reach(S)
      BY ReachBasics
    <2> QED
      BY <2>1 DEF Shut
  <1>3. Reach(S) \subseteq Reach(S) \ {n}
    <2> DEFINE T == Reach(S) \ {n}
    <2>1. T \in SUBSET live /\ S \subseteq T
      BY <1>1
    <2> HIDE DEF T
    <2>2. Shut(T)
      BY <1>2 DEF T
    <2>3. Reach(S) \subseteq T
      BY <2>1, <2>2, ReachLeast
    <2> QED
      BY <2>3 DEF T
  <1> QED
    BY <1>3

\* What is still live is still reachable when nothing that is live has changed.
LEMMA ReachKept ==
  ASSUME NEW S, NEW n \in Reach(S), n \in live', live' \subseteq live,
         \A p \in Place : p[1] \in live' => at'[p] = at[p]
  PROVE  n \in Reach(S)'
  <1>1. n \in Reach(S)' <=>
          n \in live' /\ \A T \in SUBSET live' : S \subseteq T /\ Shut(T)' => n \in T
    <2> DEFINE Edges == {<<p[1], at[p]>> : p \in Held(live)}
               Closed == {T \in SUBSET live :
                            S \subseteq T /\ \A e \in Edges : e[1] \in T => e[2] \in T}
    <2>1. Reach(S)' = {m \in live' : \A T \in Closed' : m \in T}
      BY DEF Reach
    <2>2. \A T \in SUBSET live' : (\A e \in Edges' : e[1] \in T => e[2] \in T) <=> Shut(T)'
      <3>1. \A e \in Edges' : \E p \in Held(live)' : e[1] = p[1] /\ e[2] = at'[p]
        OBVIOUS
      <3>2. \A p \in Held(live)' : \E e \in Edges' : e[1] = p[1] /\ e[2] = at'[p]
        <4> SUFFICES ASSUME NEW p \in Held(live)'
                     PROVE  \E e \in Edges' : e[1] = p[1] /\ e[2] = at'[p]
          OBVIOUS
        <4> WITNESS <<p[1], at'[p]>> \in Edges'
        <4> QED
          OBVIOUS
      <3> HIDE DEF Edges
      <3> QED
        BY <3>1, <3>2 DEF Held, Shut
    <2> HIDE DEF Edges
    <2> QED
      BY <2>1, <2>2
  <1>2. \A T \in SUBSET live' : Shut(T)' => Shut(T)
    BY DEF Shut
  <1>3. \A T \in SUBSET live : S \subseteq T /\ Shut(T) => n \in T
    BY ReachIs
  <1> QED
    BY <1>1, <1>2, <1>3

-----------------------------------------------------------------------------
(* Counting references.                                                    *)

\* The places that refer to n.
LEMMA ReferFinite ==
  ASSUME NEW f, NEW n
  PROVE  /\ IsFiniteSet(Refer(f, n)) /\ Cardinality(Refer(f, n)) \in Nat
         /\ Cardinality(Refer(f, n)) = 0 <=> \A p \in Place : f[p] # n
         /\ Cardinality(Refer(f, n)) = 1 =>
              \A p, q \in Place : f[p] = n /\ f[q] = n => p = q
  <1>1. IsFiniteSet(Refer(f, n))
    <2>1. Refer(f, n) \in SUBSET Place
      BY DEF Refer
    <2> QED
      BY <2>1, Places, FS_Subset
  <1>2. Cardinality(Refer(f, n)) \in Nat
    BY <1>1, FS_CardinalityType
  <1>3. Cardinality(Refer(f, n)) = 0 <=> Refer(f, n) = {}
    BY <1>1, FS_EmptySet
  <1>4. Cardinality(Refer(f, n)) = 1 <=> \E x : Refer(f, n) = {x}
    BY <1>1, FS_Singleton
  <1>5. \A p : p \in Refer(f, n) <=> p \in Place /\ f[p] = n
    BY DEF Refer
  <1> QED
    BY <1>1, <1>2, <1>3, <1>4, <1>5

\* The place p gets the reference w.
Moves(f, g, p, w) == g[p] = w /\ \A q \in Place : q # p => g[q] = f[q]

LEMMA ReferMoves ==
  ASSUME NEW f, NEW g, NEW p \in Place, NEW w, NEW n, Moves(f, g, p, w)
  PROVE  Cardinality(Refer(g, n)) =
           Cardinality(Refer(f, n)) - (IF f[p] = n THEN 1 ELSE 0) + (IF w = n THEN 1 ELSE 0)
  <1> DEFINE A == Refer(f, n) \ {p}
  <1>1. \A q \in Place : g[q] = IF q = p THEN w ELSE f[q]
    BY DEF Moves
  <1>2. IsFiniteSet(Refer(f, n)) /\ Cardinality(Refer(f, n)) \in Nat
    BY ReferFinite
  <1>3. p \in Refer(f, n) <=> f[p] = n
    BY DEF Refer
  <1>4. /\ IsFiniteSet(A)
        /\ Cardinality(A) = IF p \in Refer(f, n) THEN Cardinality(Refer(f, n)) - 1
                            ELSE Cardinality(Refer(f, n))
    BY <1>2, FS_RemoveElement
  <1>5. p \notin A
    OBVIOUS
  <1>6. Refer(g, n) = IF w = n THEN A \cup {p} ELSE A
    BY <1>1 DEF Refer
  <1> HIDE DEF A
  <1>7. Cardinality(A \cup {p}) = Cardinality(A) + 1 /\ Cardinality(A) \in Nat
    BY <1>4, <1>5, FS_AddElement, FS_CardinalityType
  <1>8. Cardinality(Refer(g, n)) = IF w = n THEN Cardinality(A) + 1 ELSE Cardinality(A)
    BY <1>6, <1>7
  <1> QED
    BY <1>2, <1>3, <1>4, <1>7, <1>8

-----------------------------------------------------------------------------
(* The calls under way.                                                    *)

LEMMA NoCalls ==
  /\ <<>> \in Seq(Call) /\ Owed(<<>>) = {} /\ OwedOnce(<<>>) /\ AssignsLast(<<>>)
  /\ Assigning(<<>>) = {}
  /\ \A n : KeptBy(<<>>, n) = {}
  BY EmptySeq DEF Owed, OwedOnce, AssignsLast, Assigning, KeptBy

\* How many calls keep n.
LEMMA KeptFinite ==
  ASSUME NEW s \in Seq(Call), NEW n
  PROVE  IsFiniteSet(KeptBy(s, n)) /\ Cardinality(KeptBy(s, n)) \in Nat
  <1>1. Len(s) \in Nat /\ DOMAIN s = 1 .. Len(s)
    BY LenProperties
  <1>2. IsFiniteSet(1 .. Len(s))
    <2>1. 1 \in Int /\ Len(s) \in Int
      BY <1>1
    <2> QED
      BY <2>1, FS_Interval
  <1>3. KeptBy(s, n) \in SUBSET (1 .. Len(s))
    BY <1>1 DEF KeptBy
  <1> QED
    BY <1>2, <1>3, FS_Subset, FS_CardinalityType

\* A call on top of the others.
LEMMA OneCallMore ==
  ASSUME NEW c \in Call, NEW s \in Seq(Call)
  PROVE  LET r == <<c>> \o s
         IN /\ r \in Seq(Call) /\ r # <<>> /\ Head(r) = c /\ Tail(r) = s
            /\ Owed(r) = (IF c.do = "release" THEN c.places ELSE {}) \cup Owed(s)
            /\ OwedOnce(r) <=> OwedOnce(s) /\ (c.do = "release" => c.places \cap Owed(s) = {})
            /\ Assigning(r) = (IF Assigns(c) THEN {c} ELSE {}) \cup Assigning(s)
            /\ AssignsLast(r) <=> AssignsLast(s) /\ (Assigns(c) => s = <<>>)
            /\ \A n : Cardinality(KeptBy(r, n)) =
                        Cardinality(KeptBy(s, n)) + (IF Keeps(c, n) THEN 1 ELSE 0)
  <1> DEFINE r == <<c>> \o s
  <1>1. Len(s) \in Nat /\ DOMAIN s = 1 .. Len(s)
    BY LenProperties
  <1>2. /\ r \in Seq(Call) /\ Len(r) = Len(s) + 1
        /\ r[1] = c /\ \A j \in 1 .. Len(s) : r[j + 1] = s[j]
    BY <1>1
  <1>3. r # <<>> /\ Head(r) = c /\ Tail(r) = s
    <2>1. r # <<>>
      BY <1>1, <1>2, EmptySeq
    <2>2. Head(r) = c
      BY <1>1
    <2>3. /\ Tail(r) \in Seq(Call) /\ Len(Tail(r)) = Len(r) - 1
          /\ \A i \in 1 .. Len(Tail(r)) : Tail(r)[i] = r[i + 1]
      BY <1>2, <2>1, HeadTailProperties
    <2> HIDE DEF r
    <2>4. Len(Tail(r)) = Len(s)
      BY <1>1, <1>2, <2>3
    <2>5. \A i \in 1 .. Len(s) : Tail(r)[i] = s[i]
      BY <1>2, <2>3, <2>4
    <2>6. Tail(r) = s
      BY <2>3, <2>4, <2>5, SeqEqual
    <2> QED
      BY <2>1, <2>2, <2>6 DEF r
  <1> HIDE DEF r
  <1>4. DOMAIN r = 1 .. (Len(s) + 1)
    BY <1>2, LenProperties
  <1>5. /\ 1 \in DOMAIN r /\ \A j \in DOMAIN s : j + 1 \in DOMAIN r /\ j + 1 # 1
        /\ \A i \in DOMAIN r : i # 1 => i - 1 \in DOMAIN s /\ r[i] = s[i - 1]
    <2>1. \A i \in DOMAIN r : i # 1 => i - 1 \in 1 .. Len(s) /\ (i - 1) + 1 = i
      BY <1>1, <1>4
    <2> QED
      BY <1>1, <1>2, <1>4, <2>1
  <1>6. \A j \in DOMAIN s : r[j + 1] = s[j]
    BY <1>1, <1>2
  <1>7. Owed(r) = (IF c.do = "release" THEN c.places ELSE {}) \cup Owed(s)
    <2>1. ASSUME NEW p \in Owed(r)
          PROVE  p \in (IF c.do = "release" THEN c.places ELSE {}) \cup Owed(s)
      <3>1. PICK i \in DOMAIN r : r[i].do = "release" /\ p \in r[i].places
        BY DEF Owed
      <3>2. CASE i = 1
        BY <1>2, <3>1, <3>2
      <3>3. CASE i # 1
        BY <1>5, <3>1, <3>3 DEF Owed
      <3> QED
        BY <3>2, <3>3
    <2>2. ASSUME NEW p \in Owed(s) PROVE p \in Owed(r)
      <3>1. PICK i \in DOMAIN s : s[i].do = "release" /\ p \in s[i].places
        BY DEF Owed
      <3> QED
        BY <1>5, <1>6, <3>1 DEF Owed
    <2>3. ASSUME c.do = "release", NEW p \in c.places PROVE p \in Owed(r)
      BY <1>2, <1>5, <2>3 DEF Owed
    <2> QED
      BY <2>1, <2>2, <2>3
  <1>8. OwedOnce(r) <=> OwedOnce(s) /\ (c.do = "release" => c.places \cap Owed(s) = {})
    <2>1. ASSUME OwedOnce(r)
          PROVE  OwedOnce(s) /\ (c.do = "release" => c.places \cap Owed(s) = {})
      <3>1. OwedOnce(s)
        <4> SUFFICES ASSUME NEW i \in DOMAIN s, NEW j \in DOMAIN s, i # j,
                            s[i].do = "release", s[j].do = "release"
                     PROVE  s[i].places \cap s[j].places = {}
          BY DEF OwedOnce
        <4>1. i + 1 \in DOMAIN r /\ j + 1 \in DOMAIN r /\ i + 1 # j + 1
          BY <1>1, <1>5
        <4> QED
          BY <1>6, <2>1, <4>1 DEF OwedOnce
      <3>2. ASSUME c.do = "release", NEW p \in c.places, p \in Owed(s) PROVE FALSE
        <4>1. PICK j \in DOMAIN s : s[j].do = "release" /\ p \in s[j].places
          BY <3>2 DEF Owed
        <4> QED
          BY <1>2, <1>5, <1>6, <2>1, <3>2, <4>1 DEF OwedOnce
      <3> QED
        BY <3>1, <3>2
    <2>2. ASSUME OwedOnce(s), c.do = "release" => c.places \cap Owed(s) = {}
          PROVE  OwedOnce(r)
      <3> SUFFICES ASSUME NEW i \in DOMAIN r, NEW j \in DOMAIN r, i # j,
                          r[i].do = "release", r[j].do = "release",
                          NEW p \in r[i].places, p \in r[j].places
                   PROVE  FALSE
        BY DEF OwedOnce
      <3>1. \A k \in DOMAIN r : k # 1 /\ r[k].do = "release" /\ p \in r[k].places => p \in Owed(s)
        BY <1>5 DEF Owed
      <3>2. CASE i = 1 \/ j = 1
        BY <1>2, <2>2, <3>1, <3>2
      <3>3. CASE i # 1 /\ j # 1
        <4>1. /\ i - 1 \in DOMAIN s /\ r[i] = s[i - 1]
              /\ j - 1 \in DOMAIN s /\ r[j] = s[j - 1]
              /\ i - 1 # j - 1
          BY <1>1, <1>4, <1>5, <3>3
        <4> QED
          BY <2>2, <4>1 DEF OwedOnce
      <3> QED
        BY <3>2, <3>3
    <2> QED
      BY <2>1, <2>2
  <1>9. Assigning(r) = (IF Assigns(c) THEN {c} ELSE {}) \cup Assigning(s)
    <2>1. ASSUME NEW t \in Assigning(r)
          PROVE  t \in (IF Assigns(c) THEN {c} ELSE {}) \cup Assigning(s)
      <3>1. PICK i \in DOMAIN r : Assigns(r[i]) /\ t = r[i]
        BY DEF Assigning
      <3>2. CASE i = 1
        BY <1>2, <3>1, <3>2
      <3>3. CASE i # 1
        BY <1>5, <3>1, <3>3 DEF Assigning
      <3> QED
        BY <3>2, <3>3
    <2>2. ASSUME NEW t \in Assigning(s) PROVE t \in Assigning(r)
      <3>1. PICK i \in DOMAIN s : Assigns(s[i]) /\ t = s[i]
        BY DEF Assigning
      <3> QED
        BY <1>5, <1>6, <3>1 DEF Assigning
    <2>3. Assigns(c) => c \in Assigning(r)
      BY <1>2, <1>5 DEF Assigning
    <2> QED
      BY <2>1, <2>2, <2>3
  <1>10. AssignsLast(r) <=> AssignsLast(s) /\ (Assigns(c) => s = <<>>)
    <2>1. s = <<>> <=> Len(s) = 0
      BY EmptySeq
    <2>2. ASSUME AssignsLast(r)
          PROVE  AssignsLast(s) /\ (Assigns(c) => s = <<>>)
      <3>1. Assigns(c) => Len(s) = 0
        BY <1>1, <1>2, <1>5, <2>2 DEF AssignsLast
      <3>2. ASSUME NEW i \in DOMAIN s, Assigns(s[i]) PROVE i = Len(s)
        <4>1. i + 1 = Len(s) + 1
          BY <1>2, <1>5, <1>6, <2>2, <3>2 DEF AssignsLast
        <4> QED
          BY <1>1, <4>1
      <3> QED
        BY <2>1, <3>1, <3>2 DEF AssignsLast
    <2>3. ASSUME AssignsLast(s), Assigns(c) => s = <<>>
          PROVE  AssignsLast(r)
      <3> SUFFICES ASSUME NEW i \in DOMAIN r, Assigns(r[i])
                   PROVE  i = Len(s) + 1
        BY <1>2 DEF AssignsLast
      <3>1. CASE i = 1
        BY <1>2, <2>1, <2>3, <3>1
      <3>2. CASE i # 1
        <4>1. i - 1 = Len(s)
          BY <1>5, <2>3, <3>2 DEF AssignsLast
        <4> QED
          BY <1>1, <1>4, <4>1
      <3> QED
        BY <3>1, <3>2
    <2> QED
      BY <2>2, <2>3
  <1>11. ASSUME NEW n
         PROVE  Cardinality(KeptBy(r, n)) =
                  Cardinality(KeptBy(s, n)) + (IF Keeps(c, n) THEN 1 ELSE 0)
    <2> DEFINE K == KeptBy(s, n)
               M == {j + 1 : j \in K}
               f == [j \in K |-> j + 1]
    <2>1. K \subseteq DOMAIN s /\ K \subseteq Nat /\ IsFiniteSet(K)
      <3>1. IsFiniteSet(K)
        BY KeptFinite
      <3>2. K \subseteq DOMAIN s
        BY DEF KeptBy
      <3> QED
        BY <1>1, <3>1, <3>2
    <2>2. IsFiniteSet(M) /\ Cardinality(M) = Cardinality(K)
      <3> HIDE DEF K
      <3>1. f \in [K -> M] /\ \A m \in M : \E k \in K : f[k] = m
        OBVIOUS
      <3>2. \A j, k \in K : f[j] = f[k] => j = k
        BY <2>1
      <3> HIDE DEF f, M
      <3>3. f \in Bijection(K, M)
        BY <3>1, <3>2 DEF Bijection, Injection, Surjection, IsInjective
      <3>4. ExistsBijection(K, M)
        BY <3>3 DEF ExistsBijection
      <3> QED
        BY <2>1, <3>4, FS_Bijection
    <2>3. 1 \notin M
      BY <1>1, <2>1
    <2>4. KeptBy(r, n) = IF Keeps(c, n) THEN M \cup {1} ELSE M
      <3>1. ASSUME NEW i \in DOMAIN r, i # 1 PROVE Keeps(r[i], n) <=> i \in M
        <4>1. i - 1 \in DOMAIN s /\ r[i] = s[i - 1] /\ i \in Nat
          BY <1>1, <1>4, <1>5, <3>1
        <4>2. i \in M <=> i - 1 \in K
          <5>1. i \in M => i - 1 \in K
            BY <2>1
          <5>2. i - 1 \in K => i \in M
            BY <4>1
          <5> QED
            BY <5>1, <5>2
        <4> QED
          BY <4>1, <4>2 DEF KeptBy
      <3>2. M \subseteq DOMAIN r
        BY <1>5, <2>1
      <3> HIDE DEF M
      <3> QED
        BY <1>2, <1>5, <2>3, <3>1, <3>2 DEF KeptBy
    <2> HIDE DEF M
    <2>5. Cardinality(M \cup {1}) = Cardinality(M) + 1 /\ Cardinality(M) \in Nat
      BY <2>2, <2>3, FS_AddElement, FS_CardinalityType
    <2> QED
      BY <2>2, <2>4, <2>5
  <1> QED
    BY <1>2, <1>3, <1>7, <1>8, <1>9, <1>10, <1>11 DEF r

\* The innermost call and the others.
LEMMA TopCall ==
  ASSUME NEW s \in Seq(Call), s # <<>>
  PROVE  LET c == Head(s)
             t == Tail(s)
         IN /\ c \in Call /\ t \in Seq(Call)
            /\ Owed(s) = (IF c.do = "release" THEN c.places ELSE {}) \cup Owed(t)
            /\ OwedOnce(s) <=> OwedOnce(t) /\ (c.do = "release" => c.places \cap Owed(t) = {})
            /\ Assigning(s) = (IF Assigns(c) THEN {c} ELSE {}) \cup Assigning(t)
            /\ AssignsLast(s) <=> AssignsLast(t) /\ (Assigns(c) => t = <<>>)
            /\ \A n : Cardinality(KeptBy(s, n)) =
                        Cardinality(KeptBy(t, n)) + (IF Keeps(c, n) THEN 1 ELSE 0)
  <1> DEFINE c == Head(s)
             t == Tail(s)
             r == <<c>> \o t
  <1>1. /\ c \in Call /\ t \in Seq(Call) /\ Len(t) = Len(s) - 1
        /\ \A i \in 1 .. Len(t) : t[i] = s[i + 1]
    BY HeadTailProperties
  <1>2. Len(s) \in Nat \ {0} /\ c = s[1]
    BY EmptySeq
  <1> HIDE DEF c, t
  <1>3. /\ r \in Seq(Call) /\ Len(r) = Len(t) + 1 /\ r[1] = c
        /\ \A j \in 1 .. Len(t) : r[j + 1] = t[j]
    <2>1. Len(t) \in Nat
      BY <1>1, LenProperties
    <2> QED
      BY <1>1, <2>1
  <1>4. r = s
    <2> HIDE DEF r
    <2>1. Len(r) = Len(s)
      BY <1>1, <1>2, <1>3
    <2>2. \A i \in 1 .. Len(s) : r[i] = s[i]
      <3> SUFFICES ASSUME NEW i \in 1 .. Len(s)
                   PROVE  r[i] = s[i]
        OBVIOUS
      <3>1. CASE i = 1
        BY <1>2, <1>3, <3>1
      <3>2. CASE i # 1
        <4>1. i - 1 \in 1 .. Len(t) /\ (i - 1) + 1 = i
          BY <1>1, <1>2, <3>2
        <4> QED
          BY <1>1, <1>3, <4>1
      <3> QED
        BY <3>1, <3>2
    <2> QED
      BY <1>3, <2>1, <2>2, SeqEqual
  <1> HIDE DEF r
  <1>5. /\ Owed(r) = (IF c.do = "release" THEN c.places ELSE {}) \cup Owed(t)
        /\ OwedOnce(r) <=> OwedOnce(t) /\ (c.do = "release" => c.places \cap Owed(t) = {})
        /\ Assigning(r) = (IF Assigns(c) THEN {c} ELSE {}) \cup Assigning(t)
        /\ AssignsLast(r) <=> AssignsLast(t) /\ (Assigns(c) => t = <<>>)
        /\ \A n : Cardinality(KeptBy(r, n)) =
                    Cardinality(KeptBy(t, n)) + (IF Keeps(c, n) THEN 1 ELSE 0)
    BY <1>1, OneCallMore DEF r
  <1> QED
    BY <1>1, <1>4, <1>5 DEF c, t

-----------------------------------------------------------------------------
(* The invariant, taken apart.                                             *)

\* What has to be shown of a step, part by part.
LEMMA HeapInvIs ==
  HeapInv <=>
    /\ live \subseteq Node /\ at \in [Place -> Node \cup {Nil}]
    /\ refcount \in [Node -> Nat] /\ todo \in Seq(Call)
    /\ gc_enabled \in BOOLEAN /\ undefined \in BOOLEAN /\ forgotten \subseteq live
    /\ BufferInv /\ Counts /\ Alive /\ Kinds /\ Releases /\ Assignment
  <1>1. RefcountsExact <=> Counts /\ Alive
    BY DEF RefcountsExact, Counts, Alive, Refer, Keeping, KeptBy, Keeps
  <1> QED
    BY <1>1 DEF HeapInv, TypeOK, BufferInv

LEMMA HeapInvIsNext ==
  HeapInv' <=>
    /\ live' \subseteq Node /\ at' \in [Place -> Node \cup {Nil}]
    /\ refcount' \in [Node -> Nat] /\ todo' \in Seq(Call)
    /\ gc_enabled' \in BOOLEAN /\ undefined' \in BOOLEAN /\ forgotten' \subseteq live'
    /\ BufferInv' /\ Counts' /\ Alive' /\ Kinds' /\ Releases' /\ Assignment'
  <1>1. RefcountsExact' <=> Counts' /\ Alive'
    BY DEF RefcountsExact, Counts, Alive, Refer, Keeping, KeptBy, Keeps
  <1> QED
    BY <1>1 DEF HeapInv, TypeOK, BufferInv

\* A place that holds a reference counts for what it refers to, which lives.
LEMMA HeldLives ==
  ASSUME HeapInv, NEW p \in Place, at[p] # Nil
  PROVE  /\ at[p] \in Node /\ at[p] \in live /\ refcount[at[p]] \in Nat \ {0}
         /\ p \in Handle => at[p] \in Obj
         /\ p \notin Handle => at[p] \in Array \cup Zval
  <1>1. at[p] \in Node /\ todo \in Seq(Call)
    BY DEF HeapInv, TypeOK
  <1>2. /\ Cardinality(Refer(at, at[p])) \in Nat /\ Cardinality(Refer(at, at[p])) # 0
        /\ Cardinality(KeptBy(todo, at[p])) \in Nat
    <2>1. PICK n \in Node : n = at[p]
      BY <1>1
    <2>2. Cardinality(Refer(at, n)) \in Nat /\ Cardinality(Refer(at, n)) # 0
      BY <2>1, ReferFinite
    <2>3. Cardinality(KeptBy(todo, n)) \in Nat
      BY <1>1, KeptFinite
    <2> QED
      BY <2>1, <2>2, <2>3
  <1>3. refcount[at[p]] = Cardinality(Refer(at, at[p])) + Cardinality(KeptBy(todo, at[p]))
    BY <1>1, HeapInvIs DEF Counts
  <1>4. refcount[at[p]] \in Nat \ {0}
    BY <1>2, <1>3
  <1>5. at[p] \in live
    BY <1>1, <1>4, HeapInvIs DEF Alive
  <1> QED
    BY <1>1, <1>4, <1>5 DEF HeapInv, Kinds

\* The counts of a node.
LEMMA CountsOf ==
  ASSUME HeapInv, NEW n \in Node
  PROVE  /\ Cardinality(Refer(at, n)) \in Nat /\ Cardinality(KeptBy(todo, n)) \in Nat
         /\ refcount[n] = Cardinality(Refer(at, n)) + Cardinality(KeptBy(todo, n))
         /\ n \in live <=> refcount[n] > 0 \/ n \in forgotten
         /\ refcount[n] = 0 => \A p \in Place : at[p] # n
         /\ refcount[n] = 1 => \A p, q \in Place : at[p] = n /\ at[q] = n => p = q
         /\ refcount[n] = 1 /\ (\E p \in Place : at[p] = n) =>
              Cardinality(KeptBy(todo, n)) = 0
  <1>1. todo \in Seq(Call)
    BY DEF HeapInv, TypeOK
  <1>2. Cardinality(Refer(at, n)) \in Nat /\ Cardinality(KeptBy(todo, n)) \in Nat
    BY <1>1, ReferFinite, KeptFinite
  <1>3. refcount[n] = Cardinality(Refer(at, n)) + Cardinality(KeptBy(todo, n))
    BY HeapInvIs DEF Counts
  <1>4. n \in live <=> refcount[n] > 0 \/ n \in forgotten
    BY HeapInvIs DEF Alive
  <1>5. Cardinality(Refer(at, n)) = 0 <=> \A p \in Place : at[p] # n
    BY ReferFinite
  <1>6. Cardinality(Refer(at, n)) = 1 =>
          \A p, q \in Place : at[p] = n /\ at[q] = n => p = q
    BY ReferFinite
  <1>7. refcount[n] = 0 => Cardinality(Refer(at, n)) = 0
    BY <1>2, <1>3
  <1>8. refcount[n] = 1 /\ Cardinality(Refer(at, n)) # 0 =>
          Cardinality(Refer(at, n)) = 1 /\ Cardinality(KeptBy(todo, n)) = 0
    BY <1>2, <1>3
  <1> QED
    BY <1>2, <1>3, <1>4, <1>5, <1>6, <1>7, <1>8

\* What the script can reach lives, and where it reads and writes.
LEMMA AccessibleLives ==
  ASSUME HeapInv
  PROVE  /\ ScriptRefs \subseteq live
         /\ Reach(ScriptRefs) \subseteq live
         /\ \A p \in Accessible : /\ p \in Place /\ p \notin Handle /\ p # Garbage
                                  /\ p \in ScriptPlace \/ p[1] \in live
                                  /\ at[p] # Nil => at[p] \in Reach(ScriptRefs)
  <1>1. ScriptRefs \subseteq live
    BY HeldLives, Places DEF ScriptRefs
  <1>2. PICK S : S = ScriptRefs
    OBVIOUS
  <1>3. /\ Reach(S) \subseteq live /\ S \subseteq Reach(S)
        /\ \A p \in Place : p[1] \in Reach(S) /\ at[p] \in live /\ at[p] # Nil => at[p] \in Reach(S)
    BY <1>1, <1>2, ReachBasics
  <1>4. Reach(ScriptRefs) = Reach(S)
    BY <1>2
  <1>5. \A p \in Accessible : p \in ScriptPlace \/ (p \in Place /\ p[1] \in Reach(S) /\ p[1] \in Container)
    BY <1>4 DEF Accessible
  <1>6. \A p \in ScriptPlace : p \in Place /\ p \notin Handle /\ p # Garbage
    BY Places
  <1>7. \A p \in Place : p[1] \in Container => p \notin Handle /\ p # Garbage
    BY Places DEF Container, Node
  <1>8. \A p \in ScriptPlace : at[p] # Nil => at[p] \in Reach(S)
    BY <1>2, <1>3 DEF ScriptRefs
  <1>9. \A p \in Place : p[1] \in Reach(S) /\ at[p] # Nil => at[p] \in Reach(S)
    BY <1>3, HeldLives
  <1> QED
    BY <1>1, <1>3, <1>4, <1>5, <1>6, <1>7, <1>8, <1>9

\* What is owed is a place with a reference, in no live node.
LEMMA OwedPlaces ==
  ASSUME HeapInv, NEW p \in Owed(todo)
  PROVE  p \in Place /\ at[p] # Nil /\ p \notin ScriptPlace /\ p[1] \notin live
  <1>1. PICK i \in DOMAIN todo : todo[i].do = "release" /\ p \in todo[i].places
    BY DEF Owed
  <1>2. todo[i] \in Call
    BY LenProperties, ElementOfSeq DEF HeapInv, TypeOK
  <1>3. p \in Place
    BY <1>1, <1>2 DEF Call
  <1> QED
    BY <1>3 DEF HeapInv, Releases

\* rest is what is to be done when p is.
Follows(p, rest) ==
  /\ rest \in Seq(Call)
  /\ Owed(rest) = Owed(todo) \ {p} /\ OwedOnce(rest)
  /\ \A n : Cardinality(KeptBy(rest, n)) = Cardinality(KeptBy(todo, n))
  /\ Assigning(rest) = Assigning(todo) /\ AssignsLast(rest)
  /\ \/ p \in Owed(todo)
     \/ p \in Accessible /\ Owed(todo) = {} /\ Assigning(todo) = {}

\* The script changes a place of its own; no call is under way.
LEMMA FollowsScript ==
  ASSUME HeapInv, todo = <<>>, NEW p \in Accessible
  PROVE  Follows(p, <<>>)
  BY NoCalls DEF Follows

\* The script releases a property before it writes NULL there.
LEMMA FollowsUnset ==
  ASSUME HeapInv, todo = <<>>, NEW p \in Accessible
  PROVE  Follows(p, <<Unset(p)>>)
  <1>1. PICK c : c = Unset(p)
    OBVIOUS
  <1>2. p \in Place
    BY AccessibleLives
  <1>3. c \in Call /\ c.do = "unset" /\ ~Assigns(c) /\ \A n : ~Keeps(c, n)
    <2>1. c.do = "unset"
      BY <1>1 DEF Unset
    <2>2. c \in [do : {"unset"}, place : Place]
      BY <1>1, <1>2 DEF Unset
    <2>3. c \in Call
      BY <2>2 DEF Call
    <2> QED
      BY <2>1, <2>3 DEF Assigns, Keeps
  <1>4. PICK e \in Seq(Call) : e = <<>>
    BY EmptySeq
  <1>5. PICK r : r = <<c>> \o e
    OBVIOUS
  <1>6. r = <<Unset(p)>>
    BY <1>1, <1>3, <1>4, <1>5
  <1>7. /\ Owed(e) = {} /\ OwedOnce(e) /\ AssignsLast(e) /\ Assigning(e) = {}
        /\ e = todo
    BY <1>4, NoCalls
  <1>8. /\ r \in Seq(Call)
        /\ Owed(r) = (IF c.do = "release" THEN c.places ELSE {}) \cup Owed(e)
        /\ OwedOnce(r) <=> OwedOnce(e) /\ (c.do = "release" => c.places \cap Owed(e) = {})
        /\ Assigning(r) = (IF Assigns(c) THEN {c} ELSE {}) \cup Assigning(e)
        /\ AssignsLast(r) <=> AssignsLast(e) /\ (Assigns(c) => e = <<>>)
        /\ \A n : Cardinality(KeptBy(r, n)) =
                    Cardinality(KeptBy(e, n)) + (IF Keeps(c, n) THEN 1 ELSE 0)
    BY <1>3, <1>5, OneCallMore
  <1>9. \A n : Cardinality(KeptBy(r, n)) = Cardinality(KeptBy(e, n))
    BY <1>3, <1>8, KeptFinite
  <1>10. Follows(p, r)
    BY <1>3, <1>7, <1>8, <1>9 DEF Follows
  <1> QED
    BY <1>6, <1>10

\* Release(S), on top of what else is to be done.
LEMMA PushCall ==
  ASSUME NEW S \in SUBSET Place, NEW rest \in Seq(Call)
  PROVE  /\ Push(S, rest) \in Seq(Call)
         /\ Owed(Push(S, rest)) = S \cup Owed(rest)
         /\ OwedOnce(Push(S, rest)) <=> OwedOnce(rest) /\ S \cap Owed(rest) = {}
         /\ Assigning(Push(S, rest)) = Assigning(rest)
         /\ AssignsLast(Push(S, rest)) <=> AssignsLast(rest)
         /\ \A n : Cardinality(KeptBy(Push(S, rest), n)) = Cardinality(KeptBy(rest, n))
  <1>1. CASE S = {}
    BY <1>1 DEF Push
  <1>2. CASE S # {}
    <2> DEFINE c == Release(S)
               r == <<c>> \o rest
    <2>1. Push(S, rest) = r
      BY <1>2 DEF Push
    <2>2. c \in Call /\ c.do = "release" /\ c.places = S /\ ~Assigns(c) /\ \A n : ~Keeps(c, n)
      <3>1. c.do = "release" /\ c.places = S
        BY DEF Release
      <3>2. c \in [do : {"release"}, places : (SUBSET Place) \ {{}}]
        <4>1. S \in (SUBSET Place) \ {{}}
          BY <1>2
        <4> QED
          BY <4>1 DEF Release
      <3>3. c \in Call
        BY <3>2 DEF Call
      <3> HIDE DEF c
      <3> QED
        BY <3>1, <3>3 DEF Assigns, Keeps
    <2> HIDE DEF c
    <2>3. /\ r \in Seq(Call)
          /\ Owed(r) = (IF c.do = "release" THEN c.places ELSE {}) \cup Owed(rest)
          /\ OwedOnce(r) <=> OwedOnce(rest) /\ (c.do = "release" => c.places \cap Owed(rest) = {})
          /\ Assigning(r) = (IF Assigns(c) THEN {c} ELSE {}) \cup Assigning(rest)
          /\ AssignsLast(r) <=> AssignsLast(rest) /\ (Assigns(c) => rest = <<>>)
          /\ \A n : Cardinality(KeptBy(r, n)) =
                      Cardinality(KeptBy(rest, n)) + (IF Keeps(c, n) THEN 1 ELSE 0)
      BY <2>2, OneCallMore
    <2> HIDE DEF r
    <2>4. \A n : Cardinality(KeptBy(r, n)) = Cardinality(KeptBy(rest, n))
      BY <2>2, <2>3, KeptFinite
    <2> QED
      BY <2>1, <2>2, <2>3, <2>4
  <1> QED
    BY <1>1, <1>2

\* A call of release is done with one of its places.
LEMMA FollowsDone ==
  ASSUME HeapInv, Calling("release"), NEW p \in Head(todo).places
  PROVE  p \in Owed(todo) /\ Follows(p, Done(p))
  <1>1. PICK s : s = todo
    OBVIOUS
  <1>2. s \in Seq(Call) /\ s # <<>> /\ OwedOnce(s) /\ AssignsLast(s)
    BY <1>1 DEF HeapInv, TypeOK, Calling, Releases, Assignment
  <1>3. PICK c : c = Head(s)
    OBVIOUS
  <1>4. PICK t : t = Tail(s)
    OBVIOUS
  <1>5. c.do = "release" /\ ~Assigns(c) /\ (\A n : ~Keeps(c, n)) /\ p \in c.places
    BY <1>1, <1>3 DEF Calling, Assigns, Keeps
  <1>6. /\ c \in Call /\ t \in Seq(Call)
        /\ Owed(s) = c.places \cup Owed(t)
        /\ OwedOnce(t) /\ c.places \cap Owed(t) = {}
        /\ Assigning(s) = Assigning(t) /\ AssignsLast(t)
        /\ \A n : Cardinality(KeptBy(s, n)) = Cardinality(KeptBy(t, n)) + 0
    BY <1>2, <1>3, <1>4, <1>5, TopCall
  <1>7. PICK S \in SUBSET Place : S = c.places \ {p}
    BY <1>5, <1>6 DEF Call
  <1>8. PICK r : r = Push(S, t)
    OBVIOUS
  <1>9. r = Done(p)
    BY <1>1, <1>3, <1>4, <1>7, <1>8 DEF Done
  <1>10. /\ r \in Seq(Call) /\ Owed(r) = S \cup Owed(t)
         /\ OwedOnce(r) <=> OwedOnce(t) /\ S \cap Owed(t) = {}
         /\ Assigning(r) = Assigning(t) /\ AssignsLast(r) <=> AssignsLast(t)
         /\ \A n : Cardinality(KeptBy(r, n)) = Cardinality(KeptBy(t, n))
    BY <1>6, <1>8, PushCall
  <1>11. Owed(r) = Owed(s) \ {p} /\ OwedOnce(r) /\ p \in Owed(s)
    BY <1>5, <1>6, <1>7, <1>10
  <1>12. \A n : Cardinality(KeptBy(r, n)) = Cardinality(KeptBy(s, n))
    BY <1>6, <1>10, KeptFinite
  <1>13. Follows(p, r)
    BY <1>1, <1>6, <1>10, <1>11, <1>12 DEF Follows
  <1> QED
    BY <1>1, <1>9, <1>11, <1>13

\* A place that is done with: whose it was, and what it was.
LEMMA FollowsPlace ==
  ASSUME HeapInv, NEW p, NEW rest, Follows(p, rest)
  PROVE  /\ p \in Place
         /\ p \in Owed(todo) => at[p] # Nil /\ p \notin ScriptPlace /\ p[1] \notin live
         /\ p \notin Owed(todo) => /\ p \notin Handle /\ p # Garbage
                                   /\ p \in ScriptPlace \/ p[1] \in live
  BY OwedPlaces, AccessibleLives DEF Follows

-----------------------------------------------------------------------------
(* A reference less.                                                       *)

\* An interrupted assignment goes on when nothing that the script can reach
\* has changed.
LEMMA AssignmentKept ==
  ASSUME HeapInv, live' \subseteq live,
         \A p \in Place : p \in ScriptPlace \/ p[1] \in live' => at'[p] = at[p],
         Reach(ScriptRefs) \subseteq live',
         Assigning(todo') \subseteq Assigning(todo), AssignsLast(todo')
  PROVE  Assignment'
  <1>1. PICK S : S = ScriptRefs
    OBVIOUS
  <1>2. ScriptRefs' = S
    BY <1>1, Places DEF ScriptRefs
  <1>3. Reach(ScriptRefs) = Reach(S)
    BY <1>1
  <1>4. Reach(ScriptRefs)' = Reach(S)'
    BY <1>2 DEF Reach, Held
  <1>5. \A n \in Reach(S) : n \in Reach(S)'
    BY <1>3, ReachKept
  <1>6. \A p \in Accessible : p \in Accessible' /\ at'[p] = at[p]
    <2> SUFFICES ASSUME NEW p \in Accessible
                 PROVE  p \in Accessible' /\ at'[p] = at[p]
      OBVIOUS
    <2>1. CASE p \in ScriptPlace
      BY <2>1, Places DEF Accessible
    <2>2. CASE p \notin ScriptPlace
      <3>1. p \in Place /\ p[1] \in Reach(S) /\ p[1] \in Container
        BY <1>3, <2>2 DEF Accessible
      <3>2. p[1] \in Reach(S)' /\ p[1] \in live'
        BY <1>3, <1>5, <3>1
      <3> QED
        BY <1>4, <3>1, <3>2 DEF Accessible
    <2> QED
      BY <2>1, <2>2
  <1>7. \A t \in Assigning(todo') : t \in Assigning(todo)
    OBVIOUS
  <1>8. \A t \in Assigning(todo) :
          /\ t.place \in Accessible
          /\ at[t.place] = t.zv
          /\ t.zv \in Array \cup Zval
          /\ t.value \in Reach(S) \cup {Nil}
    BY <1>3 DEF HeapInv, Assignment
  <1> QED
    BY <1>4, <1>5, <1>6, <1>7, <1>8 DEF Assignment

\* An address and its entry go together.
LEMMA RemoveFromBufferStep ==
  ASSUME BufferInv, NEW n, RemoveFromBuffer(n)
  PROVE  BufferInv'
  <1>1. /\ purple' \subseteq Container /\ buffered' = buffered \ {n} /\ buffered' \subseteq Container
    BY DEF BufferInv, RemoveFromBuffer
  <1>2. entries' \in [Container -> Nat] /\ \A m \in Container \ {n} : entries'[m] = entries[m]
    <2>1. CASE n \in buffered
      <3>1. n \in Container /\ entries[n] > 0 /\ entries[n] \in Nat
        BY <2>1 DEF BufferInv, Buffered, Roots
      <3>2. entries' = [entries EXCEPT ![n] = @ - 1]
        BY <2>1 DEF RemoveFromBuffer
      <3> QED
        BY <3>1, <3>2 DEF BufferInv
    <2>2. CASE n \notin buffered
      BY <2>2 DEF RemoveFromBuffer, BufferInv
    <2> QED
      BY <2>1, <2>2
  <1> QED
    BY <1>1, <1>2 DEF BufferInv, Buffered, Roots

LEMMA AddRootStep ==
  ASSUME BufferInv, NEW n \in Container, AddRoot(n)
  PROVE  BufferInv'
  <1>1. entries' \in [Container -> Nat] /\ \A m \in Container : entries'[m] >= entries[m]
        /\ entries'[n] > 0
    BY DEF BufferInv, AddRoot
  <1> QED
    BY <1>1 DEF BufferInv, Buffered, Roots, AddRoot

\* The last reference is released, from a place that the script or a call is
\* done with: what the freed node holds is owed from now on.
LEMMA ReleaseLastStep ==
  ASSUME HeapInv, NEW p, NEW rest, Follows(p, rest), at[p] # Nil,
         release_last(p, rest), UNCHANGED <<gc_enabled, undefined>>
  PROVE  HeapInv'
  <1>1. PICK v : v = at[p]
    OBVIOUS
  <1>2. /\ p \in Place
        /\ p \in Owed(todo) => p \notin ScriptPlace /\ p[1] \notin live
        /\ p \notin Owed(todo) => /\ p \notin Handle /\ p # Garbage
                                  /\ p \in ScriptPlace \/ p[1] \in live
    BY FollowsPlace
  <1>3. v \in Node /\ v \in live /\ v # Nil
    BY <1>1, <1>2, HeldLives
  <1>4. /\ refcount[v] = 1 /\ live' = live \ {v}
        /\ at' = [at EXCEPT ![p] = Nil] /\ refcount' = Counted(v, Nil)
        /\ RemoveFromBuffer(v)
        /\ todo' = Push(Held({v}), rest)
    BY <1>1 DEF release_last, Replace
  <1>5. /\ live \subseteq Node /\ at \in [Place -> Node \cup {Nil}]
        /\ refcount \in [Node -> Nat] /\ todo \in Seq(Call) /\ forgotten \subseteq live
        /\ gc_enabled \in BOOLEAN /\ undefined \in BOOLEAN
        /\ BufferInv /\ Counts /\ Alive /\ Kinds /\ Releases /\ Assignment
    BY HeapInvIs
  <1>6. /\ \A q \in Place : at[q] = v => q = p
        /\ Cardinality(KeptBy(todo, v)) = 0
    BY <1>1, <1>2, <1>3, <1>4, CountsOf
  <1>7. v \in Reach(ScriptRefs) => p \notin Owed(todo) /\ p[1] # v
    <2> SUFFICES ASSUME v \in Reach(ScriptRefs)
                 PROVE  p \notin Owed(todo) /\ p[1] # v
      OBVIOUS
    <2>1. CASE v \in ScriptRefs
      <3>1. p \in ScriptPlace
        BY <1>6, <2>1, Places DEF ScriptRefs
      <3> QED
        BY <1>2, <1>3, <3>1, Places
    <2>2. CASE v \notin ScriptRefs
      <3>1. PICK S : S = ScriptRefs
        OBVIOUS
      <3>2. S \subseteq live /\ v \in Reach(S) /\ v \notin S /\ Reach(S) \subseteq live
        BY <2>2, <3>1, AccessibleLives
      <3>3. PICK q \in Place : q[1] \in Reach(S) /\ q[1] # v /\ at[q] = v
        BY <3>2, ReachBefore, HeldLives
      <3> QED
        BY <1>2, <1>6, <3>2, <3>3
    <2> QED
      BY <2>1, <2>2
  <1>8. p[1] # v
    <2>1. CASE p \in Owed(todo)
      BY <1>2, <1>3, <2>1
    <2>2. CASE p \notin Owed(todo)
      BY <1>1, <1>3, <1>7, <2>2, AccessibleLives DEF Follows
    <2> QED
      BY <2>1, <2>2
  <1>9. PICK H \in SUBSET Place : H = Held({v})
    BY DEF Held
  <1>10. \A q \in Place : q \in H <=> q[1] = v /\ at[q] # Nil
    BY <1>9 DEF Held
  <1>11. /\ rest \in Seq(Call)
         /\ Owed(rest) = Owed(todo) \ {p} /\ OwedOnce(rest)
         /\ \A n : Cardinality(KeptBy(rest, n)) = Cardinality(KeptBy(todo, n))
         /\ Assigning(rest) = Assigning(todo) /\ AssignsLast(rest)
    BY DEF Follows
  <1>12. /\ todo' \in Seq(Call)
         /\ Owed(todo') = H \cup (Owed(todo) \ {p})
         /\ OwedOnce(todo') <=> H \cap (Owed(todo) \ {p}) = {}
         /\ Assigning(todo') = Assigning(todo) /\ AssignsLast(todo')
         /\ \A n : Cardinality(KeptBy(todo', n)) = Cardinality(KeptBy(todo, n))
    <2>1. PICK s : s = Push(H, rest)
      OBVIOUS
    <2>2. /\ s \in Seq(Call)
          /\ Owed(s) = H \cup Owed(rest)
          /\ OwedOnce(s) <=> OwedOnce(rest) /\ H \cap Owed(rest) = {}
          /\ Assigning(s) = Assigning(rest) /\ AssignsLast(s) <=> AssignsLast(rest)
          /\ \A n : Cardinality(KeptBy(s, n)) = Cardinality(KeptBy(rest, n))
      BY <1>11, <2>1, PushCall
    <2>3. todo' = s
      BY <1>4, <1>9, <2>1
    <2> QED
      BY <1>11, <2>2, <2>3
  <1>13. /\ at' \in [Place -> Node \cup {Nil}]
         /\ at'[p] = Nil /\ \A q \in Place : q # p => at'[q] = at[q]
    BY <1>2, <1>4, <1>5
  <1>14. /\ refcount' \in [Node -> Nat]
         /\ refcount'[v] = 0 /\ \A n \in Node : n # v => refcount'[n] = refcount[n]
    <2>1. \A n \in Node : refcount'[n] =
            refcount[n] - (IF n = v THEN 1 ELSE 0) + (IF n = Nil THEN 1 ELSE 0)
      BY <1>4 DEF Counted
    <2>2. \A n \in Node : n # Nil /\ refcount[n] \in Nat
      BY <1>5, Places
    <2>3. \A n \in Node : refcount'[n] = IF n = v THEN 0 ELSE refcount[n]
      BY <1>4, <2>1, <2>2
    <2>4. refcount' = [n \in Node |-> refcount'[n]]
      BY <1>4 DEF Counted
    <2> QED
      BY <1>3, <2>2, <2>3, <2>4
  <1>15. BufferInv' /\ forgotten' = forgotten \ {v}
    BY <1>4, <1>5, RemoveFromBufferStep DEF RemoveFromBuffer
  <1>16. Counts'
    <2> SUFFICES ASSUME NEW n \in Node
                 PROVE  refcount'[n] = Cardinality(Refer(at', n)) + Cardinality(KeptBy(todo', n))
      BY DEF Counts, Refer, KeptBy
    <2>1. Cardinality(Refer(at', n)) = Cardinality(Refer(at, n)) - (IF at[p] = n THEN 1 ELSE 0)
                                         + (IF Nil = n THEN 1 ELSE 0)
      <3>1. PICK f : f = at
        OBVIOUS
      <3>2. PICK g : g = at'
        OBVIOUS
      <3>3. Moves(f, g, p, Nil)
        BY <1>13, <3>1, <3>2 DEF Moves
      <3> QED
        BY <1>2, <3>1, <3>2, <3>3, ReferMoves
    <2>2. /\ Cardinality(Refer(at, n)) \in Nat /\ Cardinality(KeptBy(todo, n)) \in Nat
          /\ refcount[n] = Cardinality(Refer(at, n)) + Cardinality(KeptBy(todo, n))
      BY CountsOf
    <2>3. n # Nil
      BY Places
    <2>4. CASE n = v
      <3>1. /\ refcount[n] = 1 /\ Cardinality(KeptBy(todo, n)) = 0
            /\ refcount'[n] = 0 /\ at[p] = n
        BY <1>1, <1>4, <1>6, <1>14, <2>4
      <3>2. Cardinality(KeptBy(todo', n)) = 0
        BY <1>12, <3>1
      <3> QED
        BY <2>1, <2>2, <2>3, <3>1, <3>2
    <2>5. CASE n # v
      BY <1>1, <1>12, <1>14, <2>1, <2>2, <2>3, <2>5
    <2> QED
      BY <2>4, <2>5
  <1>17. Alive'
    BY <1>4, <1>5, <1>14, <1>15 DEF Alive
  <1>18. Kinds'
    <2>1. p \in Handle => p[1] \notin live
      BY <1>2
    <2> QED
      BY <1>2, <1>4, <1>5, <1>13, <2>1, Places DEF Kinds
  <1>19. Releases'
    <2>1. OwedOnce(todo')
      BY <1>3, <1>10, <1>12, OwedPlaces
    <2>2. ASSUME NEW q \in Place
          PROVE  q \in Owed(todo') <=> at'[q] # Nil /\ q \notin ScriptPlace /\ q[1] \notin live'
      <3>1. q \in Owed(todo) <=> at[q] # Nil /\ q \notin ScriptPlace /\ q[1] \notin live
        BY <1>5 DEF Releases
      <3>2. CASE q = p
        BY <1>8, <1>10, <1>12, <1>13, <3>2
      <3>3. CASE q # p /\ q[1] = v
        BY <1>3, <1>4, <1>10, <1>12, <1>13, <3>1, <3>3, Places
      <3>4. CASE q # p /\ q[1] # v
        BY <1>4, <1>10, <1>12, <1>13, <3>1, <3>4
      <3> QED
        BY <3>2, <3>3, <3>4
    <2> QED
      BY <2>1, <2>2 DEF Releases
  <1>20. Assignment'
    <2>1. CASE p \in Owed(todo)
      <3>1. \A q \in Place : q \in ScriptPlace \/ q[1] \in live' => at'[q] = at[q]
        BY <1>2, <1>4, <1>13, <2>1
      <3>2. Reach(ScriptRefs) \subseteq live'
        BY <1>4, <1>7, <2>1, AccessibleLives
      <3> QED
        BY <1>4, <1>12, <3>1, <3>2, AssignmentKept
    <2>2. CASE p \notin Owed(todo)
      BY <1>12, <2>2 DEF Follows, Assignment
    <2> QED
      BY <2>1, <2>2
  <1> QED
    BY <1>3, <1>4, <1>5, <1>12, <1>13, <1>14, <1>15, <1>16, <1>17, <1>18, <1>19, <1>20,
       HeapInvIsNext

\* The candidate for the buffer is a container that lives and is referred to.
LEMMA CandidateLives ==
  ASSUME HeapInv, NEW p \in Place, at[p] # Nil
  PROVE  /\ Candidate(at[p]) \in Container /\ Candidate(at[p]) \in live
         /\ refcount[Candidate(at[p])] \in Nat \ {0}
  <1>1. PICK v : v = at[p]
    OBVIOUS
  <1>2. v \in Node /\ v \in live /\ refcount[v] \in Nat \ {0}
    BY <1>1, HeldLives
  <1>3. CASE v \in Zval
    <2>1. PICK q : q = <<v, "handle">>
      OBVIOUS
    <2>2. q \in Handle /\ q \in Place /\ at[q] # Nil
      BY <1>2, <1>3, <2>1, Places DEF HeapInv, Kinds
    <2>3. at[q] \in live /\ refcount[at[q]] \in Nat \ {0} /\ at[q] \in Obj
      BY <2>2, HeldLives
    <2> QED
      BY <1>1, <1>3, <2>1, <2>3 DEF Candidate, Container
  <1>4. CASE v \notin Zval
    BY <1>1, <1>2, <1>4 DEF Candidate, Node
  <1> QED
    BY <1>3, <1>4

\* What a place gets that loses its reference: nothing, or, in an assignment
\* of the script, an object that the script has.
Gets(p, w) ==
  \/ w = Nil
  \/ /\ w \in Zval /\ w \in Reach(ScriptRefs) /\ refcount[w] > 0
     /\ at[p] \in Zval /\ p \in Accessible
     /\ Owed(todo) = {} /\ Assigning(todo) = {}

\* It gets it at once, or, in a statement of the script that writes last, when
\* the reference is gone.
Writes(p, w, held, rest) ==
  /\ held \in BOOLEAN
  /\ ~held => w = Nil
  /\ held => /\ at[p] \in Array \cup Zval /\ p \in Accessible /\ rest = <<>>
             /\ Owed(todo) = {} /\ Assigning(todo) = {}

\* A shared reference is released, and what follows in the buffer is said.
LEMMA ReplaceStep ==
  ASSUME HeapInv, NEW p, NEW w, NEW rest, Follows(p, rest), Gets(p, w),
         at[p] # Nil, refcount[at[p]] > 1,
         Replace(p, w), todo' = rest, UNCHANGED <<live, gc_enabled, undefined>>,
         BufferInv', forgotten' \subseteq live,
         \A n \in forgotten : n \notin forgotten' => refcount[n] > 0
  PROVE  HeapInv'
  <1>1. PICK v : v = at[p]
    OBVIOUS
  <1>2. /\ p \in Place
        /\ p \in Owed(todo) => p \notin ScriptPlace /\ p[1] \notin live
        /\ p \notin Owed(todo) => /\ p \notin Handle /\ p # Garbage
                                  /\ p \in ScriptPlace \/ p[1] \in live
    BY FollowsPlace
  <1>3. /\ v \in Node /\ v \in live /\ v # Nil /\ refcount[v] > 1
        /\ p \in Handle => v \in Obj
        /\ p \notin Handle => v \in Array \cup Zval
    BY <1>1, <1>2, HeldLives
  <1>4. at' = [at EXCEPT ![p] = w] /\ refcount' = Counted(v, w)
    BY <1>1 DEF Replace
  <1>5. /\ live \subseteq Node /\ at \in [Place -> Node \cup {Nil}]
        /\ refcount \in [Node -> Nat] /\ todo \in Seq(Call)
        /\ gc_enabled \in BOOLEAN /\ undefined \in BOOLEAN
        /\ BufferInv /\ Counts /\ Alive /\ Kinds /\ Releases /\ Assignment
    BY HeapInvIs
  <1>6. \/ w = Nil
        \/ w \in Zval /\ w \in Node /\ refcount[w] > 0 /\ v \in Zval
           /\ p \notin Owed(todo) /\ Assigning(todo) = {}
    BY <1>1 DEF Gets, Node
  <1>7. /\ rest \in Seq(Call)
        /\ Owed(rest) = Owed(todo) \ {p} /\ OwedOnce(rest)
        /\ \A n : Cardinality(KeptBy(rest, n)) = Cardinality(KeptBy(todo, n))
        /\ Assigning(rest) = Assigning(todo) /\ AssignsLast(rest)
    BY DEF Follows
  <1>8. /\ at' \in [Place -> Node \cup {Nil}]
        /\ at'[p] = w /\ \A q \in Place : q # p => at'[q] = at[q]
    BY <1>2, <1>4, <1>5, <1>6
  <1>9. \A n \in Node : /\ refcount'[n] = refcount[n] - (IF n = v THEN 1 ELSE 0)
                                                      + (IF n = w THEN 1 ELSE 0)
                        /\ refcount'[n] \in Nat
                        /\ refcount'[n] > 0 <=> refcount[n] > 0
    <2> SUFFICES ASSUME NEW n \in Node
                 PROVE  /\ refcount'[n] = refcount[n] - (IF n = v THEN 1 ELSE 0)
                                                      + (IF n = w THEN 1 ELSE 0)
                        /\ refcount'[n] \in Nat
                        /\ refcount'[n] > 0 <=> refcount[n] > 0
      OBVIOUS
    <2>1. refcount'[n] = refcount[n] - (IF n = v THEN 1 ELSE 0) + (IF n = w THEN 1 ELSE 0)
      BY <1>4 DEF Counted
    <2>2. refcount[n] \in Nat /\ n # Nil
      BY <1>5, Places
    <2> QED
      BY <1>3, <1>6, <2>1, <2>2
  <1>10. refcount' \in [Node -> Nat]
    <2>1. refcount' = [n \in Node |-> refcount'[n]]
      BY <1>4 DEF Counted
    <2> QED
      BY <1>9, <2>1
  <1>11. Counts'
    <2> SUFFICES ASSUME NEW n \in Node
                 PROVE  refcount'[n] = Cardinality(Refer(at', n)) + Cardinality(KeptBy(rest, n))
      BY DEF Counts, Refer, KeptBy
    <2>1. Cardinality(Refer(at', n)) = Cardinality(Refer(at, n)) - (IF v = n THEN 1 ELSE 0)
                                         + (IF w = n THEN 1 ELSE 0)
      <3>1. PICK f : f = at
        OBVIOUS
      <3>2. PICK g : g = at'
        OBVIOUS
      <3>3. Moves(f, g, p, w)
        BY <1>8, <3>1, <3>2 DEF Moves
      <3> QED
        BY <1>1, <1>2, <3>1, <3>2, <3>3, ReferMoves
    <2>2. /\ Cardinality(Refer(at, n)) \in Nat /\ Cardinality(KeptBy(todo, n)) \in Nat
          /\ refcount[n] = Cardinality(Refer(at, n)) + Cardinality(KeptBy(todo, n))
      BY CountsOf
    <2>3. Cardinality(KeptBy(rest, n)) = Cardinality(KeptBy(todo, n))
      BY <1>7
    <2>4. refcount'[n] = refcount[n] - (IF n = v THEN 1 ELSE 0) + (IF n = w THEN 1 ELSE 0)
      BY <1>9
    <2> QED
      BY <2>1, <2>2, <2>3, <2>4
  <1>12. Alive'
    BY <1>5, <1>9 DEF Alive
  <1>13. Kinds'
    <2>1. p \in Handle => w = Nil /\ p[1] \notin live
      BY <1>2, <1>6
    <2> QED
      BY <1>2, <1>5, <1>6, <1>8, <2>1, Places DEF Kinds
  <1>14. Releases'
    <2>1. OwedOnce(todo')
      BY <1>7
    <2>2. ASSUME NEW q \in Place
          PROVE  q \in Owed(todo') <=> at'[q] # Nil /\ q \notin ScriptPlace /\ q[1] \notin live'
      <3>1. q \in Owed(todo) <=> at[q] # Nil /\ q \notin ScriptPlace /\ q[1] \notin live
        BY <1>5 DEF Releases
      <3>2. CASE q = p
        BY <1>2, <1>6, <1>7, <1>8, <3>2
      <3>3. CASE q # p
        BY <1>7, <1>8, <3>1, <3>3
      <3> QED
        BY <3>2, <3>3
    <2> QED
      BY <2>1, <2>2 DEF Releases
  <1>15. Assignment'
    <2>1. CASE p \in Owed(todo)
      <3>1. \A q \in Place : q \in ScriptPlace \/ q[1] \in live' => at'[q] = at[q]
        BY <1>2, <1>8, <2>1
      <3> QED
        BY <1>7, <3>1, AccessibleLives, AssignmentKept
    <2>2. CASE p \notin Owed(todo)
      BY <1>7, <2>2 DEF Follows, Assignment
    <2> QED
      BY <2>1, <2>2
  <1> QED
    BY <1>5, <1>7, <1>8, <1>10, <1>11, <1>12, <1>13, <1>14, <1>15, HeapInvIsNext

\* The collection before the candidate is buffered: the zval is kept for it,
\* or, where its place is written last, its place is.
LEMMA CollectsStep ==
  ASSUME HeapInv, NEW p, NEW w, NEW held, NEW rest, Follows(p, rest), Gets(p, w),
         Writes(p, w, held, rest), at[p] # Nil, refcount[at[p]] > 1,
         possible_root_collects(p, w, held, rest), UNCHANGED <<live, gc_enabled, undefined>>
  PROVE  HeapInv'
  <1>1. PICK v : v = at[p]
    OBVIOUS
  <1>2. /\ p \in Place
        /\ p \in Owed(todo) => p \notin ScriptPlace /\ p[1] \notin live
        /\ p \notin Owed(todo) => /\ p \notin Handle /\ p # Garbage
                                  /\ p \in ScriptPlace \/ p[1] \in live
    BY FollowsPlace
  <1>3. /\ v \in Node /\ v \in live /\ v # Nil /\ refcount[v] > 1
        /\ p \in Handle => v \in Obj
        /\ p \notin Handle => v \in Array \cup Zval
    BY <1>1, <1>2, HeldLives
  <1>4. PICK n : n = Candidate(v)
    OBVIOUS
  <1>5. n \in Container
    BY <1>1, <1>2, <1>4, CandidateLives
  <1>6. PICK zv : zv = IF v \in Obj THEN Nil ELSE v
    OBVIOUS
  <1>7. PICK root : root = [do |-> "root", zv |-> zv, node |-> n,
                            held |-> held, place |-> p, value |-> w]
    OBVIOUS
  <1>8. /\ purple' = purple \cup {n}
        /\ at' = IF held THEN at ELSE [at EXCEPT ![p] = Nil]
        /\ refcount' = IF v \in Obj THEN Counted(v, Nil) ELSE refcount
        /\ todo' = <<Collect, root>> \o rest
        /\ UNCHANGED <<buffered, entries, forgotten>>
    BY <1>1, <1>4, <1>6, <1>7 DEF possible_root_collects
  <1>9. /\ live \subseteq Node /\ at \in [Place -> Node \cup {Nil}]
        /\ refcount \in [Node -> Nat] /\ todo \in Seq(Call) /\ forgotten \subseteq live
        /\ gc_enabled \in BOOLEAN /\ undefined \in BOOLEAN
        /\ BufferInv /\ Counts /\ Alive /\ Kinds /\ Releases /\ Assignment
    BY HeapInvIs
  <1>10. /\ held \in BOOLEAN
         /\ w \in Zval \cup {Nil} /\ w \in Reach(ScriptRefs) \cup {Nil}
         /\ ~held => w = Nil
         /\ held => /\ rest = <<>> /\ v \in Array \cup Zval /\ v \notin Obj /\ zv = v
                    /\ p \in Accessible /\ Owed(todo) = {} /\ Assigning(todo) = {}
    BY <1>1, <1>6, Places DEF Gets, Writes, Node
  <1>11. root \in Call /\ root.do = "root" /\ root.zv = zv /\ root.value = w /\ root.place = p
         /\ root.held = held
    <2>1. zv \in Array \cup Zval \cup {Nil} /\ w \in Array \cup Zval \cup {Nil}
      BY <1>3, <1>6, <1>10 DEF Node, Container
    <2>2. root \in [do : {"root"}, zv : Array \cup Zval \cup {Nil}, node : Container,
                    held : BOOLEAN, place : Place, value : Array \cup Zval \cup {Nil}]
      BY <1>2, <1>5, <1>7, <1>10, <2>1
    <2>3. root.held \/ root.value = Nil
      BY <1>7, <1>10
    <2> QED
      BY <1>7, <2>2, <2>3 DEF Call
  <1>12. /\ rest \in Seq(Call)
         /\ Owed(rest) = Owed(todo) \ {p} /\ OwedOnce(rest)
         /\ \A m : Cardinality(KeptBy(rest, m)) = Cardinality(KeptBy(todo, m))
         /\ Assigning(rest) = Assigning(todo) /\ AssignsLast(rest)
    BY DEF Follows
  <1>13. /\ todo' \in Seq(Call)
         /\ Owed(todo') = Owed(todo) \ {p} /\ OwedOnce(todo')
         /\ Assigning(todo') = (IF held THEN {root} ELSE {}) \cup Assigning(todo)
         /\ AssignsLast(todo')
         /\ \A m : Cardinality(KeptBy(todo', m)) =
                     Cardinality(KeptBy(todo, m)) + (IF zv = m /\ ~held THEN 1 ELSE 0)
    <2>1. PICK s : s = <<root>> \o rest
      OBVIOUS
    <2>2. Assigns(root) <=> held
      BY <1>11 DEF Assigns
    <2>3. \A m : Keeps(root, m) <=> zv = m /\ ~held
      BY <1>11 DEF Keeps
    <2>4. /\ s \in Seq(Call)
          /\ Owed(s) = Owed(rest) /\ OwedOnce(s)
          /\ Assigning(s) = (IF held THEN {root} ELSE {}) \cup Assigning(rest)
          /\ AssignsLast(s)
          /\ \A m : Cardinality(KeptBy(s, m)) =
                      Cardinality(KeptBy(rest, m)) + (IF zv = m /\ ~held THEN 1 ELSE 0)
      <3>1. /\ s \in Seq(Call)
            /\ Owed(s) = (IF root.do = "release" THEN root.places ELSE {}) \cup Owed(rest)
            /\ OwedOnce(s) <=> OwedOnce(rest)
                                 /\ (root.do = "release" => root.places \cap Owed(rest) = {})
            /\ Assigning(s) = (IF Assigns(root) THEN {root} ELSE {}) \cup Assigning(rest)
            /\ AssignsLast(s) <=> AssignsLast(rest) /\ (Assigns(root) => rest = <<>>)
            /\ \A m : Cardinality(KeptBy(s, m)) =
                        Cardinality(KeptBy(rest, m)) + (IF Keeps(root, m) THEN 1 ELSE 0)
        BY <1>11, <1>12, <2>1, OneCallMore
      <3> QED
        BY <1>10, <1>11, <1>12, <2>2, <2>3, <3>1
    <2>5. PICK r : r = <<Collect>> \o s
      OBVIOUS
    <2>6. Collect \in Call /\ Collect.do = "collect" /\ ~Assigns(Collect) /\ \A m : ~Keeps(Collect, m)
      BY DEF Collect, Call, Assigns, Keeps
    <2>7. /\ r \in Seq(Call)
          /\ Owed(r) = (IF Collect.do = "release" THEN Collect.places ELSE {}) \cup Owed(s)
          /\ OwedOnce(r) <=> OwedOnce(s)
                               /\ (Collect.do = "release" => Collect.places \cap Owed(s) = {})
          /\ Assigning(r) = (IF Assigns(Collect) THEN {Collect} ELSE {}) \cup Assigning(s)
          /\ AssignsLast(r) <=> AssignsLast(s) /\ (Assigns(Collect) => s = <<>>)
          /\ \A m : Cardinality(KeptBy(r, m)) =
                      Cardinality(KeptBy(s, m)) + (IF Keeps(Collect, m) THEN 1 ELSE 0)
      BY <2>4, <2>5, <2>6, OneCallMore
    <2>8. \A m : Cardinality(KeptBy(r, m)) = Cardinality(KeptBy(s, m))
      BY <2>4, <2>6, <2>7, KeptFinite
    <2>9. todo' = r
      <3>1. <<Collect, root>> \o rest = <<Collect>> \o (<<root>> \o rest)
        <4>1. PICK c \in Call : c = Collect
          BY <2>6
        <4>2. <<c, root>> \o rest = <<c>> \o (<<root>> \o rest)
          <5>1. rest \in Seq(Call) /\ root \in Call /\ c \in Call
            BY <1>11, <1>12
          <5>2. <<c, root>> = <<c>> \o <<root>>
            BY <5>1
          <5>3. <<c>> \in Seq(Call) /\ <<root>> \in Seq(Call)
            BY <5>1
          <5> QED
            BY <5>1, <5>2, <5>3, ConcatAssociative
        <4> QED
          BY <4>1, <4>2
      <3> QED
        BY <1>8, <2>1, <2>5, <3>1
    <2> QED
      BY <1>12, <2>4, <2>6, <2>7, <2>8, <2>9
  <1>14. /\ at' \in [Place -> Node \cup {Nil}]
         /\ at'[p] = (IF held THEN v ELSE Nil) /\ \A q \in Place : q # p => at'[q] = at[q]
    BY <1>1, <1>2, <1>8, <1>9, <1>10
  <1>15. /\ refcount' \in [Node -> Nat]
         /\ \A m \in Node : /\ refcount'[m] = refcount[m] - (IF m = v /\ v \in Obj THEN 1 ELSE 0)
                            /\ refcount'[m] > 0 <=> refcount[m] > 0
    <2>1. CASE v \in Obj
      <3>1. \A m \in Node : refcount'[m] =
              refcount[m] - (IF m = v THEN 1 ELSE 0) + (IF m = Nil THEN 1 ELSE 0)
        BY <1>8, <2>1 DEF Counted
      <3>2. \A m \in Node : refcount[m] \in Nat /\ m # Nil
        BY <1>9, Places
      <3>3. \A m \in Node : /\ refcount'[m] \in Nat
                            /\ refcount'[m] = refcount[m] - (IF m = v THEN 1 ELSE 0)
                            /\ refcount'[m] > 0 <=> refcount[m] > 0
        BY <1>3, <3>1, <3>2
      <3>4. refcount' = [m \in Node |-> refcount'[m]]
        BY <1>8, <2>1 DEF Counted
      <3> QED
        BY <2>1, <3>3, <3>4
    <2>2. CASE v \notin Obj
      BY <1>8, <1>9, <2>2
    <2> QED
      BY <2>1, <2>2
  <1>16. BufferInv'
    BY <1>5, <1>8, <1>9 DEF BufferInv, Buffered, Roots
  <1>17. Counts'
    <2> SUFFICES ASSUME NEW m \in Node
                 PROVE  refcount'[m] = Cardinality(Refer(at', m)) + Cardinality(KeptBy(todo', m))
      BY DEF Counts, Refer, KeptBy
    <2>1. Cardinality(Refer(at', m)) = Cardinality(Refer(at, m)) - (IF v = m THEN 1 ELSE 0)
                                         + (IF (IF held THEN v ELSE Nil) = m THEN 1 ELSE 0)
      <3>1. PICK f : f = at
        OBVIOUS
      <3>2. PICK g : g = at'
        OBVIOUS
      <3>3. PICK x : x = IF held THEN v ELSE Nil
        OBVIOUS
      <3>4. Moves(f, g, p, x)
        BY <1>14, <3>1, <3>2, <3>3 DEF Moves
      <3> QED
        BY <1>1, <1>2, <3>1, <3>2, <3>3, <3>4, ReferMoves
    <2>2. /\ Cardinality(Refer(at, m)) \in Nat /\ Cardinality(KeptBy(todo, m)) \in Nat
          /\ refcount[m] = Cardinality(Refer(at, m)) + Cardinality(KeptBy(todo, m))
      BY CountsOf
    <2>3. Cardinality(KeptBy(todo', m)) =
            Cardinality(KeptBy(todo, m)) + (IF zv = m /\ ~held THEN 1 ELSE 0)
      BY <1>13
    <2>4. refcount'[m] = refcount[m] - (IF m = v /\ v \in Obj THEN 1 ELSE 0)
      BY <1>15
    <2>5. m # Nil
      BY Places
    <2>6. CASE ~held /\ m = v
      BY <1>6, <2>1, <2>2, <2>3, <2>4, <2>5, <2>6
    <2>7. CASE ~held /\ m # v
      BY <1>6, <2>1, <2>2, <2>3, <2>4, <2>5, <2>7
    <2>8. CASE held
      BY <1>10, <2>1, <2>2, <2>3, <2>4, <2>8
    <2> QED
      BY <2>6, <2>7, <2>8
  <1>18. Alive'
    BY <1>8, <1>9, <1>15 DEF Alive
  <1>19. Kinds'
    <2>1. p \in Handle => p[1] \notin live /\ ~held
      BY <1>2, <1>10, AccessibleLives
    <2> QED
      BY <1>1, <1>2, <1>9, <1>14, <2>1, Places DEF Kinds
  <1>20. Releases'
    <2> SUFFICES ASSUME NEW q \in Place
                 PROVE  q \in Owed(todo') <=> at'[q] # Nil /\ q \notin ScriptPlace /\ q[1] \notin live'
      BY <1>13 DEF Releases
    <2>1. q \in Owed(todo) <=> at[q] # Nil /\ q \notin ScriptPlace /\ q[1] \notin live
      BY <1>9 DEF Releases
    <2>2. CASE q = p /\ ~held
      BY <1>13, <1>14, <2>2
    <2>3. CASE q = p /\ held
      <3>1. p \in ScriptPlace \/ p[1] \in live
        BY <1>2, <1>10, <2>3
      <3> QED
        BY <1>13, <2>3, <3>1
    <2>4. CASE q # p
      BY <1>13, <1>14, <2>1, <2>4
    <2> QED
      BY <2>2, <2>3, <2>4
  <1>21. Assignment'
    <2>1. CASE held
      <3>1. at' = at
        BY <1>8, <2>1
      <3>2. Reach(ScriptRefs)' = Reach(ScriptRefs) /\ Accessible' = Accessible
        BY <3>1 DEF Accessible, ScriptRefs, Reach, Held
      <3>3. Assigning(todo') = {root}
        BY <1>10, <1>13, <2>1
      <3> QED
        BY <1>1, <1>10, <1>11, <1>13, <2>1, <3>1, <3>2, <3>3 DEF Assignment
    <2>2. CASE ~held /\ p \in Owed(todo)
      <3>1. \A q \in Place : q \in ScriptPlace \/ q[1] \in live' => at'[q] = at[q]
        BY <1>2, <1>14, <2>2
      <3>2. Assigning(todo') = Assigning(todo)
        BY <1>13, <2>2
      <3> QED
        BY <1>13, <3>1, <3>2, AccessibleLives, AssignmentKept
    <2>3. CASE ~held /\ p \notin Owed(todo)
      BY <1>13, <2>3 DEF Follows, Assignment
    <2> QED
      BY <2>1, <2>2, <2>3
  <1> QED
    BY <1>8, <1>9, <1>13, <1>14, <1>15, <1>16, <1>17, <1>18, <1>19, <1>20, <1>21, HeapInvIsNext

\* gc_zval_possible_root: whichever way it goes.
LEMMA PossibleRootStep ==
  ASSUME HeapInv, NEW p, NEW w, NEW held, NEW rest, Follows(p, rest), Gets(p, w),
         Writes(p, w, held, rest), at[p] # Nil, refcount[at[p]] > 1,
         possible_root(p, w, held, rest), UNCHANGED <<live, gc_enabled, undefined>>
  PROVE  HeapInv'
  <1>1. PICK n : n = Candidate(at[p])
    OBVIOUS
  <1>2. n \in Container /\ n \in live /\ refcount[n] > 0
    BY <1>1, FollowsPlace, CandidateLives
  <1>3. BufferInv /\ forgotten \subseteq live
    BY HeapInvIs
  <1>4. CASE possible_root_known(p, w, rest)
    <2>1. BufferInv' /\ forgotten' = forgotten /\ Replace(p, w) /\ todo' = rest
      BY <1>3, <1>4 DEF possible_root_known, bufferVars, BufferInv, Buffered, Roots
    <2> QED
      BY <1>3, <2>1, ReplaceStep
  <1>5. CASE possible_root_buffered(p, w, rest)
    <2>1. /\ AddRoot(n) /\ forgotten' = forgotten \ {n} /\ Replace(p, w) /\ todo' = rest
      BY <1>1, <1>5 DEF possible_root_buffered
    <2>2. BufferInv'
      BY <1>2, <1>3, <2>1, AddRootStep
    <2> QED
      BY <1>2, <1>3, <2>1, <2>2, ReplaceStep
  <1>6. CASE possible_root_refused(p, w, rest)
    <2>1. /\ purple' = IF n \in Obj THEN purple \cup {n} ELSE purple
          /\ forgotten' = forgotten \cup {n} /\ Replace(p, w) /\ todo' = rest
          /\ UNCHANGED <<buffered, entries>>
      BY <1>1, <1>6 DEF possible_root_refused
    <2>2. BufferInv'
      BY <1>2, <1>3, <2>1 DEF BufferInv, Buffered, Roots
    <2> QED
      BY <1>2, <1>3, <2>1, <2>2, ReplaceStep
  <1>7. CASE possible_root_collects(p, w, held, rest)
    BY <1>7, CollectsStep
  <1> QED
    BY <1>4, <1>5, <1>6, <1>7 DEF possible_root

\* The candidate is buffered, or turned away, after its collection; the
\* reference kept for it is given back, or the assignment is ended.
LEMMA ResumesStep ==
  ASSUME HeapInv, possible_root_resumes
  PROVE  HeapInv'
  <1>1. PICK s : s = todo
    OBVIOUS
  <1>2. PICK t : t = Head(s)
    OBVIOUS
  <1>3. PICK rest : rest = Tail(s)
    OBVIOUS
  <1>4. /\ s # <<>> /\ t.do = "root"
        /\ at' = IF t.held THEN [at EXCEPT ![t.place] = t.value] ELSE at
        /\ refcount' = Counted(t.zv, t.value)
        /\ UNCHANGED <<purple, buffered, entries>> \/ AddRoot(t.node)
        /\ forgotten \cap live \subseteq forgotten' /\ forgotten' \subseteq live
        /\ t.zv # Nil /\ t.zv \in live /\ refcount'[t.zv] = 0 => t.zv \in forgotten'
        /\ todo' = rest
        /\ UNCHANGED <<live, gc_enabled, undefined>>
    BY <1>1, <1>2, <1>3 DEF possible_root_resumes, Calling
  <1>5. /\ live \subseteq Node /\ at \in [Place -> Node \cup {Nil}]
        /\ refcount \in [Node -> Nat] /\ s \in Seq(Call) /\ forgotten \subseteq live
        /\ gc_enabled \in BOOLEAN /\ undefined \in BOOLEAN
        /\ BufferInv /\ Counts /\ Alive /\ Kinds /\ Releases /\ Assignment
    BY <1>1, HeapInvIs
  <1>6. /\ t \in Call /\ rest \in Seq(Call)
        /\ Owed(s) = (IF t.do = "release" THEN t.places ELSE {}) \cup Owed(rest)
        /\ OwedOnce(s) <=> OwedOnce(rest) /\ (t.do = "release" => t.places \cap Owed(rest) = {})
        /\ Assigning(s) = (IF Assigns(t) THEN {t} ELSE {}) \cup Assigning(rest)
        /\ AssignsLast(s) <=> AssignsLast(rest) /\ (Assigns(t) => rest = <<>>)
        /\ \A n : Cardinality(KeptBy(s, n)) =
                    Cardinality(KeptBy(rest, n)) + (IF Keeps(t, n) THEN 1 ELSE 0)
    BY <1>2, <1>3, <1>4, <1>5, TopCall
  <1>7. /\ t.zv \in Array \cup Zval \cup {Nil} /\ t.node \in Container
        /\ t.place \in Place /\ t.value \in Array \cup Zval \cup {Nil}
        /\ t.held \in BOOLEAN
        /\ ~t.held => t.value = Nil
    <2>1. /\ t \in [do : {"root"}, zv : Array \cup Zval \cup {Nil}, node : Container,
                    held : BOOLEAN, place : Place, value : Array \cup Zval \cup {Nil}]
          /\ t.held \/ t.value = Nil
      BY <1>4, <1>6 DEF Call
    <2> QED
      BY <2>1
  <1>8. (Assigns(t) <=> t.held) /\ \A n : Keeps(t, n) <=> t.zv = n /\ ~t.held
    BY <1>4 DEF Assigns, Keeps
  <1>9. OwedOnce(s) /\ AssignsLast(s)
    BY <1>1, <1>5 DEF Releases, Assignment
  <1>10. /\ Owed(rest) = Owed(todo) /\ OwedOnce(rest) /\ AssignsLast(rest)
         /\ Assigning(rest) \subseteq Assigning(todo)
    BY <1>1, <1>4, <1>6, <1>9
  <1>11. \A n : Cardinality(KeptBy(todo, n)) =
                  Cardinality(KeptBy(rest, n)) + (IF t.zv = n /\ ~t.held THEN 1 ELSE 0)
    BY <1>1, <1>6, <1>8
  <1>12. BufferInv'
    <2>1. CASE UNCHANGED <<purple, buffered, entries>>
      BY <1>5, <2>1 DEF BufferInv, Buffered, Roots
    <2> QED
      BY <1>4, <1>5, <1>7, <2>1, AddRootStep
  <1>13. \A n \in Node : refcount'[n] =
           refcount[n] - (IF n = t.zv THEN 1 ELSE 0) + (IF n = t.value THEN 1 ELSE 0)
    BY <1>4 DEF Counted
  <1>14. ASSUME \A n \in Node : refcount'[n] \in Nat
         PROVE  refcount' \in [Node -> Nat]
    <2>1. refcount' = [n \in Node |-> refcount'[n]]
      BY <1>4 DEF Counted
    <2> QED
      BY <1>14, <2>1
  <1>15. CASE ~t.held
    <2>1. at' = at
      BY <1>4, <1>15
    <2>2. ASSUME NEW n \in Node
          PROVE  /\ refcount'[n] = Cardinality(Refer(at, n)) + Cardinality(KeptBy(rest, n))
                 /\ refcount'[n] \in Nat
                 /\ n # t.zv => refcount'[n] = refcount[n]
                 /\ n = t.zv => n \in live
      <3>1. /\ Cardinality(Refer(at, n)) \in Nat /\ Cardinality(KeptBy(todo, n)) \in Nat
            /\ refcount[n] = Cardinality(Refer(at, n)) + Cardinality(KeptBy(todo, n))
            /\ n \in live <=> refcount[n] > 0 \/ n \in forgotten
        BY CountsOf
      <3>2. n # Nil
        BY Places
      <3>3. Cardinality(KeptBy(rest, n)) \in Nat
        BY <1>6, KeptFinite
      <3>4. Cardinality(KeptBy(todo, n)) =
              Cardinality(KeptBy(rest, n)) + (IF t.zv = n THEN 1 ELSE 0)
        BY <1>11, <1>15
      <3>5. refcount'[n] = refcount[n] - (IF n = t.zv THEN 1 ELSE 0)
        BY <1>5, <1>7, <1>13, <1>15, <3>2
      <3> QED
        BY <3>1, <3>3, <3>4, <3>5
    <2>3. Counts'
      BY <1>4, <2>1, <2>2 DEF Counts, Refer, KeptBy
    <2>4. Alive'
      <3> SUFFICES ASSUME NEW n \in Node
                   PROVE  n \in live <=> refcount'[n] > 0 \/ n \in forgotten'
        BY <1>4 DEF Alive
      <3>1. CASE n = t.zv
        <4>1. n \in live /\ n # Nil /\ refcount'[n] \in Nat
          BY <2>2, <3>1, Places
        <4> QED
          BY <1>4, <3>1, <4>1
      <3>2. CASE n # t.zv
        BY <1>4, <1>5, <2>2, <3>2 DEF Alive
      <3> QED
        BY <3>1, <3>2
    <2>5. Kinds' /\ Releases'
      BY <1>4, <1>5, <1>10, <2>1 DEF Kinds, Releases
    <2>6. Assignment'
      BY <1>4, <1>10, <2>1, AccessibleLives, AssignmentKept
    <2> QED
      BY <1>4, <1>5, <1>6, <1>12, <1>14, <2>1, <2>2, <2>3, <2>4, <2>5, <2>6, HeapInvIsNext
  <1>16. CASE t.held
    <2>1. PICK p : p = t.place
      OBVIOUS
    <2>2. PICK w : w = t.value
      OBVIOUS
    <2>3. PICK v : v = t.zv
      OBVIOUS
    <2>4. t \in Assigning(todo) /\ rest = <<>>
      BY <1>1, <1>6, <1>8, <1>9, <1>16
    <2>5. /\ p \in Accessible /\ at[p] = v /\ v \in Array \cup Zval
          /\ w \in Reach(ScriptRefs) \cup {Nil}
      BY <1>5, <2>1, <2>2, <2>3, <2>4 DEF Assignment
    <2>6. /\ p \in Place /\ p \notin Handle /\ (p \in ScriptPlace \/ p[1] \in live)
          /\ w \in Array \cup Zval \cup {Nil} /\ (w # Nil => w \in live)
      BY <1>7, <1>16, <2>2, <2>5, AccessibleLives
    <2>7. /\ v \in Node /\ v # Nil /\ v \in live /\ refcount[v] \in Nat \ {0}
          /\ w \in Node \cup {Nil}
      <3>1. v \in Node /\ v # Nil
        BY <2>5, Places DEF Node, Container
      <3> QED
        BY <2>5, <2>6, <3>1, HeldLives DEF Node, Container
    <2>8. /\ at' \in [Place -> Node \cup {Nil}]
          /\ at'[p] = w /\ \A q \in Place : q # p => at'[q] = at[q]
      BY <1>4, <1>5, <1>16, <2>1, <2>2, <2>6, <2>7
    <2>9. \A n : Cardinality(KeptBy(rest, n)) = Cardinality(KeptBy(todo, n))
      BY <1>6, <1>11, <1>16, KeptFinite
    <2>10. ASSUME NEW n \in Node
           PROVE  /\ refcount'[n] = Cardinality(Refer(at', n)) + Cardinality(KeptBy(rest, n))
                  /\ refcount'[n] \in Nat
                  /\ n # v /\ n # w => refcount'[n] = refcount[n]
                  /\ n = w => refcount'[n] > 0
      <3>1. Cardinality(Refer(at', n)) = Cardinality(Refer(at, n)) - (IF v = n THEN 1 ELSE 0)
                                           + (IF w = n THEN 1 ELSE 0)
        <4>1. PICK f : f = at
          OBVIOUS
        <4>2. PICK g : g = at'
          OBVIOUS
        <4>3. Moves(f, g, p, w)
          BY <2>8, <4>1, <4>2 DEF Moves
        <4>4. f[p] = v /\ p \in Place
          BY <2>5, <2>6, <4>1
        <4>5. Cardinality(Refer(g, n)) =
                Cardinality(Refer(f, n)) - (IF f[p] = n THEN 1 ELSE 0) + (IF w = n THEN 1 ELSE 0)
          BY <4>3, <4>4, ReferMoves
        <4> QED
          BY <4>1, <4>2, <4>4, <4>5
      <3>2. /\ Cardinality(Refer(at, n)) \in Nat /\ Cardinality(KeptBy(todo, n)) \in Nat
            /\ refcount[n] = Cardinality(Refer(at, n)) + Cardinality(KeptBy(todo, n))
        BY CountsOf
      <3>3. refcount'[n] = refcount[n] - (IF n = v THEN 1 ELSE 0) + (IF n = w THEN 1 ELSE 0)
        BY <1>13, <2>2, <2>3
      <3>4. Cardinality(KeptBy(rest, n)) = Cardinality(KeptBy(todo, n))
        BY <2>9
      <3> QED
        BY <2>7, <3>1, <3>2, <3>3, <3>4
    <2>11. Counts'
      BY <1>4, <2>10 DEF Counts, Refer, KeptBy
    <2>12. Alive'
      <3> SUFFICES ASSUME NEW n \in Node
                   PROVE  n \in live <=> refcount'[n] > 0 \/ n \in forgotten'
        BY <1>4 DEF Alive
      <3>1. CASE n = w
        BY <2>6, <2>10, <3>1, Places
      <3>2. CASE n = v /\ n # w
        <4>1. refcount'[n] \in Nat
          BY <2>10
        <4> QED
          BY <1>4, <2>3, <2>7, <3>2, <4>1
      <3>3. CASE n # v /\ n # w
        BY <1>4, <1>5, <2>10, <3>3 DEF Alive
      <3> QED
        BY <3>1, <3>2, <3>3
    <2>13. Kinds'
      BY <1>4, <1>5, <2>6, <2>8, Places DEF Kinds
    <2>14. Releases'
      <3> SUFFICES ASSUME NEW q \in Place
                   PROVE  q \in Owed(todo) <=> at'[q] # Nil /\ q \notin ScriptPlace /\ q[1] \notin live
        BY <1>4, <1>10 DEF Releases
      <3>1. q \in Owed(todo) <=> at[q] # Nil /\ q \notin ScriptPlace /\ q[1] \notin live
        BY <1>5 DEF Releases
      <3> QED
        BY <2>6, <2>8, <3>1
    <2>15. Assignment'
      BY <1>4, <2>4, NoCalls DEF Assignment
    <2> QED
      BY <1>4, <1>5, <1>6, <1>12, <1>14, <2>8, <2>10, <2>11, <2>12, <2>13, <2>14, <2>15,
         HeapInvIsNext
  <1> QED
    BY <1>15, <1>16

\* A call of release.
LEMMA ReleaseStep ==
  ASSUME HeapInv, release
  PROVE  HeapInv'
  <1>1. PICK p \in Head(todo).places : release_last(p, Done(p)) \/ release_shared(p, FALSE, Done(p))
    BY DEF release
  <1>2. Calling("release") /\ UNCHANGED <<gc_enabled, undefined>>
    BY DEF release
  <1>3. PICK rest : rest = Done(p)
    OBVIOUS
  <1>4. Follows(p, rest) /\ p \in Owed(todo)
    <2>1. Follows(p, Done(p)) /\ p \in Owed(todo)
      BY <1>2, FollowsDone
    <2> QED
      BY <1>3, <2>1
  <1>5. at[p] # Nil
    BY <1>4, OwedPlaces
  <1>6. CASE release_last(p, Done(p))
    <2>1. release_last(p, rest)
      BY <1>3, <1>6 DEF release_last
    <2> QED
      BY <1>2, <1>4, <1>5, <2>1, ReleaseLastStep
  <1>7. CASE release_shared(p, FALSE, Done(p))
    <2>1. possible_root(p, Nil, FALSE, rest)
      BY <1>3, <1>7 DEF release_shared, possible_root, possible_root_known, possible_root_buffered,
                        possible_root_refused, possible_root_collects
    <2>2. refcount[at[p]] > 1 /\ live' = live
      BY <1>7 DEF release_shared
    <2>3. Gets(p, Nil) /\ Writes(p, Nil, FALSE, rest)
      BY DEF Gets, Writes
    <2> QED
      BY <1>2, <1>4, <1>5, <2>1, <2>2, <2>3, PossibleRootStep
  <1> QED
    BY <1>1, <1>6, <1>7

-----------------------------------------------------------------------------
(* The script.                                                             *)

\* Between two steps of the script nothing is owed: a node that is not live
\* holds nothing and is not referred to.
LEMMA DeadNode ==
  ASSUME HeapInv, todo = <<>>, NEW n \in Node, n \notin live
  PROVE  /\ refcount[n] = 0
         /\ \A q \in Place : at[q] # n
         /\ \A q \in Place : q[1] = n => at[q] = Nil
  <1>1. refcount[n] \in Nat /\ ~(refcount[n] > 0)
    BY CountsOf, HeapInvIs
  <1>2. refcount[n] = 0
    BY <1>1
  <1>3. \A q \in Place : at[q] # Nil => q \in ScriptPlace \/ q[1] \in live
    BY NoCalls DEF HeapInv, Releases
  <1>4. \A q \in Place : q[1] = n => q \notin ScriptPlace
    BY Places
  <1> QED
    BY <1>2, <1>3, <1>4, CountsOf

LEMMA NewArrayStep ==
  ASSUME HeapInv, todo = <<>>, NEW p \in Accessible, new_array(p)
  PROVE  HeapInv'
  <1>1. PICK a \in New(Array) : /\ live' = live \cup {a}
                                /\ Replace(p, a)
                                /\ purple' = purple \ {a}
                                /\ buffered' = buffered \ {a}
    BY DEF new_array
  <1>2. at[p] = Nil /\ UNCHANGED <<entries, forgotten, todo, gc_enabled, undefined>>
    BY DEF new_array
  <1>3. a \in Array /\ a \in Node /\ a \notin live /\ a # Nil
    BY <1>1, Places DEF New, Node, Container
  <1>4. refcount[a] = 0 /\ \A q \in Place : q[1] = a => at[q] = Nil
    BY <1>3, DeadNode
  <1>5. p \in Place /\ p \notin Handle /\ (p \in ScriptPlace \/ p[1] \in live)
    BY AccessibleLives
  <1>6. at' = [at EXCEPT ![p] = a] /\ refcount' = Counted(Nil, a)
    BY <1>1, <1>2 DEF Replace
  <1>7. /\ live \subseteq Node /\ at \in [Place -> Node \cup {Nil}]
        /\ refcount \in [Node -> Nat] /\ todo \in Seq(Call) /\ forgotten \subseteq live
        /\ gc_enabled \in BOOLEAN /\ undefined \in BOOLEAN
        /\ BufferInv /\ Counts /\ Alive /\ Kinds /\ Releases /\ Assignment
    BY HeapInvIs
  <1>8. /\ at' \in [Place -> Node \cup {Nil}]
        /\ at'[p] = a /\ \A q \in Place : q # p => at'[q] = at[q]
    BY <1>3, <1>5, <1>6, <1>7
  <1>9. \A n \in Node : refcount[n] \in Nat /\ refcount'[n] = IF n = a THEN 1 ELSE refcount[n]
    <2>1. \A n \in Node : n # Nil /\ refcount[n] \in Nat
      BY <1>7, Places
    <2>2. \A n \in Node : refcount'[n] =
            refcount[n] - (IF n = Nil THEN 1 ELSE 0) + (IF n = a THEN 1 ELSE 0)
      BY <1>6 DEF Counted
    <2> QED
      BY <1>4, <2>1, <2>2
  <1>10. refcount' \in [Node -> Nat]
    <2>1. refcount' = [n \in Node |-> refcount'[n]]
      BY <1>6 DEF Counted
    <2> QED
      BY <1>9, <2>1
  <1>11. Counts'
    <2> SUFFICES ASSUME NEW n \in Node
                 PROVE  refcount'[n] = Cardinality(Refer(at', n)) + Cardinality(KeptBy(todo, n))
      BY <1>2 DEF Counts, Refer, KeptBy
    <2>1. PICK f : f = at
      OBVIOUS
    <2>2. PICK g : g = at'
      OBVIOUS
    <2>3. Moves(f, g, p, a)
      BY <1>8, <2>1, <2>2 DEF Moves
    <2>4. Cardinality(Refer(g, n)) =
            Cardinality(Refer(f, n)) - (IF f[p] = n THEN 1 ELSE 0) + (IF a = n THEN 1 ELSE 0)
      <3>1. p \in Place
        BY <1>5
      <3> QED
        BY <2>3, <3>1, ReferMoves
    <2>5. n # Nil /\ f[p] = Nil
      BY <1>2, <2>1, Places
    <2>6. /\ Cardinality(Refer(at, n)) \in Nat /\ Cardinality(KeptBy(todo, n)) \in Nat
          /\ refcount[n] = Cardinality(Refer(at, n)) + Cardinality(KeptBy(todo, n))
      BY CountsOf
    <2>7. Cardinality(Refer(at', n)) = Cardinality(Refer(at, n)) + (IF a = n THEN 1 ELSE 0)
      BY <2>1, <2>2, <2>3, <2>4, <2>5, <2>6
    <2> QED
      BY <1>4, <1>9, <2>6, <2>7
  <1>12. Alive'
    BY <1>1, <1>2, <1>7, <1>9 DEF Alive
  <1>13. BufferInv'
    BY <1>1, <1>2, <1>7 DEF BufferInv, Buffered, Roots
  <1>14. Kinds'
    BY <1>1, <1>3, <1>5, <1>7, <1>8, Places DEF Kinds
  <1>15. Releases'
    BY <1>1, <1>2, <1>3, <1>4, <1>5, <1>7, <1>8 DEF Releases
  <1>16. Assignment'
    BY <1>2, NoCalls DEF Assignment
  <1> QED
    BY <1>1, <1>2, <1>3, <1>7, <1>8, <1>10, <1>11, <1>12, <1>13, <1>14, <1>15, <1>16,
       HeapInvIsNext

\* An object zval, of an object that is new or not.
LEMMA NewZvalStep ==
  ASSUME HeapInv, todo = <<>>, NEW p \in Accessible, at[p] = Nil,
         NEW z \in Zval, z \notin live, NEW o \in Obj,
         live' = live \cup {z, o},
         at' = [at EXCEPT ![p] = z, ![<<z, "handle">>] = o],
         refcount' = [refcount EXCEPT ![z] = 1, ![o] = refcount[o] + 1],
         BufferInv', UNCHANGED <<forgotten, todo, gc_enabled, undefined>>
  PROVE  HeapInv'
  <1>1. PICK h : h = <<z, "handle">>
    OBVIOUS
  <1>2. /\ z \in Node /\ o \in Node /\ z # o /\ z # Nil /\ o # Nil
        /\ h \in Place /\ h \in Handle /\ h[1] = z /\ h \notin ScriptPlace
    BY <1>1, Places DEF Node, Container
  <1>3. /\ refcount[z] = 0 /\ at[h] = Nil
        /\ \A q \in Place : q[1] = z => at[q] = Nil
        /\ o \notin live => \A q \in Place : q[1] = o => at[q] = Nil
    BY <1>2, DeadNode
  <1>4. p \in Place /\ p \notin Handle /\ (p \in ScriptPlace \/ p[1] \in live) /\ p # h
    BY <1>2, AccessibleLives
  <1>5. /\ live \subseteq Node /\ at \in [Place -> Node \cup {Nil}]
        /\ refcount \in [Node -> Nat] /\ todo \in Seq(Call) /\ forgotten \subseteq live
        /\ gc_enabled \in BOOLEAN /\ undefined \in BOOLEAN
        /\ BufferInv /\ Counts /\ Alive /\ Kinds /\ Releases /\ Assignment
    BY HeapInvIs
  <1>6. /\ at' \in [Place -> Node \cup {Nil}]
        /\ at'[p] = z /\ at'[h] = o /\ \A q \in Place : q # p /\ q # h => at'[q] = at[q]
    BY <1>1, <1>2, <1>4, <1>5
  <1>7. /\ refcount' \in [Node -> Nat]
        /\ \A n \in Node : refcount'[n] = refcount[n] + (IF n = z \/ n = o THEN 1 ELSE 0)
    BY <1>2, <1>3, <1>5
  <1>8. Counts'
    <2> SUFFICES ASSUME NEW n \in Node
                 PROVE  refcount'[n] = Cardinality(Refer(at', n)) + Cardinality(KeptBy(todo, n))
      BY DEF Counts, Refer, KeptBy
    <2>1. PICK f : f = at
      OBVIOUS
    <2>2. PICK g : g = [f EXCEPT ![p] = z]
      OBVIOUS
    <2>3. PICK k : k = at'
      OBVIOUS
    <2>4. p \in Place /\ h \in Place
      BY <1>2, <1>4
    <2>5. Cardinality(Refer(g, n)) =
            Cardinality(Refer(f, n)) - (IF f[p] = n THEN 1 ELSE 0) + (IF z = n THEN 1 ELSE 0)
      <3>1. Moves(f, g, p, z)
        BY <1>4, <1>5, <2>1, <2>2 DEF Moves
      <3> QED
        BY <2>4, <3>1, ReferMoves
    <2>6. Cardinality(Refer(k, n)) =
            Cardinality(Refer(g, n)) - (IF g[h] = n THEN 1 ELSE 0) + (IF o = n THEN 1 ELSE 0)
      <3>1. Moves(g, k, h, o)
        BY <1>4, <1>5, <1>6, <2>1, <2>2, <2>3 DEF Moves
      <3> QED
        BY <2>4, <3>1, ReferMoves
    <2>7. n # Nil /\ f[p] = Nil /\ g[h] = Nil
      BY <1>3, <1>4, <1>5, <2>1, <2>2, <2>4, Places
    <2>8. /\ Cardinality(Refer(at, n)) \in Nat /\ Cardinality(KeptBy(todo, n)) \in Nat
          /\ refcount[n] = Cardinality(Refer(at, n)) + Cardinality(KeptBy(todo, n))
      BY CountsOf
    <2>9. Cardinality(Refer(f, n)) \in Nat
      BY <2>1, <2>8
    <2>10. Cardinality(Refer(k, n)) = Cardinality(Refer(f, n)) + (IF n = z \/ n = o THEN 1 ELSE 0)
      BY <1>2, <2>5, <2>6, <2>7, <2>9
    <2>11. Cardinality(Refer(at', n)) = Cardinality(Refer(at, n)) + (IF n = z \/ n = o THEN 1 ELSE 0)
      BY <2>1, <2>3, <2>10
    <2> QED
      BY <1>7, <2>8, <2>11
  <1>9. Alive'
    <2> SUFFICES ASSUME NEW n \in Node
                 PROVE  n \in live' <=> refcount'[n] > 0 \/ n \in forgotten
      BY DEF Alive
    <2>1. (n \in live <=> refcount[n] > 0 \/ n \in forgotten) /\ refcount[n] \in Nat
      BY <1>5 DEF Alive
    <2> QED
      BY <1>7, <2>1
  <1>10. Kinds'
    <2>1. \A x \in live' \cap Zval : x # z => x \in live
      BY Places
    <2>2. \A x \in Zval : <<x, "handle">> \in Handle /\ <<x, "handle">> \in Place
      BY Places
    <2>3. \A q \in Handle : at'[q] \in Obj \cup {Nil}
      BY <1>2, <1>4, <1>5, <1>6, Places DEF Kinds
    <2>4. \A q \in Place \ Handle : at'[q] \in Array \cup Zval \cup {Nil}
      BY <1>2, <1>5, <1>6 DEF Kinds
    <2>5. ASSUME NEW x \in live' \cap Zval
          PROVE  at'[<<x, "handle">>] # Nil
      <3>1. CASE x = z
        BY <1>1, <1>2, <1>6, <3>1
      <3>2. CASE x # z
        <4>1. PICK q : q = <<x, "handle">>
          OBVIOUS
        <4>2. q # h /\ q # p /\ q \in Place /\ at[q] # Nil
          BY <1>1, <1>4, <1>5, <2>1, <2>2, <3>2, <4>1 DEF Kinds
        <4> QED
          BY <1>6, <4>1, <4>2
      <3> QED
        BY <3>1, <3>2
    <2> QED
      BY <2>3, <2>4, <2>5 DEF Kinds
  <1>11. Releases'
    <2> SUFFICES ASSUME NEW q \in Place
                 PROVE  q \in Owed(todo) <=> at'[q] # Nil /\ q \notin ScriptPlace /\ q[1] \notin live'
      BY <1>5 DEF Releases
    <2>1. q \in Owed(todo) <=> at[q] # Nil /\ q \notin ScriptPlace /\ q[1] \notin live
      BY <1>5 DEF Releases
    <2>2. q \notin Owed(todo)
      BY NoCalls
    <2>3. CASE q = p
      BY <1>4, <2>2, <2>3
    <2>4. CASE q = h
      BY <1>2, <2>2, <2>4
    <2>5. CASE q # p /\ q # h
      BY <1>6, <2>1, <2>2, <2>5
    <2> QED
      BY <2>3, <2>4, <2>5
  <1>12. Assignment'
    BY NoCalls DEF Assignment
  <1>13. live' \subseteq Node /\ forgotten' \subseteq live'
    BY <1>2, <1>5
  <1> QED
    BY <1>5, <1>6, <1>7, <1>8, <1>9, <1>10, <1>11, <1>12, <1>13, HeapInvIsNext

LEMMA NewObjectStep ==
  ASSUME HeapInv, todo = <<>>, NEW p \in Accessible, new_object(p)
  PROVE  HeapInv'
  <1>1. PICK z \in New(Zval), o \in New(Obj) :
          /\ live' = live \cup {z, o}
          /\ at' = [at EXCEPT ![p] = z, ![<<z, "handle">>] = o]
          /\ refcount' = [refcount EXCEPT ![z] = 1, ![o] = 1]
          /\ purple' = purple \ {o}
          /\ buffered' = buffered \ {o}
    BY DEF new_object
  <1>2. at[p] = Nil /\ UNCHANGED <<entries, forgotten, todo, gc_enabled, undefined>>
    BY DEF new_object
  <1>3. z \in Zval /\ z \notin live /\ o \in Obj /\ o \notin live
    BY <1>1 DEF New
  <1>4. refcount[o] + 1 = 1
    <2>1. refcount[o] = 0
      BY <1>3, DeadNode DEF Node, Container
    <2> QED
      BY <2>1
  <1>5. BufferInv'
    BY <1>1, <1>2, HeapInvIs DEF BufferInv, Buffered, Roots
  <1>6. refcount' = [refcount EXCEPT ![z] = 1, ![o] = refcount[o] + 1]
    BY <1>1, <1>4
  <1> QED
    BY <1>1, <1>2, <1>3, <1>5, <1>6, NewZvalStep

LEMMA CopyObjectStep ==
  ASSUME HeapInv, todo = <<>>, NEW p \in Accessible, NEW q \in Accessible, copy_object(p, q)
  PROVE  HeapInv'
  <1>1. PICK x : x = at[q]
    OBVIOUS
  <1>2. PICK o : o = at[<<x, "handle">>]
    OBVIOUS
  <1>3. PICK z \in New(Zval) :
          /\ live' = live \cup {z}
          /\ at' = [at EXCEPT ![p] = z, ![<<z, "handle">>] = o]
          /\ refcount' = [refcount EXCEPT ![z] = 1, ![o] = @ + 1]
    BY <1>1, <1>2 DEF copy_object
  <1>4. /\ at[p] = Nil /\ x \in Zval /\ z \in Zval /\ z \notin live
        /\ UNCHANGED <<bufferVars, todo, gc_enabled, undefined>>
    BY <1>1, <1>3 DEF copy_object, New
  <1>5. x \in live
    <2>1. x # Nil /\ q \in Place
      BY <1>4, AccessibleLives, Places DEF Node
    <2> QED
      BY <1>1, <2>1, HeldLives
  <1>6. o \in Obj /\ o \in live
    <2>1. PICK h : h = <<x, "handle">>
      OBVIOUS
    <2>2. h \in Handle /\ h \in Place /\ at[h] # Nil
      BY <1>4, <1>5, <2>1, Places DEF HeapInv, Kinds
    <2> QED
      BY <1>2, <2>1, <2>2, HeldLives
  <1>7. refcount' = [refcount EXCEPT ![z] = 1, ![o] = refcount[o] + 1]
    <2>1. z # o /\ refcount \in [Node -> Nat] /\ z \in Node /\ o \in Node
      BY <1>4, <1>6, HeapInvIs, Places DEF Node, Container
    <2> QED
      BY <1>3, <2>1
  <1>8. live' = live \cup {z, o}
    BY <1>3, <1>6
  <1>9. BufferInv' /\ UNCHANGED forgotten
    BY <1>4, HeapInvIs DEF bufferVars, BufferInv, Buffered, Roots
  <1> QED
    BY <1>3, <1>4, <1>6, <1>7, <1>8, <1>9, NewZvalStep

\* The old value is released from the local variable, last of all.
LEMMA AssignThenReleaseStep ==
  ASSUME HeapInv, todo = <<>>, NEW p \in Accessible, NEW q \in Accessible,
         assign_then_release(p, q)
  PROVE  HeapInv'
  <1>1. PICK v : v = at[p]
    OBVIOUS
  <1>2. PICK w : w = at[q]
    OBVIOUS
  <1>3. PICK S \in SUBSET Place : S = IF v = Nil THEN {} ELSE {Garbage}
    BY Places
  <1>4. /\ w # Nil
        /\ at' = [at EXCEPT ![p] = w, ![Garbage] = v]
        /\ refcount' = Counted(Nil, w)
        /\ todo' = IF v = Nil THEN <<>> ELSE <<Release({Garbage})>>
        /\ UNCHANGED <<live, bufferVars, gc_enabled, undefined>>
    BY <1>1, <1>2 DEF assign_then_release
  <1>5. /\ p \in Place /\ p \notin Handle /\ (p \in ScriptPlace \/ p[1] \in live)
        /\ p # Garbage /\ q \in Place /\ q \notin Handle
    BY AccessibleLives
  <1>6. /\ Garbage \in Place /\ Garbage \notin Handle /\ Garbage \notin ScriptPlace
        /\ Garbage[1] \notin Node
    BY Places
  <1>7. /\ live \subseteq Node /\ at \in [Place -> Node \cup {Nil}]
        /\ refcount \in [Node -> Nat] /\ todo \in Seq(Call) /\ forgotten \subseteq live
        /\ gc_enabled \in BOOLEAN /\ undefined \in BOOLEAN
        /\ BufferInv /\ Counts /\ Alive /\ Kinds /\ Releases /\ Assignment
    BY HeapInvIs
  <1>8. \A r \in Place : r \in ScriptPlace \/ r[1] \in live \/ at[r] = Nil
    BY NoCalls, <1>7 DEF Releases
  <1>9. at[Garbage] = Nil
    BY <1>6, <1>7, <1>8
  <1>10. /\ w \in Node /\ w \in live /\ refcount[w] \in Nat \ {0} /\ w \in Array \cup Zval
    BY <1>2, <1>4, <1>5, HeldLives
  <1>11. v \in Node \cup {Nil} /\ v \in Array \cup Zval \cup {Nil}
    BY <1>1, <1>5, <1>7 DEF Kinds
  <1>12. /\ at' \in [Place -> Node \cup {Nil}]
         /\ at'[p] = w /\ at'[Garbage] = v
         /\ \A r \in Place : r # p /\ r # Garbage => at'[r] = at[r]
    BY <1>4, <1>5, <1>6, <1>7, <1>10, <1>11
  <1>13. /\ todo' \in Seq(Call) /\ Owed(todo') = S /\ OwedOnce(todo')
         /\ Assigning(todo') = {} /\ AssignsLast(todo')
         /\ \A n : Cardinality(KeptBy(todo', n)) = Cardinality(KeptBy(<<>>, n))
    <2>1. PICK e \in Seq(Call) : e = <<>>
      BY NoCalls
    <2>2. PICK s : s = Push(S, e)
      OBVIOUS
    <2>3. todo' = s
      <3>1. CASE v = Nil
        BY <1>3, <1>4, <2>1, <2>2, <3>1 DEF Push
      <3>2. CASE v # Nil
        <4>1. PICK c : c = Release({Garbage})
          OBVIOUS
        <4>2. <<c>> \o <<>> = <<c>>
          OBVIOUS
        <4>3. S = {Garbage} /\ S # {}
          BY <1>3, <3>2
        <4> QED
          BY <1>4, <2>1, <2>2, <3>2, <4>1, <4>2, <4>3 DEF Push
      <3> QED
        BY <3>1, <3>2
    <2>4. /\ s \in Seq(Call)
          /\ Owed(s) = S \cup Owed(e)
          /\ OwedOnce(s) <=> OwedOnce(e) /\ S \cap Owed(e) = {}
          /\ Assigning(s) = Assigning(e)
          /\ AssignsLast(s) <=> AssignsLast(e)
          /\ \A n : Cardinality(KeptBy(s, n)) = Cardinality(KeptBy(e, n))
      BY <2>2, PushCall
    <2> QED
      BY <2>1, <2>3, <2>4, NoCalls
  <1>14. \A n \in Node : /\ refcount[n] \in Nat
                         /\ refcount'[n] = refcount[n] + (IF n = w THEN 1 ELSE 0)
    <2>1. \A n \in Node : n # Nil /\ refcount[n] \in Nat
      BY <1>7, Places
    <2>2. \A n \in Node : refcount'[n] =
            refcount[n] - (IF n = Nil THEN 1 ELSE 0) + (IF n = w THEN 1 ELSE 0)
      BY <1>4 DEF Counted
    <2> QED
      BY <2>1, <2>2
  <1>15. refcount' \in [Node -> Nat]
    <2>1. refcount' = [n \in Node |-> refcount'[n]]
      BY <1>4 DEF Counted
    <2> QED
      BY <1>14, <2>1
  <1>16. Counts'
    <2> SUFFICES ASSUME NEW n \in Node
                 PROVE  refcount'[n] = Cardinality(Refer(at', n)) + Cardinality(KeptBy(todo', n))
      BY DEF Counts, Refer, KeptBy
    <2>1. PICK f : f = at
      OBVIOUS
    <2>2. PICK g : g = [f EXCEPT ![p] = w]
      OBVIOUS
    <2>3. PICK k : k = at'
      OBVIOUS
    <2>4. Cardinality(Refer(g, n)) =
            Cardinality(Refer(f, n)) - (IF f[p] = n THEN 1 ELSE 0) + (IF w = n THEN 1 ELSE 0)
      <3>1. Moves(f, g, p, w)
        BY <1>5, <1>7, <2>1, <2>2 DEF Moves
      <3> QED
        BY <1>5, <3>1, ReferMoves
    <2>5. Cardinality(Refer(k, n)) =
            Cardinality(Refer(g, n)) - (IF g[Garbage] = n THEN 1 ELSE 0) + (IF v = n THEN 1 ELSE 0)
      <3>1. Moves(g, k, Garbage, v)
        BY <1>5, <1>6, <1>7, <1>12, <2>1, <2>2, <2>3 DEF Moves
      <3> QED
        BY <1>6, <3>1, ReferMoves
    <2>6. n # Nil /\ f[p] = v /\ g[Garbage] = Nil
      BY <1>1, <1>5, <1>6, <1>7, <1>9, <2>1, <2>2, Places
    <2>7. /\ Cardinality(Refer(at, n)) \in Nat /\ Cardinality(KeptBy(todo, n)) \in Nat
          /\ refcount[n] = Cardinality(Refer(at, n)) + Cardinality(KeptBy(todo, n))
      BY CountsOf
    <2>8. Cardinality(Refer(f, n)) \in Nat
      BY <2>1, <2>7
    <2>9. Cardinality(Refer(k, n)) = Cardinality(Refer(f, n)) + (IF w = n THEN 1 ELSE 0)
      BY <2>4, <2>5, <2>6, <2>8
    <2>10. Cardinality(Refer(at', n)) = Cardinality(Refer(at, n)) + (IF w = n THEN 1 ELSE 0)
      BY <2>1, <2>3, <2>9
    <2>11. Cardinality(KeptBy(todo', n)) = Cardinality(KeptBy(todo, n))
      BY <1>13
    <2> QED
      BY <1>14, <2>7, <2>10, <2>11
  <1>17. Alive'
    <2> SUFFICES ASSUME NEW n \in Node
                 PROVE  n \in live <=> refcount'[n] > 0 \/ n \in forgotten
      BY <1>4 DEF Alive, bufferVars
    <2>1. n \in live <=> refcount[n] > 0 \/ n \in forgotten
      BY <1>7 DEF Alive
    <2> QED
      BY <1>10, <1>14, <2>1
  <1>18. BufferInv' /\ forgotten' = forgotten
    BY <1>4, <1>7 DEF bufferVars, BufferInv, Buffered, Roots
  <1>19. Kinds'
    <2>1. \A r \in Handle : r \in Place /\ at'[r] = at[r]
      BY <1>5, <1>6, <1>12, Places
    <2>2. \A r \in Place \ Handle : at'[r] \in Array \cup Zval \cup {Nil}
      BY <1>7, <1>10, <1>11, <1>12 DEF Kinds
    <2> QED
      BY <1>4, <1>7, <2>1, <2>2, Places DEF Kinds
  <1>20. Releases'
    <2> SUFFICES ASSUME NEW r \in Place
                 PROVE  r \in S <=> at'[r] # Nil /\ r \notin ScriptPlace /\ r[1] \notin live
      BY <1>4, <1>13 DEF Releases
    <2>1. r \in ScriptPlace \/ r[1] \in live \/ at[r] = Nil
      BY <1>8
    <2>2. CASE r = p
      BY <1>3, <1>5, <2>2
    <2>3. CASE r = Garbage
      BY <1>3, <1>6, <1>7, <1>12, <2>3
    <2>4. CASE r # p /\ r # Garbage
      BY <1>3, <1>12, <2>1, <2>4
    <2> QED
      BY <2>2, <2>3, <2>4
  <1>21. Assignment'
    BY <1>13 DEF Assignment
  <1> QED
    BY <1>4, <1>7, <1>12, <1>13, <1>15, <1>16, <1>17, <1>18, <1>19, <1>20, <1>21, HeapInvIsNext

LEMMA AssignSplitsStep ==
  ASSUME HeapInv, todo = <<>>, NEW p \in Accessible, NEW q \in Accessible, assign_splits(p, q)
  PROVE  HeapInv'
  <1>1. PICK w : w = at[q]
    OBVIOUS
  <1>2. PICK rest : rest = <<>>
    OBVIOUS
  <1>3. /\ w \in Zval /\ at[p] \in Zval /\ refcount[at[p]] > 1
        /\ UNCHANGED <<live, gc_enabled, undefined>>
    BY <1>1 DEF assign_splits
  <1>4. possible_root(p, w, TRUE, rest)
    BY <1>1, <1>2 DEF assign_splits, possible_root, possible_root_known, possible_root_buffered,
                      possible_root_refused, possible_root_collects
  <1>5. w # Nil /\ at[p] # Nil /\ q \in Place
    BY <1>3, AccessibleLives, Places DEF Node
  <1>6. w \in Reach(ScriptRefs) /\ refcount[w] > 0
    BY <1>1, <1>5, AccessibleLives, HeldLives
  <1>7. Follows(p, rest)
    BY <1>2, FollowsScript
  <1>8. Gets(p, w) /\ Writes(p, w, TRUE, rest)
    BY <1>2, <1>3, <1>6, NoCalls DEF Gets, Writes
  <1> QED
    BY <1>3, <1>4, <1>5, <1>7, <1>8, PossibleRootStep

LEMMA UnsetStep ==
  ASSUME HeapInv, todo = <<>>, NEW p \in Accessible, unset(p)
  PROVE  HeapInv'
  <1>1. PICK rest : rest = <<>>
    OBVIOUS
  <1>2. at[p] # Nil /\ UNCHANGED <<gc_enabled, undefined>>
    BY DEF unset
  <1>3. Follows(p, rest)
    BY <1>1, FollowsScript
  <1>4. CASE release_last(p, <<>>)
    <2>1. release_last(p, rest)
      BY <1>1, <1>4 DEF release_last
    <2> QED
      BY <1>2, <1>3, <2>1, ReleaseLastStep
  <1>5. CASE release_shared(p, FALSE, <<>>)
    <2>1. possible_root(p, Nil, FALSE, rest)
      BY <1>1, <1>5 DEF release_shared, possible_root, possible_root_known, possible_root_buffered,
                        possible_root_refused, possible_root_collects
    <2>2. refcount[at[p]] > 1 /\ live' = live
      BY <1>5 DEF release_shared
    <2>3. Gets(p, Nil) /\ Writes(p, Nil, FALSE, rest)
      BY DEF Gets, Writes
    <2> QED
      BY <1>2, <1>3, <2>1, <2>2, <2>3, PossibleRootStep
  <1> QED
    BY <1>4, <1>5 DEF unset

LEMMA UnsetPropertyStep ==
  ASSUME HeapInv, todo = <<>>, NEW p \in Accessible, zend_std_unset_property(p)
  PROVE  HeapInv'
  <1>1. at[p] # Nil /\ p[1] \in Obj /\ UNCHANGED <<gc_enabled, undefined>>
    BY DEF zend_std_unset_property
  <1>2. CASE release_last(p, <<Unset(p)>>)
    <2>1. PICK rest : rest = <<Unset(p)>>
      OBVIOUS
    <2>2. release_last(p, rest)
      BY <1>2, <2>1 DEF release_last
    <2>3. Follows(p, rest)
      <3>1. Follows(p, <<Unset(p)>>)
        BY FollowsUnset
      <3> QED
        BY <2>1, <3>1
    <2> QED
      BY <1>1, <2>2, <2>3, ReleaseLastStep
  <1>3. CASE release_shared(p, TRUE, <<>>)
    <2>1. PICK rest : rest = <<>>
      OBVIOUS
    <2>2. possible_root(p, Nil, TRUE, rest)
      BY <1>3, <2>1 DEF release_shared, possible_root, possible_root_known, possible_root_buffered,
                        possible_root_refused, possible_root_collects
    <2>3. refcount[at[p]] > 1 /\ live' = live
      BY <1>3 DEF release_shared
    <2>4. Follows(p, rest)
      BY <2>1, FollowsScript
    <2>5. at[p] \in Array \cup Zval
      <3>1. p \in Place /\ p \notin Handle
        BY AccessibleLives
      <3> QED
        BY <1>1, <3>1, HeldLives
    <2>6. Gets(p, Nil) /\ Writes(p, Nil, TRUE, rest)
      BY <2>1, <2>5, NoCalls DEF Gets, Writes
    <2> QED
      BY <1>1, <2>2, <2>3, <2>4, <2>6, PossibleRootStep
  <1> QED
    BY <1>2, <1>3 DEF zend_std_unset_property

-----------------------------------------------------------------------------
(* The collection.                                                         *)

\* rest is what is to be done when a collection, or an unset, is.
After(rest) ==
  /\ rest \in Seq(Call)
  /\ Owed(rest) = Owed(todo) /\ OwedOnce(rest)
  /\ \A n : Cardinality(KeptBy(rest, n)) = Cardinality(KeptBy(todo, n))
  /\ Assigning(rest) = Assigning(todo) /\ AssignsLast(rest)

LEMMA AfterCalls ==
  ASSUME HeapInv
  PROVE  /\ After(todo)
         /\ Calling("collect") \/ Calling("unset") => After(Tail(todo))
  <1>1. PICK s : s = todo
    OBVIOUS
  <1>2. s \in Seq(Call) /\ OwedOnce(s) /\ AssignsLast(s)
    BY <1>1 DEF HeapInv, TypeOK, Releases, Assignment
  <1>3. After(todo)
    BY <1>1, <1>2 DEF After
  <1>4. ASSUME Calling("collect") \/ Calling("unset")
        PROVE  After(Tail(todo))
    <2>1. PICK c : c = Head(s)
      OBVIOUS
    <2>2. PICK t : t = Tail(s)
      OBVIOUS
    <2>3. /\ s # <<>> /\ c.do \in {"collect", "unset"}
          /\ ~Assigns(c) /\ \A n : ~Keeps(c, n)
      BY <1>1, <1>4, <2>1 DEF Calling, Assigns, Keeps
    <2>4. /\ t \in Seq(Call)
          /\ Owed(s) = Owed(t) /\ OwedOnce(t)
          /\ Assigning(s) = Assigning(t) /\ AssignsLast(t)
          /\ \A n : Cardinality(KeptBy(s, n)) = Cardinality(KeptBy(t, n)) + 0
      BY <1>2, <2>1, <2>2, <2>3, TopCall
    <2>5. \A n : Cardinality(KeptBy(t, n)) = Cardinality(KeptBy(s, n))
      BY <2>4, KeptFinite
    <2> QED
      BY <1>1, <2>2, <2>4, <2>5 DEF After
  <1> QED
    BY <1>3, <1>4

\* A step that leaves the heap and the buffer alone.
LEMMA HeapStays ==
  ASSUME HeapInv, UNCHANGED <<heapVars, bufferVars>>, After(todo'),
         gc_enabled' \in BOOLEAN, undefined' \in BOOLEAN
  PROVE  HeapInv'
  <1>1. /\ live \subseteq Node /\ at \in [Place -> Node \cup {Nil}]
        /\ refcount \in [Node -> Nat] /\ forgotten \subseteq live
        /\ BufferInv /\ Counts /\ Alive /\ Kinds /\ Releases /\ Assignment
    BY HeapInvIs
  <1>2. /\ live' = live /\ at' = at /\ refcount' = refcount /\ purple' = purple
        /\ buffered' = buffered /\ entries' = entries /\ forgotten' = forgotten
    BY DEF heapVars, bufferVars
  <1>3. BufferInv' /\ Alive' /\ Kinds'
    BY <1>1, <1>2 DEF BufferInv, Buffered, Roots, Alive, Kinds
  <1>4. Counts'
    <2>1. \A n : Cardinality(KeptBy(todo', n)) = Cardinality(KeptBy(todo, n))
      BY DEF After
    <2> QED
      BY <1>1, <1>2, <2>1 DEF Counts, Refer, KeptBy
  <1>5. Releases'
    BY <1>1, <1>2 DEF After, Releases
  <1>6. Assignment'
    BY <1>2, AccessibleLives, AssignmentKept DEF After
  <1>7. todo' \in Seq(Call)
    BY DEF After
  <1> QED
    BY <1>1, <1>2, <1>3, <1>4, <1>5, <1>6, <1>7, HeapInvIsNext

LEMMA CollectFreedStep ==
  ASSUME HeapInv, NEW rest, After(rest), gc_collect_freed(rest)
  PROVE  HeapInv'
  <1>1. /\ UNCHANGED <<heapVars, bufferVars, gc_enabled>> /\ todo' = rest /\ undefined' = TRUE
    BY DEF gc_collect_freed
  <1>2. After(todo')
    BY <1>1 DEF After
  <1>3. gc_enabled' \in BOOLEAN
    BY <1>1, HeapInvIs
  <1> QED
    BY <1>1, <1>2, <1>3, HeapStays

LEMMA UnsetEndsStep ==
  ASSUME HeapInv, unset_ends
  PROVE  HeapInv'
  <1>1. /\ Calling("unset") /\ todo' = Tail(todo)
        /\ UNCHANGED <<heapVars, bufferVars, gc_enabled, undefined>>
    BY DEF unset_ends
  <1>2. After(todo')
    <2>1. PICK rest : rest = Tail(todo)
      OBVIOUS
    <2>2. After(Tail(todo))
      BY <1>1, AfterCalls
    <2>3. After(rest)
      BY <2>1, <2>2
    <2> QED
      BY <1>1, <2>1, <2>3
  <1>3. gc_enabled' \in BOOLEAN /\ undefined' \in BOOLEAN
    BY <1>1, HeapInvIs
  <1> QED
    BY <1>1, <1>2, <1>3, HeapStays

LEMMA Idling ==
  ASSUME HeapInv, UNCHANGED <<heapVars, bufferVars, todo, undefined>>, gc_enabled' \in BOOLEAN
  PROVE  HeapInv'
  <1>1. After(todo')
    BY AfterCalls
  <1>2. undefined' \in BOOLEAN
    BY HeapInvIs
  <1> QED
    BY <1>1, <1>2, HeapStays

\* The references to n from the members of S are among those that count for it.
From(S, n) == {p \in Place : p[1] \in S /\ at[p] = n}

LEMMA RefsOf ==
  ASSUME HeapInv, NEW S, NEW n \in Node
  PROVE  /\ IsFiniteSet(From(S, n)) /\ Refs(S, n) = Cardinality(From(S, n))
         /\ Refs(S, n) \in Nat /\ Refs(S, n) <= Cardinality(Refer(at, n))
         /\ Refs(S, n) = Cardinality(Refer(at, n)) => From(S, n) = Refer(at, n)
         /\ Cardinality(Refer(at, n) \ From(S, n)) = Cardinality(Refer(at, n)) - Refs(S, n)
  <1> DEFINE from == From(S, n)
  <1>1. n # Nil
    BY Places
  <1>2. {p \in Held(S) : at[p] = n} = from
    BY <1>1 DEF Held, From
  <1>3. Refs(S, n) = Cardinality(from)
    BY <1>2 DEF Refs
  <1>4. PICK X : X = Refer(at, n)
    OBVIOUS
  <1>5. IsFiniteSet(X) /\ from \in SUBSET X
    BY <1>4, ReferFinite DEF Refer, From
  <1>6. X \cap from = from
    BY <1>5
  <1> HIDE DEF from
  <1>7. /\ IsFiniteSet(from) /\ Cardinality(from) <= Cardinality(X)
        /\ Cardinality(X) = Cardinality(from) => X = from
    BY <1>5, FS_Subset
  <1>8. Cardinality(X \ from) = Cardinality(X) - Cardinality(from)
    <2>1. Cardinality(X \ from) = Cardinality(X) - Cardinality(X \cap from)
      BY <1>5, FS_Difference
    <2> QED
      BY <1>6, <2>1
  <1>9. Cardinality(from) \in Nat
    BY <1>7, FS_CardinalityType
  <1> QED
    BY <1>3, <1>4, <1>7, <1>8, <1>9 DEF from

\* What a collection visits, and what of it is garbage.
Collects(grey, white) == grey = Grey /\ white = grey \ Black(grey)

\* Garbage is referred to by garbage only and kept by no call, so that the
\* script does not reach it; and what survives the collection keeps a
\* reference, though those of the garbage zvals are taken away from it.
LEMMA GarbageIs ==
  ASSUME HeapInv, NEW grey, NEW white, Collects(grey, white)
  PROVE  /\ grey \subseteq live
         /\ \A p \in Place : at[p] \in white => p[1] \in white
         /\ \A n \in white : Cardinality(KeptBy(todo, n)) = 0
         /\ Reach(ScriptRefs) \cap white = {}
         /\ \A n \in live \ white : refcount[n] - Refs(white \cap Zval, n) > 0
                                      \/ (n \in forgotten /\ n \notin grey)
  <1>1. PICK R : R = Roots \cap purple \cap live
    OBVIOUS
  <1>2. grey = Reach(R)
    BY <1>1 DEF Collects, Grey
  <1>3. PICK B : B = {n \in grey : refcount[n] > Refs(grey, n)}
    OBVIOUS
  <1>4. PICK black : black = Reach(B)
    OBVIOUS
  <1>5. grey \subseteq live /\ \A p \in Place : p[1] \in grey /\ at[p] # Nil => at[p] \in grey
    BY <1>2, HeldLives, ReachBasics
  <1>6. B \subseteq live /\ B \subseteq grey
    BY <1>3, <1>5
  <1>7. /\ black \subseteq live /\ B \subseteq black
        /\ \A p \in Place : p[1] \in black /\ at[p] # Nil => at[p] \in black
    BY <1>4, <1>6, HeldLives, ReachBasics
  <1>8. white = grey \ black
    BY <1>3, <1>4 DEF Collects, Black
  <1>9. white \subseteq live /\ white \subseteq Node /\ white \subseteq grey
    BY <1>5, <1>8, HeapInvIs
  <1>10. ASSUME NEW n \in white
         PROVE  /\ \A p \in Place : at[p] = n => p[1] \in grey
                /\ Cardinality(KeptBy(todo, n)) = 0
    <2>1. n \in Node /\ n \in grey /\ n \notin B
      BY <1>7, <1>8, <1>9
    <2>2. ~(refcount[n] > Refs(grey, n))
      BY <1>3, <2>1
    <2>3. /\ Refs(grey, n) \in Nat /\ Refs(grey, n) <= Cardinality(Refer(at, n))
          /\ Refs(grey, n) = Cardinality(Refer(at, n)) => From(grey, n) = Refer(at, n)
      BY <2>1, RefsOf
    <2>4. /\ Cardinality(Refer(at, n)) \in Nat /\ Cardinality(KeptBy(todo, n)) \in Nat
          /\ refcount[n] = Cardinality(Refer(at, n)) + Cardinality(KeptBy(todo, n))
      BY <2>1, CountsOf
    <2>5. Cardinality(KeptBy(todo, n)) = 0 /\ Refs(grey, n) = Cardinality(Refer(at, n))
      BY <2>2, <2>3, <2>4
    <2>6. From(grey, n) = Refer(at, n)
      BY <2>3, <2>5
    <2> QED
      BY <2>5, <2>6 DEF From, Refer
  <1>11. ASSUME NEW p \in Place, at[p] \in white
         PROVE  p[1] \in white
    <2>1. p[1] \in grey
      BY <1>10, <1>11
    <2>2. at[p] \notin black /\ at[p] # Nil
      BY <1>8, <1>9, <1>11, Places
    <2> QED
      BY <1>7, <1>8, <2>1, <2>2
  <1>12. Reach(ScriptRefs) \cap white = {}
    <2>1. PICK S : S = ScriptRefs
      OBVIOUS
    <2>2. PICK T \in SUBSET live : T = live \ white
      OBVIOUS
    <2>3. S \subseteq T
      <3> SUFFICES ASSUME NEW n \in S
                   PROVE  n \in live /\ n \notin white
        BY <2>2
      <3>1. PICK p \in ScriptPlace : at[p] = n
        BY <2>1 DEF ScriptRefs
      <3>2. p \in Place /\ p[1] \notin white
        BY <1>9, <3>1, Places
      <3> QED
        BY <1>11, <2>1, <3>1, <3>2, AccessibleLives
    <2>4. Shut(T)
      BY <1>11, <2>2, HeldLives DEF Shut
    <2>5. Reach(S) \subseteq T
      BY <2>3, <2>4, ReachLeast
    <2> QED
      BY <2>1, <2>2, <2>5
  <1>13. ASSUME NEW n \in live \ white
         PROVE  refcount[n] - Refs(white \cap Zval, n) > 0 \/ (n \in forgotten /\ n \notin grey)
    <2>1. n \in Node /\ n # Nil
      BY HeapInvIs, Places
    <2>2. PICK Z : Z = white \cap Zval
      OBVIOUS
    <2>3. PICK from : from = From(Z, n)
      OBVIOUS
    <2>4. /\ Refs(Z, n) = Cardinality(from) /\ Refs(Z, n) \in Nat
          /\ Refs(Z, n) <= Cardinality(Refer(at, n))
          /\ Refs(Z, n) = Cardinality(Refer(at, n)) => from = Refer(at, n)
      BY <2>1, <2>3, RefsOf
    <2>5. /\ Cardinality(Refer(at, n)) \in Nat /\ Cardinality(KeptBy(todo, n)) \in Nat
          /\ refcount[n] = Cardinality(Refer(at, n)) + Cardinality(KeptBy(todo, n))
          /\ n \in live <=> refcount[n] > 0 \/ n \in forgotten
      BY <2>1, CountsOf
    <2>6. CASE n \notin grey
      <3>1. from = {}
        BY <1>5, <1>9, <2>1, <2>2, <2>3, <2>6 DEF From
      <3>2. Refs(Z, n) = 0
        BY <2>4, <3>1, FS_EmptySet
      <3> QED
        BY <2>2, <2>5, <2>6, <3>2
    <2>7. CASE n \in B
      <3>1. refcount[n] > Refs(grey, n)
        BY <1>3, <2>7
      <3>2. Refs(Z, n) <= Refs(grey, n) /\ Refs(grey, n) \in Nat
        <4>1. PICK X : X = From(grey, n)
          OBVIOUS
        <4>2. Refs(grey, n) = Cardinality(X) /\ Refs(grey, n) \in Nat /\ IsFiniteSet(X)
          BY <2>1, <4>1, RefsOf
        <4>3. from \in SUBSET X
          BY <1>9, <2>2, <2>3, <4>1 DEF From
        <4>5. Cardinality(from) <= Cardinality(X)
          BY <4>2, <4>3, FS_Subset
        <4> QED
          BY <2>4, <4>2, <4>5
      <3>3. refcount[n] - Refs(Z, n) > 0
        BY <2>4, <2>5, <3>1, <3>2
      <3> QED
        BY <2>2, <3>3
    <2>8. CASE n \in grey /\ n \notin B
      <3>1. n \in Reach(B)
        BY <1>4, <1>8, <2>8
      <3>2. PICK p \in Place : p[1] \in black /\ at[p] = n
        BY <1>4, <1>6, <2>8, <3>1, HeldLives, ReachBefore
      <3>3. p \in Refer(at, n) /\ p \notin from
        BY <1>8, <2>2, <2>3, <3>2 DEF Refer, From
      <3>4. Refs(Z, n) # Cardinality(Refer(at, n))
        BY <2>4, <3>3
      <3>5. refcount[n] - Refs(Z, n) > 0
        BY <2>4, <2>5, <3>4
      <3> QED
        BY <2>2, <3>5
    <2> QED
      BY <2>6, <2>7, <2>8
  <1> QED
    BY <1>5, <1>8, <1>10, <1>11, <1>12, <1>13

\* The collection.
LEMMA CollectCyclesStep ==
  ASSUME HeapInv, NEW rest, After(rest), gc_collect_cycles(rest)
  PROVE  HeapInv'
  <1>1. PICK grey : grey = Grey
    OBVIOUS
  <1>2. PICK white : white = grey \ Black(grey)
    OBVIOUS
  <1>3. Collects(grey, white)
    BY <1>1, <1>2 DEF Collects
  <1>4. PICK out \in SUBSET Place : out = Outward(white)
    BY DEF Outward, Held
  <1>5. /\ live' = live \ white
        /\ at' = [p \in Place |-> IF p[1] \in white /\ p \notin out THEN Nil ELSE at[p]]
        /\ refcount' = Restored(white)
        /\ purple' = purple \ (grey \cup Roots)
        /\ forgotten' = forgotten \ grey
        /\ buffered' = {}
        /\ entries' = [n \in Container |-> 0]
        /\ todo' = Push(out, rest)
        /\ UNCHANGED <<gc_enabled, undefined>>
    BY <1>1, <1>2, <1>4 DEF gc_collect_cycles
  <1>6. /\ grey \subseteq live
        /\ \A p \in Place : at[p] \in white => p[1] \in white
        /\ \A n \in white : Cardinality(KeptBy(todo, n)) = 0
        /\ Reach(ScriptRefs) \cap white = {}
        /\ \A n \in live \ white : refcount[n] - Refs(white \cap Zval, n) > 0
                                     \/ (n \in forgotten /\ n \notin grey)
    BY <1>3, GarbageIs
  <1>7. /\ live \subseteq Node /\ at \in [Place -> Node \cup {Nil}]
        /\ refcount \in [Node -> Nat] /\ todo \in Seq(Call) /\ forgotten \subseteq live
        /\ gc_enabled \in BOOLEAN /\ undefined \in BOOLEAN
        /\ BufferInv /\ Counts /\ Alive /\ Kinds /\ Releases /\ Assignment
    BY HeapInvIs
  <1>8. white \subseteq live /\ white \subseteq grey /\ white \subseteq Node
    BY <1>2, <1>6, <1>7
  <1>9. \A p \in Place : p \in out <=> p[1] \in white /\ p[1] \in Container
                                         /\ at[p] # Nil /\ at[p] \notin white
    BY <1>4 DEF Outward, Held
  <1>10. \A p \in Place : /\ p[1] \notin white \/ p \in out => at'[p] = at[p]
                          /\ p[1] \in white /\ p \notin out => at'[p] = Nil
    BY <1>5, <1>9
  <1>11. at' \in [Place -> Node \cup {Nil}]
    BY <1>5, <1>7
  <1>12. /\ todo' \in Seq(Call)
         /\ Owed(todo') = out \cup Owed(todo)
         /\ OwedOnce(todo') <=> out \cap Owed(todo) = {}
         /\ Assigning(todo') = Assigning(todo) /\ AssignsLast(todo')
         /\ \A n : Cardinality(KeptBy(todo', n)) = Cardinality(KeptBy(todo, n))
    <2>1. /\ Owed(rest) = Owed(todo) /\ OwedOnce(rest)
          /\ \A n : Cardinality(KeptBy(rest, n)) = Cardinality(KeptBy(todo, n))
          /\ Assigning(rest) = Assigning(todo) /\ AssignsLast(rest)
      BY DEF After
    <2>2. PICK s : s = Push(out, rest)
      OBVIOUS
    <2>3. /\ s \in Seq(Call)
          /\ Owed(s) = out \cup Owed(rest)
          /\ OwedOnce(s) <=> OwedOnce(rest) /\ out \cap Owed(rest) = {}
          /\ Assigning(s) = Assigning(rest) /\ AssignsLast(s) <=> AssignsLast(rest)
          /\ \A n : Cardinality(KeptBy(s, n)) = Cardinality(KeptBy(rest, n))
      <3>1. PICK r \in Seq(Call) : r = rest
        BY DEF After
      <3>2. /\ Push(out, r) \in Seq(Call)
            /\ Owed(Push(out, r)) = out \cup Owed(r)
            /\ OwedOnce(Push(out, r)) <=> OwedOnce(r) /\ out \cap Owed(r) = {}
            /\ Assigning(Push(out, r)) = Assigning(r)
            /\ AssignsLast(Push(out, r)) <=> AssignsLast(r)
            /\ \A n : Cardinality(KeptBy(Push(out, r), n)) = Cardinality(KeptBy(r, n))
        BY PushCall
      <3> QED
        BY <2>2, <3>1, <3>2
    <2>4. todo' = s
      BY <1>5, <2>2
    <2> QED
      BY <2>1, <2>3, <2>4
  <1>13. ASSUME NEW n \in Node
         PROVE  /\ refcount'[n] = Cardinality(Refer(at', n)) + Cardinality(KeptBy(todo', n))
                /\ refcount'[n] \in Nat
                /\ n \in white => refcount'[n] = 0
                /\ n \notin white => refcount'[n] = refcount[n] - Refs(white \cap Zval, n)
    <2>1. /\ Cardinality(Refer(at, n)) \in Nat /\ Cardinality(KeptBy(todo, n)) \in Nat
          /\ refcount[n] = Cardinality(Refer(at, n)) + Cardinality(KeptBy(todo, n))
      BY CountsOf
    <2>2. refcount'[n] = IF n \in white THEN 0 ELSE refcount[n] - Refs(white \cap Zval, n)
      BY <1>5 DEF Restored
    <2>3. Cardinality(KeptBy(todo', n)) = Cardinality(KeptBy(todo, n))
      BY <1>12
    <2>4. n # Nil
      BY Places
    <2>5. CASE n \in white
      <3>1. PICK g : g = at'
        OBVIOUS
      <3>2. \A p \in Place : g[p] # n
        BY <1>6, <1>9, <1>10, <2>4, <2>5, <3>1
      <3>3. Cardinality(Refer(g, n)) = 0
        BY <3>2, ReferFinite
      <3>4. Cardinality(KeptBy(todo, n)) = 0
        BY <1>6, <2>5
      <3> QED
        BY <2>2, <2>3, <2>5, <3>1, <3>3, <3>4
    <2>6. CASE n \notin white
      <3>1. PICK Z : Z = white \cap Zval
        OBVIOUS
      <3>2. PICK from : from = From(Z, n)
        OBVIOUS
      <3>3. /\ Refs(Z, n) \in Nat /\ Refs(Z, n) <= Cardinality(Refer(at, n))
            /\ Cardinality(Refer(at, n) \ from) = Cardinality(Refer(at, n)) - Refs(Z, n)
        BY <3>2, RefsOf
      <3>4. PICK g : g = at'
        OBVIOUS
      <3>5. \A p \in Place : g[p] = n <=> at[p] = n /\ p \notin from
        <4> SUFFICES ASSUME NEW p \in Place
                     PROVE  g[p] = n <=> at[p] = n /\ p \notin from
          OBVIOUS
        <4>1. p \in from <=> p[1] \in white /\ p[1] \in Zval /\ at[p] = n
          BY <3>1, <3>2 DEF From
        <4>2. p[1] \in white => (p[1] \in Container <=> p[1] \notin Zval)
          BY <1>8, Places DEF Node
        <4>3. p \in out <=> p[1] \in white /\ p[1] \in Container /\ at[p] # Nil /\ at[p] \notin white
          BY <1>9
        <4>4. /\ p[1] \notin white \/ p \in out => g[p] = at[p]
              /\ p[1] \in white /\ p \notin out => g[p] = Nil
          BY <1>10, <3>4
        <4> QED
          BY <2>4, <2>6, <4>1, <4>2, <4>3, <4>4
      <3>6. Refer(g, n) = Refer(at, n) \ from
        BY <3>5 DEF Refer
      <3>7. Cardinality(Refer(g, n)) = Cardinality(Refer(at, n)) - Refs(Z, n)
        BY <3>3, <3>6
      <3>8. refcount'[n] = refcount[n] - Refs(Z, n)
        BY <2>2, <2>6, <3>1
      <3>9. refcount'[n] = Cardinality(Refer(g, n)) + Cardinality(KeptBy(todo, n)) /\ refcount'[n] \in Nat
        BY <2>1, <3>3, <3>7, <3>8
      <3> QED
        BY <2>3, <2>6, <3>1, <3>4, <3>8, <3>9
    <2> QED
      BY <2>5, <2>6
  <1>14. refcount' \in [Node -> Nat]
    <2>1. refcount' = [n \in Node |-> refcount'[n]]
      BY <1>5 DEF Restored
    <2> QED
      BY <1>13, <2>1
  <1>15. Counts'
    BY <1>13 DEF Counts, Refer, KeptBy
  <1>16. Alive'
    <2> SUFFICES ASSUME NEW n \in Node
                 PROVE  n \in live' <=> refcount'[n] > 0 \/ n \in forgotten'
      BY DEF Alive
    <2>1. (n \in live <=> refcount[n] > 0 \/ n \in forgotten) /\ refcount[n] \in Nat
      BY <1>7 DEF Alive
    <2>2. CASE n \in white
      BY <1>5, <1>8, <1>13, <2>2
    <2>3. CASE n \notin white
      <3>1. n \in live' <=> n \in live
        BY <1>5, <2>3
      <3>2. Refs(white \cap Zval, n) \in Nat
        <4>1. PICK Z : Z = white \cap Zval
          OBVIOUS
        <4>2. Refs(Z, n) \in Nat
          BY RefsOf
        <4> QED
          BY <4>1, <4>2
      <3>3. refcount'[n] = refcount[n] - Refs(white \cap Zval, n)
        BY <1>13, <2>3
      <3>4. n \in live => refcount'[n] > 0 \/ n \in forgotten'
        BY <1>5, <1>6, <2>3, <3>3
      <3>5. refcount'[n] > 0 => refcount[n] > 0
        BY <2>1, <3>2, <3>3
      <3> QED
        BY <1>5, <2>1, <3>1, <3>4, <3>5
    <2> QED
      BY <2>2, <2>3
  <1>17. BufferInv'
    BY <1>5, <1>7 DEF BufferInv, Buffered, Roots
  <1>18. Kinds'
    <2>1. \A p \in Place : at'[p] = at[p] \/ at'[p] = Nil
      BY <1>10
    <2>2. \A z \in live' \cap Zval : at'[<<z, "handle">>] # Nil
      <3> SUFFICES ASSUME NEW z \in live', z \in Zval
                   PROVE  at'[<<z, "handle">>] # Nil
        OBVIOUS
      <3>1. PICK h : h = <<z, "handle">>
        OBVIOUS
      <3>2. h \in Place /\ h[1] = z /\ z \in live /\ z \notin white
        BY <1>5, <3>1, Places
      <3>3. at[h] # Nil
        BY <1>7, <3>1, <3>2 DEF Kinds
      <3> QED
        BY <1>10, <3>1, <3>2, <3>3
    <2> QED
      BY <1>7, <2>1, <2>2, Places DEF Kinds
  <1>19. Releases'
    <2>1. OwedOnce(todo')
      BY <1>8, <1>9, <1>12, OwedPlaces
    <2>2. ASSUME NEW q \in Place
          PROVE  q \in Owed(todo') <=> at'[q] # Nil /\ q \notin ScriptPlace /\ q[1] \notin live'
      <3>1. q \in Owed(todo) <=> at[q] # Nil /\ q \notin ScriptPlace /\ q[1] \notin live
        BY <1>7 DEF Releases
      <3>2. CASE q[1] \in white
        <4>1. q \notin ScriptPlace /\ q \notin Owed(todo)
          BY <1>8, <3>1, <3>2, Places
        <4> QED
          BY <1>5, <1>9, <1>10, <1>12, <3>2, <4>1
      <3>3. CASE q[1] \notin white
        BY <1>5, <1>9, <1>10, <1>12, <3>1, <3>3
      <3> QED
        BY <3>2, <3>3
    <2> QED
      BY <2>1, <2>2 DEF Releases
  <1>20. Assignment'
    <2>1. \A q \in Place : q \in ScriptPlace \/ q[1] \in live' => at'[q] = at[q]
      BY <1>5, <1>8, <1>10, Places
    <2>2. Reach(ScriptRefs) \subseteq live'
      BY <1>5, <1>6, AccessibleLives
    <2>3. live' \subseteq live
      BY <1>5
    <2> QED
      BY <1>12, <2>1, <2>2, <2>3, AssignmentKept
  <1>21. live' \subseteq Node /\ forgotten' \subseteq live'
    BY <1>5, <1>7, <1>8
  <1> QED
    BY <1>5, <1>7, <1>11, <1>12, <1>14, <1>15, <1>16, <1>17, <1>18, <1>19, <1>20, <1>21,
       HeapInvIsNext

-----------------------------------------------------------------------------
(* The theorems.                                                           *)

LEMMA Start == Init => HeapInv
  <1> SUFFICES ASSUME Init
               PROVE  HeapInv
    OBVIOUS
  <1>1. /\ live = {} /\ at = [p \in Place |-> Nil] /\ refcount = [n \in Node |-> 0]
        /\ purple = {} /\ buffered = {} /\ entries = [n \in Container |-> 0]
        /\ todo = <<>> /\ gc_enabled = TRUE /\ forgotten = {} /\ undefined = FALSE
    BY DEF Init
  <1>2. BufferInv /\ Alive
    BY <1>1 DEF BufferInv, Buffered, Roots, Alive
  <1>3. Kinds
    BY <1>1, Places DEF Kinds
  <1>4. Counts
    <2> SUFFICES ASSUME NEW n \in Node
                 PROVE  refcount[n] = Cardinality(Refer(at, n)) + Cardinality(KeptBy(todo, n))
      BY DEF Counts
    <2>1. PICK f : f = at
      OBVIOUS
    <2>2. \A p \in Place : f[p] # n
      BY <1>1, <2>1, Places
    <2>3. Cardinality(Refer(f, n)) = 0
      BY <2>2, ReferFinite
    <2>4. Cardinality(KeptBy(todo, n)) = 0
      BY <1>1, NoCalls, FS_EmptySet
    <2> QED
      BY <1>1, <2>1, <2>3, <2>4
  <1>5. Releases /\ Assignment
    BY <1>1, NoCalls DEF Releases, Assignment
  <1>6. todo \in Seq(Call)
    BY <1>1, NoCalls
  <1> QED
    BY <1>1, <1>2, <1>3, <1>4, <1>5, <1>6, HeapInvIs

\* Whatever the script, a release or a collection does.
LEMMA HeapInvStep == HeapInv /\ [Next]_vars => HeapInv'
  <1> SUFFICES ASSUME HeapInv, [Next]_vars
               PROVE  HeapInv'
    OBVIOUS
  <1>1. CASE release
    BY <1>1, ReleaseStep
  <1>2. CASE possible_root_resumes
    BY <1>2, ResumesStep
  <1>3. CASE collect
    <2>1. PICK rest : rest = Tail(todo)
      OBVIOUS
    <2>2. After(rest)
      <3>1. After(Tail(todo))
        BY <1>3, AfterCalls DEF collect
      <3> QED
        BY <2>1, <3>1
    <2>3. CASE gc_collect_cycles(Tail(todo))
      <3>1. gc_collect_cycles(rest)
        BY <2>1, <2>3 DEF gc_collect_cycles
      <3> QED
        BY <2>2, <3>1, CollectCyclesStep
    <2>4. CASE gc_collect_freed(Tail(todo))
      <3>1. gc_collect_freed(rest)
        BY <2>1, <2>4 DEF gc_collect_freed
      <3> QED
        BY <2>2, <3>1, CollectFreedStep
    <2> QED
      BY <1>3, <2>3, <2>4 DEF collect
  <1>4. CASE script
    <2>1. todo = <<>>
      BY <1>4 DEF script
    <2>2. PICK rest : rest = <<>>
      OBVIOUS
    <2>3. After(rest)
      <3>1. rest = todo /\ After(todo)
        BY <2>1, <2>2, AfterCalls
      <3> QED
        BY <3>1
    <2>4. CASE \E p \in Accessible :
                 \/ new_array(p) \/ new_object(p) \/ unset(p) \/ zend_std_unset_property(p)
                 \/ \E q \in Accessible :
                      copy_object(p, q) \/ assign_then_release(p, q) \/ assign_splits(p, q)
      <3>1. PICK p \in Accessible :
              \/ new_array(p) \/ new_object(p) \/ unset(p) \/ zend_std_unset_property(p)
              \/ \E q \in Accessible :
                   copy_object(p, q) \/ assign_then_release(p, q) \/ assign_splits(p, q)
        BY <2>4
      <3>2. CASE new_array(p)
        BY <2>1, <3>2, NewArrayStep
      <3>3. CASE new_object(p)
        BY <2>1, <3>3, NewObjectStep
      <3>4. CASE unset(p)
        BY <2>1, <3>4, UnsetStep
      <3>5. CASE zend_std_unset_property(p)
        BY <2>1, <3>5, UnsetPropertyStep
      <3>6. CASE \E q \in Accessible :
                   copy_object(p, q) \/ assign_then_release(p, q) \/ assign_splits(p, q)
        <4>1. PICK q \in Accessible :
                copy_object(p, q) \/ assign_then_release(p, q) \/ assign_splits(p, q)
          BY <3>6
        <4>2. CASE copy_object(p, q)
          BY <2>1, <4>2, CopyObjectStep
        <4>3. CASE assign_then_release(p, q)
          BY <2>1, <4>3, AssignThenReleaseStep
        <4>4. CASE assign_splits(p, q)
          BY <2>1, <4>4, AssignSplitsStep
        <4> QED
          BY <4>1, <4>2, <4>3, <4>4
      <3> QED
        BY <3>1, <3>2, <3>3, <3>4, <3>5, <3>6
    <2>5. CASE gc_collect_cycles(<<>>)
      <3>1. gc_collect_cycles(rest)
        BY <2>2, <2>5 DEF gc_collect_cycles
      <3> QED
        BY <2>3, <3>1, CollectCyclesStep
    <2>6. CASE gc_collect_freed(<<>>)
      <3>1. gc_collect_freed(rest)
        BY <2>2, <2>6 DEF gc_collect_freed
      <3> QED
        BY <2>3, <3>1, CollectFreedStep
    <2>7. CASE set_gc_enabled
      <3>1. gc_enabled' \in BOOLEAN
        BY <2>7 DEF set_gc_enabled
      <3>2. UNCHANGED <<heapVars, bufferVars, todo, undefined>>
        BY <2>7 DEF set_gc_enabled
      <3> QED
        BY <3>1, <3>2, Idling
    <2> QED
      BY <1>4, <2>4, <2>5, <2>6, <2>7 DEF script
  <1>5. CASE unset_ends
    BY <1>5, UnsetEndsStep
  <1>6. CASE Lost \/ UNCHANGED vars
    <2>1. UNCHANGED <<heapVars, bufferVars, todo, undefined>> /\ gc_enabled' = gc_enabled
      BY <1>6 DEF Lost, vars
    <2>2. gc_enabled' \in BOOLEAN
      BY <2>1, HeapInvIs
    <2> QED
      BY <2>1, <2>2, Idling
  <1> QED
    BY <1>1, <1>2, <1>3, <1>4, <1>5, <1>6 DEF Next

\* The inductive invariant: the counts, the buffer's addresses, and what the
\* calls under way owe to the heap: what they have to release, what they keep,
\* and the place they have to write.
THEOREM HeapInvariant == Spec => []HeapInv
  BY Start, HeapInvStep, PTL DEF Spec

\* No reference count is ever negative, though the collector takes counts away
\* and gives them back; every entry removed from the buffer was there.
THEOREM TypeCorrect == Spec => []TypeOK
  <1>1. HeapInv => TypeOK
    BY DEF HeapInv
  <1> QED
    BY <1>1, HeapInvariant, PTL

\* Whatever is collected in the middle of a release, every count is the number
\* of the places that hold the node and of the calls that keep it, and a node is
\* freed when, and only when, the last of them is gone (but see forgotten).  A
\* slot that an unset under way has yet to clear is not among them: it names a
\* freed zval, and of a collection that follows it nothing is claimed.
THEOREM CountsAreExact == Spec => []RefcountsExact
  <1>1. HeapInv => RefcountsExact
    BY DEF HeapInv
  <1> QED
    BY <1>1, HeapInvariant, PTL

-----------------------------------------------------------------------------
(***************************************************************************)
(* That garbage is not lost.                                               *)
(*                                                                         *)
(* An island is a set of live nodes that only its own members refer to and *)
(* that no call keeps.  FoundInv says that on every island there is a      *)
(* candidate: a node whose entry the next collection begins at, one a full *)
(* buffer turned away, or one a call under way is about to buffer.         *)
(***************************************************************************)

\* The calls of s that wait for a collection to buffer their candidate.
Rooting(s) == {s[i] : i \in {j \in DOMAIN s : s[j].do = "root"}}
Waiting == {c.node : c \in Rooting(todo)}

\* Where a collection begins, now or when the calls under way go on.
Known(n) == (n \in Roots /\ n \in purple) \/ n \in forgotten \/ n \in Waiting

Island(U) ==
  /\ U \subseteq live
  /\ \A p \in Place : at[p] \in U => p[1] \in U
  /\ \A c \in Rooting(todo) : ~c.held => c.zv \notin U

Found == \A U : Island(U) /\ (\A n \in U : ~Known(n)) => U = {}

\* A container has the colour of a candidate only if it is one.
PurpleKnown == \A n \in live \cap purple : Known(n)

\* What a call is about to buffer is still the candidate of its zval.
WaitingIs == \A c \in Rooting(todo) : c.zv # Nil => c.node = Candidate(c.zv)

FoundInv == Found /\ PurpleKnown /\ WaitingIs

-----------------------------------------------------------------------------
(* The calls that wait.                                                    *)

LEMMA RootingOnTop ==
  ASSUME NEW c \in Call, NEW s \in Seq(Call)
  PROVE  Rooting(<<c>> \o s) = (IF c.do = "root" THEN {c} ELSE {}) \cup Rooting(s)
  <1> DEFINE r == <<c>> \o s
  <1>1. Len(s) \in Nat /\ DOMAIN s = 1 .. Len(s)
    BY LenProperties
  <1>2. /\ r \in Seq(Call) /\ Len(r) = Len(s) + 1
        /\ r[1] = c /\ \A j \in 1 .. Len(s) : r[j + 1] = s[j]
    BY <1>1
  <1> HIDE DEF r
  <1>3. DOMAIN r = 1 .. (Len(s) + 1)
    BY <1>2, LenProperties
  <1>4. /\ 1 \in DOMAIN r /\ \A j \in DOMAIN s : j + 1 \in DOMAIN r
        /\ \A i \in DOMAIN r : i # 1 => i - 1 \in DOMAIN s /\ r[i] = s[i - 1]
    <2>1. \A i \in DOMAIN r : i # 1 => i - 1 \in 1 .. Len(s) /\ (i - 1) + 1 = i
      BY <1>1, <1>3
    <2> QED
      BY <1>1, <1>2, <1>3, <2>1
  <1>5. ASSUME NEW d \in Rooting(r)
        PROVE  d \in (IF c.do = "root" THEN {c} ELSE {}) \cup Rooting(s)
    <2>1. PICK i \in DOMAIN r : r[i].do = "root" /\ d = r[i]
      BY DEF Rooting
    <2>2. CASE i = 1
      BY <1>2, <2>1, <2>2
    <2>3. CASE i # 1
      BY <1>4, <2>1, <2>3 DEF Rooting
    <2> QED
      BY <2>2, <2>3
  <1>6. ASSUME NEW d \in Rooting(s) PROVE d \in Rooting(r)
    <2>1. PICK i \in DOMAIN s : s[i].do = "root" /\ d = s[i]
      BY DEF Rooting
    <2>2. i + 1 \in DOMAIN r /\ r[i + 1] = s[i]
      BY <1>1, <1>2, <1>4
    <2> QED
      BY <2>1, <2>2 DEF Rooting
  <1>7. c.do = "root" => c \in Rooting(r)
    BY <1>2, <1>4 DEF Rooting
  <1> QED
    BY <1>5, <1>6, <1>7 DEF r

LEMMA RootingTop ==
  ASSUME NEW s \in Seq(Call), s # <<>>
  PROVE  Rooting(s) = (IF Head(s).do = "root" THEN {Head(s)} ELSE {}) \cup Rooting(Tail(s))
  <1>1. PICK c : c = Head(s)
    OBVIOUS
  <1>2. PICK t : t = Tail(s)
    OBVIOUS
  <1>3. c \in Call /\ t \in Seq(Call) /\ s = <<c>> \o t
    BY <1>1, <1>2, HeadTailProperties
  <1> QED
    BY <1>1, <1>2, <1>3, RootingOnTop

LEMMA RootingPush ==
  ASSUME NEW S \in SUBSET Place, NEW rest \in Seq(Call)
  PROVE  Rooting(Push(S, rest)) = Rooting(rest)
  <1>1. CASE S = {}
    BY <1>1 DEF Push
  <1>2. CASE S # {}
    <2>1. PICK c : c = Release(S)
      OBVIOUS
    <2>2. c \in Call /\ c.do # "root"
      BY <1>2, <2>1 DEF Release, Call
    <2>3. Push(S, rest) = <<c>> \o rest
      BY <1>2, <2>1 DEF Push
    <2> QED
      BY <2>2, <2>3, RootingOnTop
  <1> QED
    BY <1>1, <1>2

\* The calls that wait before a step wait after it.
Same(rest) == rest \in Seq(Call) /\ Rooting(rest) = Rooting(todo)

\* What remains to be done when the innermost call is done with p, or, if it is
\* a collection, is done.
LEMMA SameCalls ==
  ASSUME HeapInv
  PROVE  /\ Same(todo)
         /\ Calling("collect") \/ Calling("unset") => Same(Tail(todo))
         /\ \A p : Calling("release") => Same(Done(p))
  <1>1. PICK s : s = todo
    OBVIOUS
  <1>2. s \in Seq(Call)
    BY <1>1, HeapInvIs
  <1>3. PICK c : c = Head(s)
    OBVIOUS
  <1>4. PICK t : t = Tail(s)
    OBVIOUS
  <1>5. s # <<>> => c \in Call /\ t \in Seq(Call)
    BY <1>2, <1>3, <1>4, HeadTailProperties
  <1>6. s # <<>> /\ c.do # "root" => Rooting(t) = Rooting(s)
    BY <1>2, <1>3, <1>4, RootingTop
  <1>7. Calling("collect") \/ Calling("unset") => Same(Tail(todo))
    BY <1>1, <1>3, <1>4, <1>5, <1>6 DEF Calling, Same
  <1>8. ASSUME NEW p, Calling("release")
        PROVE  Same(Done(p))
    <2>1. s # <<>> /\ c.do = "release"
      BY <1>1, <1>3, <1>8 DEF Calling
    <2>2. PICK S \in SUBSET Place : S = c.places \ {p}
      BY <1>5, <2>1 DEF Call
    <2>3. PICK r : r = Push(S, t)
      OBVIOUS
    <2>4. r \in Seq(Call) /\ Rooting(r) = Rooting(t)
      BY <1>5, <2>1, <2>3, PushCall, RootingPush
    <2>5. r = Done(p)
      BY <1>1, <1>3, <1>4, <2>2, <2>3 DEF Done
    <2> QED
      BY <1>1, <1>6, <2>1, <2>4, <2>5 DEF Same
  <1> QED
    BY <1>1, <1>2, <1>7, <1>8 DEF Same

\* A script that unsets a property waits with nothing.
LEMMA SameUnset ==
  ASSUME HeapInv, todo = <<>>, NEW p \in Place
  PROVE  Same(<<Unset(p)>>)
  <1>1. PICK c : c = Unset(p)
    OBVIOUS
  <1>2. c.do = "unset" /\ c \in [do : {"unset"}, place : Place]
    BY <1>1 DEF Unset
  <1>3. c \in Call
    BY <1>2 DEF Call
  <1>4. PICK r : r = <<c>>
    OBVIOUS
  <1>5. r \in Seq(Call)
    BY <1>3, <1>4
  <1>6. \A i \in DOMAIN r : r[i].do # "root"
    BY <1>2, <1>4
  <1>7. Rooting(r) = {} /\ Rooting(todo) = {}
    BY <1>6 DEF Rooting
  <1> QED
    BY <1>1, <1>4, <1>5, <1>7 DEF Same

-----------------------------------------------------------------------------
(* What a step has to respect.                                             *)

\* What a call waits with lives.
KeptLive == \A c \in Rooting(todo) : c.zv # Nil => c.zv \in live

LEMMA WaitingLives == HeapInv => KeptLive
  <1> SUFFICES ASSUME HeapInv, NEW c \in Rooting(todo), c.zv # Nil
               PROVE  c.zv \in live
    BY DEF KeptLive
  <1>1. PICK s \in Seq(Call) : s = todo
    BY HeapInvIs
  <1>2. PICK i \in DOMAIN s : s[i].do = "root" /\ c = s[i]
    BY <1>1 DEF Rooting
  <1>3. c \in Call /\ c.do = "root"
    BY <1>1, <1>2
  <1>4. c.zv \in Node
    BY <1>3 DEF Call, Node, Container
  <1>5. PICK n \in Node : n = c.zv
    BY <1>4
  <1>6. CASE ~c.held
    <2>1. i \in KeptBy(s, n)
      BY <1>2, <1>3, <1>5, <1>6 DEF KeptBy, Keeps
    <2>2. Cardinality(KeptBy(s, n)) \in Nat /\ Cardinality(KeptBy(s, n)) # 0
      BY <2>1, KeptFinite, FS_EmptySet
    <2> QED
      BY <1>1, <1>5, <2>2, CountsOf
  <1>7. CASE c.held
    <2>1. c \in Assigning(todo)
      BY <1>1, <1>2, <1>7 DEF Assigning, Assigns
    <2>2. at[c.place] = c.zv /\ c.place \in Accessible
      BY <2>1, HeapInvIs DEF Assignment
    <2> QED
      BY <2>2, AccessibleLives, HeldLives
  <1> QED
    BY <1>6, <1>7

\* Nothing of an island but members of X is there before the step, if all that
\* has changed is in X.
LEMMA IslandBefore ==
  ASSUME Found, NEW U, NEW X, U \ X \subseteq live,
         \A q \in Place : at[q] \in U \ X => q[1] \in U \ X,
         \A c \in Rooting(todo) : ~c.held => c.zv \notin U \ X,
         \A n \in U \ X : ~Known(n)
  PROVE  U \subseteq X
  <1>1. PICK V : V = U \ X
    OBVIOUS
  <1>2. Island(V)
    BY <1>1 DEF Island
  <1>3. V = {}
    BY <1>1, <1>2 DEF Found
  <1> QED
    BY <1>1, <1>3

\* The handles that are still there are what they were.
HandlesStay == \A q \in Handle : at'[q] = at[q] \/ at'[q] = Nil

\* What waits with a zval is its candidate when what it was about to buffer is.
LEMMA WaitingAfter ==
  ASSUME HeapInv', WaitingIs, HandlesStay,
         \A c \in Rooting(todo)' : c.zv # Nil => c \in Rooting(todo) \/ c.node = Candidate(c.zv)
  PROVE  WaitingIs'
  <1> SUFFICES ASSUME NEW c \in Rooting(todo)', c.zv # Nil
               PROVE  c.node = Candidate(c.zv)'
    BY DEF WaitingIs
  <1>1. PICK v : v = c.zv
    OBVIOUS
  <1>2. c.node = Candidate(v)
    BY <1>1 DEF WaitingIs
  <1>3. v \in live'
    <2>1. HeapInv' => KeptLive'
      BY WaitingLives, PTL
    <2> QED
      BY <1>1, <2>1 DEF KeptLive
  <1>4. CASE v \in Zval
    <2>1. <<v, "handle">> \in Handle /\ at'[<<v, "handle">>] # Nil
      BY <1>3, <1>4, Places, HeapInvIsNext DEF Kinds
    <2>2. at'[<<v, "handle">>] = at[<<v, "handle">>]
      BY <2>1 DEF HandlesStay
    <2> QED
      BY <1>1, <1>2, <1>4, <2>2 DEF Candidate
  <1>5. CASE v \notin Zval
    BY <1>1, <1>2, <1>5 DEF Candidate
  <1> QED
    BY <1>4, <1>5

\* A step that takes references to v away, and calls that keep v, leaves no
\* island without a candidate if the candidate of v is one.
LEMMA FoundAfter ==
  ASSUME HeapInv', Found, NEW v, live' \subseteq live, HandlesStay,
         \A q \in Place : at[q] \in live' /\ at[q] # v => at'[q] = at[q],
         \A c \in Rooting(todo) : c.zv # v => c \in Rooting(todo)',
         \A n \in live' : n # v /\ Known(n) => Known(n)',
         v \in live' => Known(Candidate(v))'
  PROVE  Found'
  <1> SUFFICES ASSUME NEW U, Island(U)', \A n \in U : ~Known(n)'
               PROVE  U = {}
    BY DEF Found
  <1>1. /\ U \subseteq live'
        /\ \A q \in Place : at'[q] \in U => q[1] \in U
        /\ \A c \in Rooting(todo)' : ~c.held => c.zv \notin U
    BY DEF Island
  <1>2. live' \subseteq Node /\ Kinds'
    BY HeapInvIsNext
  <1>3. ASSUME v \in U
        PROVE  /\ v \in Zval /\ v \in live' /\ <<v, "handle">> \in Handle
               /\ at'[<<v, "handle">>] \in Obj /\ at'[<<v, "handle">>] \notin U
               /\ at[<<v, "handle">>] = at'[<<v, "handle">>]
    <2>1. v \in live' /\ Candidate(v)' \notin U
      BY <1>1, <1>3
    <2>2. v \in Zval
      BY <1>3, <2>1 DEF Candidate
    <2>3. Candidate(v)' = at'[<<v, "handle">>]
      BY <2>2 DEF Candidate
    <2>4. <<v, "handle">> \in Handle /\ at'[<<v, "handle">>] # Nil
      BY <1>2, <2>1, <2>2, Places DEF Kinds
    <2>5. at'[<<v, "handle">>] \in Obj
      BY <1>2, <2>4 DEF Kinds
    <2> QED
      BY <2>1, <2>2, <2>3, <2>4, <2>5 DEF HandlesStay
  <1>4. U \subseteq {v}
    <2>1. U \ {v} \subseteq live
      BY <1>1
    <2>2. ASSUME NEW q \in Place, at[q] \in U \ {v}
          PROVE  q[1] \in U \ {v}
      <3>1. at'[q] = at[q] /\ q[1] \in U
        BY <1>1, <2>2
      <3>2. ASSUME q[1] = v PROVE FALSE
        <4>1. v \in U
          BY <3>1, <3>2
        <4>2. q = <<v, "handle">>
          BY <1>3, <3>2, <4>1, Places
        <4> QED
          BY <1>3, <2>2, <4>1, <4>2
      <3> QED
        BY <3>1, <3>2
    <2>3. \A c \in Rooting(todo) : ~c.held => c.zv \notin U \ {v}
      BY <1>1
    <2>4. \A n \in U \ {v} : ~Known(n)
      BY <1>1
    <2>5. PICK X : X = {v}
      OBVIOUS
    <2>6. U \subseteq X
      BY <2>1, <2>2, <2>3, <2>4, <2>5, IslandBefore
    <2> QED
      BY <2>5, <2>6
  <1>5. ASSUME v \in U PROVE FALSE
    <2>1. v \in Zval /\ v \in live' /\ v \in Node /\ v # Nil
      BY <1>2, <1>3, <1>5, Places
    <2>2. \A q \in Place : at'[q] # v
      <3> SUFFICES ASSUME NEW q \in Place, at'[q] = v
                   PROVE  FALSE
        OBVIOUS
      <3>1. q[1] = v
        BY <1>1, <1>4, <1>5
      <3>2. q = <<v, "handle">>
        BY <2>1, <3>1, Places
      <3> QED
        BY <1>3, <1>5, <2>1, <3>2, Places
    <2>3. PICK f : f = at'
      OBVIOUS
    <2>4. Cardinality(Refer(f, v)) = 0
      BY <2>2, <2>3, ReferFinite
    <2>5. PICK s \in Seq(Call) : s = todo'
      BY HeapInvIsNext
    <2>6. KeptBy(s, v) = {}
      <3> SUFFICES ASSUME NEW i \in KeptBy(s, v)
                   PROVE  FALSE
        OBVIOUS
      <3>1. i \in DOMAIN s /\ s[i].do = "root" /\ s[i].zv = v /\ ~s[i].held
        BY DEF KeptBy, Keeps
      <3>2. s[i] \in Rooting(s)
        BY <3>1 DEF Rooting
      <3>3. Rooting(s) = Rooting(todo)'
        BY <2>5 DEF Rooting
      <3> QED
        BY <1>1, <1>5, <3>1, <3>2, <3>3
    <2>7. Cardinality(KeptBy(s, v)) = 0
      BY <2>6, FS_EmptySet
    <2>8. refcount'[v] = Cardinality(Refer(f, v)) + Cardinality(KeptBy(s, v))
      BY <2>1, <2>3, <2>5, HeapInvIsNext DEF Counts, Refer, KeptBy
    <2>9. refcount'[v] = 0
      BY <2>4, <2>7, <2>8
    <2>10. v \in forgotten'
      BY <2>1, <2>9, HeapInvIsNext DEF Alive
    <2> QED
      BY <1>5, <2>10 DEF Known
  <1> QED
    BY <1>4, <1>5

-----------------------------------------------------------------------------
(* The releases.                                                           *)

\* An entry is added, and it is that of a candidate.
LEMMA KnownGrows ==
  ASSUME BufferInv, NEW n \in Container, AddRoot(n),
         forgotten \ {n} \subseteq forgotten', \A m \in Waiting : m # n => m \in Waiting'
  PROVE  /\ Known(n)' /\ \A m : Known(m) => Known(m)'
         /\ \A m \in purple' : m \in purple \/ m = n
  <1>1. /\ \A m \in Container : entries[m] > 0 => entries'[m] > 0
        /\ entries'[n] > 0
        /\ purple' = purple \cup {n}
    BY DEF BufferInv, AddRoot
  <1>2. \A m : m \in Roots => m \in Roots'
    BY <1>1 DEF Roots, BufferInv
  <1>3. n \in Roots'
    BY <1>1 DEF Roots
  <1> QED
    BY <1>1, <1>2, <1>3 DEF Known

\* The last reference to a node: the node is gone, with its entry.
LEMMA LastKeepsFound ==
  ASSUME HeapInv, HeapInv', FoundInv, NEW p \in Place, NEW rest, Same(rest), at[p] # Nil,
         release_last(p, rest)
  PROVE  FoundInv'
  <1>1. PICK v : v = at[p]
    OBVIOUS
  <1>2. PICK S \in SUBSET Place : S = Held({v})
    BY DEF Held
  <1>3. /\ live' = live \ {v} /\ at' = [at EXCEPT ![p] = Nil] /\ RemoveFromBuffer(v)
        /\ todo' = Push(S, rest)
    BY <1>1, <1>2 DEF release_last, Replace
  <1>4. at \in [Place -> Node \cup {Nil}] /\ BufferInv
    BY HeapInvIs
  <1>5. Rooting(todo)' = Rooting(todo)
    <2>1. PICK r \in Seq(Call) : r = rest
      BY DEF Same
    <2>2. Rooting(Push(S, r)) = Rooting(r)
      BY RootingPush
    <2>3. PICK s : s = Push(S, r)
      OBVIOUS
    <2>4. todo' = s
      BY <1>3, <2>1, <2>3
    <2>5. Rooting(todo)' = Rooting(s)
      BY <2>4 DEF Rooting
    <2> QED
      BY <2>1, <2>2, <2>3, <2>5 DEF Same
  <1>6. \A m \in Container : m # v => entries'[m] = entries[m]
    BY <1>3, <1>4 DEF RemoveFromBuffer, BufferInv
  <1>7. \A n : n # v /\ Known(n) => Known(n)'
    BY <1>3, <1>5, <1>6 DEF Known, Roots, RemoveFromBuffer, Waiting
  <1>8. /\ HandlesStay
        /\ \A q \in Place : at[q] \in live' /\ at[q] # v => at'[q] = at[q]
    BY <1>1, <1>3, <1>4, Places DEF HandlesStay
  <1>9. Found'
    <2>1. v \notin live' /\ live' \subseteq live
      BY <1>3
    <2> QED
      BY <1>5, <1>7, <1>8, <2>1, FoundAfter DEF FoundInv
  <1>10. PurpleKnown'
    <2>1. \A n \in live' \cap purple' : n # v /\ n \in live \cap purple
      BY <1>3 DEF RemoveFromBuffer
    <2> QED
      BY <1>7, <2>1 DEF FoundInv, PurpleKnown
  <1>11. WaitingIs'
    BY <1>5, <1>8, WaitingAfter DEF FoundInv
  <1> QED
    BY <1>9, <1>10, <1>11 DEF FoundInv

\* A shared reference: the candidate is in the buffer already, is added, is
\* turned away, or waits for a collection.
LEMMA SharedKeepsFound ==
  ASSUME HeapInv, HeapInv', FoundInv, NEW p \in Place, NEW w, NEW held \in BOOLEAN, NEW rest,
         Same(rest), at[p] # Nil, w = Nil \/ (w \in Zval /\ p \notin Handle), held \/ w = Nil,
         possible_root(p, w, held, rest), live' = live
  PROVE  FoundInv'
  <1>1. PICK v : v = at[p]
    OBVIOUS
  <1>2. PICK n : n = Candidate(v)
    OBVIOUS
  <1>3. n \in Container /\ n \in live
    BY <1>1, <1>2, CandidateLives
  <1>4. at \in [Place -> Node \cup {Nil}] /\ BufferInv /\ Kinds
    BY HeapInvIs
  <1>5. /\ v \in Node /\ v \in live /\ v # Nil
        /\ p \in Handle => v \in Obj
    BY <1>1, HeldLives
  <1>6. PICK r \in Seq(Call) : r = rest /\ Rooting(r) = Rooting(todo)
    BY DEF Same
  <1>7. /\ \A q \in Place : q # p => at'[q] = at[q]
        /\ at'[p] = w \/ at'[p] = at[p]
    BY <1>4 DEF possible_root, possible_root_known, possible_root_buffered,
                possible_root_refused, possible_root_collects, Replace
  <1>8. /\ HandlesStay
        /\ \A q \in Place : at[q] \in live' /\ at[q] # v => at'[q] = at[q]
    BY <1>1, <1>7, Places DEF HandlesStay
  <1>9. Candidate(v)' = n
    <2>1. CASE v \in Zval
      <3>1. <<v, "handle">> \in Place /\ <<v, "handle">> # p
        BY <1>5, <2>1, Places
      <3> QED
        BY <1>2, <1>7, <2>1, <3>1 DEF Candidate
    <2>2. CASE v \notin Zval
      BY <1>2, <2>2 DEF Candidate
    <2> QED
      BY <2>1, <2>2
  <1>10. /\ \A c \in Rooting(todo) : c \in Rooting(todo)'
         /\ \A c \in Rooting(todo)' : c.zv # Nil => c \in Rooting(todo) \/ c.node = Candidate(c.zv)
         /\ Known(n)' /\ \A m : Known(m) => Known(m)'
         /\ \A m \in purple' : m \in purple \/ m = n
    <2>1. ASSUME todo' = r
          PROVE  Rooting(todo)' = Rooting(todo) /\ Waiting' = Waiting
      <3>1. Rooting(todo)' = Rooting(r)
        BY <2>1 DEF Rooting
      <3> QED
        BY <1>6, <3>1 DEF Waiting
    <2>2. CASE possible_root_known(p, w, rest)
      <3>1. todo' = r /\ UNCHANGED bufferVars /\ n \in purple
        BY <1>1, <1>2, <1>6, <2>2 DEF possible_root_known
      <3>2. Known(n)
        BY <1>3, <3>1 DEF FoundInv, PurpleKnown
      <3> QED
        BY <2>1, <3>1, <3>2 DEF bufferVars, Known, Roots
    <2>3. CASE possible_root_buffered(p, w, rest)
      <3>1. todo' = r /\ AddRoot(n) /\ forgotten' = forgotten \ {n}
        BY <1>1, <1>2, <1>6, <2>3 DEF possible_root_buffered
      <3>2. forgotten \ {n} \subseteq forgotten' /\ \A m \in Waiting : m # n => m \in Waiting'
        BY <2>1, <3>1
      <3> QED
        BY <1>3, <1>4, <2>1, <3>1, <3>2, KnownGrows
    <2>4. CASE possible_root_refused(p, w, rest)
      <3>1. /\ todo' = r /\ forgotten' = forgotten \cup {n} /\ UNCHANGED <<buffered, entries>>
            /\ purple' = IF n \in Obj THEN purple \cup {n} ELSE purple
        BY <1>1, <1>2, <1>6, <2>4 DEF possible_root_refused
      <3> QED
        BY <2>1, <3>1 DEF Known, Roots
    <2>5. CASE possible_root_collects(p, w, held, rest)
      <3>1. PICK zv : zv = IF v \in Obj THEN Nil ELSE v
        OBVIOUS
      <3>2. PICK root : root = [do |-> "root", zv |-> zv, node |-> n,
                                held |-> held, place |-> p, value |-> w]
        OBVIOUS
      <3>3. /\ purple' = purple \cup {n} /\ UNCHANGED <<buffered, entries, forgotten>>
            /\ todo' = <<Collect, root>> \o r
        BY <1>1, <1>2, <1>6, <2>5, <3>1, <3>2 DEF possible_root_collects
      <3>4. zv \in Array \cup Zval \cup {Nil} /\ w \in Array \cup Zval \cup {Nil}
        BY <1>5, <3>1 DEF Node, Container
      <3>5. root \in Call /\ root.do = "root" /\ root.zv = zv /\ root.node = n
        <4>1. /\ root \in [do : {"root"}, zv : Array \cup Zval \cup {Nil}, node : Container,
                           held : BOOLEAN, place : Place, value : Array \cup Zval \cup {Nil}]
              /\ root.held \/ root.value = Nil
          BY <1>3, <3>2, <3>4
        <4> QED
          BY <3>2, <4>1 DEF Call
      <3>6. Rooting(todo)' = {root} \cup Rooting(todo)
        <4>1. PICK s : s = <<root>> \o r
          OBVIOUS
        <4>2. Rooting(s) = {root} \cup Rooting(todo)
          BY <1>6, <3>5, <4>1, RootingOnTop
        <4>3. Collect \in Call /\ Collect.do = "collect"
          BY DEF Collect, Call
        <4>4. PICK c \in Call : c = Collect /\ c.do = "collect"
          BY <4>3
        <4>5. s \in Seq(Call)
          BY <3>5, <4>1
        <4>6. Rooting(<<c>> \o s) = Rooting(s)
          BY <4>4, <4>5, RootingOnTop
        <4>7. PICK t : t = <<c>> \o s
          OBVIOUS
        <4>8. <<Collect, root>> \o r = <<c>> \o s
          BY <3>5, <4>1, <4>4
        <4>9. todo' = t
          BY <3>3, <4>7, <4>8
        <4>10. Rooting(todo)' = Rooting(t)
          BY <4>9 DEF Rooting
        <4> QED
          BY <4>2, <4>6, <4>7, <4>10
      <3>7. n \in Waiting' /\ \A m \in Waiting : m \in Waiting'
        BY <3>5, <3>6 DEF Waiting
      <3>8. zv # Nil => n = Candidate(zv)
        BY <1>2, <3>1
      <3> QED
        BY <3>3, <3>5, <3>6, <3>7, <3>8 DEF Known, Roots
    <2> QED
      BY <2>2, <2>3, <2>4, <2>5 DEF possible_root
  <1>11. Found'
    <2>1. Known(Candidate(v))'
      BY <1>9, <1>10 DEF Known
    <2> QED
      BY <1>8, <1>10, <2>1, FoundAfter DEF FoundInv
  <1>12. PurpleKnown'
    BY <1>10 DEF FoundInv, PurpleKnown
  <1>13. WaitingIs'
    BY <1>8, <1>10, WaitingAfter DEF FoundInv
  <1> QED
    BY <1>11, <1>12, <1>13 DEF FoundInv

\* The candidate is added, or turned away, after its collection.
LEMMA ResumesKeepsFound ==
  ASSUME HeapInv, HeapInv', FoundInv, possible_root_resumes
  PROVE  FoundInv'
  <1>1. PICK s \in Seq(Call) : s = todo
    BY HeapInvIs
  <1>2. PICK t : t = Head(s)
    OBVIOUS
  <1>3. PICK rest : rest = Tail(s)
    OBVIOUS
  <1>4. PICK n : n = t.node
    OBVIOUS
  <1>5. PICK v : v = t.zv
    OBVIOUS
  <1>6. /\ s # <<>> /\ t.do = "root"
        /\ at' = IF t.held THEN [at EXCEPT ![t.place] = t.value] ELSE at
        /\ \/ Full /\ UNCHANGED <<purple, buffered, entries>> /\ {n} \cap live \subseteq forgotten'
           \/ AddRoot(n)
        /\ forgotten \cap live \subseteq forgotten'
        /\ todo' = rest
        /\ live' = live
    BY <1>1, <1>2, <1>3, <1>4 DEF possible_root_resumes, Calling
  <1>7. /\ live \subseteq Node /\ at \in [Place -> Node \cup {Nil}] /\ forgotten \subseteq live
        /\ BufferInv /\ Kinds /\ Assignment
    BY HeapInvIs
  <1>8. t \in Call /\ n \in Container
    BY <1>1, <1>2, <1>4, <1>6, HeadTailProperties DEF Call
  <1>9. Rooting(todo) = {t} \cup Rooting(rest) /\ Rooting(todo)' = Rooting(rest)
    <2>1. Rooting(s) = {t} \cup Rooting(rest)
      BY <1>1, <1>2, <1>3, <1>6, RootingTop
    <2> QED
      BY <1>1, <1>6, <2>1 DEF Rooting
  <1>10. t.held => at[t.place] = v /\ t.place \in Place /\ t.place \notin Handle
    <2>1. t.held => t \in Assigning(todo)
      <3>1. 1 \in DOMAIN s /\ s[1] = t
        BY <1>1, <1>2, <1>6
      <3> QED
        BY <1>1, <1>6, <3>1 DEF Assigning, Assigns
    <2> QED
      BY <1>5, <1>7, <2>1, AccessibleLives DEF Assignment
  <1>11. /\ HandlesStay
         /\ \A q \in Place : at[q] \in live' /\ at[q] # v => at'[q] = at[q]
         /\ \A q \in Handle : at'[q] = at[q]
    BY <1>6, <1>7, <1>10, Places DEF HandlesStay
  <1>12. /\ n \in live => Known(n)'
         /\ \A m \in live : Known(m) => Known(m)'
         /\ \A m \in purple' : m \in purple \/ m = n
    <2>1. \A m \in Waiting : m # n => m \in Waiting'
      BY <1>4, <1>9 DEF Waiting
    <2>2. CASE Full /\ UNCHANGED <<purple, buffered, entries>> /\ {n} \cap live \subseteq forgotten'
      BY <1>6, <2>1, <2>2 DEF Known, Roots
    <2>3. CASE AddRoot(n)
      <3>1. forgotten \ {n} \subseteq forgotten'
        BY <1>6, <1>7
      <3> QED
        BY <1>7, <1>8, <2>1, <2>3, <3>1, KnownGrows
    <2> QED
      BY <1>6, <2>2, <2>3
  <1>13. v \in live => Known(Candidate(v))'
    <2> SUFFICES ASSUME v \in live
                 PROVE  Known(Candidate(v))'
      OBVIOUS
    <2>1. v # Nil
      BY <1>7, Places
    <2>2. n = Candidate(v)
      BY <1>4, <1>5, <1>9, <2>1 DEF FoundInv, WaitingIs
    <2>3. CASE v \in Zval
      <3>1. PICK h \in Handle : h = <<v, "handle">>
        BY <2>3, Places
      <3>2. h \in Place /\ at[h] # Nil /\ n = at[h]
        BY <1>7, <2>2, <2>3, <3>1, Places DEF Candidate, Kinds
      <3>3. n \in live
        BY <3>2, HeldLives
      <3>4. Candidate(v)' = n
        BY <1>11, <2>3, <3>1, <3>2 DEF Candidate
      <3> QED
        BY <1>12, <3>3, <3>4 DEF Known
    <2>4. CASE v \notin Zval
      BY <1>12, <2>2, <2>4 DEF Candidate, Known
    <2> QED
      BY <2>3, <2>4
  <1>14. Found'
    <2>1. \A c \in Rooting(todo) : c.zv # v => c \in Rooting(todo)'
      BY <1>5, <1>9
    <2> QED
      BY <1>6, <1>11, <1>12, <1>13, <2>1, FoundAfter DEF FoundInv
  <1>15. PurpleKnown'
    BY <1>6, <1>12 DEF FoundInv, PurpleKnown
  <1>16. WaitingIs'
    BY <1>9, <1>11, WaitingAfter DEF FoundInv
  <1> QED
    BY <1>14, <1>15, <1>16 DEF FoundInv

-----------------------------------------------------------------------------
(* The collection.                                                         *)

\* A step that leaves the heap, the buffer and what waits alone.
LEMMA FoundStays ==
  ASSUME FoundInv, UNCHANGED <<heapVars, bufferVars>>, Rooting(todo)' = Rooting(todo)
  PROVE  FoundInv'
  <1>1. /\ live' = live /\ at' = at /\ purple' = purple /\ entries' = entries
        /\ forgotten' = forgotten
    BY DEF heapVars, bufferVars
  <1>2. \A n : Known(n)' <=> Known(n)
    BY <1>1 DEF Known, Roots, Waiting
  <1>3. \A U : Island(U)' <=> Island(U)
    BY <1>1 DEF Island
  <1>4. \A n : Candidate(n)' = Candidate(n)
    BY <1>1 DEF Candidate
  <1> QED
    BY <1>1, <1>2, <1>3, <1>4 DEF FoundInv, Found, PurpleKnown, WaitingIs

\* What a collection that visits the grey nodes finds in use is referred to
\* from elsewhere or kept by a call, or hangs on such a node.
LEMMA BlackIs ==
  ASSUME HeapInv, NEW grey, grey \subseteq live, NEW n \in grey, refcount[n] > Refs(grey, n)
  PROVE  \/ \E p \in Place : at[p] = n /\ p[1] \notin grey
         \/ \E c \in Rooting(todo) : ~c.held /\ c.zv = n
  <1> SUFFICES ASSUME \A p \in Place : at[p] = n => p[1] \in grey,
                      \A c \in Rooting(todo) : ~c.held => c.zv # n
               PROVE  FALSE
    OBVIOUS
  <1>1. n \in Node
    BY HeapInvIs
  <1>2. PICK f : f = at
    OBVIOUS
  <1>3. From(grey, n) = Refer(f, n)
    BY <1>2 DEF From, Refer
  <1>4. Refs(grey, n) = Cardinality(Refer(f, n)) /\ Cardinality(Refer(f, n)) \in Nat
    <2>1. PICK X : X = From(grey, n)
      OBVIOUS
    <2>2. Refs(grey, n) = Cardinality(X)
      BY <1>1, <2>1, RefsOf
    <2>3. PICK Y : Y = Refer(f, n)
      OBVIOUS
    <2>4. Cardinality(Y) \in Nat
      BY <2>3, ReferFinite
    <2> QED
      BY <1>3, <2>1, <2>2, <2>3, <2>4
  <1>5. PICK s \in Seq(Call) : s = todo
    BY HeapInvIs
  <1>6. KeptBy(s, n) = {}
    BY <1>5 DEF KeptBy, Keeps, Rooting
  <1>7. Cardinality(KeptBy(s, n)) = 0
    BY <1>6, FS_EmptySet
  <1>8. refcount[n] = Cardinality(Refer(f, n)) + Cardinality(KeptBy(s, n))
    BY <1>1, <1>2, <1>5, CountsOf
  <1> QED
    BY <1>4, <1>7, <1>8

\* A collection frees the garbage it finds and empties the buffer; what it has
\* not visited is as before, and what it has visited is in use.
LEMMA CollectionKeepsFound ==
  ASSUME HeapInv, HeapInv', FoundInv, NEW rest, Same(rest), gc_collect_cycles(rest)
  PROVE  FoundInv'
  <1>1. PICK R : R = Roots \cap purple \cap live
    OBVIOUS
  <1>2. PICK grey : grey = Reach(R)
    OBVIOUS
  <1>3. PICK B : B = {n \in grey : refcount[n] > Refs(grey, n)}
    OBVIOUS
  <1>4. PICK black : black = Reach(B)
    OBVIOUS
  <1>5. PICK white : white = grey \ black
    OBVIOUS
  <1>6. grey = Grey /\ white = grey \ Black(grey)
    <2>1. grey = Grey
      BY <1>1, <1>2 DEF Grey
    <2>2. Black(grey) = Reach(B)
      BY <1>3 DEF Black
    <2> QED
      BY <1>4, <1>5, <2>1, <2>2
  <1>7. PICK out \in SUBSET Place : out = Outward(white)
    BY DEF Outward, Held
  <1>8. /\ live' = live \ white
        /\ at' = [p \in Place |-> IF p[1] \in white /\ p \notin out THEN Nil ELSE at[p]]
        /\ purple' = purple \ (grey \cup Roots)
        /\ forgotten' = forgotten \ grey
        /\ entries' = [n \in Container |-> 0]
        /\ todo' = Push(out, rest)
    BY <1>6, <1>7 DEF gc_collect_cycles
  <1>9. /\ grey \subseteq live /\ R \subseteq grey
        /\ \A p \in Place : p[1] \in grey /\ at[p] # Nil => at[p] \in grey
    BY <1>1, <1>2, HeldLives, ReachBasics
  <1>10. /\ black \subseteq live /\ B \subseteq black /\ B \subseteq live
         /\ \A p \in Place : p[1] \in black /\ at[p] # Nil => at[p] \in black
    <2>1. B \subseteq live
      BY <1>3, <1>9
    <2> QED
      BY <1>4, <2>1, HeldLives, ReachBasics
  <1>11. Rooting(todo)' = Rooting(todo)
    <2>1. PICK r \in Seq(Call) : r = rest
      BY DEF Same
    <2>2. Rooting(Push(out, r)) = Rooting(r)
      BY RootingPush
    <2>3. PICK s : s = Push(out, r)
      OBVIOUS
    <2>4. todo' = s
      BY <1>8, <2>1, <2>3
    <2>5. Rooting(todo)' = Rooting(s)
      BY <2>4 DEF Rooting
    <2> QED
      BY <2>1, <2>2, <2>3, <2>5 DEF Same
  <1>12. \A p \in Place : p[1] \notin white => at'[p] = at[p]
    BY <1>8
  <1>13. \A n \in live : Known(n) => n \in grey \/ Known(n)'
    BY <1>1, <1>8, <1>9, <1>11 DEF Known, Waiting
  <1>14. Found'
    <2> SUFFICES ASSUME NEW U, Island(U)', \A n \in U : ~Known(n)'
                 PROVE  U = {}
      BY DEF Found
    <2>1. /\ U \subseteq live /\ U \cap white = {}
          /\ \A q \in Place : at'[q] \in U => q[1] \in U
          /\ \A c \in Rooting(todo) : ~c.held => c.zv \notin U
      BY <1>8, <1>11 DEF Island
    <2>2. Nil \notin U
      BY <2>1, HeapInvIs, Places
    <2>3. \A q \in Place : at[q] \in U /\ q[1] \notin white => q[1] \in U
      BY <1>12, <2>1
    <2>4. U \subseteq grey
      <3>1. \A q \in Place : at[q] \in U \ grey => q[1] \in U \ grey
        BY <1>5, <1>9, <2>2, <2>3
      <3>2. \A n \in U \ grey : ~Known(n)
        BY <1>13, <2>1
      <3> QED
        BY <2>1, <3>1, <3>2, IslandBefore DEF FoundInv
    <2>5. PICK T \in SUBSET live : T = black \ U
      BY <1>10
    <2>6. B \subseteq T
      <3> SUFFICES ASSUME NEW n \in B
                   PROVE  n \notin U
        BY <1>10, <2>5
      <3>1. n \in grey /\ refcount[n] > Refs(grey, n)
        BY <1>3
      <3>2. CASE \E p \in Place : at[p] = n /\ p[1] \notin grey
        BY <1>5, <2>3, <2>4, <3>2
      <3>3. CASE \E c \in Rooting(todo) : ~c.held /\ c.zv = n
        BY <2>1, <3>3
      <3> QED
        BY <1>9, <3>1, <3>2, <3>3, BlackIs
    <2>7. Shut(T)
      BY <1>5, <1>10, <2>3, <2>5 DEF Shut
    <2>8. black \subseteq T
      BY <1>4, <2>6, <2>7, ReachLeast
    <2> QED
      BY <1>5, <2>1, <2>4, <2>5, <2>8
  <1>15. PurpleKnown'
    BY <1>8, <1>13 DEF FoundInv, PurpleKnown
  <1>16. HandlesStay
    BY <1>8, Places DEF HandlesStay
  <1>17. WaitingIs'
    BY <1>11, <1>16, WaitingAfter DEF FoundInv
  <1> QED
    BY <1>14, <1>15, <1>17 DEF FoundInv

-----------------------------------------------------------------------------
(* The script.                                                             *)

\* What is new is referred to from a place of the script.
LEMMA NewKeepsFound ==
  ASSUME HeapInv, FoundInv, todo = <<>>, todo' = todo, NEW p \in Accessible, NEW N, NEW z \in N,
         N \subseteq Node, N \cap live = {}, live' \subseteq live \cup N,
         \A q \in Place : at[q] # Nil => at'[q] = at[q],
         at'[p] = z, \A n \in N : n = z \/ \E h \in Place : h[1] = z /\ at'[h] = n,
         \A n \in live : Known(n) => Known(n)',
         live' \cap purple' \subseteq live \cap purple
  PROVE  FoundInv'
  <1>1. Rooting(todo)' = {} /\ Rooting(todo) = {}
    BY DEF Rooting
  <1>2. live \subseteq Node /\ Nil \notin Node
    BY HeapInvIs, Places
  <1>3. p \in Place /\ p[1] \notin N
    BY Places, AccessibleLives
  <1>4. \A q \in Place : q[1] \in N => at[q] = Nil
    BY DeadNode
  <1>5. Found'
    <2> SUFFICES ASSUME NEW U, Island(U)', \A n \in U : ~Known(n)'
                 PROVE  U = {}
      BY DEF Found
    <2>1. U \subseteq live' /\ \A q \in Place : at'[q] \in U => q[1] \in U
      BY DEF Island
    <2>2. Nil \notin U
      BY <1>2, <2>1
    <2>3. U \ N \subseteq live
      BY <2>1
    <2>4. \A q \in Place : at[q] \in U \ N => q[1] \in U \ N
      BY <1>4, <2>1, <2>2
    <2>5. \A n \in U \ N : ~Known(n)
      BY <2>3
    <2>6. U \subseteq N
      BY <1>1, <2>3, <2>4, <2>5, IslandBefore DEF FoundInv
    <2>7. z \notin U
      BY <1>3, <2>1, <2>6
    <2> QED
      BY <2>1, <2>6, <2>7
  <1>6. PurpleKnown'
    BY DEF FoundInv, PurpleKnown
  <1>7. WaitingIs'
    BY <1>1 DEF WaitingIs
  <1> QED
    BY <1>5, <1>6, <1>7 DEF FoundInv

LEMMA NewArrayKeepsFound ==
  ASSUME HeapInv, FoundInv, todo = <<>>, NEW p \in Accessible, new_array(p)
  PROVE  FoundInv'
  <1>1. PICK a \in New(Array) : /\ live' = live \cup {a}
                                /\ Replace(p, a)
                                /\ purple' = purple \ {a}
    BY DEF new_array
  <1>2. at[p] = Nil /\ UNCHANGED <<entries, forgotten, todo>>
    BY DEF new_array
  <1>3. a \in Node /\ a \notin live
    BY <1>1 DEF New, Node, Container
  <1>4. p \in Place /\ at \in [Place -> Node \cup {Nil}]
    BY AccessibleLives, HeapInvIs
  <1>5. at'[p] = a /\ \A q \in Place : at[q] # Nil => at'[q] = at[q]
    BY <1>1, <1>2, <1>4 DEF Replace
  <1>6. \A n \in live : Known(n) => Known(n)'
    BY <1>1, <1>2, <1>3 DEF Known, Roots, Waiting, Rooting
  <1>7. PICK N : N = {a}
    OBVIOUS
  <1>8. live' \cap purple' \subseteq live \cap purple
    BY <1>1
  <1>9. /\ a \in N /\ N \subseteq Node /\ N \cap live = {} /\ live' \subseteq live \cup N
        /\ \A n \in N : n = a
    BY <1>1, <1>3, <1>7
  <1> QED
    BY <1>2, <1>5, <1>6, <1>8, <1>9, NewKeepsFound

LEMMA NewObjectKeepsFound ==
  ASSUME HeapInv, FoundInv, todo = <<>>, NEW p \in Accessible, new_object(p)
  PROVE  FoundInv'
  <1>1. PICK z \in New(Zval), o \in New(Obj) :
          /\ live' = live \cup {z, o}
          /\ at' = [at EXCEPT ![p] = z, ![<<z, "handle">>] = o]
          /\ purple' = purple \ {o}
    BY DEF new_object
  <1>2. at[p] = Nil /\ UNCHANGED <<entries, forgotten, todo>>
    BY DEF new_object
  <1>3. z \in Zval /\ z \notin live /\ o \in Obj /\ o \notin live /\ z \in Node /\ o \in Node
    BY <1>1 DEF New, Node, Container
  <1>4. p \in Place /\ at \in [Place -> Node \cup {Nil}] /\ purple \subseteq Container /\ p \notin Handle
    BY AccessibleLives, HeapInvIs DEF BufferInv
  <1>5. PICK h : h = <<z, "handle">>
    OBVIOUS
  <1>6. h \in Place /\ h \in Handle /\ h[1] = z /\ at[h] = Nil
    BY <1>3, <1>5, Places, DeadNode
  <1>7. at'[p] = z /\ at'[h] = o /\ \A q \in Place : at[q] # Nil => at'[q] = at[q]
    BY <1>1, <1>2, <1>4, <1>5, <1>6
  <1>8. \A n \in live : Known(n) => Known(n)'
    BY <1>1, <1>2, <1>3 DEF Known, Roots, Waiting, Rooting
  <1>9. PICK N : N = {z, o}
    OBVIOUS
  <1>10. live' \cap purple' \subseteq live \cap purple
    <2>1. z \notin purple
      BY <1>3, <1>4, Places
    <2> QED
      BY <1>1, <2>1
  <1>11. /\ z \in N /\ N \subseteq Node /\ N \cap live = {} /\ live' \subseteq live \cup N
         /\ \A n \in N : n = z \/ \E g \in Place : g[1] = z /\ at'[g] = n
    BY <1>1, <1>3, <1>6, <1>7, <1>9
  <1> QED
    BY <1>2, <1>7, <1>8, <1>10, <1>11, NewKeepsFound

LEMMA CopyObjectKeepsFound ==
  ASSUME HeapInv, FoundInv, todo = <<>>, NEW p \in Accessible, NEW q \in Accessible,
         copy_object(p, q)
  PROVE  FoundInv'
  <1>1. PICK o : o = at[<<at[q], "handle">>]
    OBVIOUS
  <1>2. PICK z \in New(Zval) :
          /\ live' = live \cup {z}
          /\ at' = [at EXCEPT ![p] = z, ![<<z, "handle">>] = o]
    BY <1>1 DEF copy_object
  <1>3. at[p] = Nil /\ UNCHANGED <<bufferVars, todo>>
    BY DEF copy_object
  <1>4. z \in Zval /\ z \notin live /\ z \in Node
    BY <1>2 DEF New, Node
  <1>5. p \in Place /\ at \in [Place -> Node \cup {Nil}] /\ purple \subseteq Container /\ p \notin Handle
    BY AccessibleLives, HeapInvIs DEF BufferInv
  <1>6. PICK h : h = <<z, "handle">>
    OBVIOUS
  <1>7. h \in Place /\ h \in Handle /\ h[1] = z /\ at[h] = Nil
    BY <1>4, <1>6, Places, DeadNode
  <1>8. at'[p] = z /\ \A r \in Place : at[r] # Nil => at'[r] = at[r]
    BY <1>2, <1>3, <1>5, <1>6, <1>7
  <1>9. \A n \in live : Known(n) => Known(n)'
    BY <1>3 DEF Known, Roots, Waiting, Rooting, bufferVars
  <1>10. PICK N : N = {z}
    OBVIOUS
  <1>11. live' \cap purple' \subseteq live \cap purple
    <2>1. z \notin purple
      BY <1>4, <1>5, Places
    <2> QED
      BY <1>2, <1>3, <2>1 DEF bufferVars
  <1>12. /\ z \in N /\ N \subseteq Node /\ N \cap live = {} /\ live' \subseteq live \cup N
         /\ \A n \in N : n = z
    BY <1>2, <1>4, <1>10
  <1> QED
    BY <1>3, <1>8, <1>9, <1>11, <1>12, NewKeepsFound

\* The old value is held by the local variable until it is released.
LEMMA AssignThenReleaseKeepsFound ==
  ASSUME HeapInv, FoundInv, todo = <<>>, NEW p \in Accessible, NEW q \in Accessible,
         assign_then_release(p, q)
  PROVE  FoundInv'
  <1>1. PICK v : v = at[p]
    OBVIOUS
  <1>2. PICK w : w = at[q]
    OBVIOUS
  <1>3. /\ at' = [at EXCEPT ![p] = w, ![Garbage] = v]
        /\ todo' = IF v = Nil THEN <<>> ELSE <<Release({Garbage})>>
        /\ UNCHANGED <<live, bufferVars>>
    BY <1>1, <1>2 DEF assign_then_release
  <1>4. Rooting(todo) = {} /\ Rooting(todo)' = {}
    <2>1. \A i \in DOMAIN todo' : todo'[i].do # "root"
      BY <1>3 DEF Release
    <2> QED
      BY <2>1 DEF Rooting
  <1>5. /\ p \in Place /\ p # Garbage /\ at \in [Place -> Node \cup {Nil}] /\ live \subseteq Node
        /\ Garbage \in Place /\ Garbage[1] \notin Node /\ Nil \notin Node
    BY AccessibleLives, HeapInvIs, Places
  <1>6. at[Garbage] = Nil
    <2>1. Garbage \notin Owed(todo) /\ Garbage \notin ScriptPlace
      BY NoCalls, Places
    <2>2. Garbage[1] \notin live
      BY <1>5
    <2> QED
      BY <1>5, <2>1, <2>2, HeapInvIs DEF Releases
  <1>7. at'[Garbage] = v /\ \A r \in Place : r # p /\ r # Garbage => at'[r] = at[r]
    BY <1>3, <1>5
  <1>8. \A n : Known(n)' <=> Known(n)
    BY <1>3, <1>4 DEF Known, Roots, Waiting, bufferVars
  <1>9. Found'
    <2> SUFFICES ASSUME NEW U, Island(U)', \A n \in U : ~Known(n)'
                 PROVE  U = {}
      BY DEF Found
    <2>1. U \subseteq live /\ \A r \in Place : at'[r] \in U => r[1] \in U
      BY <1>3 DEF Island
    <2>2. v \notin U /\ Nil \notin U
      BY <1>5, <1>7, <2>1
    <2>3. \A r \in Place : at[r] \in U => r[1] \in U
      BY <1>1, <1>6, <1>7, <2>1, <2>2
    <2>4. Island(U)
      BY <1>4, <2>1, <2>3 DEF Island
    <2> QED
      BY <1>8, <2>4 DEF FoundInv, Found
  <1>10. PurpleKnown' /\ WaitingIs'
    BY <1>3, <1>4, <1>8 DEF FoundInv, PurpleKnown, WaitingIs, bufferVars
  <1> QED
    BY <1>9, <1>10 DEF FoundInv

-----------------------------------------------------------------------------
(* No garbage is lost.                                                     *)

LEMMA FoundStart == Init => FoundInv
  BY DEF Init, FoundInv, Found, Island, PurpleKnown, WaitingIs, Rooting

\* Whatever the script, a release or a collection does.
LEMMA FoundStep == HeapInv /\ HeapInv' /\ FoundInv /\ [Next]_vars => FoundInv'
  <1> SUFFICES ASSUME HeapInv, HeapInv', FoundInv, [Next]_vars
               PROVE  FoundInv'
    OBVIOUS
  <1>1. CASE release
    <2>1. PICK p \in Head(todo).places : release_last(p, Done(p)) \/ release_shared(p, FALSE, Done(p))
      BY <1>1 DEF release
    <2>2. PICK rest : rest = Done(p)
      OBVIOUS
    <2>3. Calling("release")
      BY <1>1 DEF release
    <2>4. Same(rest)
      <3>1. Same(Done(p))
        BY <2>3, SameCalls
      <3> QED
        BY <2>2, <3>1
    <2>5. p \in Place /\ at[p] # Nil
      BY <2>3, FollowsDone, OwedPlaces
    <2>6. CASE release_last(p, Done(p))
      <3>1. release_last(p, rest)
        BY <2>2, <2>6 DEF release_last
      <3> QED
        BY <2>4, <2>5, <3>1, LastKeepsFound
    <2>7. CASE release_shared(p, FALSE, Done(p))
      <3>1. possible_root(p, Nil, FALSE, rest) /\ live' = live
        BY <2>2, <2>7 DEF release_shared, possible_root, possible_root_known,
                          possible_root_buffered, possible_root_refused, possible_root_collects
      <3> QED
        BY <2>4, <2>5, <3>1, SharedKeepsFound
    <2> QED
      BY <2>1, <2>6, <2>7
  <1>2. CASE possible_root_resumes
    BY <1>2, ResumesKeepsFound
  <1>3. CASE collect
    <2>1. PICK rest : rest = Tail(todo)
      OBVIOUS
    <2>2. Same(rest)
      <3>1. Same(Tail(todo))
        BY <1>3, SameCalls DEF collect
      <3> QED
        BY <2>1, <3>1
    <2>3. CASE gc_collect_cycles(Tail(todo))
      <3>1. gc_collect_cycles(rest)
        BY <2>1, <2>3 DEF gc_collect_cycles
      <3> QED
        BY <2>2, <3>1, CollectionKeepsFound
    <2>4. CASE gc_collect_freed(Tail(todo))
      <3>1. UNCHANGED <<heapVars, bufferVars>> /\ todo' = rest
        BY <2>1, <2>4 DEF gc_collect_freed
      <3>2. Rooting(todo)' = Rooting(todo)
        BY <2>2, <3>1 DEF Same, Rooting
      <3> QED
        BY <3>1, <3>2, FoundStays
    <2> QED
      BY <1>3, <2>3, <2>4 DEF collect
  <1>4. CASE script
    <2>1. todo = <<>>
      BY <1>4 DEF script
    <2>2. PICK rest : rest = <<>>
      OBVIOUS
    <2>3. Same(rest)
      <3>1. rest = todo /\ Same(todo)
        BY <2>1, <2>2, SameCalls
      <3> QED
        BY <3>1
    <2>4. CASE \E p \in Accessible :
                 \/ new_array(p) \/ new_object(p) \/ unset(p) \/ zend_std_unset_property(p)
                 \/ \E q \in Accessible :
                      copy_object(p, q) \/ assign_then_release(p, q) \/ assign_splits(p, q)
      <3>1. PICK p \in Accessible :
              \/ new_array(p) \/ new_object(p) \/ unset(p) \/ zend_std_unset_property(p)
              \/ \E q \in Accessible :
                   copy_object(p, q) \/ assign_then_release(p, q) \/ assign_splits(p, q)
        BY <2>4
      <3>2. p \in Place /\ p \notin Handle
        BY AccessibleLives
      <3>3. CASE new_array(p)
        BY <2>1, <3>3, NewArrayKeepsFound
      <3>4. CASE new_object(p)
        BY <2>1, <3>4, NewObjectKeepsFound
      <3>5. CASE unset(p)
        <4>1. at[p] # Nil
          BY <3>5 DEF unset
        <4>2. CASE release_last(p, <<>>)
          <5>1. release_last(p, rest)
            BY <2>2, <4>2 DEF release_last
          <5> QED
            BY <2>3, <3>2, <4>1, <5>1, LastKeepsFound
        <4>3. CASE release_shared(p, FALSE, <<>>)
          <5>1. possible_root(p, Nil, FALSE, rest) /\ live' = live
            BY <2>2, <4>3 DEF release_shared, possible_root, possible_root_known,
                              possible_root_buffered, possible_root_refused, possible_root_collects
          <5> QED
            BY <2>3, <3>2, <4>1, <5>1, SharedKeepsFound
        <4> QED
          BY <3>5, <4>2, <4>3 DEF unset
      <3>6. ASSUME NEW q \in Accessible, copy_object(p, q)
            PROVE  FoundInv'
        BY <2>1, <3>6, CopyObjectKeepsFound
      <3>7. ASSUME NEW q \in Accessible, assign_then_release(p, q)
            PROVE  FoundInv'
        BY <2>1, <3>7, AssignThenReleaseKeepsFound
      <3>8. ASSUME NEW q \in Accessible, assign_splits(p, q)
            PROVE  FoundInv'
        <4>1. PICK w : w = at[q]
          OBVIOUS
        <4>2. w \in Zval /\ at[p] \in Zval /\ live' = live
          BY <3>8, <4>1 DEF assign_splits
        <4>3. possible_root(p, w, TRUE, rest)
          BY <2>2, <3>8, <4>1 DEF assign_splits, possible_root, possible_root_known,
                             possible_root_buffered, possible_root_refused, possible_root_collects
        <4>4. at[p] # Nil
          BY <4>2, Places DEF Node
        <4> QED
          BY <2>3, <3>2, <4>2, <4>3, <4>4, SharedKeepsFound
      <3>9. CASE zend_std_unset_property(p)
        <4>1. at[p] # Nil
          BY <3>9 DEF zend_std_unset_property
        <4>2. CASE release_last(p, <<Unset(p)>>)
          <5>1. PICK ends : ends = <<Unset(p)>>
            OBVIOUS
          <5>2. release_last(p, ends)
            BY <4>2, <5>1 DEF release_last
          <5>3. Same(ends)
            <6>1. Same(<<Unset(p)>>)
              BY <2>1, <3>2, SameUnset
            <6> QED
              BY <5>1, <6>1
          <5> QED
            BY <3>2, <4>1, <5>2, <5>3, LastKeepsFound
        <4>3. CASE release_shared(p, TRUE, <<>>)
          <5>1. possible_root(p, Nil, TRUE, rest) /\ live' = live
            BY <2>2, <4>3 DEF release_shared, possible_root, possible_root_known,
                              possible_root_buffered, possible_root_refused, possible_root_collects
          <5> QED
            BY <2>3, <3>2, <4>1, <5>1, SharedKeepsFound
        <4> QED
          BY <3>9, <4>2, <4>3 DEF zend_std_unset_property
      <3> QED
        BY <3>1, <3>3, <3>4, <3>5, <3>6, <3>7, <3>8, <3>9
    <2>5. CASE gc_collect_cycles(<<>>)
      <3>1. gc_collect_cycles(rest)
        BY <2>2, <2>5 DEF gc_collect_cycles
      <3> QED
        BY <2>3, <3>1, CollectionKeepsFound
    <2>6. CASE gc_collect_freed(<<>>) \/ set_gc_enabled
      <3>1. UNCHANGED <<heapVars, bufferVars, todo>>
        BY <2>1, <2>6 DEF gc_collect_freed, set_gc_enabled
      <3> QED
        BY <3>1, FoundStays DEF Rooting
    <2> QED
      BY <1>4, <2>4, <2>5, <2>6 DEF script
  <1>5. CASE unset_ends
    <2>1. PICK rest : rest = Tail(todo)
      OBVIOUS
    <2>2. Same(rest)
      <3>1. Same(Tail(todo))
        BY <1>5, SameCalls DEF unset_ends
      <3> QED
        BY <2>1, <3>1
    <2>3. UNCHANGED <<heapVars, bufferVars>> /\ todo' = rest
      BY <1>5, <2>1 DEF unset_ends
    <2>4. Rooting(todo)' = Rooting(todo)
      BY <2>2, <2>3 DEF Same, Rooting
    <2> QED
      BY <2>3, <2>4, FoundStays
  <1>6. CASE Lost \/ UNCHANGED vars
    <2>1. UNCHANGED <<heapVars, bufferVars, todo>>
      BY <1>6 DEF Lost, vars
    <2> QED
      BY <2>1, FoundStays DEF Rooting
  <1> QED
    BY <1>1, <1>2, <1>3, <1>4, <1>5, <1>6 DEF Next

\* What is neither in use nor reachable from a candidate is an island.
LEMMA FoundFinds == HeapInv /\ FoundInv => GarbageHasRoot
  <1> SUFFICES ASSUME HeapInv, FoundInv
               PROVE  live \ InUse \subseteq Reach(Candidates \cap live)
    BY DEF GarbageHasRoot
  <1>1. PICK S : S = ScriptRefs \cup ({at[p] : p \in Pending \cup {Garbage}} \ {Nil})
                       \cup {n \in Node : Keeping(n) # {}}
    OBVIOUS
  <1>2. PICK C : C = Candidates \cap live
    OBVIOUS
  <1>3. InUse = Reach(S) /\ Reach(Candidates \cap live) = Reach(C)
    BY <1>1, <1>2 DEF InUse
  <1>4. Pending = Owed(todo)
    BY DEF Pending, Owed
  <1>5. \A n : Keeping(n) # {} <=> \E c \in Rooting(todo) : ~c.held /\ c.zv = n
    BY DEF Keeping, Rooting
  <1>6. S \subseteq live
    <2>1. ScriptRefs \subseteq live
      BY AccessibleLives
    <2>2. \A p \in Pending \cup {Garbage} : p \in Place
      BY <1>4, OwedPlaces, Places
    <2>3. \A p \in Pending \cup {Garbage} : at[p] # Nil => at[p] \in live
      BY <2>2, HeldLives
    <2>4. \A n \in Node : Keeping(n) # {} => n \in live
      BY <1>5, WaitingLives, Places DEF KeptLive
    <2> QED
      BY <1>1, <2>1, <2>3, <2>4
  <1>7. /\ S \subseteq Reach(S) /\ C \subseteq Reach(C)
        /\ \A p \in Place : p[1] \in Reach(S) /\ at[p] # Nil => at[p] \in Reach(S)
        /\ \A p \in Place : p[1] \in Reach(C) /\ at[p] # Nil => at[p] \in Reach(C)
    <2>1. C \subseteq live
      BY <1>2
    <2> QED
      BY <1>6, <2>1, HeldLives, ReachBasics
  <1>8. PICK U : U = live \ (Reach(S) \cup Reach(C))
    OBVIOUS
  <1>9. live \subseteq Node /\ Nil \notin Node
    BY HeapInvIs, Places
  <1>10. ASSUME NEW p \in Place, at[p] \in U
         PROVE  p[1] \in U
    <2>1. at[p] # Nil /\ at[p] \in live
      BY <1>8, <1>9, <1>10
    <2>2. CASE p[1] \in live
      BY <1>7, <1>8, <1>10, <2>1, <2>2
    <2>3. CASE p[1] \notin live
      <3>1. p \in ScriptPlace \/ p \in Pending
        BY <1>4, <2>1, <2>3, HeapInvIs DEF Releases
      <3>2. at[p] \in S
        BY <1>1, <2>1, <3>1 DEF ScriptRefs
      <3> QED
        BY <1>7, <1>8, <1>10, <3>2
    <2> QED
      BY <2>2, <2>3
  <1>11. \A c \in Rooting(todo) : ~c.held => c.zv \notin U
    <2> SUFFICES ASSUME NEW c \in Rooting(todo), ~c.held, c.zv \in U
                 PROVE  FALSE
      OBVIOUS
    <2>1. c.zv \in Node
      BY <1>8, <1>9
    <2>2. c.zv \in S
      BY <1>1, <1>5, <2>1
    <2> QED
      BY <1>7, <1>8, <2>2
  <1>12. Island(U)
    BY <1>8, <1>10, <1>11 DEF Island
  <1>13. \A n \in U : ~Known(n)
    <2>1. \A n : Known(n) => n \in Candidates
      BY DEF Known, Candidates, Waiting, Rooting
    <2>2. \A n \in U : n \in live /\ n \notin C
      BY <1>7, <1>8
    <2> QED
      BY <1>2, <2>1, <2>2
  <1>14. U = {}
    BY <1>12, <1>13 DEF FoundInv, Found
  <1> QED
    BY <1>3, <1>8, <1>14

\* Garbage that the counts cannot free is reachable from an entry of the buffer,
\* from what a full buffer turned away, or from what a call under way is about
\* to buffer (zend_gc.c:162, 170, 217).
THEOREM GarbageIsFound == Spec => []GarbageHasRoot
  <1>1. HeapInv /\ HeapInv' /\ FoundInv /\ [Next]_vars => FoundInv'
    BY FoundStep
  <1>2. Spec => []FoundInv
    BY <1>1, FoundStart, HeapInvariant, PTL DEF Spec
  <1> QED
    BY <1>2, FoundFinds, HeapInvariant, PTL

-----------------------------------------------------------------------------
(* What the script sees.                                                   *)

InSight == Reach(ScriptRefs)

\* What is in sight lives; it is the least set that the variables and its own
\* members lead to.
SightIs ==
  /\ InSight \subseteq live /\ live \subseteq Node
  /\ \A p \in Place : (p \in ScriptPlace \/ p[1] \in live) /\ at[p] # Nil => at[p] \in live
  /\ \A p \in Place : (p \in ScriptPlace \/ p[1] \in InSight) /\ at[p] # Nil => at[p] \in InSight
  /\ \A T \in SUBSET live :
       (\A p \in Place : (p \in ScriptPlace \/ p[1] \in T) /\ at[p] # Nil => at[p] \in T)
         => InSight \subseteq T

LEMMA Sight == HeapInv => SightIs
  <1> SUFFICES ASSUME HeapInv
               PROVE  SightIs
    OBVIOUS
  <1>1. live \subseteq Node
    BY DEF HeapInv, TypeOK
  <1>2. \A p \in Place : at[p] # Nil => at[p] \in live
    BY HeldLives
  <1>3. ScriptRefs \subseteq live
    BY AccessibleLives
  <1>4. \A p \in ScriptPlace : at[p] # Nil => at[p] \in ScriptRefs
    BY DEF ScriptRefs
  <1>5. PICK S : S = ScriptRefs
    OBVIOUS
  <1>6. /\ Reach(S) \subseteq live /\ S \subseteq Reach(S)
        /\ \A p \in Place : p[1] \in Reach(S) /\ at[p] \in live /\ at[p] # Nil => at[p] \in Reach(S)
    BY <1>3, <1>5, ReachBasics
  <1>7. InSight = Reach(S)
    BY <1>5 DEF InSight
  <1>8. ASSUME NEW T \in SUBSET live,
               \A p \in Place : (p \in ScriptPlace \/ p[1] \in T) /\ at[p] # Nil => at[p] \in T
        PROVE  InSight \subseteq T
    <2>1. Shut(T)
      BY <1>8 DEF Shut
    <2>2. S \subseteq T
      BY <1>5, <1>8, Places DEF ScriptRefs
    <2> QED
      BY <1>7, <2>1, <2>2, ReachLeast
  <1> QED
    BY <1>1, <1>2, <1>4, <1>5, <1>6, <1>7, <1>8 DEF SightIs

\* The places are those of ZendHeap and one more.
LEMMA HeapPlaces ==
  /\ Heap!Place = Place \ {Garbage} /\ Heap!ScriptPlace = ScriptPlace /\ Heap!Node = Node
  /\ ScriptPlace \subseteq Heap!Place
  /\ \A p \in Place : p[1] \in Node => p \in Heap!Place
  /\ \A p \in ScriptPlace : p[1] \notin Node
  <1>1. "garbage" \notin Var /\ "script" \notin Array \cup Zval \cup Obj
    BY ConstantsAssumption
  <1>2. Heap!ScriptPlace = ScriptPlace /\ Heap!Node = Node
    BY DEF Heap!ScriptPlace, Heap!Node, ScriptPlace, Node, Container
  <1>3. Garbage \notin Heap!Place
    BY <1>1 DEF Heap!Place, Heap!ScriptPlace, Garbage
  <1>4. Place = Heap!Place \cup {Garbage}
    BY DEF Heap!Place, Heap!ScriptPlace, Place, ScriptPlace
  <1> QED
    BY <1>2, <1>3, <1>4, Places

\* What ZendHeap calls reachable.
LEMMA ReachableIs ==
  ASSUME NEW g, NEW R \in SUBSET Node,
         \A p \in Heap!Place : (p \in ScriptPlace \/ p[1] \in R) /\ g[p] # Nil => g[p] \in R,
         \A T \in SUBSET Node :
           (\A p \in Heap!Place : (p \in ScriptPlace \/ p[1] \in T) /\ g[p] # Nil => g[p] \in T)
             => R \subseteq T
  PROVE  Heap!Reachable(g) = R
  <1> DEFINE Edges == {<<p[1], g[p]>> : p \in {q \in Heap!Place : g[q] # Nil}}
             Closed == {T \in SUBSET Node : \A e \in Edges : e[1] \in T \cup {"script"} => e[2] \in T}
  <1>1. Heap!Reachable(g) = {n \in Node : \A T \in Closed : n \in T}
    BY HeapPlaces DEF Heap!Reachable
  <1>2. ASSUME NEW T \in SUBSET Node
        PROVE  (\A e \in Edges : e[1] \in T \cup {"script"} => e[2] \in T) <=>
               \A p \in Heap!Place : (p \in ScriptPlace \/ p[1] \in T) /\ g[p] # Nil => g[p] \in T
    <2>1. \A p \in Heap!Place : p \in ScriptPlace <=> p[1] = "script"
      BY ConstantsAssumption, HeapPlaces DEF Heap!Place, ScriptPlace
    <2>2. \A e \in Edges : \E p \in Heap!Place : g[p] # Nil /\ e[1] = p[1] /\ e[2] = g[p]
      <3>1. \A e \in Edges : \E p \in {q \in Heap!Place : g[q] # Nil} : e = <<p[1], g[p]>>
        BY Zenon
      <3> QED
        BY <3>1
    <2>3. \A p \in Heap!Place : g[p] # Nil =>
            \E e \in Edges : e[1] = p[1] /\ e[2] = g[p]
      <3>1. \A p \in Heap!Place : g[p] # Nil => <<p[1], g[p]>> \in Edges
        BY Zenon
      <3> QED
        BY <3>1
    <2> HIDE DEF Edges
    <2> QED
      BY <2>1, <2>2, <2>3
  <1> HIDE DEF Edges
  <1>3. R \in Closed /\ \A T \in Closed : T \in SUBSET Node /\ R \subseteq T
    BY <1>2
  <1> HIDE DEF Closed
  <1> QED
    BY <1>1, <1>3

LEMMA SeenIs ==
  /\ Seen = [p \in Heap!Place |-> IF p \in ScriptPlace \/ p[1] \in InSight THEN at[p] ELSE Nil]
  /\ Seen' = [p \in Heap!Place |-> IF p \in ScriptPlace \/ p[1] \in InSight' THEN at'[p] ELSE Nil]
  <1>1. InSight \in SUBSET live /\ InSight' \in SUBSET live'
    BY DEF InSight, Reach
  <1> QED
    BY <1>1, HeapPlaces DEF Seen, InSight

LEMMA SeenReachable ==
  ASSUME SightIs
  PROVE  Heap!Reachable(Seen) = InSight
  <1>1. PICK g : g = Seen
    OBVIOUS
  <1>2. \A p \in Heap!Place : p \in Place /\ g[p] = IF p \in ScriptPlace \/ p[1] \in InSight THEN at[p] ELSE Nil
    BY <1>1, SeenIs, HeapPlaces
  <1>3. InSight \in SUBSET Node
    BY DEF SightIs
  <1>4. \A p \in Heap!Place : (p \in ScriptPlace \/ p[1] \in InSight) /\ g[p] # Nil => g[p] \in InSight
    BY <1>2 DEF SightIs
  <1>5. ASSUME NEW T \in SUBSET Node,
               \A p \in Heap!Place : (p \in ScriptPlace \/ p[1] \in T) /\ g[p] # Nil => g[p] \in T
        PROVE  InSight \subseteq T
    <2>1. PICK U \in SUBSET live : U = T \cap InSight
      BY DEF SightIs
    <2>2. ASSUME NEW p \in Place, p \in ScriptPlace \/ p[1] \in U, at[p] # Nil
          PROVE  at[p] \in U
      <3>1. p \in Heap!Place /\ g[p] = at[p]
        BY <1>2, <1>3, <2>1, <2>2, HeapPlaces
      <3> QED
        BY <1>5, <2>1, <2>2, <3>1 DEF SightIs
    <2> QED
      BY <2>1, <2>2 DEF SightIs
  <1> QED
    BY <1>1, <1>3, <1>4, <1>5, ReachableIs

\* Nothing in sight has changed.
LEMMA SeenStays ==
  ASSUME SightIs, SightIs',
         \A p \in Place : p \in ScriptPlace \/ p[1] \in InSight => at'[p] = at[p]
  PROVE  Seen' = Seen
  <1>1. PICK U \in SUBSET live' : U = InSight \cap live'
    OBVIOUS
  <1>2. InSight' \subseteq U
    <2>1. ASSUME NEW p \in Place, p \in ScriptPlace \/ p[1] \in U, at'[p] # Nil
          PROVE  at'[p] \in U
      BY <1>1, <2>1 DEF SightIs
    <2> QED
      BY <2>1 DEF SightIs
  <1>3. PICK V \in SUBSET live : V = InSight'
    BY <1>1, <1>2 DEF SightIs
  <1>4. InSight \subseteq V
    <2>1. ASSUME NEW p \in Place, p \in ScriptPlace \/ p[1] \in V, at[p] # Nil
          PROVE  at[p] \in V
      BY <1>1, <1>2, <1>3, <2>1 DEF SightIs
    <2> QED
      BY <2>1 DEF SightIs
  <1>5. InSight' = InSight
    BY <1>1, <1>2, <1>3, <1>4
  <1> QED
    BY <1>5, SeenIs, HeapPlaces

\* The place p, in sight, has got w, in sight too, or Nil.
LEMMA SeenWrite ==
  ASSUME SightIs, SightIs', NEW p \in Heap!Place, NEW w,
         p \in ScriptPlace \/ p[1] \in InSight, w = Nil \/ w \in InSight, at'[p] = w,
         \A q \in Place : q # p /\ (q \in ScriptPlace \/ q[1] \in InSight) => at'[q] = at[q]
  PROVE  Seen' = Heap!Visible([Seen EXCEPT ![p] = w]) /\ Seen'[p] = w
  <1>1. PICK g : g = Seen
    OBVIOUS
  <1>2. PICK h : h = [g EXCEPT ![p] = w]
    OBVIOUS
  <1>3. \A q \in Heap!Place : q \in ScriptPlace \/ q[1] \in InSight => h[q] = at'[q]
    BY <1>1, <1>2, SeenIs, HeapPlaces
  <1>4. PICK U \in SUBSET live' : U = InSight \cap live'
    OBVIOUS
  <1>5. InSight' \subseteq U
    <2>1. ASSUME NEW q \in Place, q \in ScriptPlace \/ q[1] \in U, at'[q] # Nil
          PROVE  at'[q] \in U
      BY <1>4, <2>1 DEF SightIs
    <2> QED
      BY <2>1 DEF SightIs
  <1>6. InSight' \in SUBSET Node /\ InSight' \subseteq InSight
    BY <1>4, <1>5 DEF SightIs
  <1>7. \A q \in Heap!Place : (q \in ScriptPlace \/ q[1] \in InSight') /\ h[q] # Nil => h[q] \in InSight'
    BY <1>3, <1>6, HeapPlaces DEF SightIs
  <1>8. ASSUME NEW T \in SUBSET Node,
               \A q \in Heap!Place : (q \in ScriptPlace \/ q[1] \in T) /\ h[q] # Nil => h[q] \in T
        PROVE  InSight' \subseteq T
    <2>1. PICK V \in SUBSET live' : V = T \cap InSight'
      BY DEF SightIs
    <2>2. ASSUME NEW q \in Place, q \in ScriptPlace \/ q[1] \in V, at'[q] # Nil
          PROVE  at'[q] \in V
      <3>1. q \in Heap!Place /\ h[q] = at'[q]
        BY <1>3, <1>6, <2>1, <2>2, HeapPlaces
      <3> QED
        BY <1>8, <2>1, <2>2, <3>1 DEF SightIs
    <2> QED
      BY <2>1, <2>2 DEF SightIs
  <1>9. Heap!Reachable(h) = InSight'
    BY <1>6, <1>7, <1>8, ReachableIs
  <1>10. Heap!Visible(h) =
           [q \in Heap!Place |-> IF q \in ScriptPlace \/ q[1] \in InSight' THEN h[q] ELSE Nil]
    BY <1>9, HeapPlaces DEF Heap!Visible
  <1>11. \A q \in Heap!Place : q \in ScriptPlace \/ q[1] \in InSight' => h[q] = at'[q]
    BY <1>3, <1>6
  <1>12. p \in ScriptPlace \/ p[1] \in InSight'
    <2> SUFFICES ASSUME p \notin ScriptPlace, p[1] \notin InSight'
                 PROVE  FALSE
      OBVIOUS
    <2>1. PICK V \in SUBSET live : V = InSight'
      BY <1>6 DEF SightIs
    <2>2. ASSUME NEW q \in Place, q \in ScriptPlace \/ q[1] \in V, at[q] # Nil
          PROVE  at[q] \in V
      <3>1. q # p /\ at'[q] = at[q]
        BY <1>6, <2>1, <2>2
      <3> QED
        BY <2>1, <2>2, <3>1 DEF SightIs
    <2>3. InSight \subseteq V
      BY <2>1, <2>2 DEF SightIs
    <2> QED
      BY <2>1, <2>3
  <1> QED
    BY <1>1, <1>2, <1>10, <1>11, <1>12, SeenIs

\* The place p, in sight and empty, has got a reference: all stays in sight.
LEMMA SightKept ==
  ASSUME SightIs, SightIs', NEW p \in Heap!Place,
         p \in ScriptPlace \/ p[1] \in InSight, at[p] = Nil, at'[p] # Nil,
         \A q \in Place : q # p /\ (q \in ScriptPlace \/ q[1] \in InSight) => at'[q] = at[q]
  PROVE  InSight \subseteq InSight' /\ at'[p] \in InSight'
  <1>1. PICK V \in SUBSET live : V = InSight \cap InSight'
    BY DEF SightIs
  <1>2. InSight \subseteq V
    <2>1. ASSUME NEW q \in Place, q \in ScriptPlace \/ q[1] \in V, at[q] # Nil
          PROVE  at[q] \in V
      BY <1>1, <2>1 DEF SightIs
    <2> QED
      BY <2>1 DEF SightIs
  <1> QED
    BY <1>1, <1>2, HeapPlaces DEF SightIs

\* What p has got leads, besides to what was in sight, to the nodes of N only.
LEMMA SeenGrows ==
  ASSUME SightIs, SightIs', NEW p \in Heap!Place, NEW N \in SUBSET live',
         p \in ScriptPlace \/ p[1] \in InSight, at[p] = Nil, at'[p] \in N, Nil \notin N,
         N \cap InSight = {}, live \subseteq live', N \subseteq InSight',
         \A q \in Place : q # p /\ (q \in ScriptPlace \/ q[1] \in InSight) => at'[q] = at[q],
         \A q \in Place : q[1] \in N /\ at'[q] # Nil => at'[q] \in InSight \cup N
  PROVE  Seen' = [q \in Heap!Place |-> IF q = p \/ q[1] \in N THEN at'[q] ELSE Seen[q]]
  <1>1. PICK U \in SUBSET live' : U = InSight \cup N
    BY DEF SightIs
  <1>2. InSight' \subseteq U
    <2>1. ASSUME NEW q \in Place, q \in ScriptPlace \/ q[1] \in U, at'[q] # Nil
          PROVE  at'[q] \in U
      BY <1>1, <2>1 DEF SightIs
    <2> QED
      BY <2>1 DEF SightIs
  <1>3. InSight \subseteq InSight'
    BY SightKept
  <1>4. InSight' = InSight \cup N
    BY <1>1, <1>2, <1>3
  <1>5. \A q \in ScriptPlace : q[1] \notin N
    BY <1>4, HeapPlaces DEF SightIs
  <1> QED
    BY <1>4, <1>5, SeenIs, HeapPlaces

\* A step of ZendHeap, or none.
HeapStep == [Heap!Next]_Seen

LEMMA StatementIs ==
  ASSUME NEW p \in Heap!Place, Heap!Writable(Seen, p), Seen'[p] # Seen[p],
         \/ Heap!Write(Seen, Seen', p) \/ Heap!NewArray(Seen, Seen', p) \/ Heap!NewZval(Seen, Seen', p)
  PROVE  HeapStep
  <1>1. PICK g, h : g = Seen /\ h = Seen'
    OBVIOUS
  <1>2. Heap!Statement(g, h)
    BY <1>1 DEF Heap!Statement
  <1> QED
    BY <1>1, <1>2 DEF HeapStep, Heap!Next

\* A variable, or a place in an array or an object in sight.
LEMMA WritableIs ==
  ASSUME HeapInv, SightIs, NEW p \in Accessible
  PROVE  /\ p \in Heap!Place /\ Heap!Writable(Seen, p)
         /\ p \in ScriptPlace \/ p[1] \in InSight
         /\ p \notin Handle /\ Seen[p] = at[p]
  <1>1. p \in ScriptPlace \/ (p \in Place /\ p[1] \in InSight /\ p[1] \in Container)
    BY DEF Accessible, InSight
  <1>2. p \in Heap!Place
    BY <1>1, HeapPlaces DEF SightIs
  <1>3. p[1] \in Container => p[1] \notin Zval
    BY Places
  <1>4. Heap!Writable(Seen, p)
    BY <1>1, <1>2, <1>3, SeenReachable, HeapPlaces DEF Heap!Writable
  <1>5. p \notin Handle
    BY AccessibleLives
  <1> QED
    BY <1>1, <1>2, <1>4, <1>5, SeenIs

\* The place p, in sight, has got w, in sight too, or Nil.
LEMMA WriteRefines ==
  ASSUME HeapInv, SightIs, SightIs', NEW p \in Accessible, NEW w,
         w = Nil \/ (w \in InSight /\ w \notin Obj), at'[p] = w,
         \A q \in Place : q # p /\ (q \in ScriptPlace \/ q[1] \in InSight) => at'[q] = at[q]
  PROVE  HeapStep
  <1>1. p \in Heap!Place /\ Heap!Writable(Seen, p) /\ (p \in ScriptPlace \/ p[1] \in InSight)
        /\ Seen[p] = at[p]
    BY WritableIs
  <1>2. CASE w = at[p]
    <2>1. \A q \in Place : q \in ScriptPlace \/ q[1] \in InSight => at'[q] = at[q]
      BY <1>2
    <2> QED
      BY <2>1, SeenStays DEF HeapStep
  <1>3. CASE w # at[p]
    <2>1. Seen' = Heap!Visible([Seen EXCEPT ![p] = w])
      BY <1>1, SeenWrite
    <2>2. Seen'[p] = w
      BY <1>1, SeenWrite
    <2>3. Heap!Write(Seen, Seen', p)
      BY <2>1, <2>2, SeenReachable DEF Heap!Write
    <2> QED
      BY <1>1, <1>3, <2>2, <2>3, StatementIs DEF HeapStep
  <1> QED
    BY <1>2, <1>3

\* A place loses its reference or gets w instead of it: a variable, a place in
\* sight, or one that a call under way has to release, which nobody sees.
LEMMA ReplaceRefines ==
  ASSUME HeapInv, SightIs, SightIs', NEW p, NEW w, NEW rest, Follows(p, rest),
         w = Nil \/ (p \in Accessible /\ w \in InSight /\ w \notin Obj),
         at' = [at EXCEPT ![p] = w] \/ at' = at
  PROVE  HeapStep
  <1>1. p \in Place /\ at \in [Place -> Node \cup {Nil}]
    BY FollowsPlace, HeapInvIs
  <1>2. CASE at' = at
    BY <1>2, SeenStays DEF HeapStep
  <1>3. CASE at' = [at EXCEPT ![p] = w] /\ p \in Accessible
    <2>1. at'[p] = w /\ \A q \in Place : q # p => at'[q] = at[q]
      BY <1>1, <1>3
    <2> QED
      BY <1>3, <2>1, WriteRefines
  <1>4. CASE at' = [at EXCEPT ![p] = w] /\ p \notin Accessible
    <2>1. p \in Owed(todo)
      BY <1>4 DEF Follows
    <2>2. p \notin ScriptPlace /\ p[1] \notin live
      BY <2>1, OwedPlaces
    <2>3. \A q \in Place : q # p => at'[q] = at[q]
      BY <1>1, <1>4
    <2>4. \A q \in Place : q \in ScriptPlace \/ q[1] \in InSight => at'[q] = at[q]
      BY <2>2, <2>3 DEF SightIs
    <2> QED
      BY <2>4, SeenStays DEF HeapStep
  <1> QED
    BY <1>2, <1>3, <1>4

LEMMA PossibleRootRefines ==
  ASSUME HeapInv, SightIs, SightIs', NEW p, NEW w, NEW held \in BOOLEAN, NEW calls, NEW rest,
         Follows(p, calls), w = Nil \/ (p \in Accessible /\ w \in InSight /\ w \notin Obj),
         held \/ w = Nil, possible_root(p, w, held, rest)
  PROVE  HeapStep
  <1>1. at' = [at EXCEPT ![p] = w] \/ at' = at
    BY DEF possible_root, possible_root_known, possible_root_buffered, possible_root_refused,
           possible_root_collects, Replace
  <1> QED
    BY <1>1, ReplaceRefines

LEMMA ReleasedRefines ==
  ASSUME HeapInv, SightIs, SightIs', NEW p, NEW held \in BOOLEAN, NEW calls, NEW rest, Follows(p, calls),
         release_last(p, rest) \/ release_shared(p, held, rest)
  PROVE  HeapStep
  <1>1. CASE release_last(p, rest)
    <2>1. at' = [at EXCEPT ![p] = Nil]
      BY <1>1 DEF release_last, Replace
    <2> QED
      BY <2>1, ReplaceRefines
  <1>2. CASE release_shared(p, held, rest)
    <2>1. possible_root(p, Nil, held, rest)
      BY <1>2 DEF release_shared
    <2> QED
      BY <2>1, PossibleRootRefines
  <1> QED
    BY <1>1, <1>2

LEMMA ReleaseRefines ==
  ASSUME HeapInv, SightIs, SightIs', release
  PROVE  HeapStep
  <1>1. PICK p \in Head(todo).places : release_last(p, Done(p)) \/ release_shared(p, FALSE, Done(p))
    BY DEF release
  <1>2. Calling("release")
    BY DEF release
  <1>3. PICK rest : rest = Done(p)
    OBVIOUS
  <1>4. Follows(p, rest)
    <2>1. Follows(p, Done(p))
      BY <1>2, FollowsDone
    <2> QED
      BY <1>3, <2>1
  <1>5. release_last(p, rest) \/ release_shared(p, FALSE, rest)
    BY <1>1, <1>3
  <1> QED
    BY <1>4, <1>5, ReleasedRefines

\* The assignment, or the unset, that a collection has interrupted ends.
LEMMA ResumesRefines ==
  ASSUME HeapInv, SightIs, SightIs', possible_root_resumes
  PROVE  HeapStep
  <1>1. PICK t : t = Head(todo)
    OBVIOUS
  <1>2. /\ Calling("root")
        /\ at' = IF t.held THEN [at EXCEPT ![t.place] = t.value] ELSE at
    BY <1>1 DEF possible_root_resumes
  <1>3. CASE ~t.held
    <2>1. at' = at
      BY <1>2, <1>3
    <2> QED
      BY <2>1, SeenStays DEF HeapStep
  <1>4. CASE t.held
    <2>1. 1 \in DOMAIN todo /\ t = todo[1] /\ t \in Call
      <3>1. PICK s \in Seq(Call) : s = todo
        BY HeapInvIs
      <3>2. s # <<>> /\ t = Head(s)
        BY <1>1, <1>2, <3>1 DEF Calling
      <3>3. Len(s) \in Nat /\ DOMAIN s = 1 .. Len(s) /\ Len(s) # 0
        BY <3>2, LenProperties, EmptySeq
      <3>4. 1 \in DOMAIN s /\ t = s[1]
        BY <3>2, <3>3
      <3> QED
        BY <3>1, <3>4, ElementOfSeq, <3>3
    <2>2. t.do = "root"
      BY <1>1, <1>2 DEF Calling
    <2>3. t \in Assigning(todo)
      BY <1>4, <2>1, <2>2 DEF Assigning, Assigns
    <2>4. t.place \in Accessible /\ t.value \in InSight \cup {Nil}
      BY <2>3 DEF HeapInv, Assignment, InSight
    <2>5. t.value \in Array \cup Zval \cup {Nil}
      BY <2>1, <2>2 DEF Call
    <2>6. t.value \notin Obj
      BY <2>5, ConstantsAssumption
    <2>7. at \in [Place -> Node \cup {Nil}] /\ t.place \in Place
      BY <2>4, HeapInvIs, AccessibleLives
    <2>8. at'[t.place] = t.value /\ \A q \in Place : q # t.place => at'[q] = at[q]
      BY <1>2, <1>4, <2>7
    <2> QED
      BY <2>4, <2>6, <2>8, WriteRefines
  <1> QED
    BY <1>3, <1>4

\* The script does not reach what is collected.
LEMMA CollectionRefines ==
  ASSUME HeapInv, SightIs, SightIs', NEW rest, gc_collect_cycles(rest)
  PROVE  HeapStep
  <1>1. PICK grey : grey = Grey
    OBVIOUS
  <1>2. PICK white : white = grey \ Black(grey)
    OBVIOUS
  <1>3. Collects(grey, white)
    BY <1>1, <1>2 DEF Collects
  <1>4. PICK out : out = Outward(white)
    OBVIOUS
  <1>5. at' = [p \in Place |-> IF p[1] \in white /\ p \notin out THEN Nil ELSE at[p]]
    BY <1>1, <1>2, <1>4 DEF gc_collect_cycles
  <1>6. InSight \cap white = {} /\ white \subseteq Node
    <2>1. grey \subseteq live /\ Reach(ScriptRefs) \cap white = {}
      BY <1>3, GarbageIs
    <2> QED
      BY <1>2, <2>1 DEF InSight, SightIs
  <1>7. \A p \in Place : p \in ScriptPlace \/ p[1] \in InSight => at'[p] = at[p]
    BY <1>5, <1>6, HeapPlaces
  <1> QED
    BY <1>7, SeenStays DEF HeapStep

LEMMA CollectFreedRefines ==
  ASSUME SightIs, SightIs', NEW rest, gc_collect_freed(rest)
  PROVE  HeapStep
  <1>1. at' = at
    BY DEF gc_collect_freed, heapVars
  <1> QED
    BY <1>1, SeenStays DEF HeapStep

\* Nothing refers to a new node, which holds only what the script puts there.
LEMMA NewArrayRefines ==
  ASSUME HeapInv, SightIs, SightIs', todo = <<>>, NEW p \in Accessible, new_array(p)
  PROVE  HeapStep
  <1>1. PICK a \in New(Array) : live' = live \cup {a} /\ Replace(p, a) /\ at[p] = Nil
    BY DEF new_array
  <1>2. a \in Array /\ a \in Node /\ a \notin live /\ a # Nil
    BY <1>1, Places DEF New, Node, Container
  <1>3. /\ p \in Heap!Place /\ Heap!Writable(Seen, p) /\ (p \in ScriptPlace \/ p[1] \in InSight)
        /\ Seen[p] = Nil /\ p \in Place
    BY <1>1, WritableIs, HeapPlaces
  <1>4. at'[p] = a /\ \A q \in Place : q # p => at'[q] = at[q]
    BY <1>1, <1>3, HeapInvIs DEF Replace
  <1>5. \A q \in Place : q[1] = a => q # p /\ at[q] = Nil
    BY <1>2, <1>3, DeadNode, HeapPlaces DEF SightIs
  <1>6. PICK N \in SUBSET live' : N = {a}
    BY <1>1
  <1>7. a \in InSight' /\ a \notin InSight
    <2>1. at'[p] \in InSight'
      BY <1>1, <1>2, <1>3, <1>4, SightKept
    <2>2. a \notin InSight
      BY <1>2 DEF SightIs
    <2> QED
      BY <1>4, <2>1, <2>2
  <1>8. Seen' = [q \in Heap!Place |-> IF q = p \/ q[1] \in N THEN at'[q] ELSE Seen[q]]
    BY <1>1, <1>2, <1>3, <1>4, <1>5, <1>6, <1>7, SeenGrows
  <1>9. Seen' = [Seen EXCEPT ![p] = a]
    <2>1. \A q \in Heap!Place : q[1] = a /\ q # p => at'[q] = Nil /\ Seen[q] = Nil
      BY <1>4, <1>5, <1>7, HeapPlaces, SeenIs
    <2>2. Seen = [q \in Heap!Place |-> Seen[q]]
      BY SeenIs
    <2> QED
      BY <1>4, <1>6, <1>8, <2>1, <2>2
  <1>10. Heap!NewArray(Seen, Seen', p)
    <2>1. Seen'[p] = a
      BY <1>3, <1>9, SeenIs
    <2> QED
      BY <1>2, <1>3, <1>7, <1>9, <2>1, SeenReachable DEF Heap!NewArray
  <1>11. Seen'[p] # Seen[p]
    BY <1>2, <1>3, <1>9, SeenIs
  <1> QED
    BY <1>3, <1>10, <1>11, StatementIs DEF HeapStep

\* So with a new zval, of a new object or of one that is in sight.
LEMMA NewZvalRefines ==
  ASSUME HeapInv, SightIs, SightIs', todo = <<>>, NEW p \in Accessible, at[p] = Nil,
         NEW z \in Zval, z \notin live, z \in live', live \subseteq live',
         NEW o \in Obj, o \in live', o \notin live \/ o \in InSight,
         at' = [at EXCEPT ![p] = z, ![<<z, "handle">>] = o]
  PROVE  HeapStep
  <1>1. z \in Node /\ o \in Node /\ z # o /\ z # Nil /\ o # Nil
    BY Places DEF Node, Container
  <1>2. /\ p \in Heap!Place /\ Heap!Writable(Seen, p) /\ (p \in ScriptPlace \/ p[1] \in InSight)
        /\ Seen[p] = Nil /\ p \in Place /\ p \notin Handle
    BY WritableIs, HeapPlaces
  <1>3. PICK k \in Handle : k = <<z, "handle">>
    BY Places
  <1>4. k \in Heap!Place /\ k \in Place /\ k[1] = z /\ k # p
    BY <1>1, <1>2, <1>3, Places, HeapPlaces
  <1>5. at'[p] = z /\ at'[k] = o /\ \A q \in Place : q # p /\ q # k => at'[q] = at[q]
    BY <1>2, <1>3, <1>4, HeapInvIs
  <1>6. \A q \in Place : q[1] = z => q = k
    BY <1>3, Places
  <1>7. \A q \in Place : q \in ScriptPlace \/ q[1] \in InSight => q # k
    BY <1>1, <1>4, HeapPlaces DEF SightIs
  <1>8. InSight \subseteq InSight' /\ z \in InSight' /\ z \notin InSight
    <2>1. \A q \in Place : q # p /\ (q \in ScriptPlace \/ q[1] \in InSight) => at'[q] = at[q]
      BY <1>5, <1>7
    <2> QED
      BY <1>1, <1>2, <1>5, <2>1, SightKept DEF SightIs
  <1>9. o \in InSight'
    BY <1>1, <1>4, <1>5, <1>8 DEF SightIs
  <1>10. PICK N \in SUBSET live' : \A n : n \in N <=> (n = z \/ n = o) /\ n \notin InSight
    <2>1. {z, o} \ InSight \in SUBSET live'
      OBVIOUS
    <2> QED
      BY <2>1
  <1>11. \A q \in Place : q[1] = o /\ o \notin InSight => at'[q] = Nil
    <2>1. ASSUME NEW q \in Place, q[1] = o, o \notin InSight
          PROVE  at'[q] = Nil
      <3>1. at[q] = Nil
        BY <1>1, <2>1, DeadNode
      <3>2. q # p /\ q # k
        BY <1>1, <1>2, <1>4, <2>1, HeapPlaces DEF SightIs
      <3> QED
        BY <1>5, <3>1, <3>2
    <2> QED
      BY <2>1
  <1>12. Seen' = [q \in Heap!Place |-> IF q = p \/ q[1] \in N THEN at'[q] ELSE Seen[q]]
    <2>1. N \cap InSight = {} /\ N \subseteq InSight' /\ at'[p] \in N /\ Nil \notin N
      BY <1>1, <1>5, <1>8, <1>9, <1>10
    <2>2. \A q \in Place : q # p /\ (q \in ScriptPlace \/ q[1] \in InSight) => at'[q] = at[q]
      BY <1>5, <1>7
    <2>3. \A q \in Place : q[1] \in N /\ at'[q] # Nil => at'[q] \in InSight \cup N
      BY <1>5, <1>6, <1>10, <1>11
    <2> QED
      BY <1>2, <2>1, <2>2, <2>3, SeenGrows
  <1>13. Seen' = [Seen EXCEPT ![p] = z, ![k] = o]
    <2>1. \A q \in Heap!Place : q[1] \in N /\ q # k /\ q # p => at'[q] = Nil /\ Seen[q] = Nil
      <3> SUFFICES ASSUME NEW q \in Heap!Place, q[1] \in N, q # k
                   PROVE  at'[q] = Nil /\ Seen[q] = Nil
        OBVIOUS
      <3>1. q \in Place /\ q[1] = o /\ o \notin InSight
        BY <1>6, <1>10, HeapPlaces
      <3>2. q \notin ScriptPlace /\ q[1] \notin InSight
        BY <1>1, <3>1, HeapPlaces
      <3> QED
        BY <1>11, <3>1, <3>2, SeenIs
    <2>2. Seen = [q \in Heap!Place |-> Seen[q]]
      BY SeenIs
    <2>3. \A q \in Heap!Place : q = k => q[1] \in N
      BY <1>4, <1>8, <1>10
    <2>4. \A q \in Heap!Place : Seen'[q] = IF q = p THEN z ELSE IF q = k THEN o ELSE Seen[q]
      BY <1>5, <1>12, <2>1, <2>3
    <2>5. Seen' = [q \in Heap!Place |-> Seen'[q]]
      BY SeenIs
    <2> QED
      BY <1>4, <2>2, <2>4, <2>5
  <1>14. Seen'[p] = z
    BY <1>2, <1>4, <1>13, SeenIs
  <1>15. Heap!NewZval(Seen, Seen', p)
    BY <1>2, <1>3, <1>8, <1>13, <1>14, SeenReachable DEF Heap!NewZval
  <1> QED
    BY <1>1, <1>2, <1>14, <1>15, StatementIs DEF HeapStep

LEMMA NewObjectRefines ==
  ASSUME HeapInv, SightIs, SightIs', todo = <<>>, NEW p \in Accessible, new_object(p)
  PROVE  HeapStep
  <1>1. PICK z \in New(Zval), o \in New(Obj) :
          /\ live' = live \cup {z, o}
          /\ at' = [at EXCEPT ![p] = z, ![<<z, "handle">>] = o]
    BY DEF new_object
  <1>2. z \in Zval /\ o \in Obj /\ z \notin live /\ o \notin live /\ at[p] = Nil
    BY DEF New, new_object
  <1> QED
    BY <1>1, <1>2, NewZvalRefines

LEMMA CopyObjectRefines ==
  ASSUME HeapInv, SightIs, SightIs', todo = <<>>, NEW p \in Accessible, NEW q \in Accessible,
         copy_object(p, q)
  PROVE  HeapStep
  <1>1. PICK z \in New(Zval) :
          LET o == at[<<at[q], "handle">>]
          IN /\ live' = live \cup {z}
             /\ at' = [at EXCEPT ![p] = z, ![<<z, "handle">>] = o]
    BY DEF copy_object
  <1>2. z \in Zval /\ z \notin live /\ at[p] = Nil /\ at[q] \in Zval
    BY DEF New, copy_object
  <1>3. PICK o : o = at[<<at[q], "handle">>]
    OBVIOUS
  <1>4. q \in Place /\ (q \in ScriptPlace \/ q[1] \in InSight)
    BY WritableIs, HeapPlaces
  <1>5. at[q] \in InSight
    BY <1>2, <1>4, Places DEF SightIs, Node
  <1>6. o \in Obj /\ o \in InSight /\ o \in live
    <2>1. PICK k \in Handle : k = <<at[q], "handle">>
      BY <1>2, Places
    <2>2. k \in Place /\ k[1] = at[q]
      BY <2>1, Places
    <2>3. at[k] # Nil
      BY <1>2, <1>5, <2>1 DEF SightIs, HeapInv, Kinds
    <2>4. at[k] \in Obj /\ at[k] \in live
      BY <2>2, <2>3, HeldLives
    <2> QED
      BY <1>3, <1>5, <2>1, <2>2, <2>3, <2>4 DEF SightIs
  <1>7. /\ live' = live \cup {z}
        /\ at' = [at EXCEPT ![p] = z, ![<<z, "handle">>] = o]
    BY <1>1, <1>3
  <1>8. z \in live' /\ live \subseteq live' /\ o \in live'
    BY <1>6, <1>7
  <1> QED
    BY <1>2, <1>6, <1>7, <1>8, NewZvalRefines

\* A value that q holds is in sight, and no object.
LEMMA ValueInSight ==
  ASSUME HeapInv, SightIs, NEW q \in Accessible, at[q] # Nil
  PROVE  at[q] \in InSight /\ at[q] \notin Obj
  <1>1. q \in Place /\ (q \in ScriptPlace \/ q[1] \in InSight) /\ q \notin Handle
    BY WritableIs, HeapPlaces
  <1>2. at[q] \in Array \cup Zval
    BY <1>1, HeldLives
  <1> QED
    BY <1>1, <1>2, Places DEF SightIs

LEMMA AssignThenReleaseRefines ==
  ASSUME HeapInv, SightIs, SightIs', NEW p \in Accessible, NEW q \in Accessible,
         assign_then_release(p, q)
  PROVE  HeapStep
  <1>1. at[q] # Nil /\ at' = [at EXCEPT ![p] = at[q], ![Garbage] = at[p]]
    BY DEF assign_then_release
  <1>2. p \in Heap!Place /\ p \in Place
    BY WritableIs, HeapPlaces
  <1>3. at \in [Place -> Node \cup {Nil}] /\ p # Garbage
    BY HeapInvIs, AccessibleLives
  <1>4. at'[p] = at[q] /\ \A r \in Place : r # p /\ r # Garbage => at'[r] = at[r]
    BY <1>1, <1>2, <1>3
  <1>5. \A r \in Place : r \in ScriptPlace \/ r[1] \in InSight => r # Garbage
    BY Places DEF SightIs
  <1> QED
    BY <1>1, <1>4, <1>5, ValueInSight, WriteRefines

LEMMA AssignSplitsRefines ==
  ASSUME HeapInv, SightIs, SightIs', todo = <<>>, NEW p \in Accessible, NEW q \in Accessible,
         assign_splits(p, q)
  PROVE  HeapStep
  <1>1. at[q] # Nil
    BY Places DEF assign_splits, Node
  <1>2. Follows(p, <<>>)
    BY FollowsScript
  <1>3. PICK rest : rest = <<>>
    OBVIOUS
  <1>4. PICK w : w = at[q]
    OBVIOUS
  <1>5. Follows(p, rest) /\ possible_root(p, w, TRUE, rest)
    BY <1>2, <1>3, <1>4 DEF assign_splits
  <1>6. w \in InSight /\ w \notin Obj
    BY <1>1, <1>4, ValueInSight
  <1> QED
    BY <1>5, <1>6, PossibleRootRefines

LEMMA UnsetRefines ==
  ASSUME HeapInv, SightIs, SightIs', todo = <<>>, NEW p \in Accessible, unset(p)
  PROVE  HeapStep
  <1>1. PICK rest : rest = <<>>
    OBVIOUS
  <1>2. Follows(p, rest) /\ (release_last(p, rest) \/ release_shared(p, FALSE, rest))
    BY <1>1, FollowsScript DEF unset
  <1> QED
    BY <1>2, ReleasedRefines

LEMMA UnsetPropertyRefines ==
  ASSUME HeapInv, SightIs, SightIs', todo = <<>>, NEW p \in Accessible, zend_std_unset_property(p)
  PROVE  HeapStep
  <1>1. PICK calls : calls = <<>>
    OBVIOUS
  <1>2. Follows(p, calls)
    BY <1>1, FollowsScript
  <1>3. PICK rest : release_last(p, rest) \/ release_shared(p, TRUE, rest)
    BY DEF zend_std_unset_property
  <1> QED
    BY <1>2, <1>3, ReleasedRefines

LEMMA StepRefines == HeapInv /\ SightIs /\ SightIs' /\ [Next]_vars => HeapStep
  <1> SUFFICES ASSUME HeapInv, SightIs, SightIs', [Next]_vars
               PROVE  HeapStep
    OBVIOUS
  <1>1. CASE release
    BY <1>1, ReleaseRefines
  <1>2. CASE possible_root_resumes
    BY <1>2, ResumesRefines
  <1>3. CASE collect
    <2>1. PICK rest : gc_collect_cycles(rest) \/ gc_collect_freed(rest)
      BY <1>3 DEF collect
    <2> QED
      BY <2>1, CollectionRefines, CollectFreedRefines
  <1>4. CASE script
    <2>1. todo = <<>>
      BY <1>4 DEF script
    <2>2. CASE \E p \in Accessible :
                 \/ new_array(p) \/ new_object(p) \/ unset(p) \/ zend_std_unset_property(p)
                 \/ \E q \in Accessible :
                      copy_object(p, q) \/ assign_then_release(p, q) \/ assign_splits(p, q)
      <3>1. PICK p \in Accessible :
              \/ new_array(p) \/ new_object(p) \/ unset(p) \/ zend_std_unset_property(p)
              \/ \E q \in Accessible :
                   copy_object(p, q) \/ assign_then_release(p, q) \/ assign_splits(p, q)
        BY <2>2
      <3>2. CASE new_array(p)
        BY <2>1, <3>2, NewArrayRefines
      <3>3. CASE new_object(p)
        BY <2>1, <3>3, NewObjectRefines
      <3>4. CASE unset(p)
        BY <2>1, <3>4, UnsetRefines
      <3>5. CASE \E q \in Accessible :
                   copy_object(p, q) \/ assign_then_release(p, q) \/ assign_splits(p, q)
        <4>1. PICK q \in Accessible :
                copy_object(p, q) \/ assign_then_release(p, q) \/ assign_splits(p, q)
          BY <3>5
        <4>2. CASE copy_object(p, q)
          BY <2>1, <4>2, CopyObjectRefines
        <4>3. CASE assign_then_release(p, q)
          BY <4>3, AssignThenReleaseRefines
        <4>4. CASE assign_splits(p, q)
          BY <2>1, <4>4, AssignSplitsRefines
        <4> QED
          BY <4>1, <4>2, <4>3, <4>4
      <3>6. CASE zend_std_unset_property(p)
        BY <2>1, <3>6, UnsetPropertyRefines
      <3> QED
        BY <3>1, <3>2, <3>3, <3>4, <3>5, <3>6
    <2>3. CASE \E rest : gc_collect_cycles(rest) \/ gc_collect_freed(rest)
      BY <2>3, CollectionRefines, CollectFreedRefines
    <2>4. CASE set_gc_enabled
      <3>1. at' = at
        BY <2>4 DEF set_gc_enabled, heapVars
      <3> QED
        BY <3>1, SeenStays DEF HeapStep
    <2> QED
      BY <1>4, <2>2, <2>3, <2>4 DEF script
  <1>5. CASE unset_ends \/ Lost \/ UNCHANGED vars
    <2>1. at' = at
      BY <1>5 DEF unset_ends, Lost, vars, heapVars
    <2> QED
      BY <2>1, SeenStays DEF HeapStep
  <1> QED
    BY <1>1, <1>2, <1>3, <1>4, <1>5 DEF Next

\* ZendGC implements ZendHeap: for any graph and any buffer, counting references,
\* the cascades of releases and the collections in the middle of them change
\* nothing of what the script's variables lead to; only its own statements do,
\* also the assignment, or the unset of a property, that a collection interrupts
\* between the release of the old value and the writing of the place.  The
\* script does not run while a slot names what has been freed; a collection that
\* follows such a slot is undefined, and nothing is claimed beyond it.
THEOREM HeapIsKept == Spec => KeepsHeap
  <1>1. Init => Heap!Init
    <2> SUFFICES ASSUME Init
                 PROVE  Heap!Init
      OBVIOUS
    <2>1. live = {} /\ \A p \in Place : at[p] = Nil
      BY DEF Init
    <2>2. InSight = {}
      BY <2>1 DEF InSight, Reach
    <2>3. \A p \in Heap!Place : at[p] = Nil
      BY <2>1, HeapPlaces
    <2> QED
      BY <2>2, <2>3, SeenIs DEF Heap!Init
  <1>2. HeapInv => SightIs
    BY Sight
  <1>3. HeapInv /\ SightIs /\ SightIs' /\ [Next]_vars => HeapStep
    BY StepRefines
  <1> QED
    BY <1>1, <1>2, <1>3, HeapInvariant, PTL DEF Spec, KeepsHeap, Heap!Spec, HeapStep

=============================================================================
