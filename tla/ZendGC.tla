-------------------------------- MODULE ZendGC --------------------------------
(***************************************************************************)
(* Reference counting and the cycle collector of the Zend engine.          *)
(*                                                                         *)
(* src/Zend/zend_gc.c, zend_gc.h, zend_execute_API.c (_zval_ptr_dtor),     *)
(* zend_objects_API.c, the assignments of zend_execute.c and the unset of  *)
(* zend_object_handlers.c.                                                 *)
(*                                                                         *)
(* The heap is a graph of arrays, object zvals and objects.  A place holds *)
(* a reference: a variable of the script, an element of an array, a        *)
(* property of an object, the handle in an object zval.                    *)
(*                                                                         *)
(* Left out: strings, numbers and other leaves; copies of arrays by value; *)
(* assignments into a zval that is a reference; destructors (no class here *)
(* has __destruct, so no script runs in the middle of a collection); the   *)
(* shutdown.  The memory of a freed zval that an entry of the buffer still *)
(* names is not used again.                                                *)
(*                                                                         *)
(* The release of a reference cascades through calls that nest: todo is    *)
(* the C stack of these calls.  A collection inside such a cascade leaves  *)
(* calls of its own on it, which may meet a full buffer and collect again. *)
(*                                                                         *)
(* A declared property that is unset names what it held until all of that  *)
(* has been released.  Its count is gone first, so the place holds nothing *)
(* from then on, and the call that has yet to write NULL there stands for  *)
(* the address left in it.  A collection that goes through the object      *)
(* follows that address: undefined.                                        *)
(***************************************************************************)
EXTENDS Integers, Sequences, FiniteSets

CONSTANTS
  Array,            \* zvals of type IS_ARRAY
  Zval,             \* zvals of type IS_OBJECT
  Obj,              \* handles of the object store
  Var,              \* the script's variables
  Key,              \* keys of an array
  Property,         \* properties of an object
  GC_ROOT_BUFFER_MAX_ENTRIES,
  Nil

ASSUME ConstantsAssumption ==
  /\ \A S \in {Array, Zval, Obj, Var, Key, Property} : IsFiniteSet(S)
  /\ Array \cap Zval = {} /\ Array \cap Obj = {} /\ Zval \cap Obj = {}
  /\ Nil \notin Array \cup Zval \cup Obj
  /\ "script" \notin Array \cup Zval \cup Obj
  /\ "garbage" \notin Var
  /\ GC_ROOT_BUFFER_MAX_ENTRIES \in Nat \ {0}

VARIABLES
  live,             \* what is allocated
  at,               \* the counted reference a place holds, or Nil
  refcount,
  purple,           \* containers whose colour is GC_PURPLE
  buffered,         \* containers whose gc info has the address of an entry
  entries,          \* how many entries of the buffer name a container
  todo,             \* the calls under way, innermost first
  gc_enabled,
  forgotten,        \* ghost: what was lost to a full buffer
  undefined         \* a collection has followed an entry or a slot to a freed zval

heapVars == <<live, at, refcount>>
bufferVars == <<purple, buffered, entries, forgotten>>
vars == <<heapVars, bufferVars, todo, gc_enabled, undefined>>

Container == Array \cup Obj
Node == Container \cup Zval

ScriptPlace == {"script"} \X Var
\* The local variable of the C code that holds a value already overwritten.
Garbage == <<"script", "garbage">>
Place == ScriptPlace \cup {Garbage}
           \cup Array \X Key \cup Obj \X Property \cup Zval \X {"handle"}

Init ==
  /\ live = {}
  /\ at = [p \in Place |-> Nil]
  /\ refcount = [n \in Node |-> 0]
  /\ purple = {}
  /\ buffered = {}
  /\ entries = [n \in Container |-> 0]
  /\ todo = <<>>
  /\ gc_enabled = TRUE
  /\ forgotten = {}
  /\ undefined = FALSE

-----------------------------------------------------------------------------
(* The graph.                                                              *)

Held(S) == {p \in Place : p[1] \in S /\ at[p] # Nil}

\* The least set of live nodes that has S, itself live, and with a node what
\* the node refers to: every set that has S but not n leads out of itself.  (E
\* and A are Edges and S, evaluated once.)
Reach(S) ==
  LET Edges == {<<p[1], at[p]>> : p \in Held(live)}
      Open(E, T) == \E e \in E : e[1] \in T /\ e[2] \notin T
      Least == [E \in {Edges} |-> [A \in {S} |->
        {n \in live : \A T \in SUBSET (live \ {n}) : A \subseteq T => Open(E, T)}]]
  IN Least[Edges][S]

\* How many places of the members of S refer to n.
Refs(S, n) == Cardinality({p \in Held(S) : at[p] = n})

ScriptRefs == {at[p] : p \in ScriptPlace} \ {Nil}

\* The script reads and writes its variables and all that they lead to.
Accessible == ScriptPlace \cup {p \in Place : p[1] \in Reach(ScriptRefs) \cap Container}

-----------------------------------------------------------------------------
(* The buffer of possible roots.                                           *)

\* gc_zval_possible_root hands an object zval to gc_zobj_possible_root: its
\* object is what is buffered.
Candidate(v) == IF v \in Zval THEN at[<<v, "handle">>] ELSE v

Roots == {n \in Container : entries[n] > 0}

Full == GC_ROOT_BUFFER_MAX_ENTRIES =
  Cardinality({e \in Container \X (1 .. GC_ROOT_BUFFER_MAX_ENTRIES) : e[2] <= entries[e[1]]})

AddRoot(n) ==
  /\ entries' = [entries EXCEPT ![n] = @ + 1]
  /\ buffered' = buffered \cup {n}
  /\ purple' = purple \cup {n}

\* Mutant: an entry is removed whether or not there is an address.
RemoveFromBuffer_always(n) ==
  /\ purple' = purple \ {n}
  /\ forgotten' = forgotten \ {n}
  /\ buffered' = buffered \ {n}
  /\ entries' = [entries EXCEPT ![n] = @ - 1]

\* GC_REMOVE_ZVAL_FROM_BUFFER, GC_REMOVE_ZOBJ_FROM_BUFFER: the entry that
\* the gc info names, no other.
RemoveFromBuffer(n) ==
  /\ purple' = purple \ {n}
  /\ forgotten' = forgotten \ {n}
  /\ buffered' = buffered \ {n}
  /\ entries' = IF n \in buffered THEN [entries EXCEPT ![n] = @ - 1] ELSE entries

\* One reference to v less and, unless it is Nil, one to w more.
Counted(v, w) ==
  [n \in Node |-> refcount[n] - (IF n = v THEN 1 ELSE 0) + (IF n = w THEN 1 ELSE 0)]

Release(S) == [do |-> "release", places |-> S]
Collect == [do |-> "collect"]
Unset(p) == [do |-> "unset", place |-> p]

Push(S, calls) == IF S = {} THEN calls ELSE <<Release(S)>> \o calls

\* The innermost call is done with p.
Done(p) == Push(Head(todo).places \ {p}, Tail(todo))

-----------------------------------------------------------------------------
(* A reference less.  The place p gets w instead of what it held: Nil, or  *)
(* the value of an assignment that splits.  held: it keeps what it held    *)
(* during a collection.  rest is what remains to do.                       *)

Replace(p, w) ==
  /\ at' = [at EXCEPT ![p] = w]
  /\ refcount' = Counted(at[p], w)

\* The candidate is purple already.
possible_root_known(p, w, rest) ==
  /\ Candidate(at[p]) \in purple
  /\ Replace(p, w)
  /\ todo' = rest
  /\ UNCHANGED bufferVars

possible_root_buffered(p, w, rest) ==
  /\ Candidate(at[p]) \notin purple
  /\ ~Full
  /\ Replace(p, w)
  /\ AddRoot(Candidate(at[p]))
  /\ forgotten' = forgotten \ {Candidate(at[p])}
  /\ todo' = rest

\* The buffer is full and the collector is switched off.  GC_ZVAL_SET_BLACK
\* takes the colour back from an array, but not from an object: there it is
\* given the zval.
possible_root_refused(p, w, rest) ==
  LET n == Candidate(at[p])
  IN /\ n \notin purple
     /\ Full
     /\ ~gc_enabled
     /\ Replace(p, w)
     /\ purple' = IF n \in Obj THEN purple \cup {n} ELSE purple
     /\ forgotten' = forgotten \cup {n}
     /\ todo' = rest
     /\ UNCHANGED <<buffered, entries>>

\* The buffer is full: the zval is kept by an additional reference while the
\* collector runs.  Where its place has still the address of it, the reference
\* that was given back and the additional one are one and the same here.
\* Nothing keeps the object when its zval is on the way out.
possible_root_collects(p, w, held, rest) ==
  LET v == at[p]
      n == Candidate(v)
      zv == IF v \in Obj THEN Nil ELSE v
  IN /\ n \notin purple
     /\ Full
     /\ gc_enabled
     /\ purple' = purple \cup {n}
     /\ at' = IF held THEN at ELSE [at EXCEPT ![p] = Nil]
     /\ refcount' = IF v \in Obj THEN Counted(v, Nil) ELSE refcount
     /\ todo' = <<Collect, [do |-> "root", zv |-> zv, node |-> n,
                            held |-> held, place |-> p, value |-> w]>> \o rest
     /\ UNCHANGED <<buffered, entries, forgotten>>

possible_root(p, w, held, rest) ==
  \/ possible_root_known(p, w, rest)
  \/ possible_root_buffered(p, w, rest)
  \/ possible_root_refused(p, w, rest)
  \/ possible_root_collects(p, w, held, rest)

Calling(what) == todo # <<>> /\ Head(todo).do = what

\* gc_zval_possible_root and gc_zobj_possible_root after their collection.
\* The candidate may have been buffered meanwhile, or, an object, freed.
possible_root_resumes ==
  LET t == Head(todo)
      again == IF t.held THEN [at EXCEPT ![t.place] = t.value] ELSE at
  IN /\ Calling("root")
     /\ at' = again
     /\ refcount' = Counted(t.zv, t.value)
     /\ IF Full THEN UNCHANGED <<purple, buffered, entries>> ELSE AddRoot(t.node)
     /\ forgotten' = (forgotten \cup {n \in {t.node} : Full}
                                \cup {n \in {t.zv} : n # Nil /\ refcount'[n] = 0}) \cap live
     /\ todo' = Tail(todo)
     /\ UNCHANGED <<live, gc_enabled, undefined>>

\* _zval_ptr_dtor, or zend_objects_store_del_ref for the handle in a zval:
\* the last reference.  What the freed node holds is released next.
release_last(p, rest) ==
  LET v == at[p]
  IN /\ refcount[v] = 1
     /\ live' = live \ {v}
     /\ Replace(p, Nil)
     /\ RemoveFromBuffer(v)
     /\ todo' = Push(Held({v}), rest)

release_shared(p, held, rest) ==
  /\ refcount[at[p]] > 1
  /\ possible_root(p, Nil, held, rest)
  /\ UNCHANGED live

\* Elements, properties and garbage are released one by one, in an order the
\* model leaves open.
release ==
  /\ Calling("release")
  /\ \E p \in Head(todo).places : release_last(p, Done(p)) \/ release_shared(p, FALSE, Done(p))
  /\ UNCHANGED <<gc_enabled, undefined>>

-----------------------------------------------------------------------------
(* The collection.                                                         *)

\* gc_mark_roots: what the purple roots lead to.
Grey == Reach(Roots \cap purple \cap live)

\* Mutant: what a node in use leads to is not blackened with it.
Black_shallow(grey) == {n \in grey : refcount[n] > Refs(grey, n)}

\* gc_scan_roots: a grey node that has references from elsewhere is in use,
\* with all that it leads to.
Black(grey) == Reach({n \in grey : refcount[n] > Refs(grey, n)})

\* An entry that outlived its zval.
Dangling == (Roots \cap Array) \ live

\* Something marked grey has a slot that still names what an unset is freeing.
NamesFreed ==
  \E i \in DOMAIN todo : todo[i].do = "unset" /\ todo[i].place[1] \in Grey

\* zval_scan_black and zobj_scan_black give back the counts gc_mark_roots took,
\* except those of the references from garbage zvals to objects in use.
Restored(white) ==
  [n \in Node |-> IF n \in white THEN 0 ELSE refcount[n] - Refs(white \cap Zval, n)]

\* zval_collect_white and zobj_collect_white gather the garbage; what it holds
\* that is no garbage is released when it is destroyed.
Outward(white) == {p \in Held(white \cap Container) : at[p] \notin white}

\* Mutant: a survivor's entry goes, but its colour stays.
gc_collect_cycles_purple(rest) ==
  LET grey == Grey
      white == grey \ Black(grey)
  IN /\ Dangling = {} /\ ~NamesFreed
     /\ live' = live \ white
     /\ at' = [p \in Place |-> IF p[1] \in white /\ p \notin Outward(white) THEN Nil ELSE at[p]]
     /\ refcount' = Restored(white)
     /\ purple' = purple \ white
     /\ forgotten' = forgotten \ grey
     /\ buffered' = {}
     /\ entries' = [n \in Container |-> 0]
     /\ todo' = Push(Outward(white), rest)
     /\ UNCHANGED <<gc_enabled, undefined>>

gc_collect_cycles(rest) ==
  LET grey == Grey
      white == grey \ Black(grey)
  IN /\ Dangling = {} /\ ~NamesFreed
     /\ live' = live \ white
     /\ at' = [p \in Place |-> IF p[1] \in white /\ p \notin Outward(white) THEN Nil ELSE at[p]]
     /\ refcount' = Restored(white)
     /\ purple' = purple \ (grey \cup Roots)
     /\ forgotten' = forgotten \ grey
     /\ buffered' = {}
     /\ entries' = [n \in Container |-> 0]
     /\ todo' = Push(Outward(white), rest)
     /\ UNCHANGED <<gc_enabled, undefined>>

\* gc_mark_roots follows an entry, or the slot of a property that is being
\* unset, into memory that is freed or is about to be.
gc_collect_freed(rest) ==
  /\ Dangling # {} \/ NamesFreed
  /\ undefined' = TRUE
  /\ todo' = rest
  /\ UNCHANGED <<heapVars, bufferVars, gc_enabled>>

collect ==
  /\ Calling("collect")
  /\ gc_collect_cycles(Tail(todo)) \/ gc_collect_freed(Tail(todo))

-----------------------------------------------------------------------------
(* The script.                                                             *)

New(S) == S \ (live \cup Dangling)

new_array(p) ==
  /\ at[p] = Nil
  /\ \E a \in New(Array) :
       /\ live' = live \cup {a}
       /\ Replace(p, a)
       /\ purple' = purple \ {a}
       /\ buffered' = buffered \ {a}
  /\ UNCHANGED <<entries, forgotten, todo, gc_enabled, undefined>>

\* zend_objects_store_put: an old entry may still name the handle.
new_object(p) ==
  /\ at[p] = Nil
  /\ \E z \in New(Zval), o \in New(Obj) :
       /\ live' = live \cup {z, o}
       /\ at' = [at EXCEPT ![p] = z, ![<<z, "handle">>] = o]
       /\ refcount' = [refcount EXCEPT ![z] = 1, ![o] = 1]
       /\ purple' = purple \ {o}
       /\ buffered' = buffered \ {o}
  /\ UNCHANGED <<entries, forgotten, todo, gc_enabled, undefined>>

\* zval_copy_ctor of an object zval that is a reference: a second zval of
\* the same object.
copy_object(p, q) ==
  /\ at[p] = Nil
  /\ at[q] \in Zval
  /\ \E z \in New(Zval) :
       LET o == at[<<at[q], "handle">>]
       IN /\ live' = live \cup {z}
          /\ at' = [at EXCEPT ![p] = z, ![<<z, "handle">>] = o]
          /\ refcount' = [refcount EXCEPT ![z] = 1, ![o] = @ + 1]
  /\ UNCHANGED <<bufferVars, todo, gc_enabled, undefined>>

\* zend_assign_to_variable_reference and zend_std_write_property: the new
\* value is in its place before the old one is released.
assign_then_release(p, q) ==
  /\ at[q] # Nil
  /\ at[q] # at[p]
  /\ at' = [at EXCEPT ![p] = at[q], ![Garbage] = at[p]]
  /\ refcount' = Counted(Nil, at[q])
  /\ todo' = IF at[p] = Nil THEN <<>> ELSE <<Release({Garbage})>>
  /\ UNCHANGED <<live, bufferVars, gc_enabled, undefined>>

\* zend_assign_to_variable where the old value, an object, is shared and has
\* to be split: the old value loses its reference, and may be collected for,
\* while its place still holds it.
assign_splits(p, q) ==
  /\ at[q] \in Zval
  /\ at[p] \in Zval
  /\ refcount[at[p]] > 1
  /\ possible_root(p, at[q], TRUE, <<>>)
  /\ UNCHANGED <<live, gc_enabled, undefined>>

\* zend_hash_del of a variable, of an element, or of a property of an object that
\* has a table of its own for them: the place is gone before its value is.
unset(p) ==
  /\ at[p] # Nil
  /\ release_last(p, <<>>) \/ release_shared(p, FALSE, <<>>)
  /\ UNCHANGED <<gc_enabled, undefined>>

\* zend_std_unset_property of a declared property: the slot names the value
\* until it has been released, and what was freed until all that went with it
\* is.  A reference that is no longer counted is not in at.
zend_std_unset_property(p) ==
  /\ p[1] \in Obj
  /\ at[p] # Nil
  /\ release_last(p, <<Unset(p)>>) \/ release_shared(p, TRUE, <<>>)
  /\ UNCHANGED <<gc_enabled, undefined>>

\* The slot gets NULL.
unset_ends ==
  /\ Calling("unset")
  /\ todo' = Tail(todo)
  /\ UNCHANGED <<heapVars, bufferVars, gc_enabled, undefined>>

\* gc_enable, gc_disable.
set_gc_enabled ==
  /\ gc_enabled' = ~gc_enabled
  /\ UNCHANGED <<heapVars, bufferVars, todo, undefined>>

Lost ==
  /\ undefined
  /\ UNCHANGED vars

script ==
  /\ todo = <<>> /\ ~undefined
  /\ \/ LET places == Accessible
        IN \E p \in places :
             \/ new_array(p) \/ new_object(p) \/ unset(p) \/ zend_std_unset_property(p)
             \/ \E q \in places :
                  copy_object(p, q) \/ assign_then_release(p, q) \/ assign_splits(p, q)
     \/ gc_collect_cycles(<<>>)
     \/ gc_collect_freed(<<>>)
     \/ set_gc_enabled

Next ==
  \/ release
  \/ possible_root_resumes
  \/ collect
  \/ unset_ends
  \/ script
  \/ Lost

Spec == Init /\ [][Next]_vars

-----------------------------------------------------------------------------
(* Properties.                                                             *)

\* The calls that may be under way.
Call ==
  [do : {"release"}, places : (SUBSET Place) \ {{}}]
    \cup [do : {"collect"}]
    \cup [do : {"unset"}, place : Place]
    \cup {c \in [do : {"root"}, zv : Array \cup Zval \cup {Nil}, node : Container,
                 held : BOOLEAN, place : Place, value : Array \cup Zval \cup {Nil}] :
            c.held \/ c.value = Nil}

\* Types.  No reference count is ever negative (they are unsigned in the code,
\* and the collector takes counts away and gives them back), every entry
\* removed from the buffer was there, and only live nodes are forgotten.
TypeOK ==
  /\ live \subseteq Node
  /\ at \in [Place -> Node \cup {Nil}]
  /\ refcount \in [Node -> Nat]
  /\ purple \subseteq Container
  /\ buffered \subseteq Container
  /\ entries \in [Container -> Nat]
  /\ todo \in Seq(Call)
  /\ gc_enabled \in BOOLEAN
  /\ forgotten \subseteq live
  /\ undefined \in BOOLEAN

\* The calls that keep a zval by an additional reference.
Keeping(n) == {i \in DOMAIN todo : todo[i].do = "root" /\ todo[i].zv = n /\ ~todo[i].held}

\* The count of every zval and object is the number of places that hold it
\* and of calls that keep it, at every step of a release and whatever was
\* collected in the middle of it; and nothing is freed while it is held, or
\* left allocated with no reference, except a zval whose last reference was
\* the one kept for it during a collection (zend_gc.c:167).  The slot of a
\* property whose unset is under way does not count: it names what is freed
\* (zend_object_handlers.c:768), up to a collection that follows it.
RefcountsExact ==
  \A n \in Node :
    /\ refcount[n] = Cardinality({p \in Place : at[p] = n}) + Cardinality(Keeping(n))
    /\ n \in live <=> refcount[n] > 0 \/ n \in forgotten

\* The places that calls under way have yet to release.
Pending == UNION {todo[i].places : i \in {j \in DOMAIN todo : todo[j].do = "release"}}

\* What the script or a call under way can still reach.
InUse ==
  Reach(ScriptRefs \cup ({at[p] : p \in Pending \cup {Garbage}} \ {Nil})
          \cup {n \in Node : Keeping(n) # {}})

\* Where a collection begins, now or when the calls under way go on.
Candidates ==
  Roots \cup forgotten
    \cup {todo[i].node : i \in {j \in DOMAIN todo : todo[j].do = "root"}}

\* Garbage the counts cannot free, a cycle or what hangs on one, is reachable
\* from an entry of the buffer of possible roots, so that the next collection
\* finds it; only what a full buffer turned away is lost (zend_gc.c:162, 170, 217).
GarbageHasRoot ==
  ~undefined => live \ InUse \subseteq Reach(Candidates \cap live)

\* What the script sees: the places it has and what they lead to.  It does not
\* run before a slot that is being unset has its NULL.
Seen ==
  LET Sight[R \in SUBSET live] ==
        [p \in Place \ {Garbage} |-> IF p \in ScriptPlace \/ p[1] \in R THEN at[p] ELSE Nil]
  IN Sight[Reach(ScriptRefs)]

Heap == INSTANCE ZendHeap WITH heap <- Seen

\* Counts, releases and collections are invisible to the script: its variables
\* and all that they lead to change by its own assignments, unsets and new
\* values only, whatever is collected in the middle of one (zend_gc.c:166,
\* zend_execute.c:897, zend_object_handlers.c:768), as long as no collection
\* follows an address that is no longer a reference: undefined.
KeepsHeap == Heap!Spec

=============================================================================
