-------------------------------- MODULE ZendHeap --------------------------------
(***************************************************************************)
(* What the engine promises a script about its data, without counts, calls *)
(* under way or a buffer of possible roots: ZendGC implements this         *)
(* specification.                                                          *)
(*                                                                         *)
(* The script sees its variables and what they lead to, and nothing else.  *)
(* What it sees changes when it assigns, unsets or makes a value; that     *)
(* other values are freed, at once or by a collection, it cannot see.      *)
(***************************************************************************)
CONSTANTS Array, Zval, Obj, Var, Key, Property, Nil

VARIABLE heap    \* what each place holds, Nil where it is out of sight

Node == Array \cup Zval \cup Obj
ScriptPlace == {"script"} \X Var
Place ==
  ScriptPlace \cup Array \X Key \cup Obj \X Property \cup Zval \X {"handle"}

\* The least set that has what the variables hold in g and with a node what
\* the node refers to.
Reachable(g) ==
  LET Edges == {<<p[1], g[p]>> : p \in {q \in Place : g[q] # Nil}}
      Closed == {T \in SUBSET Node : \A e \in Edges : e[1] \in T \cup {"script"} => e[2] \in T}
  IN {n \in Node : \A T \in Closed : n \in T}

\* What the script sees of g.
Visible(g) ==
  LET R == Reachable(g)
  IN [p \in Place |-> IF p \in ScriptPlace \/ p[1] \in R THEN g[p] ELSE Nil]

\* Variables, elements of arrays and properties of objects; the handle in a
\* zval never changes.
Writable(g, p) == p \in ScriptPlace \/ p[1] \in Reachable(g) \ Zval

Init == heap = [p \in Place |-> Nil]

-----------------------------------------------------------------------------
(* The statements of the script: what they can make of g is h.             *)

\* An assignment of what the script has already, or, with Nil, an unset.
Write(g, h, p) ==
  /\ h[p] = Nil \/ h[p] \in Reachable(g) \ Obj
  /\ h = Visible([g EXCEPT ![p] = h[p]])

NewArray(g, h, p) ==
  /\ h = [g EXCEPT ![p] = h[p]]
  /\ g[p] = Nil
  /\ h[p] \in Array \ Reachable(g)

\* A zval not seen before, of a new object or of one that the script has.
NewZval(g, h, p) ==
  /\ g[p] = Nil
  /\ h[p] \in Zval
  /\ \E o \in Obj : h = [g EXCEPT ![p] = h[p], ![<<h[p], "handle">>] = o]
  /\ h[p] \notin Reachable(g)

Statement(g, h) ==
  \E p \in {q \in Place : g[q] # h[q]} :
    /\ NewArray(g, h, p) \/ NewZval(g, h, p) \/ Write(g, h, p)
    /\ Writable(g, p)

-----------------------------------------------------------------------------
\* A statement, or work of the engine that the script does not see.  Bound
\* to g and h, the two graphs are evaluated once in a step.
Next == \E g \in {heap}, h \in {heap'} : g = h \/ Statement(g, h)

Spec == Init /\ [][Next]_heap

=============================================================================
