--------------------------- MODULE FpmShmSlotsProofs ---------------------------
(***************************************************************************)
(* Proofs about FpmShmSlots, for any sets of children and slots.           *)
(***************************************************************************)
EXTENDS FpmShmSlots, SequenceTheorems, FiniteSetTheorems, TLAPS

(***************************************************************************)
(* The inductive invariant.  Index and back pointer of slots_used mirror   *)
(* each other; the slots of the two arrays are pairwise apart; the address *)
(* a process holds is the one its index leads to; and a set lock names a   *)
(* process that may hold it.                                               *)
(***************************************************************************)
Actors ==
  /\ procs \cap zombies = {}
  /\ preparing \notin procs \cup zombies
  /\ checking # NoChild => checking \in procs \cup zombies

OwnerIndexed ==
  \A c \in Owners : /\ shm_slot_i[c] \in 1 .. Len(slots_used)
                    /\ slots_used[shm_slot_i[c]].child = c

ElementOwned ==
  \A i \in 1 .. Len(slots_used) :
    \/ slots_used[i] = Orphan
    \/ /\ slots_used[i].child \in Owners
       /\ slots_used[i].shm_slot \in chunks
       /\ shm_slot_i[slots_used[i].child] = i

SlotsApart ==
  /\ \A i, j \in 1 .. Len(slots_used) :
       i # j /\ slots_used[i].shm_slot = slots_used[j].shm_slot
         => slots_used[i].shm_slot = NoSlot
  /\ \A i, j \in 1 .. Len(slots_free) :
       i # j => slots_free[i] # slots_free[j]
  /\ \A i \in 1 .. Len(slots_used), j \in 1 .. Len(slots_free) :
       slots_used[i].shm_slot # slots_free[j]
  /\ \A j \in 1 .. Len(slots_free) : slots_free[j] \in chunks

AddressAgrees ==
  \A c \in procs \cup zombies : shm_slot[c] = fpm_shm_slot(c)

LocksOwned ==
  \A c \in Owners :
    /\ lock[fpm_shm_slot(c)] = 1 =>
         \/ holder[fpm_shm_slot(c)] = c
         \/ holder[fpm_shm_slot(c)] = Master /\ checking = c
    /\ report[fpm_shm_slot(c)] \in {NoChild, c}

SlotInv ==
  /\ TypeOK
  /\ Actors
  /\ OwnerIndexed
  /\ ElementOwned
  /\ SlotsApart
  /\ AddressAgrees
  /\ LocksOwned

-----------------------------------------------------------------------------
Entry == [shm_slot : Slot \cup {NoSlot}, child : Child \cup {NoChild}]

\* fpm_array_item_remove yields an array one shorter, in which the last
\* element has taken the place of the removed one.
LEMMA RemoveLemma ==
  ASSUME NEW S, NEW a \in Seq(S), NEW n \in 1 .. Len(a)
  PROVE  /\ fpm_array_item_remove(a, n) \in Seq(S)
         /\ Len(fpm_array_item_remove(a, n)) = Len(a) - 1
         /\ \A i \in 1 .. Len(a) - 1 :
              fpm_array_item_remove(a, n)[i] = IF i = n THEN a[Len(a)] ELSE a[i]
  BY DEF fpm_array_item_remove

\* The slot of an owner is a real chunk.
LEMMA OwnerSlot ==
  ASSUME TypeOK, OwnerIndexed, ElementOwned
  PROVE  \A c \in Owners : /\ c \in Child
                           /\ fpm_shm_slot(c) \in chunks
                           /\ fpm_shm_slot(c) \in Slot
  <1> SUFFICES ASSUME NEW c \in Owners
               PROVE  c \in Child /\ fpm_shm_slot(c) \in chunks /\ fpm_shm_slot(c) \in Slot
    OBVIOUS
  <1>1. c \in Child
    BY DEF Owners, TypeOK
  <1>2. /\ shm_slot_i[c] \in 1 .. Len(slots_used)
        /\ slots_used[shm_slot_i[c]].child = c
    BY DEF OwnerIndexed
  <1>3. slots_used[shm_slot_i[c]] # Orphan
    BY <1>1, <1>2, NullAssumption DEF Orphan
  <1>4. fpm_shm_slot(c) \in chunks
    BY <1>2, <1>3 DEF ElementOwned, fpm_shm_slot
  <1> QED
    BY <1>1, <1>4 DEF TypeOK

\* Different owners have different slots.
LEMMA OwnersApart ==
  ASSUME TypeOK, OwnerIndexed, ElementOwned, SlotsApart,
         NEW c \in Owners, NEW d \in Owners, c # d
  PROVE  fpm_shm_slot(c) # fpm_shm_slot(d)
  <1>1. /\ shm_slot_i[c] \in 1 .. Len(slots_used)
        /\ shm_slot_i[d] \in 1 .. Len(slots_used)
        /\ shm_slot_i[c] # shm_slot_i[d]
    BY DEF OwnerIndexed
  <1>2. fpm_shm_slot(c) # NoSlot
    BY OwnerSlot, NullAssumption
  <1> QED
    BY <1>1, <1>2 DEF SlotsApart, fpm_shm_slot

\* The pool starts with empty arrays and no children.
LEMMA InitSlotInv == Init => SlotInv
  <1> SUFFICES ASSUME Init PROVE SlotInv
    OBVIOUS
  <1>1. TypeOK
    <2>1. slots_used \in Seq(Entry) /\ slots_free \in Seq(Slot)
      BY EmptySeq DEF Init
    <2>2. undefined \in BOOLEAN
      BY DEF Init
    <2> QED
      BY <2>1, <2>2 DEF Init, TypeOK, Entry
  <1>2. Owners = {}
    BY DEF Init, Owners
  <1>3. Len(slots_used) = 0 /\ Len(slots_free) = 0
    BY DEF Init
  <1>4. Actors /\ AddressAgrees
    BY DEF Init, Actors, AddressAgrees
  <1> QED
    BY <1>1, <1>2, <1>3, <1>4
    DEF SlotInv, OwnerIndexed, ElementOwned, SlotsApart, LocksOwned

\* A sequence without its last element.
LEMMA FrontLemma ==
  ASSUME NEW S, NEW a \in Seq(S), Len(a) > 0
  PROVE  LET b == SubSeq(a, 1, Len(a) - 1)
         IN /\ b \in Seq(S) /\ Len(b) = Len(a) - 1
            /\ \A j \in 1 .. Len(a) - 1 : b[j] = a[j]
  <1> DEFINE b == SubSeq(a, 1, Len(a) - 1)
  <1>1. Len(a) \in Nat /\ \A i \in 1 .. Len(a) - 1 : a[i] \in S
    OBVIOUS
  <1>2. /\ b \in Seq(S)
        /\ Len(b) = IF 1 <= Len(a) - 1 THEN (Len(a) - 1) - 1 + 1 ELSE 0
        /\ \A i \in 1 .. (Len(a) - 1) - 1 + 1 : b[i] = a[1 + i - 1]
    BY <1>1, SubSeqProperties
  <1> HIDE DEF b
  <1>3. Len(b) = Len(a) - 1
    <2>1. \A k \in Nat : k > 0 =>
            (IF 1 <= k - 1 THEN (k - 1) - 1 + 1 ELSE 0) = k - 1
      OBVIOUS
    <2> QED
      BY <1>1, <1>2, <2>1, Zenon
  <1>4. \A j \in 1 .. Len(a) - 1 : b[j] = a[j]
    <2> SUFFICES ASSUME NEW j \in 1 .. Len(a) - 1
                 PROVE  b[j] = a[j]
      OBVIOUS
    <2>1. 1 + j - 1 = j /\ j \in 1 .. (Len(a) - 1) - 1 + 1
      BY <1>1
    <2> QED
      BY <1>2, <2>1
  <1> QED
    BY <1>2, <1>3, <1>4 DEF b

-----------------------------------------------------------------------------
\* fpm_shm_slots_prepare_slot hands child c a slot nobody else uses.
LEMMA PrepareSlot ==
  ASSUME SlotInv, NEW c \in Child, fpm_shm_slots_prepare_slot(c)
  PROVE  SlotInv'
  <1> USE DEF SlotInv
  <1>0. PICK s \in Slot :
          /\ UseSlot(c, s)
          /\ \A i \in 1 .. Len(slots_used) : slots_used[i].shm_slot # s
          /\ \A j \in 1 .. Len(slots_free') : slots_free'[j] # s
          /\ chunks' = chunks \cup {s}
          /\ slots_free' \in Seq(Slot)
          /\ Len(slots_free') <= Len(slots_free)
          /\ \A j \in 1 .. Len(slots_free') : slots_free'[j] = slots_free[j]
    <2>1. CASE slots_free = <<>>
      <3>1. PICK s \in Slot \ chunks : UseSlot(c, s) /\ chunks' = chunks \cup {s}
                                       /\ slots_free' = slots_free
        BY <2>1 DEF fpm_shm_slots_prepare_slot
      <3>2. \A i \in 1 .. Len(slots_used) : slots_used[i].shm_slot # s
        BY <3>1, NullAssumption DEF ElementOwned, Orphan
      <3> QED
        BY <2>1, <3>1, <3>2
    <2>2. CASE slots_free # <<>>
      <3> DEFINE s == slots_free[Len(slots_free)]
      <3>1. /\ UseSlot(c, s)
            /\ slots_free' = SubSeq(slots_free, 1, Len(slots_free) - 1)
            /\ chunks' = chunks
        BY <2>2 DEF fpm_shm_slots_prepare_slot
      <3>2. Len(slots_free) \in Nat /\ Len(slots_free) > 0
        BY <2>2 DEF TypeOK
      <3>3. /\ s \in Slot
            /\ s \in chunks
        BY <3>2 DEF TypeOK, SlotsApart
      <3>4. \A i \in 1 .. Len(slots_used) : slots_used[i].shm_slot # s
        BY <3>2 DEF SlotsApart
      <3>5. /\ slots_free' \in Seq(Slot)
            /\ Len(slots_free') = Len(slots_free) - 1
            /\ \A j \in 1 .. Len(slots_free') : slots_free'[j] = slots_free[j]
        <4>1. slots_free \in Seq(Slot)
          BY DEF TypeOK
        <4> QED
          BY <3>1, <3>2, <4>1, FrontLemma
      <3>6. \A j \in 1 .. Len(slots_free') : slots_free'[j] # s
        BY <3>2, <3>5 DEF SlotsApart
      <3>7. chunks' = chunks \cup {s}
        BY <3>1, <3>3
      <3> HIDE DEF s
      <3> QED
        BY <3>1, <3>2, <3>3, <3>4, <3>5, <3>6, <3>7
    <2> QED
      BY <2>1, <2>2
  <1>1. /\ slots_used' = Append(slots_used, [shm_slot |-> s, child |-> c])
        /\ shm_slot_i' = [shm_slot_i EXCEPT ![c] = Len(slots_used) + 1]
        /\ lock' = [lock EXCEPT ![s] = 0]
        /\ report' = [report EXCEPT ![s] = NoChild]
        /\ holder' = [holder EXCEPT ![s] = NoChild]
        /\ preparing' = c
        /\ UNCHANGED <<procs, zombies, shm_slot, checking, lost, undefined>>
        /\ preparing = NoChild /\ checking = NoChild
        /\ c \notin Owners
    BY <1>0 DEF UseSlot, fpm_shm_slots_prepare_slot, MasterIdle
  <1>2. Owners' = Owners \cup {c}
    BY <1>1, NullAssumption DEF Owners
  <1>3. /\ slots_used' \in Seq(Entry)
        /\ Len(slots_used') = Len(slots_used) + 1
        /\ \A i \in 1 .. Len(slots_used) : slots_used'[i] = slots_used[i]
        /\ slots_used'[Len(slots_used) + 1] = [shm_slot |-> s, child |-> c]
        /\ Len(slots_used) \in Nat
    BY <1>1 DEF TypeOK, Entry
  <1>4. \A d \in Owners : /\ d \in Child
                          /\ shm_slot_i'[d] = shm_slot_i[d]
                          /\ fpm_shm_slot(d)' = fpm_shm_slot(d)
                          /\ fpm_shm_slot(d) # s
    BY <1>0, <1>1, <1>3, OwnerSlot DEF OwnerIndexed, fpm_shm_slot, TypeOK
  <1>5. shm_slot_i'[c] = Len(slots_used) + 1 /\ fpm_shm_slot(c)' = s
    BY <1>1, <1>3 DEF TypeOK, fpm_shm_slot
  <1>6. TypeOK'
    BY <1>0, <1>1, <1>3 DEF TypeOK, Entry
  <1>7. Actors'
    BY <1>1 DEF Actors, Owners
  <1>8. OwnerIndexed'
    BY <1>2, <1>3, <1>4, <1>5 DEF OwnerIndexed
  <1>9. ElementOwned'
    BY <1>0, <1>2, <1>3, <1>4, <1>5 DEF ElementOwned, Orphan
  <1>10. SlotsApart'
    <2>1. Len(slots_free) \in Nat /\ Len(slots_free') \in Nat
      BY <1>0 DEF TypeOK
    <2>2. \A i, j \in 1 .. Len(slots_used) + 1 :
            i # j /\ slots_used'[i].shm_slot = slots_used'[j].shm_slot
              => slots_used'[i].shm_slot = NoSlot
      <3>1. slots_used'[Len(slots_used) + 1].shm_slot = s
        BY <1>3
      <3>2. \A i \in 1 .. Len(slots_used) : slots_used'[i].shm_slot # s
        BY <1>0, <1>3
      <3>3. \A i \in 1 .. Len(slots_used) + 1 :
              i \in 1 .. Len(slots_used) \/ i = Len(slots_used) + 1
        BY <1>3
      <3>4. \A i, j \in 1 .. Len(slots_used) :
              i # j /\ slots_used'[i].shm_slot = slots_used'[j].shm_slot
                => slots_used'[i].shm_slot = NoSlot
        BY <1>3 DEF SlotsApart
      <3> QED
        BY <3>1, <3>2, <3>3, <3>4
    <2>3. \A i, j \in 1 .. Len(slots_free') : i # j => slots_free'[i] # slots_free'[j]
      BY <1>0, <2>1 DEF SlotsApart
    <2>4. \A i \in 1 .. Len(slots_used) + 1, j \in 1 .. Len(slots_free') :
            slots_used'[i].shm_slot # slots_free'[j]
      BY <1>0, <1>3, <2>1 DEF SlotsApart
    <2>5. \A j \in 1 .. Len(slots_free') : slots_free'[j] \in chunks'
      BY <1>0, <2>1 DEF SlotsApart
    <2> QED
      BY <1>3, <2>2, <2>3, <2>4, <2>5 DEF SlotsApart
  <1>11. AddressAgrees'
    BY <1>1, <1>4 DEF AddressAgrees, Owners
  <1>12. LocksOwned'
    BY <1>1, <1>2, <1>4, <1>5, OwnerSlot DEF LocksOwned, TypeOK
  <1> QED
    BY <1>6, <1>7, <1>8, <1>9, <1>10, <1>11, <1>12

\* A failed allocation leaves an orphan behind and nothing else.
LEMMA AllocFails ==
  ASSUME SlotInv, alloc_chunk_fails
  PROVE  SlotInv'
  <1> USE DEF SlotInv
  <1>1. /\ slots_used' = Append(slots_used, Orphan)
        /\ UNCHANGED <<slots_free, chunks, shm_slot_i, preparing, procs, zombies,
                       shm_slot, lock, report, holder, checking, lost, undefined>>
    BY DEF alloc_chunk_fails
  <1>2. Owners' = Owners
    BY <1>1 DEF Owners
  <1>3. /\ slots_used' \in Seq(Entry)
        /\ Len(slots_used') = Len(slots_used) + 1
        /\ \A i \in 1 .. Len(slots_used) : slots_used'[i] = slots_used[i]
        /\ slots_used'[Len(slots_used) + 1] = Orphan
        /\ Len(slots_used) \in Nat
    BY <1>1 DEF TypeOK, Entry, Orphan
  <1>4. \A d \in Owners : fpm_shm_slot(d)' = fpm_shm_slot(d)
    BY <1>1, <1>3 DEF OwnerIndexed, fpm_shm_slot
  <1>5. TypeOK' /\ Actors'
    BY <1>1, <1>3 DEF TypeOK, Entry, Actors
  <1>6. OwnerIndexed'
    BY <1>1, <1>2, <1>3 DEF OwnerIndexed
  <1>7. ElementOwned'
    BY <1>1, <1>2, <1>3 DEF ElementOwned
  <1>8. SlotsApart'
    BY <1>1, <1>3, NullAssumption DEF SlotsApart, Orphan, TypeOK
  <1>9. AddressAgrees' /\ LocksOwned'
    BY <1>1, <1>2, <1>4 DEF AddressAgrees, LocksOwned, Owners
  <1> QED
    BY <1>5, <1>6, <1>7, <1>8, <1>9

\* fork: the process takes the address its index leads to.
LEMMA ForkChild ==
  ASSUME SlotInv, fork_child
  PROVE  SlotInv'
  <1> USE DEF SlotInv
  <1>1. /\ preparing # NoChild
        /\ procs' = procs \cup {preparing}
        /\ shm_slot' = [shm_slot EXCEPT ![preparing] = fpm_shm_slot(preparing)]
        /\ preparing' = NoChild
        /\ UNCHANGED <<slots_used, slots_free, chunks, shm_slot_i, zombies, lock,
                       report, holder, checking, lost, undefined>>
    BY DEF fork_child
  <1>2. preparing \in Owners /\ preparing \in Child
    BY <1>1 DEF Owners, TypeOK
  <1>3. Owners' = Owners
    BY <1>1 DEF Owners
  <1>4. \A d : fpm_shm_slot(d)' = fpm_shm_slot(d)
    BY <1>1 DEF fpm_shm_slot
  <1>5. fpm_shm_slot(preparing) \in Slot
    BY <1>2, OwnerSlot
  <1>6. TypeOK'
    BY <1>1, <1>2, <1>5 DEF TypeOK
  <1>7. Actors'
    BY <1>1, <1>2, NullAssumption DEF Actors, TypeOK
  <1>8. OwnerIndexed' /\ ElementOwned' /\ SlotsApart'
    BY <1>1, <1>3 DEF OwnerIndexed, ElementOwned, SlotsApart
  <1>9. AddressAgrees'
    BY <1>1, <1>2, <1>4 DEF AddressAgrees, Actors, TypeOK
  <1>10. LocksOwned'
    BY <1>1, <1>3, <1>4 DEF LocksOwned
  <1> QED
    BY <1>6, <1>7, <1>8, <1>9, <1>10

(***************************************************************************)
(* The heart of the matter: removing child c's element from slots_used,    *)
(* with the last element moved into the hole, leaves every other child     *)
(* with an index that leads to the slot it had before.                     *)
(***************************************************************************)
LEMMA DiscardSlot ==
  ASSUME SlotInv, NEW c \in Owners, fpm_shm_slots_discard_slot(c),
         Owners' = Owners \ {c}, UNCHANGED <<lock, report, holder, checking>>,
         checking # c
  PROVE  /\ slots_used' \in Seq(Entry) /\ slots_free' \in Seq(Slot) /\ lost' \subseteq Slot
         /\ shm_slot_i' \in [Child -> Nat]
         /\ undefined' \in BOOLEAN /\ chunks' = chunks
         /\ \A d \in Owners' : fpm_shm_slot(d)' = fpm_shm_slot(d)
         /\ OwnerIndexed' /\ ElementOwned' /\ SlotsApart' /\ LocksOwned'
  <1> USE DEF SlotInv
  <1> DEFINE n == shm_slot_i[c]
             L == Len(slots_used)
             last == slots_used[L].child
  <1>1. /\ \/ slots_free' = Append(slots_free, fpm_shm_slot(c)) /\ lost' = lost
           \/ slots_free' = slots_free /\ lost' = lost \cup {fpm_shm_slot(c)}
        /\ slots_used' = fpm_array_item_remove(slots_used, n)
        /\ shm_slot_i' = IF n < L /\ last # NoChild
                            THEN [shm_slot_i EXCEPT ![last] = n] ELSE shm_slot_i
        /\ undefined' = (undefined \/ (n < L /\ last = NoChild))
        /\ chunks' = chunks
    BY DEF fpm_shm_slots_discard_slot, FreeSlot
  <1>2. /\ c \in Child
        /\ fpm_shm_slot(c) \in Slot
        /\ fpm_shm_slot(c) \in chunks
    BY OwnerSlot
  <1>3. /\ L \in Nat
        /\ n \in 1 .. L
        /\ slots_used \in Seq(Entry)
        /\ slots_used[n].child = c
        /\ fpm_shm_slot(c) = slots_used[n].shm_slot
    BY DEF OwnerIndexed, TypeOK, Entry, fpm_shm_slot
  <1>4. /\ slots_used' \in Seq(Entry)
        /\ Len(slots_used') = L - 1
        /\ \A i \in 1 .. L - 1 :
             slots_used'[i] = IF i = n THEN slots_used[L] ELSE slots_used[i]
    BY <1>1, <1>3, RemoveLemma
  <1>5. /\ slots_free' \in Seq(Slot) /\ lost' \subseteq Slot
        /\ Len(slots_free) \in Nat
        /\ Len(slots_free') \in {Len(slots_free), Len(slots_free) + 1}
        /\ \A j \in 1 .. Len(slots_free') :
             slots_free'[j] = IF j = Len(slots_free) + 1 THEN fpm_shm_slot(c)
                                                         ELSE slots_free[j]
    <2>1. CASE slots_free' = Append(slots_free, fpm_shm_slot(c)) /\ lost' = lost
      BY <1>2, <2>1 DEF TypeOK
    <2>2. CASE slots_free' = slots_free /\ lost' = lost \cup {fpm_shm_slot(c)}
      BY <1>2, <2>2 DEF TypeOK
    <2> QED
      BY <1>1, <2>1, <2>2
  <1>6. \/ slots_used[L] = Orphan /\ last = NoChild
        \/ last \in Owners /\ last \in Child /\ shm_slot_i[last] = L
    BY <1>3 DEF ElementOwned, Orphan, Owners, TypeOK
  <1>7. \A d \in Owners \ {c} :
          /\ d \in Child
          /\ shm_slot_i[d] \in 1 .. L /\ shm_slot_i[d] # n
          /\ slots_used[shm_slot_i[d]].child = d
          /\ shm_slot_i'[d] = IF shm_slot_i[d] = L THEN n ELSE shm_slot_i[d]
    <2> SUFFICES ASSUME NEW d \in Owners \ {c}
                 PROVE  /\ d \in Child
                        /\ shm_slot_i[d] \in 1 .. L /\ shm_slot_i[d] # n
                        /\ slots_used[shm_slot_i[d]].child = d
                        /\ shm_slot_i'[d] = IF shm_slot_i[d] = L THEN n ELSE shm_slot_i[d]
      OBVIOUS
    <2>1. d \in Child /\ d # NoChild
      BY NullAssumption DEF Owners, TypeOK
    <2>2. /\ shm_slot_i[d] \in 1 .. L /\ shm_slot_i[d] # n
          /\ slots_used[shm_slot_i[d]].child = d
      BY <1>3 DEF OwnerIndexed
    <2>3. shm_slot_i \in [Child -> Nat]
      BY DEF TypeOK
    <2>4. CASE shm_slot_i[d] = L
      BY <1>1, <1>3, <2>1, <2>2, <2>3, <2>4
    <2>5. CASE shm_slot_i[d] # L
      <3>1. d # last \/ last = NoChild
        BY <1>6, <2>5
      <3> QED
        BY <1>1, <1>6, <2>1, <2>2, <2>3, <2>5, <3>1
    <2> QED
      BY <2>1, <2>2, <2>4, <2>5
  <1>8. \A d \in Owners \ {c} :
          /\ shm_slot_i'[d] \in 1 .. L - 1
          /\ slots_used'[shm_slot_i'[d]] = slots_used[shm_slot_i[d]]
    BY <1>3, <1>4, <1>7
  <1>9. \A d \in Owners' : fpm_shm_slot(d)' = fpm_shm_slot(d)
    BY <1>8 DEF fpm_shm_slot
  <1>10. shm_slot_i' \in [Child -> Nat]
    BY <1>1, <1>3, <1>6 DEF TypeOK
  <1>11. undefined' \in BOOLEAN
    BY <1>1 DEF TypeOK
  <1>12. OwnerIndexed'
    BY <1>4, <1>7, <1>8 DEF OwnerIndexed
  <1>13. ElementOwned'
    <2> SUFFICES ASSUME NEW i \in 1 .. L - 1, slots_used'[i] # Orphan
                 PROVE  /\ slots_used'[i].child \in Owners \ {c}
                        /\ slots_used'[i].shm_slot \in chunks
                        /\ shm_slot_i'[slots_used'[i].child] = i
      BY <1>1, <1>4 DEF ElementOwned, Orphan
    <2>1. PICK k \in 1 .. L : /\ k = IF i = n THEN L ELSE i
                              /\ slots_used'[i] = slots_used[k]
                              /\ k # n
      BY <1>3, <1>4
    <2>2. /\ slots_used[k].child \in Owners
          /\ slots_used[k].shm_slot \in chunks
          /\ shm_slot_i[slots_used[k].child] = k
      BY <2>1 DEF ElementOwned
    <2>3. slots_used[k].child # c
      BY <2>1, <2>2
    <2> QED
      BY <1>3, <1>7, <2>1, <2>2, <2>3
  <1>14. SlotsApart'
    <2>1. \A i, j \in 1 .. L - 1 :
            i # j /\ slots_used'[i].shm_slot = slots_used'[j].shm_slot
              => slots_used'[i].shm_slot = NoSlot
      BY <1>3, <1>4 DEF SlotsApart
    <2>2. \A i, j \in 1 .. Len(slots_free') :
            i # j => slots_free'[i] # slots_free'[j]
      BY <1>3, <1>5 DEF SlotsApart
    <2>3. \A i \in 1 .. L - 1 : slots_used'[i].shm_slot # fpm_shm_slot(c)
      BY <1>2, <1>3, <1>4, NullAssumption DEF SlotsApart
    <2>4. \A i \in 1 .. L - 1, j \in 1 .. Len(slots_free) :
            slots_used'[i].shm_slot # slots_free[j]
      BY <1>3, <1>4 DEF SlotsApart
    <2>5. \A i \in 1 .. L - 1, j \in 1 .. Len(slots_free') :
            slots_used'[i].shm_slot # slots_free'[j]
      BY <1>5, <2>3, <2>4
    <2>6. \A j \in 1 .. Len(slots_free') : slots_free'[j] \in chunks
      BY <1>2, <1>5 DEF SlotsApart
    <2> QED
      BY <1>1, <1>4, <1>5, <2>1, <2>2, <2>5, <2>6 DEF SlotsApart
  <1>15. LocksOwned'
    BY <1>9 DEF LocksOwned
  <1> QED
    BY <1>1, <1>4, <1>5, <1>9, <1>10, <1>11, <1>12, <1>13, <1>14, <1>15

\* fork failed: the prepared struct gives its slot back.
LEMMA ForkFails ==
  ASSUME SlotInv, fork_fails
  PROVE  SlotInv'
  <1> USE DEF SlotInv
  <1>1. /\ preparing # NoChild
        /\ fpm_shm_slots_discard_slot(preparing)
        /\ preparing' = NoChild
        /\ UNCHANGED <<procs, zombies, shm_slot, lock, report, holder, checking>>
    BY DEF fork_fails
  <1>2. preparing \in Owners /\ checking # preparing
    BY <1>1 DEF Owners, Actors
  <1>3. Owners' = Owners \ {preparing}
    BY <1>1 DEF Owners, Actors
  <1>4. /\ slots_used' \in Seq(Entry) /\ slots_free' \in Seq(Slot) /\ lost' \subseteq Slot
        /\ shm_slot_i' \in [Child -> Nat]
        /\ undefined' \in BOOLEAN /\ chunks' = chunks
        /\ \A d \in Owners' : fpm_shm_slot(d)' = fpm_shm_slot(d)
        /\ OwnerIndexed' /\ ElementOwned' /\ SlotsApart' /\ LocksOwned'
    BY <1>1, <1>2, <1>3, DiscardSlot
  <1>5. TypeOK'
    BY <1>1, <1>4 DEF TypeOK, Entry
  <1>6. Actors'
    BY <1>1, NullAssumption DEF Actors, TypeOK
  <1>7. AddressAgrees'
    BY <1>1, <1>4 DEF AddressAgrees, Owners
  <1> QED
    BY <1>4, <1>5, <1>6, <1>7

\* Burying a dead child: the same, for a linked struct.
LEMMA Bury ==
  ASSUME SlotInv, NEW c \in Child, bury(c)
  PROVE  SlotInv'
  <1> USE DEF SlotInv
  <1>1. /\ c \in zombies /\ checking = NoChild /\ preparing = NoChild
        /\ fpm_shm_slots_discard_slot(c)
        /\ zombies' = zombies \ {c}
        /\ shm_slot' = [shm_slot EXCEPT ![c] = NoSlot]
        /\ UNCHANGED <<preparing, procs, lock, report, holder, checking>>
    BY DEF bury, MasterIdle
  <1>2. c \in Owners /\ checking # c
    BY <1>1, NullAssumption DEF Owners
  <1>3. Owners' = Owners \ {c}
    BY <1>1 DEF Owners, Actors
  <1>4. /\ slots_used' \in Seq(Entry) /\ slots_free' \in Seq(Slot) /\ lost' \subseteq Slot
        /\ shm_slot_i' \in [Child -> Nat]
        /\ undefined' \in BOOLEAN /\ chunks' = chunks
        /\ \A d \in Owners' : fpm_shm_slot(d)' = fpm_shm_slot(d)
        /\ OwnerIndexed' /\ ElementOwned' /\ SlotsApart' /\ LocksOwned'
    BY <1>1, <1>2, <1>3, DiscardSlot
  <1>5. TypeOK'
    BY <1>1, <1>4 DEF TypeOK, Entry
  <1>6. Actors'
    BY <1>1 DEF Actors
  <1>7. AddressAgrees'
    BY <1>1, <1>4 DEF AddressAgrees, Owners, Actors, TypeOK
  <1> QED
    BY <1>4, <1>5, <1>6, <1>7

\* The lock, report and holder steps of the master and the workers touch one
\* owner's slot only, and no other owner has that slot.
LEMMA LockSteps ==
  ASSUME SlotInv,
         \/ \E c \in Child : check_acquire(c)
         \/ check_release
         \/ \E c \in Child : fpm_shm_slots_acquire(c)
         \/ \E c \in Child : fpm_shm_slots_release(c)
  PROVE  SlotInv'
  <1> USE DEF SlotInv
  <1>1. UNCHANGED <<slots_used, slots_free, chunks, shm_slot_i, preparing,
                    lost, undefined, procs, zombies, shm_slot>>
    BY DEF check_acquire, check_release, fpm_shm_slots_acquire,
           fpm_shm_slots_release, masterVars
  <1>2. Owners' = Owners
    BY <1>1 DEF Owners
  <1>3. \A d : fpm_shm_slot(d)' = fpm_shm_slot(d)
    BY <1>1 DEF fpm_shm_slot
  <1>4. OwnerIndexed' /\ ElementOwned' /\ SlotsApart' /\ AddressAgrees'
    BY <1>1, <1>2, <1>3
    DEF OwnerIndexed, ElementOwned, SlotsApart, AddressAgrees
  <1> SUFFICES TypeOK' /\ Actors' /\ LocksOwned'
    BY <1>4
  <1>5. \A c \in procs \cup zombies : c \in Owners /\ shm_slot[c] = fpm_shm_slot(c)
    BY DEF Owners, AddressAgrees
  <1>6. ASSUME NEW c \in Child, check_acquire(c)
        PROVE  TypeOK' /\ Actors' /\ LocksOwned'
    <2>1. /\ c \in procs \cup zombies /\ checking = NoChild
          /\ lock' = [lock EXCEPT ![fpm_shm_slot(c)] = 1]
          /\ holder' = [holder EXCEPT ![fpm_shm_slot(c)] = Master]
          /\ checking' = c /\ report' = report
      BY <1>6 DEF check_acquire, MasterIdle
    <2>2. c \in Owners /\ fpm_shm_slot(c) \in Slot
      BY <1>5, <2>1, OwnerSlot
    <2>3. TypeOK' /\ Actors'
      BY <1>1, <2>1, <2>2 DEF TypeOK, Actors
    <2>4. \A d \in Owners \ {c} : fpm_shm_slot(d) # fpm_shm_slot(c)
      BY <2>2, OwnersApart
    <2>5. LocksOwned'
      BY <1>2, <1>3, <2>1, <2>2, <2>4, OwnerSlot, NullAssumption DEF LocksOwned, TypeOK
    <2> QED
      BY <2>3, <2>5
  <1>7. ASSUME check_release
        PROVE  TypeOK' /\ Actors' /\ LocksOwned'
    <2> DEFINE c == checking
    <2>1. /\ c # NoChild
          /\ lock' = [lock EXCEPT ![fpm_shm_slot(c)] = 0]
          /\ holder' = [holder EXCEPT ![fpm_shm_slot(c)] = NoChild]
          /\ checking' = NoChild /\ report' = report
      BY <1>7 DEF check_release
    <2>2. c \in Owners /\ fpm_shm_slot(c) \in Slot
      BY <1>5, <2>1, OwnerSlot DEF Actors
    <2>3. TypeOK' /\ Actors'
      BY <1>1, <2>1, <2>2 DEF TypeOK, Actors
    <2>4. \A d \in Owners \ {c} : fpm_shm_slot(d) # fpm_shm_slot(c)
      BY <2>2, OwnersApart
    <2>5. LocksOwned'
      BY <1>2, <1>3, <2>1, <2>2, <2>4, OwnerSlot DEF LocksOwned, TypeOK
    <2> QED
      BY <2>3, <2>5
  <1>8. ASSUME NEW c \in Child, fpm_shm_slots_acquire(c)
        PROVE  TypeOK' /\ Actors' /\ LocksOwned'
    <2> DEFINE s == fpm_shm_slot(c)
    <2>1. c \in Owners /\ shm_slot[c] = s /\ s \in Slot
      BY <1>5, <1>8, OwnerSlot DEF fpm_shm_slots_acquire
    <2>2. /\ checking' = checking
          /\ lock' = [lock EXCEPT ![s] = 1]
          /\ holder' = [holder EXCEPT ![s] = c]
          /\ report' = report
      BY <1>8, <2>1 DEF fpm_shm_slots_acquire
    <2>3. TypeOK' /\ Actors'
      BY <1>1, <2>1, <2>2 DEF TypeOK, Actors
    <2>4. \A d \in Owners \ {c} : fpm_shm_slot(d) # s
      BY <2>1, OwnersApart
    <2> HIDE DEF s
    <2>5. LocksOwned'
      BY <1>2, <1>3, <2>1, <2>2, <2>4, OwnerSlot DEF LocksOwned, TypeOK, s
    <2> QED
      BY <2>3, <2>5
  <1>9. ASSUME NEW c \in Child, fpm_shm_slots_release(c)
        PROVE  TypeOK' /\ Actors' /\ LocksOwned'
    <2> DEFINE s == fpm_shm_slot(c)
    <2>1. c \in Owners /\ shm_slot[c] = s /\ s \in Slot
      BY <1>5, <1>9, OwnerSlot DEF fpm_shm_slots_release
    <2>2. /\ checking' = checking
          /\ lock' = [lock EXCEPT ![s] = 0]
          /\ holder' = [holder EXCEPT ![s] = NoChild]
          /\ report' = [report EXCEPT ![s] = c]
      BY <1>9, <2>1 DEF fpm_shm_slots_release
    <2>3. TypeOK' /\ Actors'
      BY <1>1, <2>1, <2>2 DEF TypeOK, Actors
    <2>4. \A d \in Owners \ {c} : fpm_shm_slot(d) # s
      BY <2>1, OwnersApart
    <2> HIDE DEF s
    <2>5. LocksOwned'
      BY <1>2, <1>3, <2>1, <2>2, <2>4, OwnerSlot DEF LocksOwned, TypeOK, s
    <2> QED
      BY <2>3, <2>5
  <1> QED
    BY <1>6, <1>7, <1>8, <1>9

\* A worker that dies keeps its slot, and whatever it left in it, until it
\* is buried.
LEMMA Die ==
  ASSUME SlotInv, NEW c \in Child, die(c)
  PROVE  SlotInv'
  <1> USE DEF SlotInv
  <1>1. /\ c \in procs
        /\ procs' = procs \ {c}
        /\ zombies' = zombies \cup {c}
        /\ UNCHANGED <<slots_used, slots_free, chunks, shm_slot_i, preparing,
                       lost, undefined, shm_slot, lock, report, holder, checking>>
    BY DEF die, masterVars
  <1>2. Owners' = Owners /\ procs' \cup zombies' = procs \cup zombies
    BY <1>1 DEF Owners
  <1>3. \A d : fpm_shm_slot(d)' = fpm_shm_slot(d)
    BY <1>1 DEF fpm_shm_slot
  <1>4. TypeOK' /\ Actors'
    BY <1>1, <1>2 DEF TypeOK, Actors
  <1>5. OwnerIndexed' /\ ElementOwned' /\ SlotsApart' /\ AddressAgrees' /\ LocksOwned'
    BY <1>1, <1>2, <1>3
    DEF OwnerIndexed, ElementOwned, SlotsApart, AddressAgrees, LocksOwned
  <1> QED
    BY <1>4, <1>5

LEMMA StutterSlotInv ==
  ASSUME SlotInv, UNCHANGED vars
  PROVE  SlotInv'
  BY DEF SlotInv, vars, TypeOK, Actors, OwnerIndexed, ElementOwned, SlotsApart,
         AddressAgrees, LocksOwned, Owners, fpm_shm_slot

-----------------------------------------------------------------------------
\* SlotInv holds in every reachable state of the slot protocol.
THEOREM SlotInvariant == Spec => []SlotInv
  <1>1. SlotInv /\ [Next]_vars => SlotInv'
    <2> SUFFICES ASSUME SlotInv, [Next]_vars PROVE SlotInv'
      OBVIOUS
    <2>1. ASSUME NEW c \in Child, fpm_shm_slots_prepare_slot(c) PROVE SlotInv'
      BY <2>1, PrepareSlot
    <2>2. ASSUME NEW c \in Child, bury(c) PROVE SlotInv'
      BY <2>2, Bury
    <2>3. ASSUME NEW c \in Child, die(c) PROVE SlotInv'
      BY <2>3, Die
    <2>4. ASSUME master_lost PROVE SlotInv'
      BY <2>4, StutterSlotInv DEF master_lost
    <2> QED
      BY <2>1, <2>2, <2>3, <2>4, AllocFails, ForkChild, ForkFails, LockSteps,
         StutterSlotInv DEF Next
  <1> QED
    BY <1>1, InitSlotInv, PTL DEF Spec

\* Every variable of the slot protocol keeps its type.
THEOREM SlotsTypeCorrect == Spec => []TypeOK
  <1>1. SlotInv => TypeOK
    BY DEF SlotInv
  <1> QED
    BY <1>1, SlotInvariant, PTL

\* For any number of children and slots, any order of forks, deaths, burials
\* and failed allocations, the master's index and the worker's address name
\* the same slot (fpm_shm_slots_discard_slot re-indexes the moved child).
THEOREM MasterReadsItsWorker == Spec => []IndexAgreesWithAddress
  <1>1. SlotInv => IndexAgreesWithAddress
    BY DEF SlotInv, IndexAgreesWithAddress, OwnerIndexed, AddressAgrees, TypeOK
  <1> QED
    BY <1>1, SlotInvariant, PTL

\* No two running workers write the same shared memory.
THEOREM WorkersApart == Spec => []NoSharedSlot
  <1>1. SlotInv => NoSharedSlot
    <2> SUFFICES ASSUME SlotInv, NEW c \in procs, NEW d \in procs, c # d
                 PROVE  shm_slot[c] # shm_slot[d]
      BY DEF NoSharedSlot
    <2>1. c \in Owners /\ d \in Owners
      BY DEF Owners
    <2>2. fpm_shm_slot(c) # fpm_shm_slot(d)
      BY <2>1, OwnersApart DEF SlotInv
    <2> QED
      BY <2>2 DEF SlotInv, AddressAgrees
  <1> QED
    BY <1>1, SlotInvariant, PTL

\* A worker is never blocked by a lock that a killed predecessor left set in
\* its slot, and never reports a predecessor's request as its own
\* (fpm_shm_slots_prepare_slot zeroes the slot).
THEOREM FreshSlots == Spec => []NothingInherited
  <1>1. SlotInv => NothingInherited
    BY DEF SlotInv, NothingInherited, AddressAgrees, LocksOwned, Owners
  <1> QED
    BY <1>1, SlotInvariant, PTL

-----------------------------------------------------------------------------
(***************************************************************************)
(* That no slot is lost but when slots_free could not grow.  SlotsApart    *)
(* says that a chunk is at one place at most; that it is at one place at   *)
(* all, or at none once it is dropped, is an induction of its own, and so  *)
(* is what the master has met when it has written through an unset pointer.*)
(***************************************************************************)
SlotSomewhere ==
  \A s \in chunks \ lost : \/ \E i \in 1 .. Len(slots_used) : slots_used[i].shm_slot = s
                           \/ \E j \in 1 .. Len(slots_free) : slots_free[j] = s

LostNowhere ==
  \A s \in lost :
    /\ s \in chunks
    /\ \A i \in 1 .. Len(slots_used) : slots_used[i].shm_slot # s
    /\ \A j \in 1 .. Len(slots_free) : slots_free[j] # s

StoppedByOrphan ==
  undefined => /\ preparing = NoChild
               /\ \E i \in 1 .. Len(slots_used) : slots_used[i] = Orphan

ConservedInv == SlotSomewhere /\ LostNowhere /\ StoppedByOrphan

\* The chunk of a new child is in slots_used, whether it is fresh or the last
\* of slots_free.
LEMMA PrepareConserves ==
  ASSUME SlotInv, ConservedInv, NEW c \in Child, fpm_shm_slots_prepare_slot(c)
  PROVE  ConservedInv'
  <1>1. ~undefined /\ undefined' = undefined /\ lost' = lost
    BY DEF fpm_shm_slots_prepare_slot, MasterIdle
  <1>2. /\ slots_used \in Seq(Entry) /\ Len(slots_used) \in Nat
        /\ slots_free \in Seq(Slot) /\ Len(slots_free) \in Nat
    BY LenProperties DEF SlotInv, TypeOK, Entry
  <1>3. PICK s \in Slot :
          /\ UseSlot(c, s)
          /\ chunks' = chunks \cup {s}
          /\ s \notin lost
          /\ Len(slots_free') \in Nat /\ Len(slots_free') <= Len(slots_free)
          /\ \A j \in 1 .. Len(slots_free') : slots_free'[j] = slots_free[j]
          /\ \A t \in chunks \ lost : t # s => \/ \E i \in 1 .. Len(slots_used) : slots_used[i].shm_slot = t
                                        \/ \E j \in 1 .. Len(slots_free') : slots_free'[j] = t
    <2>1. CASE slots_free = <<>>
      <3>1. PICK s \in Slot \ chunks : UseSlot(c, s) /\ chunks' = chunks \cup {s}
                                       /\ slots_free' = slots_free
        BY <2>1 DEF fpm_shm_slots_prepare_slot
      <3> QED
        BY <1>2, <3>1 DEF ConservedInv, SlotSomewhere, LostNowhere
    <2>2. CASE slots_free # <<>>
      <3>1. PICK s : s = slots_free[Len(slots_free)]
        OBVIOUS
      <3>2. /\ UseSlot(c, s)
            /\ slots_free' = SubSeq(slots_free, 1, Len(slots_free) - 1)
            /\ chunks' = chunks
        BY <2>2, <3>1 DEF fpm_shm_slots_prepare_slot
      <3>3. Len(slots_free) > 0
        BY <1>2, <2>2
      <3>4. s \in Slot /\ s \in chunks /\ s \notin lost
        BY <1>2, <3>1, <3>3 DEF SlotInv, SlotsApart, ConservedInv, LostNowhere
      <3>5. /\ Len(slots_free') = Len(slots_free) - 1
            /\ \A j \in 1 .. Len(slots_free) - 1 : slots_free'[j] = slots_free[j]
        BY <1>2, <3>2, <3>3, FrontLemma
      <3>6. ASSUME NEW t \in chunks \ lost, t # s
            PROVE  \/ \E i \in 1 .. Len(slots_used) : slots_used[i].shm_slot = t
                   \/ \E j \in 1 .. Len(slots_free') : slots_free'[j] = t
        <4>1. CASE \E i \in 1 .. Len(slots_used) : slots_used[i].shm_slot = t
          BY <4>1
        <4>2. CASE \E j \in 1 .. Len(slots_free) : slots_free[j] = t
          <5>1. PICK j \in 1 .. Len(slots_free) : slots_free[j] = t
            BY <4>2
          <5>2. j \in 1 .. Len(slots_free) - 1
            BY <1>2, <3>1, <3>6, <5>1
          <5> QED
            BY <3>5, <5>1, <5>2
        <4> QED
          BY <4>1, <4>2 DEF ConservedInv, SlotSomewhere
      <3> QED
        BY <1>2, <3>2, <3>4, <3>5, <3>6
    <2> QED
      BY <2>1, <2>2
  <1>4. slots_used' = Append(slots_used, [shm_slot |-> s, child |-> c])
    BY <1>3 DEF UseSlot
  <1>5. /\ Len(slots_used') = Len(slots_used) + 1
        /\ \A i \in 1 .. Len(slots_used) : slots_used'[i] = slots_used[i]
        /\ slots_used'[Len(slots_used) + 1].shm_slot = s
    BY <1>2, <1>4
  <1>6. SlotSomewhere'
    BY <1>1, <1>2, <1>3, <1>5 DEF SlotSomewhere
  <1>7. LostNowhere'
    <2> SUFFICES ASSUME NEW t \in lost
                 PROVE  /\ t \in chunks'
                        /\ \A i \in 1 .. Len(slots_used) + 1 : slots_used'[i].shm_slot # t
                        /\ \A j \in 1 .. Len(slots_free') : slots_free'[j] # t
      BY <1>1, <1>5 DEF LostNowhere
    <2>1. /\ t \in chunks /\ t # s
          /\ \A i \in 1 .. Len(slots_used) : slots_used[i].shm_slot # t
          /\ \A j \in 1 .. Len(slots_free) : slots_free[j] # t
      BY <1>3 DEF ConservedInv, LostNowhere
    <2>3. \A j \in 1 .. Len(slots_free') : slots_free'[j] # t
      <3> SUFFICES ASSUME NEW j \in 1 .. Len(slots_free')
                   PROVE  slots_free'[j] # t
        OBVIOUS
      <3>1. j \in 1 .. Len(slots_free)
        BY <1>2, <1>3
      <3> QED
        BY <1>3, <2>1, <3>1
    <2> QED
      BY <1>2, <1>3, <1>5, <2>1, <2>3
  <1> QED
    BY <1>1, <1>6, <1>7 DEF ConservedInv, StoppedByOrphan

\* The element of a failed allocation stands for no chunk.
LEMMA AllocFailsConserves ==
  ASSUME SlotInv, ConservedInv, alloc_chunk_fails
  PROVE  ConservedInv'
  <1>1. /\ slots_used' = Append(slots_used, Orphan)
        /\ UNCHANGED <<slots_free, chunks, preparing, lost, undefined>>
    BY DEF alloc_chunk_fails
  <1>2. /\ slots_used \in Seq(Entry) /\ Len(slots_used) \in Nat
    BY LenProperties DEF SlotInv, TypeOK, Entry
  <1>3. /\ Len(slots_used') = Len(slots_used) + 1
        /\ \A i \in 1 .. Len(slots_used) : slots_used'[i] = slots_used[i]
    BY <1>1, <1>2
  <1>4. SlotSomewhere'
    BY <1>1, <1>2, <1>3 DEF ConservedInv, SlotSomewhere
  <1>5. StoppedByOrphan'
    BY <1>1, <1>2, <1>3 DEF ConservedInv, StoppedByOrphan
  <1>6. LostNowhere'
    <2>1. \A s \in lost : s # NoSlot
      BY NullAssumption DEF SlotInv, TypeOK
    <2>2. slots_used'[Len(slots_used) + 1].shm_slot = NoSlot
      BY <1>1, <1>2 DEF Orphan
    <2> QED
      BY <1>1, <1>2, <1>3, <2>1, <2>2 DEF ConservedInv, LostNowhere
  <1> QED
    BY <1>4, <1>5, <1>6 DEF ConservedInv

\* The chunk of a discarded child goes to slots_free or nowhere, the element
\* that is moved keeps its own; and the element that stops the master is an orphan
\* that has been moved.
LEMMA DiscardConserves ==
  ASSUME SlotInv, ConservedInv, NEW c \in Owners, fpm_shm_slots_discard_slot(c),
         undefined => preparing # NoChild, preparing' = NoChild
  PROVE  ConservedInv'
  <1>1. PICK n : n = shm_slot_i[c]
    OBVIOUS
  <1>2. PICK L : L = Len(slots_used)
    OBVIOUS
  <1>3. /\ \/ slots_free' = Append(slots_free, slots_used[n].shm_slot) /\ lost' = lost
           \/ slots_free' = slots_free /\ lost' = lost \cup {slots_used[n].shm_slot}
        /\ slots_used' = fpm_array_item_remove(slots_used, n)
        /\ undefined' = (undefined \/ (n < L /\ slots_used[L].child = NoChild))
        /\ chunks' = chunks
    BY <1>1, <1>2 DEF fpm_shm_slots_discard_slot, FreeSlot, fpm_shm_slot
  <1>4. /\ slots_used \in Seq(Entry) /\ L \in Nat /\ n \in 1 .. L
        /\ slots_free \in Seq(Slot) /\ Len(slots_free) \in Nat
    BY <1>1, <1>2, LenProperties DEF SlotInv, TypeOK, Entry, OwnerIndexed
  <1>5. /\ Len(slots_used') = L - 1
        /\ \A i \in 1 .. L - 1 :
             slots_used'[i] = IF i = n THEN slots_used[L] ELSE slots_used[i]
    BY <1>2, <1>3, <1>4, RemoveLemma
  <1>6. slots_used[n].shm_slot \in Slot /\ slots_used[n].shm_slot \in chunks
    BY <1>1, OwnerSlot DEF SlotInv, fpm_shm_slot
  <1>7. PICK f \in {slots_used[n].shm_slot} : TRUE
    OBVIOUS
  <1>10. \A i \in 1 .. L - 1 : slots_used'[i].shm_slot # f
    <2> SUFFICES ASSUME NEW i \in 1 .. L - 1
                 PROVE  slots_used'[i].shm_slot # f
      OBVIOUS
    <2>1. PICK k \in 1 .. L : k # n /\ slots_used'[i] = slots_used[k]
      BY <1>4, <1>5
    <2>2. f # NoSlot
      BY <1>6, <1>7, NullAssumption
    <2> QED
      BY <1>2, <1>4, <1>7, <2>1, <2>2 DEF SlotInv, SlotsApart
  <1>11. \A s \in chunks : (\E i \in 1 .. L : slots_used[i].shm_slot = s) /\ s # f
                            => \E i \in 1 .. L - 1 : slots_used'[i].shm_slot = s
    <2> SUFFICES ASSUME NEW s \in chunks, s # f, NEW i \in 1 .. L, slots_used[i].shm_slot = s
                 PROVE  \E k \in 1 .. L - 1 : slots_used'[k].shm_slot = s
      OBVIOUS
    <2>1. i # n
      BY <1>7
    <2>2. CASE i = L
      <3>1. n \in 1 .. L - 1 /\ slots_used'[n] = slots_used[L]
        BY <1>4, <1>5, <2>1, <2>2
      <3> QED
        BY <2>2, <3>1
    <2>3. CASE i # L
      <3>1. i \in 1 .. L - 1 /\ slots_used'[i] = slots_used[i]
        BY <1>4, <1>5, <2>1, <2>3
      <3> QED
        BY <3>1
    <2> QED
      BY <2>2, <2>3
  <1>12. \A t : (\A i \in 1 .. L : slots_used[i].shm_slot # t)
                => \A i \in 1 .. L - 1 : slots_used'[i].shm_slot # t
    <2> SUFFICES ASSUME NEW t, \A i \in 1 .. L : slots_used[i].shm_slot # t,
                        NEW i \in 1 .. L - 1
                 PROVE  slots_used'[i].shm_slot # t
      OBVIOUS
    <2>1. PICK k \in 1 .. L : slots_used'[i] = slots_used[k]
      BY <1>4, <1>5
    <2> QED
      BY <2>1
  <1>8. SlotSomewhere' /\ LostNowhere'
    <2>1. CASE slots_free' = Append(slots_free, f) /\ lost' = lost
      <3>1. /\ Len(slots_free') = Len(slots_free) + 1
            /\ \A j \in 1 .. Len(slots_free) : slots_free'[j] = slots_free[j]
            /\ slots_free'[Len(slots_free) + 1] = f
        BY <1>4, <1>6, <1>7, <2>1
      <3>2. SlotSomewhere'
        <4> SUFFICES ASSUME NEW s \in chunks \ lost
                     PROVE  \/ \E i \in 1 .. L - 1 : slots_used'[i].shm_slot = s
                            \/ \E j \in 1 .. Len(slots_free) + 1 : slots_free'[j] = s
          BY <1>3, <1>5, <2>1, <3>1 DEF SlotSomewhere
        <4>1. CASE \E j \in 1 .. Len(slots_free) : slots_free[j] = s
          BY <1>4, <3>1, <4>1
        <4>2. CASE s = f
          BY <1>4, <3>1, <4>2
        <4>3. CASE s # f /\ \E i \in 1 .. L : slots_used[i].shm_slot = s
          BY <1>11, <4>3
        <4> QED
          BY <1>2, <4>1, <4>2, <4>3 DEF ConservedInv, SlotSomewhere
      <3>3. LostNowhere'
        <4> SUFFICES ASSUME NEW t \in lost
                     PROVE  /\ t \in chunks
                            /\ \A i \in 1 .. L - 1 : slots_used'[i].shm_slot # t
                            /\ \A j \in 1 .. Len(slots_free) + 1 : slots_free'[j] # t
          BY <1>3, <1>5, <2>1, <3>1 DEF LostNowhere
        <4>1. /\ t \in chunks
              /\ \A i \in 1 .. L : slots_used[i].shm_slot # t
              /\ \A j \in 1 .. Len(slots_free) : slots_free[j] # t
          BY <1>2 DEF ConservedInv, LostNowhere
        <4>2. t # f
          BY <1>4, <1>7, <4>1
        <4>3. \A j \in 1 .. Len(slots_free) + 1 :
                j \in 1 .. Len(slots_free) \/ j = Len(slots_free) + 1
          BY <1>4
        <4>4. \A j \in 1 .. Len(slots_free) + 1 : slots_free'[j] # t
          BY <3>1, <4>1, <4>2, <4>3
        <4>5. \A i \in 1 .. L - 1 : slots_used'[i].shm_slot # t
          BY <1>12, <4>1
        <4> QED
          BY <4>1, <4>4, <4>5
      <3> QED
        BY <3>2, <3>3
    <2>2. CASE slots_free' = slots_free /\ lost' = lost \cup {f}
      <3>1. SlotSomewhere'
        <4> SUFFICES ASSUME NEW s \in chunks \ lost, s # f
                     PROVE  \/ \E i \in 1 .. L - 1 : slots_used'[i].shm_slot = s
                            \/ \E j \in 1 .. Len(slots_free) : slots_free[j] = s
          BY <1>3, <1>5, <2>2 DEF SlotSomewhere
        <4> QED
          BY <1>2, <1>11 DEF ConservedInv, SlotSomewhere
      <3>2. LostNowhere'
        <4> SUFFICES ASSUME NEW t \in lost \cup {f}
                     PROVE  /\ t \in chunks
                            /\ \A i \in 1 .. L - 1 : slots_used'[i].shm_slot # t
                            /\ \A j \in 1 .. Len(slots_free) : slots_free[j] # t
          BY <1>3, <1>5, <2>2 DEF LostNowhere
        <4>1. CASE t = f
          BY <1>2, <1>4, <1>6, <1>7, <1>10, <4>1 DEF SlotInv, SlotsApart
        <4>2. CASE t \in lost
          BY <1>2, <1>12, <4>2 DEF ConservedInv, LostNowhere
        <4> QED
          BY <4>1, <4>2
      <3> QED
        BY <3>1, <3>2
    <2> QED
      BY <1>3, <1>7, <2>1, <2>2
  <1>9. StoppedByOrphan'
    <2> SUFFICES ASSUME undefined'
                 PROVE  \E i \in 1 .. Len(slots_used') : slots_used'[i] = Orphan
      BY DEF StoppedByOrphan
    <2>1. ~undefined
      BY DEF ConservedInv, StoppedByOrphan
    <2>2. n < L /\ slots_used[L].child = NoChild
      BY <1>3, <2>1
    <2>3. slots_used[L] = Orphan
      <3>1. slots_used[L].child \notin Owners
        BY <2>2, NullAssumption DEF SlotInv, TypeOK, Owners
      <3> QED
        BY <1>2, <1>4, <3>1 DEF SlotInv, ElementOwned
    <2>4. n \in 1 .. L - 1 /\ slots_used'[n] = slots_used[L]
      BY <1>4, <1>5, <2>2
    <2> QED
      BY <1>5, <2>3, <2>4
  <1> QED
    BY <1>8, <1>9 DEF ConservedInv

\* Whatever else happens leaves the arrays alone.
LEMMA OthersConserve ==
  ASSUME ConservedInv, UNCHANGED <<slots_used, slots_free, chunks, lost, undefined>>,
         preparing' \in {preparing, NoChild}
  PROVE  ConservedInv'
  BY DEF ConservedInv, SlotSomewhere, LostNowhere, StoppedByOrphan

LEMMA ConservedStep == SlotInv /\ ConservedInv /\ [Next]_vars => ConservedInv'
  <1> SUFFICES ASSUME SlotInv, ConservedInv, [Next]_vars
               PROVE  ConservedInv'
    OBVIOUS
  <1>1. CASE \E c \in Child : fpm_shm_slots_prepare_slot(c)
    BY <1>1, PrepareConserves
  <1>2. CASE alloc_chunk_fails
    BY <1>2, AllocFailsConserves
  <1>3. CASE fork_child
    BY <1>3, OthersConserve DEF fork_child
  <1>4. CASE fork_fails
    <2>1. PICK c : c = preparing
      OBVIOUS
    <2>2. c # NoChild /\ c \in Owners /\ preparing' = NoChild
      BY <1>4, <2>1 DEF fork_fails, Owners
    <2>3. fpm_shm_slots_discard_slot(c)
      BY <1>4, <2>1 DEF fork_fails, fpm_shm_slots_discard_slot, fpm_shm_slot
    <2> QED
      BY <2>1, <2>2, <2>3, DiscardConserves
  <1>5. CASE \E c \in Child : bury(c)
    <2>1. PICK c \in Child : bury(c)
      BY <1>5
    <2>2. /\ ~undefined /\ preparing = NoChild /\ preparing' = preparing /\ c \in zombies
          /\ fpm_shm_slots_discard_slot(c)
      BY <2>1 DEF bury, MasterIdle
    <2>3. c \in Owners
      BY <2>2 DEF Owners
    <2> QED
      BY <2>2, <2>3, DiscardConserves
  <1>6. CASE \/ \E c \in Child : check_acquire(c)
             \/ check_release
             \/ \E c \in Child : fpm_shm_slots_acquire(c)
             \/ \E c \in Child : fpm_shm_slots_release(c)
             \/ \E c \in Child : die(c)
    <2>1. UNCHANGED masterVars
      BY <1>6 DEF check_acquire, check_release, fpm_shm_slots_acquire, fpm_shm_slots_release, die
    <2> QED
      BY <2>1, OthersConserve DEF masterVars
  <1>7. CASE master_lost \/ UNCHANGED vars
    BY <1>7, OthersConserve DEF master_lost, vars
  <1> QED
    BY <1>1, <1>2, <1>3, <1>4, <1>5, <1>6, <1>7 DEF Next

\* At one place and at one only, or at none when it is lost.
LEMMA ConservedCounts ==
  ASSUME SlotInv, ConservedInv, NEW s \in chunks
  PROVE  Cardinality({i \in DOMAIN slots_used : slots_used[i].shm_slot = s})
           + Cardinality({i \in DOMAIN slots_free : slots_free[i] = s})
           = IF s \in lost THEN 0 ELSE 1
  <1>1. /\ DOMAIN slots_used = 1 .. Len(slots_used) /\ DOMAIN slots_free = 1 .. Len(slots_free)
        /\ s # NoSlot
    BY LenProperties, NullAssumption DEF SlotInv, TypeOK
  <1>2. PICK U : U = {i \in 1 .. Len(slots_used) : slots_used[i].shm_slot = s}
    OBVIOUS
  <1>3. PICK F : F = {i \in 1 .. Len(slots_free) : slots_free[i] = s}
    OBVIOUS
  <1>4. Cardinality({}) = 0 /\ \A x : Cardinality({x}) = 1
    BY FS_EmptySet, FS_Singleton
  <1>5. CASE s \in lost
    <2>1. U = {} /\ F = {}
      BY <1>2, <1>3, <1>5 DEF ConservedInv, LostNowhere
    <2>2. Cardinality(U) + Cardinality(F) = 0
      <3>1. Cardinality(U) = 0 /\ Cardinality(F) = 0
        BY <1>4, <2>1
      <3> QED
        BY <3>1
    <2> QED
      BY <1>1, <1>2, <1>3, <1>5, <2>2
  <1>6. CASE s \notin lost
    <2>1. \/ \E i : U = {i} /\ F = {}
          \/ \E j : F = {j} /\ U = {}
      <3>1. \A i, j \in U : i = j
        BY <1>1, <1>2 DEF SlotInv, SlotsApart
      <3>2. \A i, j \in F : i = j
        BY <1>3 DEF SlotInv, SlotsApart
      <3>3. \A i \in U, j \in F : FALSE
        BY <1>2, <1>3 DEF SlotInv, SlotsApart
      <3>4. (\E i : i \in U) \/ (\E j : j \in F)
        BY <1>2, <1>3, <1>6 DEF ConservedInv, SlotSomewhere
      <3> QED
        BY <3>1, <3>2, <3>3, <3>4
    <2>2. CASE \E i : U = {i} /\ F = {}
      <3>1. Cardinality(U) = 1 /\ Cardinality(F) = 0
        BY <1>4, <2>2
      <3>2. Cardinality(U) + Cardinality(F) = 1
        BY <3>1
      <3> QED
        BY <1>1, <1>2, <1>3, <1>6, <3>2
    <2>3. CASE \E j : F = {j} /\ U = {}
      <3>1. Cardinality(F) = 1 /\ Cardinality(U) = 0
        BY <1>4, <2>3
      <3>2. Cardinality(U) + Cardinality(F) = 1
        BY <3>1
      <3> QED
        BY <1>1, <1>2, <1>3, <1>6, <3>2
    <2> QED
      BY <2>1, <2>2, <2>3
  <1> QED
    BY <1>5, <1>6

\* No slot is in the arrays twice and none is lost, however forks fail and
\* removals move elements, but the one slots_free could not grow for; and only an element left by a failed allocation
\* makes the master write through a child pointer that was never set
\* (fpm_shm_slots_prepare_slot, fpm_shm_slots_discard_slot).
THEOREM SlotsStay == Spec => []SlotsConserved
  <1>1. Init => ConservedInv
    BY DEF Init, ConservedInv, SlotSomewhere, LostNowhere, StoppedByOrphan
  <1>2. SlotInv /\ ConservedInv => SlotsConserved
    <2> SUFFICES ASSUME SlotInv, ConservedInv
                 PROVE  SlotsConserved
      OBVIOUS
    <2>1. undefined => \E i \in DOMAIN slots_used : slots_used[i] = Orphan
      BY LenProperties DEF ConservedInv, StoppedByOrphan, SlotInv, TypeOK
    <2> QED
      BY <2>1, ConservedCounts DEF SlotsConserved
  <1> QED
    BY <1>1, <1>2, ConservedStep, SlotInvariant, PTL DEF Spec

=============================================================================
