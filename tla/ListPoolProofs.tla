--------------------------- MODULE ListPoolProofs ---------------------------
(***************************************************************************)
(* Proofs about the memory of a list, for every block size, every number   *)
(* of entries and every division of the entries into pages.                *)
(***************************************************************************)
EXTENDS ListPool, SequenceTheorems, WellFoundedInduction, TLAPS

Empty == order = <<>>

\* The container's pointer is at the element handed out last, in a block
\* whose later elements are the pool_free that are left.
AtLast ==
  /\ next = IF Empty THEN NULL ELSE order[Len(order)]
  /\ Empty => pool_free = 0
  /\ ~Empty => /\ pool_free = PoolSize - 1 - next[2]
               /\ \A i \in DOMAIN order :
                    order[i][1] = next[1] => order[i][2] <= next[2]

LinksFromLast == pc = "parsing" => lastptr = next

PoolInv == TypeOK /\ FreshElements /\ ListIsChain /\ AtLast /\ LinksFromLast

LEMMA PoolInit == Init => PoolInv
<1> SUFFICES ASSUME Init PROVE PoolInv
  OBVIOUS
<1>1. order = <<>> /\ added = <<>> /\ DOMAIN order = {} /\ Len(order) = 0
  BY DEF Init
<1>2. TypeOK
  BY <1>1, PoolAssumption DEF Init, TypeOK, Cell, Index
<1> QED
  BY <1>1, <1>2
     DEF Init, PoolInv, FreshElements, ListIsChain, AtLast, LinksFromLast, Empty

\* list_free() leaves an empty container.
LEMMA ListFreeStep ==
  ASSUME PoolInv, ListFree, pc' \in {"calling", "gone"},
         UNCHANGED <<lastptr, list>>
  PROVE  PoolInv'
<1>1. order' = <<>> /\ added' = <<>> /\ DOMAIN order' = {} /\ Len(order') = 0
  BY DEF ListFree
<1>2. cells' \in [Pointers -> Cell]
  <2>1. cells \in [Pointers -> Cell]
    BY DEF PoolInv, TypeOK
  <2>2. [key |-> Wild, next |-> Wild] \in Cell
    BY DEF Cell
  <2> QED
    BY <2>1, <2>2 DEF ListFree
<1>3. TypeOK'
  BY <1>1, <1>2, PoolAssumption DEF PoolInv, TypeOK, ListFree, Index
<1> QED
  BY <1>1, <1>3
     DEF PoolInv, ListFree, FreshElements, ListIsChain, AtLast, LinksFromLast, Empty

\* get_next_list_ptr() returns an element of an allocated block that is not
\* in the list yet, and moves the container to it.
LEMMA GetNextListPtrFresh ==
  ASSUME PoolInv, NEW p \in Blocks \X (0..PoolSize), GetNextListPtr(p)
  PROVE  /\ p \in Pointers /\ p[1] \in heap'
         /\ heap \subseteq heap' /\ heap' \subseteq Blocks
         /\ \A i \in DOMAIN order : order[i] # p
         /\ \A i \in DOMAIN order : order[i][1] = p[1] => order[i][2] <= p[2]
         /\ next' = p /\ pool_free' = PoolSize - 1 - p[2] /\ pool_free' \in Index
         /\ start' = IF start = NULL THEN p ELSE start
         /\ pool_list' \in Seq(Blocks)
<1> USE DEF PoolInv, TypeOK, Index, Pointers
<1>1. CASE NewBlock(p)
  <2>1. PICK b \in Blocks \ heap :
          /\ p = <<b, 0>>
          /\ heap' = heap \cup {b}
          /\ pool_list' = <<b>> \o pool_list
          /\ pool_free' = PoolSize - 1
          /\ start' = IF start = NULL THEN p ELSE start
          /\ next' = p
    BY <1>1 DEF NewBlock
  <2>2. \A i \in DOMAIN order : order[i][1] # b
    BY <2>1 DEF FreshElements
  <2>3. pool_list' \in Seq(Blocks)
    BY <2>1
  <2>4. p \in Pointers /\ pool_free' \in Index
    BY <2>1, PoolAssumption
  <2> QED
    BY <2>1, <2>2, <2>3, <2>4, PoolAssumption
<1>2. CASE SameBlock(p)
  <2>1. /\ pool_free > 0 /\ p = <<next[1], next[2] + 1>>
        /\ pool_free' = pool_free - 1 /\ next' = p
        /\ heap' = heap /\ pool_list' = pool_list /\ start' = start
    BY <1>2 DEF SameBlock
  <2>2. ~Empty /\ pool_free = PoolSize - 1 - next[2]
    BY <2>1 DEF AtLast
  <2>3. /\ Len(order) \in DOMAIN order /\ next = order[Len(order)]
        /\ next \in Pointers /\ next[1] \in heap
        /\ start = order[1] /\ 1 \in DOMAIN order
    BY <2>2 DEF AtLast, FreshElements, ListIsChain, Empty
  <2>4. next[1] \in Blocks /\ next[2] \in 0..(PoolSize - 1)
    BY <2>3
  <2>5. /\ p[1] = next[1] /\ p[2] = next[2] + 1
    BY <2>1
  <2>6. p \in Pointers /\ pool_free' \in Index /\ pool_free' = PoolSize - 1 - p[2]
    BY <2>1, <2>2, <2>4, <2>5, PoolAssumption
  <2>7. \A i \in DOMAIN order : order[i] \in Pointers
                                  /\ (order[i][1] = p[1] => order[i][2] <= next[2])
    BY <2>2, <2>5 DEF AtLast, FreshElements
  <2>8. \A i \in DOMAIN order : order[i][1] = p[1] => order[i][2] < p[2]
    BY <2>4, <2>5, <2>7
  <2>9. start # NULL
    BY <2>3, PoolAssumption DEF FreshElements
  <2>10. \A i \in DOMAIN order :
           order[i] # p /\ (order[i][1] = p[1] => order[i][2] <= p[2])
    <3> SUFFICES ASSUME NEW i \in DOMAIN order, order[i][1] = p[1]
                 PROVE  order[i][2] # p[2] /\ order[i][2] <= p[2]
      OBVIOUS
    <3>1. order[i][2] \in Nat /\ p[2] \in Nat
      BY <2>6, <2>7
    <3> QED
      BY <2>8, <3>1
  <2> HIDE DEF PoolInv, TypeOK, Index, Pointers
  <2>11. heap \subseteq Blocks /\ pool_list \in Seq(Blocks)
    BY DEF PoolInv, TypeOK
  <2> QED
    BY <2>1, <2>3, <2>5, <2>6, <2>9, <2>10, <2>11
<1> QED
  BY <1>1, <1>2 DEF GetNextListPtr

LEMMA AddEntryStep ==
  ASSUME PoolInv, NEW k \in Strings, AddEntry(k)
  PROVE  PoolInv'
<1>1. PICK p \in Blocks \X (0..PoolSize) :
        /\ GetNextListPtr(p)
        /\ cells' = Linked(p, k)
        /\ lastptr' = p
        /\ order' = Append(order, p)
  BY DEF AddEntry
<1>2. /\ p \in Pointers /\ p[1] \in heap'
      /\ heap \subseteq heap' /\ heap' \subseteq Blocks
      /\ \A i \in DOMAIN order : order[i] # p
      /\ \A i \in DOMAIN order : order[i][1] = p[1] => order[i][2] <= p[2]
      /\ next' = p /\ pool_free' = PoolSize - 1 - p[2] /\ pool_free' \in Index
      /\ start' = IF start = NULL THEN p ELSE start
      /\ pool_list' \in Seq(Blocks)
  BY <1>1, GetNextListPtrFresh
<1>3. /\ added' = Append(added, k) /\ strings' = strings \cup {k}
      /\ pc = "parsing" /\ pc' = "parsing"
  BY DEF AddEntry
<1>4. /\ order \in Seq(Pointers) /\ added \in Seq(Strings)
      /\ Len(added) = Len(order) /\ Len(order) \in Nat
      /\ cells \in [Pointers -> Cell]
  BY DEF PoolInv, TypeOK, ListIsChain
<1> DEFINE n == Len(order)
<1>5. /\ order' \in Seq(Pointers) /\ Len(order') = n + 1
      /\ DOMAIN order' = 1..(n + 1) /\ DOMAIN order = 1..n
      /\ \A i \in 1..n : order'[i] = order[i]
      /\ order'[n + 1] = p
  BY <1>1, <1>2, <1>4
<1>6. /\ added' \in Seq(Strings) /\ Len(added') = n + 1
      /\ \A i \in 1..n : added'[i] = added[i]
      /\ added'[n + 1] = k
  BY <1>3, <1>4
<1>7. TypeOK'
  <2>1. Linked(p, k) \in [Pointers -> Cell]
    <3> SUFFICES ASSUME NEW q \in Pointers
                 PROVE  (IF q = p THEN [key |-> k, next |-> NULL]
                         ELSE IF q = lastptr THEN [cells[q] EXCEPT !.next = p]
                         ELSE cells[q]) \in Cell
      BY DEF Linked
    <3> QED
      BY <1>2, <1>4 DEF Cell
  <2> QED
    BY <1>1, <1>2, <1>3, <1>5, <1>6, <2>1 DEF PoolInv, TypeOK, AddEntry
<1>8. FreshElements'
  <2>1. \A i \in DOMAIN order' : order'[i] \in Pointers /\ order'[i][1] \in heap'
    BY <1>2, <1>5 DEF PoolInv, FreshElements
  <2>2. \A i, j \in DOMAIN order' : order'[i] = order'[j] => i = j
    BY <1>2, <1>4, <1>5 DEF PoolInv, FreshElements
  <2> QED
    BY <2>1, <2>2 DEF FreshElements
<1>9. AtLast' /\ LinksFromLast'
  <2>1. order' # <<>>
    BY <1>4, <1>5
  <2>2. \A i \in DOMAIN order' : order'[i][1] = p[1] => order'[i][2] <= p[2]
    <3> SUFFICES ASSUME NEW i \in 1..(n + 1), order'[i][1] = p[1]
                 PROVE  order'[i][2] <= p[2]
      BY <1>5
    <3>1. CASE i \in 1..n
      BY <1>2, <1>5, <3>1
    <3>2. CASE i = n + 1
      BY <1>2, <1>5, <3>2 DEF Pointers, Index
    <3> QED
      BY <1>4, <3>1, <3>2
  <2> QED
    BY <1>1, <1>2, <1>3, <1>5, <2>1, <2>2 DEF AtLast, LinksFromLast, Empty
<1>10. lastptr = IF n = 0 THEN NULL ELSE order[n]
  BY <1>3, <1>4 DEF PoolInv, AtLast, LinksFromLast, Empty
<1>11. /\ cells'[p] = [key |-> k, next |-> NULL]
       /\ \A i \in 1..n : cells'[order[i]] =
             IF i = n THEN [cells[order[i]] EXCEPT !.next = p] ELSE cells[order[i]]
  <2>1. \A i \in 1..n : order[i] \in Pointers /\ order[i] # p
    BY <1>2, <1>5 DEF PoolInv, FreshElements
  <2>2. \A i \in 1..n : order[i] = lastptr <=> i = n
    BY <1>4, <1>5, <1>10 DEF PoolInv, FreshElements
  <2> QED
    BY <1>1, <1>2, <2>1, <2>2 DEF Linked
<1>12. \A i \in 1..n :
         cells[order[i]] = [key  |-> added[i],
                            next |-> IF i = n THEN NULL ELSE order[i + 1]]
  BY <1>5 DEF PoolInv, ListIsChain
<1>13. \A i \in 1..(n + 1) :
         cells'[order'[i]] = [key  |-> added'[i],
                              next |-> IF i = n + 1 THEN NULL ELSE order'[i + 1]]
  <2> SUFFICES ASSUME NEW i \in 1..(n + 1)
               PROVE  cells'[order'[i]] =
                        [key  |-> added'[i],
                         next |-> IF i = n + 1 THEN NULL ELSE order'[i + 1]]
    OBVIOUS
  <2>1. CASE i = n + 1
    BY <1>5, <1>6, <1>11, <2>1
  <2>2. CASE i = n
    <3>1. i \in 1..n /\ i # n + 1
      BY <1>4, <2>2
    <3>2. cells'[order[i]] = [key |-> added[i], next |-> p]
      <4>1. cells[order[i]] = [key |-> added[i], next |-> NULL]
        BY <1>12, <2>2, <3>1
      <4>2. cells'[order[i]] = [cells[order[i]] EXCEPT !.next = p]
        BY <1>11, <2>2, <3>1
      <4>3. [[key |-> added[i], next |-> NULL] EXCEPT !.next = p]
              = [key |-> added[i], next |-> p]
        OBVIOUS
      <4> QED
        BY <4>1, <4>2, <4>3
    <3> QED
      BY <1>5, <1>6, <2>2, <3>1, <3>2
  <2>3. CASE i \in 1..(n - 1)
    <3>1. i \in 1..n /\ i # n /\ i # n + 1 /\ i + 1 \in 1..n
      BY <1>4, <2>3
    <3>2. cells'[order[i]] = [key |-> added[i], next |-> order[i + 1]]
      BY <1>11, <1>12, <3>1
    <3> QED
      BY <1>5, <1>6, <3>1, <3>2
  <2> QED
    BY <1>4, <2>1, <2>2, <2>3
<1>14. start' = order'[1]
  <2>1. CASE n = 0
    BY <1>2, <1>4, <1>5, <2>1 DEF PoolInv, ListIsChain
  <2>2. CASE n # 0
    <3>1. order # <<>> /\ 1 \in 1..n /\ start = order[1] /\ order[1] \in Pointers
      BY <1>4, <1>5, <2>2 DEF PoolInv, ListIsChain
    <3> QED
      BY <1>2, <1>5, <3>1, PoolAssumption
  <2> QED
    BY <2>1, <2>2
<1>15. ListIsChain'
  BY <1>4, <1>5, <1>6, <1>13, <1>14 DEF ListIsChain
<1> QED
  BY <1>7, <1>8, <1>9, <1>15 DEF PoolInv

LEMMA PoolStep == PoolInv /\ [Next]_vars => PoolInv'
<1> SUFFICES ASSUME PoolInv, [Next]_vars PROVE PoolInv'
  OBVIOUS
<1>1. CASE Call
  BY <1>1, ListFreeStep DEF Call
<1>2. CASE Deinit
  BY <1>2, ListFreeStep DEF Deinit
<1>3. CASE PageBegins
  BY <1>3 DEF PageBegins, PoolInv, TypeOK, FreshElements, ListIsChain, AtLast,
              LinksFromLast, Empty, container
<1>4. CASE PageEnds
  BY <1>4 DEF PageEnds, PoolInv, TypeOK, FreshElements, ListIsChain, AtLast,
              LinksFromLast, Empty, container
<1>5. ASSUME NEW k \in Strings \ strings, AddEntry(k) PROVE PoolInv'
  BY <1>5, AddEntryStep
<1>6. CASE OutOfMemory
  BY <1>6 DEF OutOfMemory, PoolInv, TypeOK, FreshElements, ListIsChain, AtLast,
              LinksFromLast, Empty, container
<1>7. CASE Return
  BY <1>7 DEF Return, PoolInv, TypeOK, FreshElements, ListIsChain, AtLast,
              LinksFromLast, Empty, container
<1>8. CASE UNCHANGED vars
  BY <1>8 DEF vars, PoolInv, TypeOK, FreshElements, ListIsChain, AtLast,
              LinksFromLast, Empty, container
<1> QED
  BY <1>1, <1>2, <1>3, <1>4, <1>5, <1>6, <1>7, <1>8 DEF Next

\* No entry is written outside the blocks or over another entry, whatever the
\* size of a block and the number of entries.
THEOREM Fresh == Spec => []FreshElements
<1>1. PoolInv => FreshElements
  BY DEF PoolInv
<1> QED
  BY <1>1, PoolInit, PoolStep, PTL DEF Spec

\* The list that ms3_list() returns visits all entries of all pages, in order.
THEOREM Chain == Spec => []ListIsChain
<1>1. PoolInv => ListIsChain
  BY DEF PoolInv
<1> QED
  BY <1>1, PoolInit, PoolStep, PTL DEF Spec

\* The variables keep their types: what the links hold are elements or NULL.
THEOREM PoolTypes == Spec => []TypeOK
<1>1. PoolInv => TypeOK
  BY DEF PoolInv
<1> QED
  BY <1>1, PoolInit, PoolStep, PTL DEF Spec
-----------------------------------------------------------------------------
(***************************************************************************)
(* What list_free() releases                                               *)
(***************************************************************************)

\* All that is allocated: the blocks in the pool list and the keys of the entries.
\* That NothingLeaks follows takes the chain: the keys are found by walking it.
AllHeld == /\ heap = {pool_list[i] : i \in DOMAIN pool_list}
           /\ strings = {added[i] : i \in DOMAIN added}

\* A set of natural numbers that is not empty has a least element.
LEMMA LeastExists ==
  ASSUME NEW S \in SUBSET Nat, S # {}
  PROVE  \E n \in S : \A m \in S : n <= m
<1>1. \E n \in S : \A m \in S : ~ (<<m, n>> \in OpToRel(<, Nat))
  BY NatLessThanWellFounded, WFMin
<1>2. \A m, n \in Nat : m < n => <<m, n>> \in OpToRel(<, Nat)
  BY DEF OpToRel
<1>3. PICK n \in S : \A m \in S : ~ (<<m, n>> \in OpToRel(<, Nat))
  BY <1>1
<1>4. \A m \in S : ~ (m < n)
  BY <1>2, <1>3
<1> QED
  BY <1>4

LEMMA ChainCells ==
  ASSUME PoolInv
  PROVE  \A i \in DOMAIN order :
           /\ cells[order[i]].key = added[i]
           /\ cells[order[i]].next = IF i = Len(order) THEN NULL ELSE order[i + 1]
<1> SUFFICES ASSUME NEW i \in DOMAIN order
             PROVE  /\ cells[order[i]].key = added[i]
                    /\ cells[order[i]].next = IF i = Len(order) THEN NULL ELSE order[i + 1]
  OBVIOUS
<1> DEFINE q == IF i = Len(order) THEN NULL ELSE order[i + 1]
<1>1. cells[order[i]] = [key |-> added[i], next |-> q]
  BY DEF PoolInv, ListIsChain
<1> HIDE DEF q
<1>2. cells[order[i]].key = added[i] /\ cells[order[i]].next = q
  BY <1>1
<1> QED
  BY <1>2 DEF q

\* The walk of list_free() visits exactly the entries.
LEMMA WalkVisitsEntries ==
  ASSUME PoolInv
  PROVE  Elements = {order[i] : i \in DOMAIN order}
<1> DEFINE n == Len(order)
           O == {order[i] : i \in DOMAIN order}
<1>1. /\ order \in Seq(Pointers) /\ n \in Nat /\ DOMAIN order = 1..n
      /\ \A i \in 1..n : order[i] \in Pointers /\ Allocated(order[i])
  BY DEF PoolInv, TypeOK, FreshElements, Allocated
<1>2. /\ n = 0 => start = NULL
      /\ n # 0 => start = order[1] /\ 1 \in 1..n
  BY <1>1 DEF PoolInv, ListIsChain
<1>3. \A i \in 1..n : cells[order[i]].next = IF i = n THEN NULL ELSE order[i + 1]
  BY <1>1, ChainCells
<1>4. ~ Allocated(NULL)
  BY PoolAssumption DEF Allocated
<1>5. WalkEnds(O)
  <2>1. Allocated(start) => start \in O
    BY <1>1, <1>2, <1>4
  <2>2. ASSUME NEW i \in 1..n, Allocated(cells[order[i]].next)
        PROVE  cells[order[i]].next \in O
    <3>1. i # n
      BY <1>3, <1>4, <2>2
    <3>2. i + 1 \in 1..n
      <4>1. \A k \in Nat : \A j \in 1..k : j # k => j + 1 \in 1..k
        OBVIOUS
      <4> QED
        BY <1>1, <3>1, <4>1
    <3>3. cells[order[i]].next = order[i + 1]
      BY <1>1, <1>3, <3>1
    <3> QED
      BY <1>1, <3>2, <3>3
  <2> QED
    BY <1>1, <2>1, <2>2 DEF WalkEnds
<1>6. O \in SUBSET Pointers
  BY <1>1
<1>7. Elements \subseteq O
  BY <1>5, <1>6 DEF Elements
<1>8. ASSUME NEW S \in SUBSET Pointers, WalkEnds(S)
      PROVE  \A i \in 1..n : order[i] \in S
  <2> DEFINE Missed == {i \in 1..n : order[i] \notin S}
  <2> SUFFICES ASSUME Missed # {} PROVE FALSE
    OBVIOUS
  <2>1. Missed \in SUBSET Nat
    BY <1>1
  <2>2. PICK m \in Missed : \A i \in Missed : m <= i
    BY <2>1, LeastExists
  <2>3. m \in 1..n /\ order[m] \notin S
    OBVIOUS
  <2>4. CASE m = 1
    BY <1>1, <1>2, <1>8, <2>3, <2>4 DEF WalkEnds
  <2>5. CASE m # 1
    <3>1. m - 1 \in 1..n /\ m - 1 # n /\ (m - 1) + 1 = m /\ ~ (m <= m - 1)
      BY <1>1, <2>3, <2>5
    <3>2. order[m - 1] \in S
      BY <2>2, <3>1
    <3>3. cells[order[m - 1]].next = order[m]
      BY <1>3, <3>1
    <3> QED
      BY <1>1, <1>8, <2>3, <3>2, <3>3 DEF WalkEnds
  <2> QED
    BY <2>4, <2>5
<1>9. O \subseteq Elements
  <2>1. ASSUME NEW i \in 1..n PROVE order[i] \in Elements
    BY <1>1, <1>8, <2>1 DEF Elements
  <2> QED
    BY <1>1, <2>1
<1> QED
  BY <1>7, <1>9

\* The keys on the way are those of the entries.
LEMMA WalkFindsKeys ==
  ASSUME PoolInv
  PROVE  {cells[p].key : p \in Elements} = {added[i] : i \in DOMAIN added}
<1>1. Elements = {order[i] : i \in DOMAIN order}
  BY WalkVisitsEntries
<1>2. DOMAIN order = DOMAIN added
  BY DEF PoolInv, TypeOK, ListIsChain
<1>3. \A i \in DOMAIN order : cells[order[i]].key = added[i]
  BY ChainCells
<1> QED
  BY <1>1, <1>2, <1>3

LEMMA AllHeldFree ==
  ASSUME PoolInv, AllHeld, ListFree
  PROVE  AllHeld'
<1>1. heap' = {} /\ strings' = {}
  BY WalkFindsKeys DEF ListFree, AllHeld
<1>2. pool_list' = <<>> /\ added' = <<>>
  BY DEF ListFree
<1> QED
  BY <1>1, <1>2 DEF AllHeld

LEMMA AllHeldAdd ==
  ASSUME PoolInv, AllHeld, NEW k \in Strings, AddEntry(k)
  PROVE  AllHeld'
<1>1. pool_list \in Seq(Blocks) /\ added \in Seq(Strings)
  BY DEF PoolInv, TypeOK
<1>2. strings' = {added'[i] : i \in DOMAIN added'}
  <2>1. added' = Append(added, k) /\ strings' = strings \cup {k}
    BY DEF AddEntry
  <2>2. /\ Len(added) \in Nat /\ DOMAIN added = 1..Len(added)
        /\ DOMAIN added' = 1..(Len(added) + 1)
        /\ \A i \in 1..Len(added) : added'[i] = added[i]
        /\ added'[Len(added) + 1] = k
    BY <1>1, <2>1
  <2>3. 1..(Len(added) + 1) = 1..Len(added) \cup {Len(added) + 1}
    BY <2>2
  <2> QED
    BY <2>1, <2>2, <2>3 DEF AllHeld
<1>3. heap' = {pool_list'[i] : i \in DOMAIN pool_list'}
  <2>1. PICK p \in Blocks \X (0..PoolSize) : NewBlock(p) \/ SameBlock(p)
    BY DEF AddEntry, GetNextListPtr
  <2>2. CASE SameBlock(p)
    BY <2>2 DEF SameBlock, AllHeld
  <2>3. CASE NewBlock(p)
    <3>1. PICK b \in Blocks : heap' = heap \cup {b} /\ pool_list' = <<b>> \o pool_list
      BY <2>3 DEF NewBlock
    <3>2. /\ Len(pool_list) \in Nat /\ DOMAIN pool_list = 1..Len(pool_list)
          /\ DOMAIN pool_list' = 1..(Len(pool_list) + 1)
          /\ pool_list'[1] = b
          /\ \A i \in 1..Len(pool_list) : pool_list'[i + 1] = pool_list[i]
      BY <1>1, <3>1
    <3>3. {pool_list'[i] : i \in DOMAIN pool_list'} \subseteq heap \cup {b}
      <4>1. ASSUME NEW i \in 1..(Len(pool_list) + 1), i # 1
            PROVE  i - 1 \in 1..Len(pool_list) /\ (i - 1) + 1 = i
        BY <3>2, <4>1
      <4>2. ASSUME NEW i \in 1..(Len(pool_list) + 1), i # 1
            PROVE  pool_list'[i] \in heap
        <5>1. pool_list'[i] = pool_list[i - 1] /\ i - 1 \in DOMAIN pool_list
          BY <3>2, <4>1, <4>2
        <5> QED
          BY <5>1 DEF AllHeld
      <4> QED
        BY <3>2, <4>2
    <3>4. heap \subseteq {pool_list'[i] : i \in DOMAIN pool_list'}
      <4>1. ASSUME NEW i \in 1..Len(pool_list)
            PROVE  pool_list[i] \in {pool_list'[j] : j \in DOMAIN pool_list'}
        <5>1. i + 1 \in DOMAIN pool_list' /\ pool_list'[i + 1] = pool_list[i]
          BY <3>2
        <5> QED
          BY <5>1
      <4> QED
        BY <3>2, <4>1 DEF AllHeld
    <3>5. b \in {pool_list'[i] : i \in DOMAIN pool_list'}
      <4>1. 1 \in DOMAIN pool_list'
        BY <3>2
      <4> QED
        BY <3>2, <4>1
    <3> QED
      BY <3>1, <3>3, <3>4, <3>5
  <2> QED
    BY <2>1, <2>2, <2>3
<1> QED
  BY <1>2, <1>3 DEF AllHeld

LEMMA AllHeldStep ==
  ASSUME PoolInv, AllHeld, [Next]_vars
  PROVE  AllHeld'
<1>1. CASE Call \/ Deinit
  BY <1>1, AllHeldFree DEF Call, Deinit
<1>2. ASSUME NEW k \in Strings \ strings, AddEntry(k) PROVE AllHeld'
  BY <1>2, AllHeldAdd
<1>3. CASE PageBegins \/ PageEnds \/ OutOfMemory \/ Return \/ UNCHANGED vars
  BY <1>3 DEF PageBegins, PageEnds, OutOfMemory, Return, vars, container, AllHeld
<1> QED
  BY <1>1, <1>2, <1>3 DEF Next

\* Whatever the number of entries, blocks and pages: the pool list has every
\* block, and the walk of list_free() along the links comes to every key that is
\* allocated and to nothing else, so the next list and ms3_deinit() release all.
THEOREM Released == Spec => []NothingLeaks
<1>1. Init => PoolInv /\ AllHeld
  BY PoolInit DEF Init, AllHeld
<1>2. PoolInv /\ AllHeld /\ [Next]_vars => PoolInv' /\ AllHeld'
  BY PoolStep, AllHeldStep
<1>3. PoolInv /\ AllHeld => NothingLeaks
  BY WalkFindsKeys DEF AllHeld, NothingLeaks
<1> QED
  BY <1>1, <1>2, <1>3, PTL DEF Spec
=============================================================================
