------------------------------ MODULE ListPool ------------------------------
(***************************************************************************)
(* The memory of a list: parse_list_response() takes the elements of the   *)
(* list from blocks of 1024 that get_next_list_ptr() allocates and links   *)
(* each one behind the last, page after page; list_free() walks the list   *)
(* to release the keys and then releases the blocks.                       *)
(*                                                                         *)
(* A pointer to an element is a pair of a block and an index.  A key is    *)
(* the allocation that holds its characters.                               *)
(*                                                                         *)
(* An operator named after another one, as Op_Change, is Op with a bug; it *)
(* is used only to see that the properties notice such a bug.              *)
(***************************************************************************)
EXTENDS Naturals, Sequences

CONSTANTS PoolSize,     \* elements in a block, 1024 in the code
          Blocks,       \* the blocks malloc() can return
          Strings,      \* the allocations that keys can be in
          MaxEntries,   \* bound on the entries of one listing
          NULL,         \* the null pointer
          Wild          \* what memory holds before it is written

Index == 0..(PoolSize - 1)
Pointers == Blocks \X Index

ASSUME PoolAssumption ==
  /\ PoolSize \in Nat \ {0}
  /\ MaxEntries \in Nat
  /\ NULL \notin Pointers /\ Wild \notin Pointers /\ NULL # Wild
  /\ Wild \notin Strings

VARIABLES pc,          \* "idle", "calling", "parsing", "crashed", "gone"
          heap,        \* the blocks allocated now
          strings,     \* the keys allocated now
          cells,       \* the elements of all blocks
          pool_list,   \* ms3->list_container: its blocks, latest first,
          pool_free,   \*   the elements left in the latest,
          start, next, \*   the first and the latest element of the list
          lastptr,     \* lastptr of parse_list_response()
          order,       \* history: elements handed out for this list, in order
          added,       \* history: keys of the entries, in order
          list         \* the caller's *list

container == <<pool_list, pool_free, start, next>>
vars == <<pc, heap, strings, cells, container, lastptr, order, added, list>>

Cell == [key : Strings \cup {Wild}, next : Pointers \cup {NULL, Wild}]

Init == /\ pc = "idle"
        /\ heap = {} /\ strings = {}
        /\ cells = [p \in Pointers |-> [key |-> Wild, next |-> Wild]]
        /\ pool_list = <<>> /\ pool_free = 0
        /\ start = NULL /\ next = NULL
        /\ lastptr = NULL
        /\ order = <<>> /\ added = <<>>
        /\ list = NULL
-----------------------------------------------------------------------------
(***************************************************************************)
(* list_free()                                                             *)
(***************************************************************************)

Allocated(p) == p \in Pointers /\ p[1] \in heap

\* Whether a walk that has come to the elements S has nowhere else to go.
WalkEnds(S) == /\ Allocated(start) => start \in S
               /\ \A p \in S : Allocated(cells[p].next) => cells[p].next \in S

\* The elements on the way from start along the links.
Elements == {p \in Pointers : \A S \in SUBSET Pointers : WalkEnds(S) => p \in S}

\* list_free(): the strings of the chain, then the blocks.
ListFree ==
  /\ strings' = strings \ {cells[p].key : p \in Elements}
  /\ heap' = heap \ {pool_list[i] : i \in DOMAIN pool_list}
  /\ cells' = [p \in Pointers |->
                 IF p[1] \in heap' THEN cells[p] ELSE [key |-> Wild, next |-> Wild]]
  /\ pool_list' = <<>> /\ pool_free' = 0
  /\ start' = NULL /\ next' = NULL
  /\ order' = <<>> /\ added' = <<>>

\* ms3_list() or ms3_list_dir() begins.
Call == /\ pc = "idle"
        /\ pc' = "calling"
        /\ ListFree
        /\ UNCHANGED <<lastptr, list>>

\* ms3_deinit()
Deinit == /\ pc = "idle"
          /\ pc' = "gone"
          /\ ListFree
          /\ UNCHANGED <<lastptr, list>>
-----------------------------------------------------------------------------
(***************************************************************************)
(* get_next_list_ptr()                                                     *)
(***************************************************************************)

\* A new block is counted as if none of its elements were handed out.
NewBlock_OffByOne(p) ==
  /\ pool_free = 0
  /\ \E b \in Blocks \ heap :
       /\ p = <<b, 0>>
       /\ heap' = heap \cup {b}
       /\ pool_list' = <<b>> \o pool_list
       /\ pool_free' = PoolSize
       /\ start' = IF start = NULL THEN p ELSE start
       /\ next' = p

\* The new block takes the place of the others in the pool list.
NewBlock_DropsPrev(p) ==
  /\ pool_free = 0
  /\ \E b \in Blocks \ heap :
       /\ p = <<b, 0>>
       /\ heap' = heap \cup {b}
       /\ pool_list' = <<b>>
       /\ pool_free' = PoolSize - 1
       /\ start' = IF start = NULL THEN p ELSE start
       /\ next' = p

\* The first element of a new block.
NewBlock(p) ==
  /\ pool_free = 0
  /\ \E b \in Blocks \ heap :
       /\ p = <<b, 0>>
       /\ heap' = heap \cup {b}
       /\ pool_list' = <<b>> \o pool_list
       /\ pool_free' = PoolSize - 1
       /\ start' = IF start = NULL THEN p ELSE start
       /\ next' = p

\* container->next++
SameBlock(p) ==
  /\ pool_free > 0
  /\ p = <<next[1], next[2] + 1>>
  /\ pool_free' = pool_free - 1
  /\ next' = p
  /\ UNCHANGED <<heap, pool_list, start>>

GetNextListPtr(p) == NewBlock(p) \/ SameBlock(p)
-----------------------------------------------------------------------------
(***************************************************************************)
(* parse_list_response()                                                   *)
(***************************************************************************)

\* Each page begins a chain of its own.
PageBegins_Unlinked == /\ pc = "calling"
                       /\ pc' = "parsing"
                       /\ lastptr' = NULL
                       /\ UNCHANGED <<heap, strings, cells, container, order,
                                      added, list>>

\* lastptr starts from the last element of the page before.
PageBegins == /\ pc = "calling"
              /\ pc' = "parsing"
              /\ lastptr' = next
              /\ UNCHANGED <<heap, strings, cells, container, order, added, list>>

\* The new element goes behind lastptr and takes the key.
Linked(p, k) ==
  [q \in Pointers |->
     IF q = p THEN [key |-> k, next |-> NULL]
     ELSE IF q = lastptr THEN [cells[q] EXCEPT !.next = p] ELSE cells[q]]

\* Contents that are not skipped, or CommonPrefixes.
AddEntry(k) == /\ pc = "parsing"
               /\ Len(added) < MaxEntries
               /\ strings' = strings \cup {k}
               /\ \E p \in Blocks \X (0..PoolSize) :
                    /\ GetNextListPtr(p)
                    /\ cells' = Linked(p, k)
                    /\ lastptr' = p
                    /\ order' = Append(order, p)
               /\ added' = Append(added, k)
               /\ UNCHANGED <<pc, list>>

\* No memory for a block: get_next_list_ptr() returns NULL, which its caller
\* dereferences.
OutOfMemory == /\ pc = "parsing"
               /\ pool_free = 0
               /\ pc' = "crashed"
               /\ UNCHANGED <<heap, strings, cells, container, lastptr, order,
                              added, list>>

PageEnds == /\ pc = "parsing"
            /\ pc' = "calling"
            /\ UNCHANGED <<heap, strings, cells, container, lastptr, order,
                           added, list>>

\* The call returns, with or without success: *list = container.start
Return == /\ pc = "calling"
          /\ pc' = "idle"
          /\ list' = start
          /\ UNCHANGED <<heap, strings, cells, container, lastptr, order, added>>

Next == \/ Call \/ Deinit
        \/ PageBegins \/ PageEnds
        \/ \E k \in Strings \ strings : AddEntry(k)
        \/ OutOfMemory
        \/ Return

Spec == Init /\ [][Next]_vars
-----------------------------------------------------------------------------
(***************************************************************************)
(* Properties                                                              *)
(***************************************************************************)

TypeOK == /\ pc \in {"idle", "calling", "parsing", "crashed", "gone"}
          /\ heap \subseteq Blocks
          /\ strings \subseteq Strings
          /\ cells \in [Pointers -> Cell]
          /\ pool_list \in Seq(Blocks)
          /\ pool_free \in Index
          /\ start \in Pointers \cup {NULL}
          /\ next \in Pointers \cup {NULL}
          /\ lastptr \in Pointers \cup {NULL}
          /\ order \in Seq(Pointers)
          /\ added \in Seq(Strings)

\* Every element handed out lies in a block that is still allocated, and no
\* element is handed out twice: an entry is never overwritten by a later one.
FreshElements ==
  /\ \A i \in DOMAIN order : order[i] \in Pointers /\ order[i][1] \in heap
  /\ \A i, j \in DOMAIN order : order[i] = order[j] => i = j

\* From start, the links visit exactly the entries of all pages in the order
\* the server sent them, across blocks and across pages.
ListIsChain ==
  /\ Len(order) = Len(added)
  /\ start = IF order = <<>> THEN NULL ELSE order[1]
  /\ \A i \in DOMAIN order :
       cells[order[i]] =
         [key  |-> added[i],
          next |-> IF i = Len(order) THEN NULL ELSE order[i + 1]]

\* Whatever is allocated can be reached from the container, so list_free()
\* releases all of it: the blocks by the pool list, the keys by the list.
NothingLeaks ==
  /\ heap = {pool_list[i] : i \in DOMAIN pool_list}
  /\ strings = {cells[p].key : p \in Elements}
=============================================================================
