-------------------------------- MODULE Heap ---------------------------------
(***************************************************************************)
(* The kernel heap: kernel/heap.c.  Addresses count from heap_start.       *)
(*                                                                         *)
(* One caller at a time (only the boot code and the main loop allocate),   *)
(* but sched_tick reaps dead tasks in the timer interrupt and calls kfree  *)
(* there: the functions are cut where such an interrupt may land           *)
(* (IrqPoints).  The free list is the sequence of its nodes; a node's      *)
(* predecessor is the one before it, `free_list' itself for the first.     *)
(***************************************************************************)
EXTENDS Integers, Sequences, SequencesExt, FiniteSetsExt

CONSTANTS
  HeapSize,    \* heap_end - heap_start
  Header,      \* sizeof(AllocHeader); sizes are rounded up to a multiple of it
  MinSplit,    \* MIN_SPLIT
  Sizes,       \* the sizes that are asked for
  IrqPoints    \* the points at which the reaping interrupt lands

\* Where the caller stands: outside; with a free block found and not yet
\* unlinked; with the old head read and free_list not yet written.
Points == {"user", "found", "linking"}

ASSUME HeapAssumption ==
  /\ HeapSize \in Nat
  /\ Header \in Nat \ {0}
  /\ MinSplit \in Nat \ {0}
  /\ Sizes \subseteq Nat \ {0}
  /\ IrqPoints \subseteq Points

NoBlock == [at |-> -1, size |-> 0]

VARIABLES
  next,        \* heap_next
  free,        \* the free list, a sequence of [at, size]
  used,        \* the blocks with a valid magic: [at, size, len], len as asked for
  allocated,   \* heap_allocated
  pc,
  want,        \* the size that kmalloc was called with
  cur,         \* the free block kmalloc found
  first,       \* that block was the head: prev = &free_list
  moving,      \* the block krealloc copies from, freed at its end
  rest         \* the list that kfree is about to put its block in front of

callVars == <<want, cur, first, moving, rest>>
vars     == <<next, free, used, allocated, pc, callVars>>

(* heap_init *)
Init ==
  /\ next = 0
  /\ free = <<>>
  /\ used = {}
  /\ allocated = 0
  /\ pc = "user"
  /\ want = 0
  /\ cur = NoBlock
  /\ first = FALSE
  /\ moving = {}
  /\ rest = <<>>

\* Room for the header, rounded up.
Rounded(n) == ((n + Header + Header - 1) \div Header) * Header

AsFree(b) == [at |-> b.at, size |-> b.size]

\* The first block of the list that is large enough, if there is one.
Fitting(n) == {i \in DOMAIN free : free[i].size >= Rounded(n)}
FirstFit(n) == CHOOSE i \in Fitting(n) : \A j \in Fitting(n) : i <= j

----------------------------------------------------------------------------
\* The block at [at, size] is stamped as allocated, for n bytes; the block that
\* krealloc was called with is freed afterwards.
Stamped(at, size, n) ==
  /\ used' = (used \ moving) \cup {[at |-> at, size |-> size, len |-> n]}
  /\ moving' = {}

\* kfree of the block that was moved, if any, in front of list.
Released(list) ==
  IF moving = {} THEN list ELSE <<AsFree(CHOOSE b \in moving : TRUE)>> \o list

MovedSize == IF moving = {} THEN 0 ELSE (CHOOSE b \in moving : TRUE).size

(* kmalloc (n = want, old = {}) and the kmalloc of krealloc (old = {block}) *)
Search(n, old) ==
  /\ Fitting(n) # {}
  /\ want' = n
  /\ cur' = free[FirstFit(n)]
  /\ first' = (FirstFit(n) = 1)
  /\ moving' = old
  /\ pc' = "found"
  /\ UNCHANGED <<next, free, used, allocated, rest>>

Bump(n, old) ==
  LET total == Rounded(n) IN
  /\ Fitting(n) = {}
  /\ next + total <= HeapSize
  /\ next' = next + total
  /\ used' = (used \ old) \cup {[at |-> next, size |-> total, len |-> n]}
  /\ free' = IF old = {} THEN free
             ELSE <<AsFree(CHOOSE b \in old : TRUE)>> \o free
  /\ allocated' = allocated + total
                  - (IF old = {} THEN 0 ELSE (CHOOSE b \in old : TRUE).size)
  /\ UNCHANGED <<pc, callVars>>

\* What is left of the block, and how much of it is allocated.
\* mutant: the size of the remainder is the old block's
KeepsWholeSize(total) ==
  IF cur.size >= total + MinSplit
  THEN <<[at |-> cur.at + total, size |-> cur.size]>> ELSE <<>>

Remainder(total) ==
  IF cur.size >= total + MinSplit
  THEN <<[at |-> cur.at + total, size |-> cur.size - total]>> ELSE <<>>

Taken(total) == IF cur.size >= total + MinSplit THEN total ELSE cur.size

\* *prev = remainder, or *prev = cur->next: when prev is &free_list, whatever
\* was put in front of cur since the search drops out of the list.
Unlink ==
  LET total == Rounded(want)
      i     == CHOOSE j \in DOMAIN free : free[j].at = cur.at
      front == IF first THEN <<>> ELSE SubSeq(free, 1, i - 1)
  IN
  /\ pc = "found"
  /\ free' = Released(front \o Remainder(total) \o SubSeq(free, i + 1, Len(free)))
  /\ Stamped(cur.at, Taken(total), want)
  /\ allocated' = allocated + Taken(total) - MovedSize
  /\ pc' = "user"
  /\ want' = 0 /\ cur' = NoBlock /\ first' = FALSE
  /\ UNCHANGED <<next, rest>>

Malloc(n) == pc = "user" /\ (Search(n, {}) \/ Bump(n, {}))

(* kfree: magic cleared, statistics, then the block goes in front *)
FreeBegin(b) ==
  /\ pc = "user"
  /\ used' = used \ {b}
  /\ allocated' = allocated - b.size
  /\ cur' = AsFree(b)
  /\ rest' = free
  /\ pc' = "linking"
  /\ UNCHANGED <<next, free, want, first, moving>>

FreeEnd ==
  /\ pc = "linking"
  /\ free' = <<cur>> \o rest
  /\ cur' = NoBlock
  /\ rest' = <<>>
  /\ pc' = "user"
  /\ UNCHANGED <<next, used, allocated, want, first, moving>>

\* mutant: the old block is compared header included
ReallocInPlaceWide(b, n) ==
  /\ pc = "user"
  /\ n <= b.size
  /\ used' = (used \ {b}) \cup {[b EXCEPT !.len = n]}
  /\ UNCHANGED <<next, free, allocated, pc, callVars>>

(* krealloc: in place, or a new block, the copy, and kfree of the old one;  *)
(* new_size 0 is kfree, and when kmalloc fails nothing changes.             *)
ReallocInPlace(b, n) ==
  /\ pc = "user"
  /\ n <= b.size - Header
  /\ used' = (used \ {b}) \cup {[b EXCEPT !.len = n]}
  /\ UNCHANGED <<next, free, allocated, pc, callVars>>

ReallocMoves(b, n) ==
  /\ pc = "user"
  /\ n > b.size - Header
  /\ Search(n, {b}) \/ Bump(n, {b})

(* kfree by sched_reap, in the timer interrupt: runs to its end *)
IrqFree(b) ==
  /\ pc \in IrqPoints
  /\ b \notin moving
  /\ used' = used \ {b}
  /\ allocated' = allocated - b.size
  /\ free' = <<AsFree(b)>> \o free
  /\ UNCHANGED <<next, pc, callVars>>

Next ==
  \/ \E n \in Sizes : Malloc(n)
  \/ Unlink
  \/ FreeEnd
  \/ \E b \in used :
       \/ FreeBegin(b)
       \/ IrqFree(b)
       \/ \E n \in Sizes : ReallocInPlace(b, n) \/ ReallocMoves(b, n)

Spec == Init /\ [][Next]_vars

----------------------------------------------------------------------------
(* Properties *)

Blocks == [at : 0 .. HeapSize, size : 1 .. HeapSize]

TypeOK ==
  /\ next \in 0 .. HeapSize
  /\ free \in Seq(Blocks)
  /\ used \subseteq [at : 0 .. HeapSize, size : 1 .. HeapSize, len : Sizes]
  /\ allocated \in 0 .. HeapSize
  /\ pc \in Points
  /\ want \in Sizes \cup {0}
  /\ cur \in Blocks \cup {NoBlock}
  /\ first \in BOOLEAN
  /\ moving \subseteq used
  /\ rest \in Seq(Blocks)

Linking  == IF pc = "linking" THEN {cur} ELSE {}

\* Every byte below heap_next belongs to exactly one block, allocated or free:
\* no block is lost, listed twice or carved out of another.
Tiled ==
  LET blocks == {AsFree(b) : b \in used} \cup ToSet(free) \cup Linking IN
  /\ \A a \in 0 .. next - 1 :
       \E b \in blocks : /\ b.at <= a /\ a < b.at + b.size
                         /\ \A c \in blocks \ {b} : a < c.at \/ c.at + c.size <= a
  /\ \A b \in blocks : b.at + b.size <= next
  /\ \A i, j \in DOMAIN free : free[i] = free[j] => i = j

\* heap_allocated is the size of what is allocated.
Accounted == allocated = MapThenSumSet(LAMBDA b : b.size, used)

\* heap.c's own books: the blocks, the lists and the statistics agree.
HeapConsistent == TypeOK /\ Tiled /\ Accounted

\* The caller of kmalloc gets memory that nobody else holds.
NoOverlap == INSTANCE Allocator WITH
  held <- {[at |-> b.at + Header, len |-> b.len] : b \in used}
AllocatorSpec == NoOverlap!Spec

============================================================================
