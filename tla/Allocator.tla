------------------------------ MODULE Allocator ------------------------------
(***************************************************************************)
(* What kernel/heap.h promises: kmalloc hands out memory that nobody else  *)
(* holds, kfree and krealloc take back nothing but the block they are      *)
(* given.  A region is the memory an allocation may use.                   *)
(***************************************************************************)
EXTENDS Integers

CONSTANTS HeapSize, Sizes

VARIABLE held    \* the regions handed out and not yet freed

Regions == [at : 0 .. HeapSize, len : Sizes]

Disjoint(r, s) == r.at + r.len <= s.at \/ s.at + s.len <= r.at

Usable(r) == r.at + r.len <= HeapSize /\ \A s \in held : Disjoint(r, s)

Init == held = {}

Alloc(r) == Usable(r) /\ held' = held \cup {r}

Free(r) == r \in held /\ held' = held \ {r}

\* A block is kept with another length, or its contents move to a new one.
Resize(r, s) ==
  /\ r \in held
  /\ s.at + s.len <= HeapSize
  /\ \A u \in held : Disjoint(s, u) \/ (u = r /\ s.at = r.at)
  /\ held' = (held \ {r}) \cup {s}

Next ==
  \/ \E r \in Regions : Alloc(r)
  \/ \E r \in held : Free(r) \/ \E s \in Regions : Resize(r, s)

Spec == Init /\ [][Next]_held

=============================================================================
