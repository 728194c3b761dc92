------------------------------ MODULE HeapProofs -----------------------------
(***************************************************************************)
(* Nobody gets memory of kernel/heap.c that another one holds, whatever    *)
(* sizes are asked for and wherever the interrupt that reaps a task lands: *)
(* it may lose a block, but none is ever handed out twice; and none is     *)
(* lost as long as the interrupt lands outside the functions of the heap.  *)
(* What heap.c keeps count of is what the blocks in use take.              *)
(***************************************************************************)
EXTENDS Heap, FiniteSetTheorems, SequenceTheorems, WellFoundedInduction, TLAPS

\* Blocks with no byte in common.
Apart(b, c) == b.at + b.size <= c.at \/ c.at + c.size <= b.at

Spread(list) == \A i, j \in DOMAIN list : i # j => Apart(list[i], list[j])

\* No block of the list has a byte of b.
Clear(list, b) == \A i \in DOMAIN list : Apart(list[i], b)

\* A list of free blocks: below heap_next, apart from each other and from
\* what is allocated.
Vacant(list) ==
  /\ list \in Seq(Blocks)
  /\ Spread(list)
  /\ \A i \in DOMAIN list : list[i].at + list[i].size <= next
  /\ \A b \in used : Clear(list, b)

Allocations == [at : 0 .. HeapSize, size : 1 .. HeapSize, len : Sizes]

\* An allocated block has room for its header and what was asked for.
UsedApart ==
  /\ used \subseteq Allocations
  /\ \A b \in used : b.at + b.size <= next /\ b.len + Header <= b.size
  /\ \A b, c \in used : b # c => Apart(b, c)

\* kmalloc has found a block of the list; krealloc moves a block in use.
FoundFits ==
  /\ pc = "found" => /\ want \in Sizes
                     /\ \E i \in DOMAIN free : free[i] = cur
                     /\ cur.size >= Rounded(want)
  /\ moving # {} => pc = "found" /\ \E b \in used : moving = {b}

\* kfree has a block in hand, and the head of the list.
LinkingApart ==
  pc = "linking" =>
    /\ cur \in Blocks /\ cur.at + cur.size <= next
    /\ \A b \in used : Apart(b, cur)
    /\ Vacant(rest) /\ Clear(rest, cur) /\ Clear(free, cur)

HeapInv ==
  /\ next \in 0 .. HeapSize
  /\ UsedApart /\ Vacant(free) /\ FoundFits /\ LinkingApart

----------------------------------------------------------------------------
\* Rounding up leaves room for the header.
LEMMA RoundedUp ==
  ASSUME NEW n \in Nat
  PROVE  Rounded(n) \in Nat /\ Rounded(n) >= n + Header
<1>1. Header \in Nat \ {0}
  BY HeapAssumption
<1> DEFINE x == n + Header + Header - 1
<1>2. x \in Nat
  BY <1>1
<1> HIDE DEF x
<1>3. x \div Header \in Int /\ x \div Header >= 0 /\ (x \div Header) * Header > x - Header
  BY <1>1, <1>2
<1>4. (x \div Header) * Header \in Nat
  BY <1>1, <1>3
<1>5. Rounded(n) = (x \div Header) * Header
  BY DEF Rounded, x
<1> QED BY <1>1, <1>3, <1>4, <1>5 DEF x

\* A set of numbers has a least one: the scan of kmalloc stops at it.
LEMMA Least ==
  ASSUME NEW S, S \subseteq Nat, S # {}
  PROVE  \E x \in S : \A y \in S : x <= y
<1> DEFINE Less == {p \in Nat \X Nat : p[1] < p[2]}
<1>1. IsWellFoundedOn(Less, Nat)
  <2>1. OpToRel(<, Nat) = Less
    BY Zenon DEF OpToRel
  <2> QED BY <2>1, NatLessThanWellFounded, Zenon
<1>2. PICK x \in S : \A y \in S : ~ (<<y, x>> \in Less)
  <2> HIDE DEF Less
  <2> QED BY <1>1, WFMin
<1>3. ASSUME NEW y \in S PROVE x <= y
  <2>1. <<y, x>> \in Nat \X Nat
    OBVIOUS
  <2>2. ~ (<<y, x>>[1] < <<y, x>>[2])
    BY <1>2, <2>1
  <2> QED BY <2>2
<1> QED BY <1>3

\* Every block of a list has an address and a size.
LEMMA ListedBlocks ==
  ASSUME NEW list \in Seq(Blocks), NEW i \in DOMAIN list
  PROVE  list[i] \in Blocks /\ list[i].at \in Nat /\ list[i].size \in Nat \ {0}
<1>1. list[i] \in Blocks
  BY LenProperties, ElementOfSeq
<1>2. list[i].at \in 0 .. HeapSize /\ list[i].size \in 1 .. HeapSize
  BY <1>1 DEF Blocks
<1> QED BY <1>1, <1>2, HeapAssumption

\* One list behind another.
LEMMA Joined ==
  ASSUME NEW s \in Seq(Blocks), NEW t \in Seq(Blocks)
  PROVE  /\ s \o t \in Seq(Blocks)
         /\ \A k \in DOMAIN (s \o t) : \/ \E i \in DOMAIN s : (s \o t)[k] = s[i]
                                       \/ \E j \in DOMAIN t : (s \o t)[k] = t[j]
         /\ Spread(s) /\ Spread(t) /\ (\A i \in DOMAIN s : Clear(t, s[i])) => Spread(s \o t)
<1>1. /\ s \o t \in Seq(Blocks) /\ Len(s \o t) = Len(s) + Len(t)
      /\ Len(s) \in Nat /\ Len(t) \in Nat
      /\ DOMAIN s = 1 .. Len(s) /\ DOMAIN t = 1 .. Len(t)
      /\ DOMAIN (s \o t) = 1 .. Len(s) + Len(t)
      /\ \A k \in 1 .. Len(s) + Len(t) :
           (s \o t)[k] = IF k <= Len(s) THEN s[k] ELSE t[k - Len(s)]
  BY ConcatProperties, LenProperties
<1>2. ASSUME NEW k \in DOMAIN (s \o t)
      PROVE  \/ k \in DOMAIN s /\ (s \o t)[k] = s[k]
             \/ k - Len(s) \in DOMAIN t /\ (s \o t)[k] = t[k - Len(s)]
  BY <1>1
<1>3. ASSUME Spread(s), Spread(t), \A i \in DOMAIN s : Clear(t, s[i])
      PROVE  Spread(s \o t)
  <2> SUFFICES ASSUME NEW k \in DOMAIN (s \o t), NEW l \in DOMAIN (s \o t), k # l
               PROVE  Apart((s \o t)[k], (s \o t)[l])
    BY DEF Spread
  <2>1. CASE k \in DOMAIN s /\ l \in DOMAIN s /\ (s \o t)[k] = s[k] /\ (s \o t)[l] = s[l]
    BY <2>1, <1>3 DEF Spread
  <2>2. CASE /\ k - Len(s) \in DOMAIN t /\ l - Len(s) \in DOMAIN t
             /\ (s \o t)[k] = t[k - Len(s)] /\ (s \o t)[l] = t[l - Len(s)]
    <3>1. k - Len(s) # l - Len(s)
      BY <1>1
    <3> QED BY <2>2, <3>1, <1>3 DEF Spread
  <2>3. CASE /\ k \in DOMAIN s /\ l - Len(s) \in DOMAIN t
             /\ (s \o t)[k] = s[k] /\ (s \o t)[l] = t[l - Len(s)]
    BY <2>3, <1>3 DEF Clear, Apart
  <2>4. CASE /\ k - Len(s) \in DOMAIN t /\ l \in DOMAIN s
             /\ (s \o t)[k] = t[k - Len(s)] /\ (s \o t)[l] = s[l]
    BY <2>4, <1>3 DEF Clear, Apart
  <2> QED BY <1>2, <2>1, <2>2, <2>3, <2>4
<1> QED BY <1>1, <1>2, <1>3

\* A part of a list.
LEMMA Part ==
  ASSUME NEW s \in Seq(Blocks), NEW m \in 1 .. Len(s) + 1, NEW n \in 0 .. Len(s)
  PROVE  /\ SubSeq(s, m, n) \in Seq(Blocks)
         /\ \A k \in DOMAIN SubSeq(s, m, n) :
              k + m - 1 \in m .. n /\ SubSeq(s, m, n)[k] = s[k + m - 1]
         /\ Spread(s) => Spread(SubSeq(s, m, n))
<1>1. \A i \in m .. n : s[i] \in Blocks
  BY LenProperties, ElementOfSeq
<1>2. /\ SubSeq(s, m, n) \in Seq(Blocks)
      /\ Len(SubSeq(s, m, n)) = IF m <= n THEN n - m + 1 ELSE 0
      /\ \A i \in 1 .. n - m + 1 : SubSeq(s, m, n)[i] = s[m + i - 1]
  BY <1>1, SubSeqProperties, LenProperties
<1>3. DOMAIN SubSeq(s, m, n) = 1 .. Len(SubSeq(s, m, n))
  BY <1>2, LenProperties
<1>4. ASSUME NEW k \in DOMAIN SubSeq(s, m, n)
      PROVE  k + m - 1 \in m .. n /\ k \in 1 .. n - m + 1
             /\ k + m - 1 = m + k - 1 /\ k + m - 1 \in DOMAIN s
  BY <1>2, <1>3, LenProperties
<1>5. \A k \in DOMAIN SubSeq(s, m, n) : SubSeq(s, m, n)[k] = s[k + m - 1]
  BY <1>2, <1>4
<1>6. ASSUME Spread(s) PROVE Spread(SubSeq(s, m, n))
  <2> SUFFICES ASSUME NEW k \in DOMAIN SubSeq(s, m, n), NEW l \in DOMAIN SubSeq(s, m, n), k # l
               PROVE  Apart(SubSeq(s, m, n)[k], SubSeq(s, m, n)[l])
    BY DEF Spread
  <2>1. k + m - 1 # l + m - 1
    BY <1>4
  <2> QED BY <2>1, <1>4, <1>5, <1>6 DEF Spread
<1> QED BY <1>2, <1>4, <1>5, <1>6

----------------------------------------------------------------------------
LEMMA InitInv == Init => HeapInv
<1> SUFFICES ASSUME Init PROVE HeapInv
  OBVIOUS
<1>1. Vacant(free)
  BY EmptySeq DEF Init, Vacant, Spread, Clear
<1> QED BY <1>1, HeapAssumption DEF Init, HeapInv, UsedApart, FoundFits, LinkingApart

\* The blocks of a list that stay apart from fewer blocks, or from more memory.
LEMMA StillVacant ==
  ASSUME NEW list, Vacant(list), used' \subseteq used, next' \in Int, next \in Int, next' >= next
  PROVE  Vacant(list)'
<1>1. \A i \in DOMAIN list : list[i].at \in Int /\ list[i].size \in Int
  BY ListedBlocks DEF Vacant
<1> QED BY <1>1 DEF Vacant

\* A block that was allocated goes in front of a list.
LEMMA PutInFront ==
  ASSUME HeapInv, NEW list, Vacant(list), NEW b \in used
  PROVE  /\ AsFree(b) \in Blocks
         /\ <<AsFree(b)>> \o list \in Seq(Blocks)
         /\ Spread(<<AsFree(b)>> \o list)
         /\ \A i \in DOMAIN (<<AsFree(b)>> \o list) :
              LET f == (<<AsFree(b)>> \o list)[i] IN
              /\ f.at + f.size <= next
              /\ \A c \in used \ {b} : Apart(f, c)
         /\ \A c : Clear(list, c) /\ Apart(b, c) => Clear(<<AsFree(b)>> \o list, c)
<1> DEFINE one == <<AsFree(b)>>
<1>1. AsFree(b) \in Blocks /\ AsFree(b).at = b.at /\ AsFree(b).size = b.size
  BY DEF HeapInv, UsedApart, Allocations, AsFree, Blocks
<1>2. one \in Seq(Blocks) /\ DOMAIN one = {1} /\ one[1] = AsFree(b)
  BY <1>1
<1>3. list \in Seq(Blocks) /\ Spread(list) /\ Clear(list, b)
  BY DEF Vacant
<1>4. Spread(one) /\ \A i \in DOMAIN one : Clear(list, one[i])
  BY <1>1, <1>2, <1>3 DEF Spread, Clear, Apart
<1> HIDE DEF one
<1>5. /\ one \o list \in Seq(Blocks) /\ Spread(one \o list)
      /\ \A k \in DOMAIN (one \o list) :
           (one \o list)[k] = AsFree(b) \/ \E j \in DOMAIN list : (one \o list)[k] = list[j]
  BY <1>2, <1>3, <1>4, Joined
<1>6. ASSUME NEW k \in DOMAIN (one \o list)
      PROVE  /\ (one \o list)[k].at + (one \o list)[k].size <= next
             /\ \A c \in used \ {b} : Apart((one \o list)[k], c)
  <2>1. CASE (one \o list)[k] = AsFree(b)
    BY <2>1, <1>1 DEF HeapInv, UsedApart, Apart
  <2>2. CASE \E j \in DOMAIN list : (one \o list)[k] = list[j]
    BY <2>2 DEF Vacant, Clear
  <2> QED BY <1>5, <2>1, <2>2
<1>7. ASSUME NEW c, Clear(list, c), Apart(b, c) PROVE Clear(one \o list, c)
  BY <1>1, <1>5, <1>7 DEF Clear, Apart
<1> QED BY <1>1, <1>5, <1>6, <1>7 DEF one

\* heap_next moves behind a new block.
LEMMA BumpInv ==
  ASSUME HeapInv, pc = "user", NEW n \in Sizes, NEW old \in SUBSET used,
         old = {} \/ \E b \in used : old = {b}, Bump(n, old)
  PROVE  HeapInv'
<1> DEFINE total == Rounded(n)
           new == [at |-> next, size |-> total, len |-> n]
<1>1. n \in Nat \ {0} /\ total \in Nat /\ total >= n + Header /\ Header \in Nat \ {0}
      /\ HeapSize \in Nat /\ next \in 0 .. HeapSize
  BY RoundedUp, HeapAssumption DEF HeapInv
<1>2. /\ next + total <= HeapSize /\ next' = next + total
      /\ used' = (used \ old) \cup {new} /\ UNCHANGED <<pc, callVars>>
      /\ free' = IF old = {} THEN free ELSE <<AsFree(CHOOSE b \in old : TRUE)>> \o free
  BY DEF Bump
<1> HIDE DEF total
<1>3. new \in Allocations /\ new.at = next /\ new.size = total /\ new.len = n
  BY <1>1, <1>2 DEF Allocations
<1> HIDE DEF new
<1>4. \A b \in used : b \in Allocations /\ b.at + b.size <= next /\ Apart(b, new) /\ Apart(new, b)
  BY <1>3 DEF HeapInv, UsedApart, Apart
<1>5. UsedApart'
  <2>1. \A b \in used' : b \in Allocations /\ b.at + b.size <= next' /\ b.len + Header <= b.size
    BY <1>1, <1>2, <1>3, <1>4 DEF HeapInv, UsedApart, Allocations
  <2>2. \A b, c \in used' : b # c => Apart(b, c)
    BY <1>2, <1>4 DEF HeapInv, UsedApart
  <2> QED BY <2>1, <2>2 DEF UsedApart
<1>6. Vacant(free)'
  <2>1. ASSUME NEW list \in Seq(Blocks), Spread(list),
               \A i \in DOMAIN list : /\ list[i].at + list[i].size <= next
                                      /\ \A b \in used \ old : Apart(list[i], b),
               free' = list
        PROVE  Vacant(free)'
    <3>1. \A i \in DOMAIN list : list[i].at \in Int /\ list[i].size \in Int
      BY <2>1, ListedBlocks
    <3>2. \A i \in DOMAIN list : list[i].at + list[i].size <= next' /\ Apart(list[i], new)
      BY <1>1, <1>2, <1>3, <2>1, <3>1 DEF Apart
    <3> QED BY <1>2, <2>1, <3>2 DEF Vacant, Clear
  <2>2. CASE old = {}
    BY <1>2, <2>1, <2>2 DEF HeapInv, Vacant, Clear
  <2>3. ASSUME NEW b \in used, old = {b} PROVE Vacant(free)'
    <3>1. (CHOOSE c \in old : TRUE) = b
      BY <2>3
    <3>2. free' = <<AsFree(b)>> \o free
      BY <1>2, <2>3, <3>1
    <3> QED BY <2>1, <2>3, <3>2, PutInFront DEF HeapInv
  <2> QED BY <2>2, <2>3
<1>7. FoundFits' /\ LinkingApart'
  BY <1>2 DEF HeapInv, FoundFits, LinkingApart, callVars
<1> QED BY <1>1, <1>2, <1>5, <1>6, <1>7 DEF HeapInv

\* kmalloc has found a block, and has not touched it.
LEMMA SearchInv ==
  ASSUME HeapInv, NEW n \in Sizes, NEW old \in SUBSET used,
         old = {} \/ \E b \in used : old = {b}, pc = "user", Search(n, old)
  PROVE  HeapInv'
<1>1. /\ Fitting(n) # {} /\ want' = n /\ cur' = free[FirstFit(n)] /\ moving' = old /\ pc' = "found"
      /\ UNCHANGED <<next, free, used>>
  BY DEF Search
<1>2. FirstFit(n) \in Fitting(n)
  <2>1. Fitting(n) \subseteq Nat
    BY LenProperties DEF Fitting, HeapInv, Vacant
  <2>2. \E i \in Fitting(n) : \A j \in Fitting(n) : i <= j
    BY <1>1, <2>1, Least
  <2> QED BY <2>2 DEF FirstFit
<1>3. FirstFit(n) \in DOMAIN free /\ cur'.size >= Rounded(n)
  BY <1>1, <1>2 DEF Fitting
<1>4. FoundFits'
  BY <1>1, <1>3 DEF FoundFits, Rounded
<1>5. UsedApart' /\ Vacant(free)' /\ LinkingApart'
  BY <1>1 DEF HeapInv, UsedApart, Vacant, LinkingApart
<1> QED BY <1>1, <1>4, <1>5 DEF HeapInv

\* kfree takes a block from those in use, and has the list in hand.
LEMMA FreeBeginInv ==
  ASSUME HeapInv, NEW b \in used, FreeBegin(b)
  PROVE  HeapInv'
<1>1. /\ pc = "user" /\ used' = used \ {b} /\ cur' = AsFree(b) /\ rest' = free /\ pc' = "linking"
      /\ UNCHANGED <<next, free, moving>>
  BY DEF FreeBegin
<1>2. UsedApart'
  BY <1>1 DEF HeapInv, UsedApart
<1>3. Vacant(free)' /\ Vacant(rest)'
  <2>1. Vacant(free)'
    BY <1>1 DEF HeapInv, Vacant
  <2> QED BY <2>1, <1>1 DEF Vacant
<1>4. AsFree(b) \in Blocks /\ AsFree(b).at = b.at /\ AsFree(b).size = b.size
  BY DEF HeapInv, UsedApart, Allocations, AsFree, Blocks
<1>5. LinkingApart'
  <2>1. cur' \in Blocks /\ cur'.at + cur'.size <= next'
    BY <1>1, <1>4 DEF HeapInv, UsedApart
  <2>2. \A c \in used' : Apart(c, cur')
    BY <1>1, <1>4 DEF HeapInv, UsedApart, Apart
  <2>3. Clear(free, cur')
    BY <1>1, <1>4 DEF HeapInv, Vacant, Clear, Apart
  <2>4. Clear(rest, cur)' /\ Clear(free, cur)'
    BY <1>1, <2>3 DEF Clear
  <2> QED BY <2>1, <2>2, <2>4, <1>3 DEF LinkingApart
<1>6. FoundFits'
  BY <1>1 DEF HeapInv, FoundFits
<1> QED BY <1>1, <1>2, <1>3, <1>5, <1>6 DEF HeapInv

\* kfree puts the block in front of the list it had in hand.
LEMMA FreeEndInv ==
  ASSUME HeapInv, FreeEnd
  PROVE  HeapInv'
<1>1. /\ pc = "linking" /\ free' = <<cur>> \o rest /\ pc' = "user" /\ UNCHANGED <<next, used, moving>>
  BY DEF FreeEnd
<1>2. /\ cur \in Blocks /\ cur.at + cur.size <= next /\ \A b \in used : Apart(b, cur)
      /\ Vacant(rest) /\ Clear(rest, cur)
  BY <1>1 DEF HeapInv, LinkingApart
<1>3. rest \in Seq(Blocks) /\ Spread(rest)
  BY <1>2 DEF Vacant
<1> DEFINE one == <<cur>>
<1>4. one \in Seq(Blocks) /\ DOMAIN one = {1} /\ one[1] = cur /\ free' = one \o rest
  BY <1>1, <1>2
<1>5. Spread(one) /\ \A i \in DOMAIN one : Clear(rest, one[i])
  BY <1>2, <1>4 DEF Spread
<1> HIDE DEF one
<1>6. /\ free' \in Seq(Blocks) /\ Spread(free')
      /\ \A k \in DOMAIN free' : free'[k] = cur \/ \E j \in DOMAIN rest : free'[k] = rest[j]
  BY <1>3, <1>4, <1>5, Joined
<1>7. ASSUME NEW k \in DOMAIN free'
      PROVE  free'[k].at + free'[k].size <= next /\ \A b \in used : Apart(free'[k], b)
  <2>1. CASE free'[k] = cur
    BY <2>1, <1>2 DEF Apart
  <2>2. CASE \E j \in DOMAIN rest : free'[k] = rest[j]
    BY <2>2, <1>2 DEF Vacant, Clear
  <2> QED BY <1>6, <2>1, <2>2
<1>8. Vacant(free)'
  BY <1>1, <1>6, <1>7 DEF Vacant, Clear, Spread
<1>9. UsedApart' /\ FoundFits' /\ LinkingApart'
  BY <1>1 DEF HeapInv, UsedApart, FoundFits, LinkingApart
<1> QED BY <1>1, <1>8, <1>9 DEF HeapInv

\* krealloc in place changes the length of a block only.
LEMMA InPlaceInv ==
  ASSUME HeapInv, NEW b \in used, NEW n \in Sizes, ReallocInPlace(b, n)
  PROVE  HeapInv'
<1> DEFINE new == [b EXCEPT !.len = n]
<1>1. /\ pc = "user" /\ n <= b.size - Header /\ used' = (used \ {b}) \cup {new}
      /\ UNCHANGED <<next, free, pc, callVars>>
  BY DEF ReallocInPlace
<1>2. /\ new \in Allocations /\ new.at = b.at /\ new.size = b.size /\ new.len = n
      /\ b \in Allocations
  BY DEF HeapInv, UsedApart, Allocations
<1> HIDE DEF new
<1>3. UsedApart'
  <2>1. b.size \in Nat /\ n \in Nat /\ Header \in Nat
    BY <1>2, HeapAssumption DEF Allocations
  <2>2. \A c \in used' : c \in Allocations /\ c.at + c.size <= next' /\ c.len + Header <= c.size
    BY <1>1, <1>2, <2>1 DEF HeapInv, UsedApart
  <2>3. \A c, d \in used' : c # d => Apart(c, d)
    BY <1>1, <1>2 DEF HeapInv, UsedApart, Apart
  <2> QED BY <2>2, <2>3 DEF UsedApart
<1>4. Vacant(free)'
  <2>1. Clear(free, new)
    BY <1>2 DEF HeapInv, Vacant, Clear, Apart
  <2> QED BY <2>1, <1>1 DEF HeapInv, Vacant
<1>5. FoundFits' /\ LinkingApart'
  BY <1>1 DEF HeapInv, FoundFits, LinkingApart, callVars
<1> QED BY <1>1, <1>3, <1>4, <1>5 DEF HeapInv

\* kfree in the timer interrupt, wherever it lands.
LEMMA IrqFreeInv ==
  ASSUME HeapInv, NEW b \in used, IrqFree(b)
  PROVE  HeapInv'
<1>1. /\ b \notin moving /\ used' = used \ {b} /\ free' = <<AsFree(b)>> \o free
      /\ UNCHANGED <<next, pc, callVars>>
  BY DEF IrqFree
<1>2. UsedApart'
  BY <1>1 DEF HeapInv, UsedApart
<1>3. Vacant(free)'
  BY <1>1, PutInFront DEF HeapInv, Vacant, Clear, Spread
<1>4. FoundFits'
  <2>1. pc = "found" => \E k \in DOMAIN free' : free'[k] = cur
    <3> SUFFICES ASSUME NEW i \in DOMAIN free, free[i] = cur
                 PROVE  \E k \in DOMAIN free' : free'[k] = cur
      BY DEF HeapInv, FoundFits
    <3>1. /\ free \in Seq(Blocks) /\ <<AsFree(b)>> \in Seq(Blocks) /\ Len(<<AsFree(b)>>) = 1
      BY DEF HeapInv, Vacant, UsedApart, Allocations, AsFree, Blocks
    <3>2. i \in 1 .. Len(free) /\ Len(free) \in Nat
      BY <3>1, LenProperties
    <3>3. i + 1 \in DOMAIN free' /\ free'[i + 1] = free[i]
      <4>1. /\ Len(free') = 1 + Len(free) /\ free' \in Seq(Blocks)
            /\ \A k \in 1 .. 1 + Len(free) :
                 free'[k] = IF k <= 1 THEN <<AsFree(b)>>[k] ELSE free[k - 1]
        BY <1>1, <3>1, ConcatProperties
      <4> QED BY <4>1, <3>2, LenProperties
    <3> QED BY <3>3
  <2> QED BY <1>1, <2>1 DEF HeapInv, FoundFits, callVars, Rounded
<1>5. LinkingApart'
  <2> SUFFICES ASSUME pc = "linking" PROVE LinkingApart'
    BY <1>1 DEF LinkingApart
  <2>1. /\ cur \in Blocks /\ cur.at + cur.size <= next /\ \A c \in used : Apart(c, cur)
        /\ Vacant(rest) /\ Clear(rest, cur) /\ Clear(free, cur)
    BY DEF HeapInv, LinkingApart
  <2>2. Clear(free', cur)
    BY <1>1, <2>1, PutInFront DEF HeapInv
  <2>3. Vacant(rest)'
    BY <1>1, <2>1 DEF Vacant, callVars
  <2> QED BY <1>1, <2>1, <2>2, <2>3 DEF LinkingApart, callVars, Clear
<1> QED BY <1>1, <1>2, <1>3, <1>4, <1>5 DEF HeapInv

\* kmalloc unlinks the block it found: what it hands out and what it leaves in
\* the list are parts of that block.
LEMMA UnlinkInv ==
  ASSUME HeapInv, Unlink
  PROVE  HeapInv' /\ LET new == [at |-> cur.at, size |-> Taken(Rounded(want)), len |-> want] IN
                     /\ used' = (used \ moving) \cup {new} /\ new \in Allocations
                     /\ new.len + Header <= new.size /\ new.at + new.size <= next
                     /\ \A b \in used : Apart(b, new)
<1> DEFINE total == Rounded(want)
           i     == CHOOSE j \in DOMAIN free : free[j].at = cur.at
           front == IF first THEN <<>> ELSE SubSeq(free, 1, i - 1)
           rem   == Remainder(total)
           back  == SubSeq(free, i + 1, Len(free))
           new   == [at |-> cur.at, size |-> Taken(total), len |-> want]
           kept  == (front \o rem) \o back
<1>1. /\ pc = "found" /\ pc' = "user" /\ next' = next /\ rest' = rest
      /\ free' = Released(kept) /\ used' = (used \ moving) \cup {new} /\ moving' = {}
  BY DEF Unlink, Stamped
<1>2. /\ want \in Sizes /\ want \in Nat /\ total \in Nat /\ total >= want + Header
      /\ cur.size >= total /\ Header \in Nat \ {0} /\ MinSplit \in Nat \ {0}
      /\ HeapSize \in Nat /\ next \in 0 .. HeapSize
  BY <1>1, RoundedUp, HeapAssumption DEF HeapInv, FoundFits
<1>3. free \in Seq(Blocks) /\ DOMAIN free = 1 .. Len(free) /\ Len(free) \in Nat /\ Spread(free)
  BY LenProperties DEF HeapInv, Vacant
<1>4. i \in DOMAIN free /\ free[i] = cur
  <2>1. PICK j \in DOMAIN free : free[j] = cur
    BY <1>1 DEF HeapInv, FoundFits
  <2>2. i \in DOMAIN free /\ free[i].at = cur.at
    BY <2>1
  <2> HIDE DEF i
  <2>3. ~ Apart(free[i], free[j])
    BY <2>1, <2>2, <1>3, ListedBlocks DEF Apart
  <2> QED BY <2>1, <2>2, <2>3, <1>3 DEF Spread
<1>5. cur \in Blocks /\ cur.at \in Nat /\ cur.size \in Nat \ {0} /\ cur.at + cur.size <= next
  BY <1>3, <1>4, ListedBlocks DEF HeapInv, Vacant
<1> HIDE DEF i, total
\* The block that is handed out, and the one that is left.
<1>6. /\ new \in Allocations /\ new.at = cur.at /\ new.size = Taken(total) /\ new.len = want
      /\ new.size \in total .. cur.size
  BY <1>2, <1>5 DEF Taken, Allocations
<1> HIDE DEF new
<1>7. /\ rem \in Seq(Blocks) /\ Spread(rem)
      /\ \A k \in DOMAIN rem : /\ rem[k].at = new.at + new.size
                               /\ rem[k].at + rem[k].size = cur.at + cur.size
  <2>1. CASE cur.size >= total + MinSplit
    <3> DEFINE f == [at |-> cur.at + total, size |-> cur.size - total]
    <3>1. rem = <<f>> /\ new.size = total
      BY <2>1, <1>6 DEF Remainder, Taken
    <3>2. f.at = cur.at + total /\ f.size = cur.size - total
      OBVIOUS
    <3>3. f \in Blocks /\ f.at + f.size = cur.at + cur.size
      BY <2>1, <1>2, <1>5 DEF Blocks
    <3> HIDE DEF f
    <3>4. rem \in Seq(Blocks) /\ DOMAIN rem = {1} /\ rem[1] = f
      BY <3>1, <3>3
    <3> QED BY <3>1, <3>2, <3>3, <3>4, <1>6 DEF Spread
  <2>2. CASE ~ (cur.size >= total + MinSplit)
    <3>1. rem = <<>>
      BY <2>2 DEF Remainder
    <3> QED BY <3>1, EmptySeq DEF Spread
  <2> QED BY <2>1, <2>2
<1> HIDE DEF rem
\* The other blocks of the list are apart from both.
<1>8. ASSUME NEW m \in DOMAIN free \ {i}
      PROVE  /\ Apart(free[m], cur) /\ Apart(free[m], new) /\ Apart(new, free[m])
             /\ \A k \in DOMAIN rem : Apart(free[m], rem[k]) /\ Apart(rem[k], free[m])
  <2>1. Apart(free[m], cur)
    BY <1>3, <1>4 DEF Spread
  <2>2. free[m].at \in Nat /\ free[m].size \in Nat
    BY <1>3, ListedBlocks
  <2>3. \A k \in DOMAIN rem : rem[k].at \in Nat /\ rem[k].size \in Nat
    BY <1>7, ListedBlocks
  <2>4. \/ free[m].at + free[m].size <= cur.at
        \/ cur.at + cur.size <= free[m].at
    BY <2>1 DEF Apart
  <2>5. Apart(free[m], new) /\ Apart(new, free[m])
    BY <2>2, <2>4, <1>2, <1>5, <1>6 DEF Apart
  <2>6. ASSUME NEW k \in DOMAIN rem
        PROVE  Apart(free[m], rem[k]) /\ Apart(rem[k], free[m])
    <3>1. rem[k].at >= cur.at /\ rem[k].at + rem[k].size = cur.at + cur.size
      BY <2>3, <1>2, <1>5, <1>6, <1>7
    <3> QED BY <2>2, <2>3, <2>4, <3>1, <1>5 DEF Apart
  <2> QED BY <2>1, <2>5, <2>6
<1>9. /\ front \in Seq(Blocks) /\ Spread(front)
      /\ \A k \in DOMAIN front : \E m \in 1 .. i - 1 : front[k] = free[m]
  <2>1. CASE first
    BY <2>1, EmptySeq DEF Spread
  <2>2. CASE ~ first
    <3>1. 1 \in 1 .. Len(free) + 1 /\ i - 1 \in 0 .. Len(free) /\ front = SubSeq(free, 1, i - 1)
      BY <2>2, <1>3, <1>4
    <3> DEFINE part == SubSeq(free, 1, i - 1)
    <3>2. /\ part \in Seq(Blocks) /\ Spread(part)
          /\ \A k \in DOMAIN part : k + 1 - 1 \in 1 .. i - 1 /\ part[k] = free[k + 1 - 1]
      BY <3>1, <1>3, Part
    <3>3. front = part
      BY <2>2
    <3> HIDE DEF front, part
    <3> QED BY <3>2, <3>3
  <2> QED BY <2>1, <2>2
<1>10. /\ back \in Seq(Blocks) /\ Spread(back)
       /\ \A k \in DOMAIN back : \E m \in i + 1 .. Len(free) : back[k] = free[m]
  <2>1. i + 1 \in 1 .. Len(free) + 1 /\ Len(free) \in 0 .. Len(free)
    BY <1>3, <1>4
  <2> QED BY <2>1, <1>3, Part
<1> HIDE DEF front, back
<1>11. /\ \A k \in DOMAIN front : \E m \in DOMAIN free \ {i} : front[k] = free[m]
       /\ \A k \in DOMAIN back : \E m \in DOMAIN free \ {i} : back[k] = free[m]
  <2>1. 1 .. i - 1 \subseteq DOMAIN free \ {i} /\ i + 1 .. Len(free) \subseteq DOMAIN free \ {i}
    BY <1>3, <1>4
  <2> QED BY <2>1, <1>9, <1>10
<1>12. \A k \in DOMAIN front : Clear(rem, front[k]) /\ Clear(back, front[k])
  <2> SUFFICES ASSUME NEW k \in DOMAIN front
               PROVE  Clear(rem, front[k]) /\ Clear(back, front[k])
    OBVIOUS
  <2>1. PICK m \in 1 .. i - 1 : front[k] = free[m]
    BY <1>9
  <2>2. m \in DOMAIN free \ {i}
    BY <1>3, <1>4
  <2>3. Clear(rem, front[k])
    BY <2>1, <2>2, <1>8 DEF Clear
  <2>4. ASSUME NEW l \in DOMAIN back PROVE Apart(back[l], front[k])
    <3>1. PICK h \in i + 1 .. Len(free) : back[l] = free[h]
      BY <1>10
    <3>2. h \in DOMAIN free /\ h # m
      BY <1>3, <1>4
    <3> QED BY <3>1, <3>2, <2>1, <2>2, <1>3 DEF Spread
  <2> QED BY <2>3, <2>4 DEF Clear
<1>13. \A k \in DOMAIN rem : Clear(back, rem[k])
  BY <1>8, <1>11 DEF Clear
<1>14. /\ kept \in Seq(Blocks) /\ Spread(kept)
       /\ \A k \in DOMAIN kept : \/ \E l \in DOMAIN rem : kept[k] = rem[l]
                                 \/ \E m \in DOMAIN free \ {i} : kept[k] = free[m]
  <2> DEFINE both == front \o rem
  <2>1. /\ both \in Seq(Blocks) /\ Spread(both)
        /\ \A k \in DOMAIN both : \/ \E l \in DOMAIN front : both[k] = front[l]
                                  \/ \E l \in DOMAIN rem : both[k] = rem[l]
    BY <1>7, <1>9, <1>12, Joined
  <2> HIDE DEF both
  <2>2. \A k \in DOMAIN both : Clear(back, both[k])
    BY <2>1, <1>12, <1>13
  <2>3. /\ both \o back \in Seq(Blocks) /\ Spread(both \o back)
        /\ \A k \in DOMAIN (both \o back) : \/ \E l \in DOMAIN both : (both \o back)[k] = both[l]
                                            \/ \E l \in DOMAIN back : (both \o back)[k] = back[l]
    BY <2>1, <2>2, <1>10, Joined
  <2>4. kept = both \o back
    BY DEF both
  <2> HIDE DEF kept
  <2>5. ASSUME NEW k \in DOMAIN kept
        PROVE  \/ \E l \in DOMAIN rem : kept[k] = rem[l]
               \/ \E m \in DOMAIN free \ {i} : kept[k] = free[m]
    <3>1. CASE \E l \in DOMAIN both : kept[k] = both[l]
      BY <3>1, <2>1, <1>11
    <3>2. CASE \E l \in DOMAIN back : kept[k] = back[l]
      BY <3>2, <1>11
    <3> QED BY <2>3, <2>4, <3>1, <3>2
  <2> QED BY <2>3, <2>4, <2>5
<1> HIDE DEF kept
<1>15. \A b \in used : Apart(b, cur) /\ Apart(b, new)
  <2> SUFFICES ASSUME NEW b \in used PROVE Apart(b, cur) /\ Apart(b, new)
    OBVIOUS
  <2>1. Apart(cur, b)
    BY <1>3, <1>4 DEF HeapInv, Vacant, Clear
  <2>2. b.at \in Nat /\ b.size \in Nat
    BY <1>2 DEF HeapInv, UsedApart, Allocations
  <2> QED BY <2>1, <2>2, <1>2, <1>5, <1>6 DEF Apart
<1>16. Vacant(kept) /\ Clear(kept, new)
  <2>1. ASSUME NEW k \in DOMAIN kept
        PROVE  /\ kept[k].at + kept[k].size <= next /\ Apart(kept[k], new)
               /\ \A b \in used : Apart(kept[k], b)
    <3>1. ASSUME NEW m \in DOMAIN free \ {i}, kept[k] = free[m]
          PROVE  /\ kept[k].at + kept[k].size <= next /\ Apart(kept[k], new)
                 /\ \A b \in used : Apart(kept[k], b)
      BY <3>1, <1>8 DEF HeapInv, Vacant, Clear
    <3>2. ASSUME NEW l \in DOMAIN rem, kept[k] = rem[l]
          PROVE  /\ kept[k].at + kept[k].size <= next /\ Apart(kept[k], new)
                 /\ \A b \in used : Apart(kept[k], b)
      <4>1. rem[l].at = new.at + new.size /\ rem[l].at + rem[l].size = cur.at + cur.size
            /\ rem[l].at \in Nat /\ rem[l].size \in Nat
        BY <1>7, ListedBlocks
      <4>2. ASSUME NEW b \in used PROVE Apart(rem[l], b)
        <5>1. b.at \in Nat /\ b.size \in Nat /\ Apart(b, cur)
          BY <1>2, <1>15 DEF HeapInv, UsedApart, Allocations
        <5> QED BY <4>1, <5>1, <1>2, <1>5, <1>6 DEF Apart
      <4> QED BY <3>2, <4>1, <4>2, <1>5 DEF Apart
    <3> QED BY <1>14, <3>1, <3>2
  <2> QED BY <1>14, <2>1 DEF Vacant, Clear
<1>17. new.len + Header <= new.size /\ new.at + new.size <= next
  BY <1>2, <1>5, <1>6
<1>18. UsedApart'
  <2>1. \A b \in used' : b \in Allocations /\ b.at + b.size <= next' /\ b.len + Header <= b.size
    BY <1>1, <1>6, <1>17 DEF HeapInv, UsedApart
  <2>2. \A b, c \in used' : b # c => Apart(b, c)
    BY <1>1, <1>15 DEF HeapInv, UsedApart, Apart
  <2> QED BY <2>1, <2>2 DEF UsedApart
<1>19. Vacant(free)'
  <2>1. CASE moving = {}
    BY <2>1, <1>1, <1>16 DEF Released, Vacant, Clear
  <2>2. ASSUME NEW b \in used, moving = {b} PROVE Vacant(free)'
    <3>1. free' = <<AsFree(b)>> \o kept
      BY <2>2, <1>1 DEF Released
    <3>2. Clear(free', new)
      BY <3>1, <1>15, <1>16, PutInFront
    <3>3. /\ free' \in Seq(Blocks) /\ Spread(free')
          /\ \A k \in DOMAIN free' : /\ free'[k].at + free'[k].size <= next
                                     /\ \A c \in used \ {b} : Apart(free'[k], c)
      BY <3>1, <1>16, PutInFront
    <3> QED BY <2>2, <1>1, <3>2, <3>3 DEF Vacant, Clear, Spread
  <2> QED BY <2>1, <2>2 DEF HeapInv, FoundFits
<1>20. FoundFits' /\ LinkingApart'
  BY <1>1 DEF FoundFits, LinkingApart
<1> QED BY <1>1, <1>2, <1>6, <1>15, <1>17, <1>18, <1>19, <1>20 DEF HeapInv, new, total

----------------------------------------------------------------------------
LEMMA NextInv ==
  ASSUME HeapInv, [Next]_vars
  PROVE  HeapInv'
<1>1. CASE \E n \in Sizes : Malloc(n)
  <2>1. PICK n \in Sizes : Malloc(n)
    BY <1>1
  <2>2. {} \in SUBSET used
    OBVIOUS
  <2> QED BY <2>1, <2>2, SearchInv, BumpInv DEF Malloc
<1>2. CASE Unlink
  BY <1>2, UnlinkInv
<1>3. CASE FreeEnd
  BY <1>3, FreeEndInv
<1>4. CASE \E b \in used : FreeBegin(b) \/ IrqFree(b)
  BY <1>4, FreeBeginInv, IrqFreeInv
<1>5. CASE \E b \in used : \E n \in Sizes : ReallocInPlace(b, n) \/ ReallocMoves(b, n)
  <2>1. PICK b \in used, n \in Sizes : ReallocInPlace(b, n) \/ ReallocMoves(b, n)
    BY <1>5
  <2>2. {b} \in SUBSET used
    OBVIOUS
  <2> QED BY <2>1, <2>2, InPlaceInv, SearchInv, BumpInv DEF ReallocMoves
<1>6. CASE UNCHANGED vars
  <2>1. UNCHANGED <<next, free, used, pc, want, cur, moving, rest>>
    BY <1>6 DEF vars, callVars
  <2>2. UsedApart' /\ Vacant(free)' /\ Vacant(rest)' = Vacant(rest)
    BY <2>1 DEF HeapInv, UsedApart, Vacant
  <2>3. FoundFits' /\ LinkingApart'
    BY <2>1, <2>2 DEF HeapInv, FoundFits, LinkingApart, Rounded, Clear
  <2> QED BY <2>1, <2>2, <2>3 DEF HeapInv
<1> QED BY <1>1, <1>2, <1>3, <1>4, <1>5, <1>6 DEF Next

\* The inductive invariant: blocks in use, free blocks and the block that kfree
\* has in hand never share a byte.
THEOREM Invariant == Spec => []HeapInv
BY InitInv, NextInv, PTL DEF Spec

----------------------------------------------------------------------------
(* What the callers see *)

Region(b) == [at |-> b.at + Header, len |-> b.len]
Held      == {Region(b) : b \in used}

\* The memory of an allocation lies in its block, below the end of the heap.
LEMMA RegionOf ==
  ASSUME NEW b \in Allocations, b.at + b.size <= HeapSize, b.len + Header <= b.size
  PROVE  /\ Region(b) \in NoOverlap!Regions
         /\ Region(b).at = b.at + Header /\ Region(b).len = b.len
         /\ Region(b).at + Region(b).len <= HeapSize
         /\ b.at \in Nat /\ b.size \in Nat /\ b.len \in Nat \ {0}
<1>1. b.at \in 0 .. HeapSize /\ b.size \in 1 .. HeapSize /\ b.len \in Sizes
  BY DEF Allocations
<1>2. HeapSize \in Nat /\ Header \in Nat \ {0}
  BY HeapAssumption
<1>3. b.len \in Nat \ {0}
  BY <1>1, HeapAssumption
<1>4. b.at \in Nat /\ b.size \in Nat
  BY <1>1, <1>2
<1>5. b.at + Header \in 0 .. HeapSize /\ b.at + Header + b.len <= HeapSize
  BY <1>2, <1>3, <1>4
<1>6. Region(b).at = b.at + Header /\ Region(b).len = b.len
  BY DEF Region
<1>7. Region(b) \in NoOverlap!Regions
  BY <1>1, <1>5 DEF Region, NoOverlap!Regions
<1> QED BY <1>3, <1>4, <1>5, <1>6, <1>7

\* Blocks apart give regions apart.
LEMMA RegionsApart ==
  ASSUME NEW b \in Allocations, b.at + b.size <= HeapSize, b.len + Header <= b.size,
         NEW c \in Allocations, c.at + c.size <= HeapSize, c.len + Header <= c.size,
         Apart(b, c)
  PROVE  NoOverlap!Disjoint(Region(b), Region(c)) /\ Region(b) # Region(c)
<1>1. HeapSize \in 0 .. HeapSize /\ Header \in Nat
  BY HeapAssumption
<1>2. /\ Region(b).at = b.at + Header /\ Region(b).len = b.len
      /\ Region(c).at = c.at + Header /\ Region(c).len = c.len
      /\ b.at \in Nat /\ b.size \in Nat /\ b.len \in Nat \ {0}
      /\ c.at \in Nat /\ c.size \in Nat /\ c.len \in Nat \ {0}
  BY <1>1, RegionOf
<1>3. \/ Region(b).at + Region(b).len <= Region(c).at
      \/ Region(c).at + Region(c).len <= Region(b).at
  <2>1. CASE b.at + b.size <= c.at
    BY <2>1, <1>1, <1>2
  <2>2. CASE c.at + c.size <= b.at
    BY <2>2, <1>1, <1>2
  <2> QED BY <2>1, <2>2 DEF Apart
<1>4. Region(b) # Region(c)
  BY <1>1, <1>2, <1>3
<1> QED BY <1>3, <1>4 DEF NoOverlap!Disjoint

\* What a block gives its owner, of those in use.
LEMMA HeldRegions ==
  ASSUME HeapInv
  PROVE  /\ \A b \in used : b \in Allocations /\ b.at + b.size <= HeapSize /\ b.len + Header <= b.size
         /\ \A b, c \in used : b # c => /\ Region(b) # Region(c)
                                        /\ NoOverlap!Disjoint(Region(b), Region(c))
<1>1. \A b \in used : b \in Allocations /\ b.at + b.size <= HeapSize /\ b.len + Header <= b.size
  BY HeapAssumption DEF HeapInv, UsedApart, Allocations
<1>2. \A b, c \in used : b # c => Apart(b, c)
  BY DEF HeapInv, UsedApart
<1> QED BY <1>1, <1>2, RegionsApart

LEMMA FreeRefines ==
  ASSUME HeapInv, NEW b \in used, used' = used \ {b}
  PROVE  NoOverlap!Next
<1>1. Held' = {Region(c) : c \in used \ {b}}
  BY DEF Held, Region
<1>2. Held' = Held \ {Region(b)} /\ Region(b) \in Held
  BY <1>1, HeldRegions DEF Held
<1>3. NoOverlap!Free(Region(b)) /\ Region(b) \in Held
  BY <1>2 DEF NoOverlap!Free, Held, Region
<1> QED BY <1>3 DEF NoOverlap!Next, Held, Region

\* A new block.
LEMMA AllocRefines ==
  ASSUME HeapInv, HeapInv', NEW new, used' = used \cup {new}, \A b \in used : Apart(b, new)
  PROVE  NoOverlap!Next
<1>1. new \in Allocations /\ new.at + new.size <= HeapSize /\ new.len + Header <= new.size
  BY HeapAssumption DEF HeapInv, UsedApart, Allocations
<1>2. Region(new) \in NoOverlap!Regions /\ Region(new).at + Region(new).len <= HeapSize
  BY <1>1, RegionOf
<1>3. ASSUME NEW b \in used PROVE NoOverlap!Disjoint(Region(new), Region(b))
  <2>1. NoOverlap!Disjoint(Region(b), Region(new))
    BY <1>1, HeldRegions, RegionsApart
  <2> QED BY <2>1 DEF NoOverlap!Disjoint
<1>4. Held' = Held \cup {Region(new)}
  BY DEF Held, Region
<1>5. \A s \in Held : NoOverlap!Disjoint(Region(new), s)
  BY <1>3 DEF Held
<1>6. NoOverlap!Alloc(Region(new))
  BY <1>2, <1>4, <1>5 DEF NoOverlap!Alloc, NoOverlap!Usable, Held, Region
<1> QED BY <1>2, <1>6 DEF NoOverlap!Next

\* A block that takes the place of b, in the same memory or in other.
LEMMA ResizeRefines ==
  ASSUME HeapInv, HeapInv', NEW b \in used, NEW new,
         used' = (used \ {b}) \cup {new},
         \A c \in used : c # b => Apart(c, new),
         Apart(b, new) \/ new.at = b.at
  PROVE  NoOverlap!Next
<1>1. new \in Allocations /\ new.at + new.size <= HeapSize /\ new.len + Header <= new.size
  BY HeapAssumption DEF HeapInv, UsedApart, Allocations
<1>2. Region(new) \in NoOverlap!Regions /\ Region(new).at + Region(new).len <= HeapSize
  BY <1>1, RegionOf
<1>3. ASSUME NEW c \in used
      PROVE  \/ NoOverlap!Disjoint(Region(new), Region(c))
             \/ Region(c) = Region(b) /\ Region(new).at = Region(b).at
  <2>1. ASSUME Apart(c, new) PROVE NoOverlap!Disjoint(Region(new), Region(c))
    <3>1. NoOverlap!Disjoint(Region(c), Region(new))
      BY <2>1, <1>1, HeldRegions, RegionsApart
    <3> QED BY <3>1 DEF NoOverlap!Disjoint
  <2>2. ASSUME c = b, new.at = b.at PROVE Region(new).at = Region(b).at
    BY <2>2 DEF Region
  <2> QED BY <2>1, <2>2
<1>4. Held' = {Region(c) : c \in used \ {b}} \cup {Region(new)}
  BY DEF Held, Region
<1>5. {Region(c) : c \in used \ {b}} = Held \ {Region(b)}
  BY HeldRegions DEF Held
<1>6. Region(b) \in Held
  BY DEF Held
<1>7. \A s \in Held : \/ NoOverlap!Disjoint(Region(new), s)
                      \/ s = Region(b) /\ Region(new).at = Region(b).at
  BY <1>3 DEF Held
<1>8. NoOverlap!Resize(Region(b), Region(new))
  BY <1>2, <1>4, <1>5, <1>6, <1>7 DEF NoOverlap!Resize, Held, Region
<1> QED BY <1>2, <1>6, <1>8 DEF NoOverlap!Next, Held, Region

\* A step of kmalloc, kfree or krealloc is one of Allocator, or none.
LEMMA StepRefines ==
  ASSUME HeapInv, HeapInv', [Next]_vars
  PROVE  NoOverlap!Next \/ UNCHANGED Held
<1>0. ASSUME used' = used PROVE UNCHANGED Held
  BY <1>0 DEF Held, Region
<1>1. ASSUME NEW n \in Sizes, NEW old \in SUBSET used,
             old = {} \/ \E b \in used : old = {b}, Bump(n, old)
      PROVE  NoOverlap!Next
  <2> DEFINE new == [at |-> next, size |-> Rounded(n), len |-> n]
  <2>1. used' = (used \ old) \cup {new}
    BY <1>1 DEF Bump
  <2>2. \A b \in used : Apart(b, new)
    BY DEF HeapInv, UsedApart, Apart
  <2> HIDE DEF new
  <2>3. CASE old = {}
    BY <2>1, <2>2, <2>3, AllocRefines
  <2>4. ASSUME NEW b \in used, old = {b} PROVE NoOverlap!Next
    BY <2>1, <2>2, <2>4, ResizeRefines
  <2> QED BY <1>1, <2>3, <2>4
<1>2. ASSUME NEW n \in Sizes, NEW old, Search(n, old) PROVE UNCHANGED Held
  BY <1>0, <1>2 DEF Search
<1>3. CASE \E n \in Sizes : Malloc(n)
  BY <1>1, <1>2, <1>3 DEF Malloc
<1>4. CASE Unlink
  <2> DEFINE new == [at |-> cur.at, size |-> Taken(Rounded(want)), len |-> want]
  <2>1. used' = (used \ moving) \cup {new} /\ \A b \in used : Apart(b, new)
    BY <1>4, UnlinkInv
  <2> HIDE DEF new
  <2>2. CASE moving = {}
    BY <2>1, <2>2, AllocRefines
  <2>3. ASSUME NEW b \in used, moving = {b} PROVE NoOverlap!Next
    BY <2>1, <2>3, ResizeRefines
  <2> QED BY <2>2, <2>3 DEF HeapInv, FoundFits
<1>5. CASE FreeEnd
  BY <1>0, <1>5 DEF FreeEnd
<1>6. CASE \E b \in used : FreeBegin(b) \/ IrqFree(b)
  BY <1>6, FreeRefines DEF FreeBegin, IrqFree
<1>7. CASE \E b \in used : \E n \in Sizes : ReallocInPlace(b, n)
  <2>1. PICK b \in used, n \in Sizes : ReallocInPlace(b, n)
    BY <1>7
  <2> DEFINE new == [b EXCEPT !.len = n]
  <2>2. used' = (used \ {b}) \cup {new}
    BY <2>1 DEF ReallocInPlace
  <2>3. new.at = b.at /\ new.size = b.size
    BY DEF HeapInv, UsedApart, Allocations
  <2> HIDE DEF new
  <2>4. \A c \in used : c # b => Apart(c, new)
    BY <2>3 DEF HeapInv, UsedApart, Apart
  <2> QED BY <2>2, <2>3, <2>4, ResizeRefines
<1>8. CASE \E b \in used : \E n \in Sizes : ReallocMoves(b, n)
  BY <1>1, <1>2, <1>8 DEF ReallocMoves
<1>9. CASE UNCHANGED vars
  BY <1>0, <1>9 DEF vars
<1> QED BY <1>3, <1>4, <1>5, <1>6, <1>7, <1>8, <1>9 DEF Next

\* kmalloc hands out memory that nobody else holds, and kfree and krealloc take
\* back nothing but the block they are given, wherever the interrupt lands.
THEOREM AllocatorImplemented == Spec => AllocatorSpec
<1>1. Init => NoOverlap!Init
  BY DEF Init, NoOverlap!Init
<1>2. HeapInv /\ HeapInv' /\ [Next]_vars => [NoOverlap!Next]_Held
  BY StepRefines
<1> QED BY <1>1, <1>2, Invariant, PTL DEF Spec, AllocatorSpec, NoOverlap!Spec, Held, Region

----------------------------------------------------------------------------
(* No byte is lost *)

\* The reaping interrupt lands outside the functions of the heap.
Calm == IrqPoints \subseteq {"user"}

AllBlocks == {AsFree(b) : b \in used} \cup ToSet(free) \cup Linking

InBlock(b, a) == b.at <= a /\ a < b.at + b.size

\* Every byte below heap_next is in a block, and a call knows the list.
Whole ==
  /\ \A a \in 0 .. next - 1 : \E b \in AllBlocks : InBlock(b, a)
  /\ pc = "linking" => rest = free
  /\ pc = "found" /\ first => free # <<>> /\ free[1] = cur

\* A block that is in a list stays in what is made of the list.
LEMMA JoinedSet ==
  ASSUME NEW s \in Seq(Blocks), NEW t \in Seq(Blocks)
  PROVE  ToSet(s) \subseteq ToSet(s \o t) /\ ToSet(t) \subseteq ToSet(s \o t)
<1>1. /\ s \o t \in Seq(Blocks) /\ Len(s) \in Nat /\ Len(t) \in Nat
      /\ DOMAIN s = 1 .. Len(s) /\ DOMAIN t = 1 .. Len(t)
      /\ DOMAIN (s \o t) = 1 .. Len(s) + Len(t)
      /\ \A k \in 1 .. Len(s) + Len(t) :
           (s \o t)[k] = IF k <= Len(s) THEN s[k] ELSE t[k - Len(s)]
  BY ConcatProperties, LenProperties
<1>2. ASSUME NEW i \in DOMAIN s PROVE s[i] \in ToSet(s \o t)
  <2>1. i \in DOMAIN (s \o t) /\ (s \o t)[i] = s[i]
    BY <1>1
  <2> QED BY <2>1 DEF ToSet
<1>3. ASSUME NEW i \in DOMAIN t PROVE t[i] \in ToSet(s \o t)
  <2>1. Len(s) + i \in DOMAIN (s \o t) /\ ~ (Len(s) + i <= Len(s)) /\ (Len(s) + i) - Len(s) = i
    BY <1>1
  <2>2. (s \o t)[Len(s) + i] = t[i]
    BY <1>1, <2>1
  <2> QED BY <2>1, <2>2 DEF ToSet
<1> QED BY <1>2, <1>3 DEF ToSet

LEMMA PartSet ==
  ASSUME NEW s \in Seq(Blocks), NEW m \in 1 .. Len(s) + 1, NEW n \in 0 .. Len(s), NEW k \in m .. n
  PROVE  s[k] \in ToSet(SubSeq(s, m, n))
<1>1. \A i \in m .. n : s[i] \in Blocks
  BY LenProperties, ElementOfSeq
<1>2. /\ SubSeq(s, m, n) \in Seq(Blocks)
      /\ Len(SubSeq(s, m, n)) = IF m <= n THEN n - m + 1 ELSE 0
      /\ \A i \in 1 .. n - m + 1 : SubSeq(s, m, n)[i] = s[m + i - 1]
  BY <1>1, SubSeqProperties, LenProperties
<1>3. DOMAIN SubSeq(s, m, n) = 1 .. Len(SubSeq(s, m, n))
  BY <1>2, LenProperties
<1>4. /\ k - m + 1 \in DOMAIN SubSeq(s, m, n) /\ k - m + 1 \in 1 .. n - m + 1
      /\ m + (k - m + 1) - 1 = k
  BY <1>2, <1>3, LenProperties
<1>5. SubSeq(s, m, n)[k - m + 1] = s[k]
  BY <1>2, <1>4
<1> QED BY <1>4, <1>5 DEF ToSet

LEMMA FrontSet ==
  ASSUME HeapInv, NEW b \in used, NEW list \in Seq(Blocks)
  PROVE  /\ AsFree(b) \in ToSet(<<AsFree(b)>> \o list)
         /\ ToSet(list) \subseteq ToSet(<<AsFree(b)>> \o list)
<1>1. <<AsFree(b)>> \in Seq(Blocks) /\ AsFree(b) \in ToSet(<<AsFree(b)>>)
  BY DEF HeapInv, UsedApart, Allocations, AsFree, Blocks, ToSet
<1> QED BY <1>1, JoinedSet

\* Nothing is lost if each block has its bytes in others.
LEMMA StillWhole ==
  ASSUME Whole, next' = next,
         \A b \in AllBlocks : \A a \in Int : InBlock(b, a) => \E c \in AllBlocks' : InBlock(c, a)
  PROVE  \A a \in 0 .. next' - 1 : \E b \in AllBlocks' : InBlock(b, a)
BY DEF Whole

\* kmalloc keeps the other blocks of the list, and the remainder.
LEMMA UnlinkKeeps ==
  ASSUME HeapInv, Whole, Unlink
  PROVE  /\ ToSet(free) \ {cur} \subseteq ToSet(free')
         /\ ToSet(Remainder(Rounded(want))) \subseteq ToSet(free')
         /\ \A b \in moving : AsFree(b) \in ToSet(free')
<1> DEFINE total == Rounded(want)
           i     == CHOOSE j \in DOMAIN free : free[j].at = cur.at
           front == IF first THEN <<>> ELSE SubSeq(free, 1, i - 1)
           rem   == Remainder(total)
           back  == SubSeq(free, i + 1, Len(free))
           kept  == (front \o rem) \o back
<1>1. pc = "found" /\ free' = Released(kept)
  BY DEF Unlink
<1>2. /\ free \in Seq(Blocks) /\ DOMAIN free = 1 .. Len(free) /\ Len(free) \in Nat /\ Spread(free)
      /\ \A j, k \in DOMAIN free : free[j].at = free[k].at => j = k
  <2>1. free \in Seq(Blocks) /\ DOMAIN free = 1 .. Len(free) /\ Len(free) \in Nat /\ Spread(free)
    BY LenProperties DEF HeapInv, Vacant
  <2>2. ASSUME NEW j \in DOMAIN free, NEW k \in DOMAIN free, free[j].at = free[k].at PROVE j = k
    <3>1. ~ Apart(free[j], free[k])
      BY <2>1, <2>2, ListedBlocks DEF Apart
    <3> QED BY <2>1, <3>1 DEF Spread
  <2> QED BY <2>1, <2>2
<1>3. i \in DOMAIN free /\ free[i] = cur
  <2>1. PICK j \in DOMAIN free : free[j] = cur
    BY <1>1 DEF HeapInv, FoundFits
  <2>2. i \in DOMAIN free /\ free[i].at = cur.at
    BY <2>1
  <2> HIDE DEF i
  <2> QED BY <2>1, <2>2, <1>2
<1>4. total \in Nat /\ cur.size >= total /\ cur \in Blocks
  <2>1. want \in Nat
    BY <1>1, HeapAssumption DEF HeapInv, FoundFits
  <2> QED BY <1>1, <1>2, <1>3, <2>1, RoundedUp, ListedBlocks DEF HeapInv, FoundFits
<1>5. first => i = 1
  BY <1>1, <1>2, <1>3, EmptySeq DEF Whole
<1> HIDE DEF i, total
<1>6. /\ front \in Seq(Blocks) /\ back \in Seq(Blocks)
      /\ \A k \in 1 .. i - 1 : free[k] \in ToSet(front)
      /\ \A k \in i + 1 .. Len(free) : free[k] \in ToSet(back)
  <2>1. /\ 1 \in 1 .. Len(free) + 1 /\ i - 1 \in 0 .. Len(free)
        /\ i + 1 \in 1 .. Len(free) + 1 /\ Len(free) \in 0 .. Len(free)
    BY <1>2, <1>3
  <2>2. /\ SubSeq(free, 1, i - 1) \in Seq(Blocks) /\ back \in Seq(Blocks)
        /\ \A k \in 1 .. i - 1 : free[k] \in ToSet(SubSeq(free, 1, i - 1))
        /\ \A k \in i + 1 .. Len(free) : free[k] \in ToSet(back)
    BY <2>1, <1>2, Part, PartSet
  <2>3. CASE first
    <3>1. front = <<>> /\ 1 .. i - 1 = {}
      BY <2>3, <1>5
    <3> QED BY <3>1, <2>2, EmptySeq
  <2>4. CASE ~ first
    BY <2>2, <2>4
  <2> QED BY <2>3, <2>4
<1>7. rem \in Seq(Blocks)
  <2>1. CASE cur.size >= total + MinSplit
    <3>1. [at |-> cur.at + total, size |-> cur.size - total] \in Blocks
      <4>1. /\ cur.at \in Nat /\ cur.size \in Nat /\ cur.at + cur.size <= next
        BY <1>2, <1>3, ListedBlocks DEF HeapInv, Vacant
      <4> QED BY <2>1, <4>1, <1>4, HeapAssumption DEF HeapInv, Blocks
    <3> QED BY <2>1, <3>1 DEF Remainder
  <2>2. CASE ~ (cur.size >= total + MinSplit)
    BY <2>2, EmptySeq DEF Remainder
  <2> QED BY <2>1, <2>2
<1> HIDE DEF front, back, rem
<1>8. /\ kept \in Seq(Blocks)
      /\ ToSet(front) \subseteq ToSet(kept) /\ ToSet(rem) \subseteq ToSet(kept)
      /\ ToSet(back) \subseteq ToSet(kept)
  <2>1. /\ front \o rem \in Seq(Blocks)
        /\ ToSet(front) \subseteq ToSet(front \o rem) /\ ToSet(rem) \subseteq ToSet(front \o rem)
    BY <1>6, <1>7, Joined, JoinedSet
  <2>2. /\ kept \in Seq(Blocks)
        /\ ToSet(front \o rem) \subseteq ToSet(kept) /\ ToSet(back) \subseteq ToSet(kept)
    BY <2>1, <1>6, Joined, JoinedSet
  <2> QED BY <2>1, <2>2
<1> HIDE DEF kept
<1>9. ToSet(free) \ {cur} \subseteq ToSet(kept)
  <2>1. ASSUME NEW k \in DOMAIN free, free[k] # cur PROVE free[k] \in ToSet(kept)
    <3>1. k \in 1 .. i - 1 \/ k \in i + 1 .. Len(free)
      BY <2>1, <1>2, <1>3
    <3> QED BY <3>1, <1>6, <1>8
  <2> QED BY <2>1 DEF ToSet
<1>10. ToSet(kept) \subseteq ToSet(free') /\ \A b \in moving : AsFree(b) \in ToSet(free')
  <2>1. CASE moving = {}
    BY <2>1, <1>1 DEF Released
  <2>2. ASSUME NEW b \in used, moving = {b}
        PROVE  ToSet(kept) \subseteq ToSet(free') /\ \A c \in moving : AsFree(c) \in ToSet(free')
    <3>1. free' = <<AsFree(b)>> \o kept
      BY <2>2, <1>1 DEF Released
    <3> QED BY <2>2, <3>1, <1>8, FrontSet
  <2> QED BY <2>1, <2>2 DEF HeapInv, FoundFits
<1> QED BY <1>8, <1>9, <1>10 DEF rem, total

\* What an allocated block and its free form have in common.
LEMMA AsFreeSame ==
  ASSUME NEW b
  PROVE  AsFree(b).at = b.at /\ AsFree(b).size = b.size
         /\ \A a : InBlock(AsFree(b), a) <=> InBlock(b, a)
BY DEF AsFree, InBlock

LEMMA UnlinkWhole ==
  ASSUME HeapInv, Whole, Unlink
  PROVE  Whole'
<1> DEFINE total == Rounded(want)
           new   == [at |-> cur.at, size |-> Taken(total), len |-> want]
<1>1. pc = "found" /\ pc' = "user" /\ next' = next
  BY DEF Unlink
<1>2. used' = (used \ moving) \cup {new}
  BY UnlinkInv
<1>3. /\ ToSet(free) \ {cur} \subseteq ToSet(free') /\ ToSet(Remainder(total)) \subseteq ToSet(free')
      /\ \A b \in moving : AsFree(b) \in ToSet(free')
  BY UnlinkKeeps
<1>4. /\ total \in Nat /\ cur.at \in Nat /\ cur.size \in Nat
      /\ new.at = cur.at /\ new.size = Taken(total)
  <2>1. want \in Nat
    BY <1>1, HeapAssumption DEF HeapInv, FoundFits
  <2>2. cur.at \in Nat /\ cur.size \in Nat
    BY <1>1, ListedBlocks DEF HeapInv, FoundFits, Vacant
  <2> QED BY <2>1, <2>2, RoundedUp
<1> HIDE DEF total, new
<1>5. AsFree(new) \in AllBlocks' /\ ToSet(free') \subseteq AllBlocks'
  BY <1>2 DEF AllBlocks, AsFree
<1>6. ASSUME NEW a \in Int, InBlock(cur, a) PROVE \E c \in AllBlocks' : InBlock(c, a)
  <2>1. CASE InBlock(new, a)
    BY <2>1, <1>5, AsFreeSame
  <2>2. CASE ~ InBlock(new, a)
    <3> DEFINE f == [at |-> cur.at + total, size |-> cur.size - total]
    <3>1. cur.size >= total + MinSplit /\ a >= cur.at + total
      BY <2>2, <1>4, <1>6, HeapAssumption DEF InBlock, Taken
    <3>2. Remainder(total) = <<f>> /\ f.at = cur.at + total /\ f.size = cur.size - total
      BY <3>1 DEF Remainder
    <3> HIDE DEF f
    <3>3. f \in ToSet(Remainder(total))
      BY <3>2 DEF ToSet
    <3>4. InBlock(f, a)
      BY <3>1, <3>2, <1>4, <1>6 DEF InBlock
    <3> QED BY <3>3, <3>4, <1>3, <1>5
  <2> QED BY <2>1, <2>2
<1>7. ASSUME NEW b \in AllBlocks, NEW a \in Int, InBlock(b, a)
      PROVE  \E c \in AllBlocks' : InBlock(c, a)
  <2>1. CASE b \in ToSet(free)
    BY <2>1, <1>3, <1>5, <1>6, <1>7
  <2>2. CASE \E u \in used : b = AsFree(u)
    <3>1. PICK u \in used : b = AsFree(u)
      BY <2>2
    <3>2. CASE u \in moving
      BY <3>1, <3>2, <1>3, <1>5, <1>7
    <3>3. CASE u \notin moving
      <4>1. AsFree(u) \in AllBlocks'
        BY <3>3, <1>2 DEF AllBlocks, AsFree
      <4> QED BY <4>1, <3>1, <1>7
    <3> QED BY <3>2, <3>3
  <2>3. Linking = {}
    BY <1>1 DEF Linking
  <2> QED BY <2>1, <2>2, <2>3 DEF AllBlocks
<1> QED BY <1>1, <1>7, StillWhole DEF Whole

\* kfree, at its end or in the interrupt; krealloc in place.
LEMMA FreeWhole ==
  ASSUME HeapInv, Whole, Calm, NEW b \in used,
         FreeBegin(b) \/ IrqFree(b) \/ \E n \in Sizes : ReallocInPlace(b, n)
  PROVE  Whole'
<1>1. /\ pc = "user" /\ next' = next /\ pc' # "found"
      /\ pc' = "linking" => rest' = free'
  BY DEF FreeBegin, IrqFree, ReallocInPlace, Calm
<1>2. free \in Seq(Blocks)
  BY DEF HeapInv, Vacant
<1>3. \A c \in used \ {b} : AsFree(c) \in AllBlocks'
  BY DEF FreeBegin, IrqFree, ReallocInPlace, AllBlocks, AsFree
<1>4. ToSet(free) \subseteq AllBlocks'
  BY <1>2, FrontSet DEF FreeBegin, IrqFree, ReallocInPlace, AllBlocks
<1>5. AsFree(b) \in AllBlocks'
  <2>1. CASE FreeBegin(b)
    BY <2>1 DEF FreeBegin, AllBlocks, Linking
  <2>2. CASE IrqFree(b)
    BY <2>2, <1>2, FrontSet DEF IrqFree, AllBlocks
  <2>3. ASSUME NEW n \in Sizes, ReallocInPlace(b, n) PROVE AsFree(b) \in AllBlocks'
    <3> DEFINE new == [b EXCEPT !.len = n]
    <3>1. new \in used' /\ AsFree(new) = AsFree(b)
      BY <2>3 DEF ReallocInPlace, AsFree, HeapInv, UsedApart, Allocations
    <3> QED BY <3>1 DEF AllBlocks, AsFree
  <2> QED BY <2>1, <2>2, <2>3
<1>6. Linking = {}
  BY <1>1 DEF Linking
<1>7. AllBlocks \subseteq AllBlocks'
  BY <1>3, <1>4, <1>5, <1>6 DEF AllBlocks
<1> QED BY <1>1, <1>7, StillWhole DEF Whole

LEMMA FreeEndWhole ==
  ASSUME HeapInv, Whole, FreeEnd
  PROVE  Whole'
<1>1. /\ pc = "linking" /\ pc' = "user" /\ next' = next /\ used' = used /\ free' = <<cur>> \o rest
      /\ rest = free
  BY DEF FreeEnd, Whole
<1>2. rest \in Seq(Blocks) /\ <<cur>> \in Seq(Blocks) /\ cur \in ToSet(<<cur>>)
  BY <1>1 DEF HeapInv, LinkingApart, Vacant, ToSet
<1>3. ToSet(rest) \subseteq ToSet(free') /\ cur \in ToSet(free')
  BY <1>1, <1>2, JoinedSet
<1>4. AllBlocks \subseteq AllBlocks'
  BY <1>1, <1>3 DEF AllBlocks, AsFree, Linking
<1> QED BY <1>1, <1>4, StillWhole DEF Whole

LEMMA BumpWhole ==
  ASSUME HeapInv, Whole, pc = "user", NEW n \in Sizes, NEW old \in SUBSET used,
         old = {} \/ \E b \in used : old = {b}, Bump(n, old)
  PROVE  Whole'
<1> DEFINE new == [at |-> next, size |-> Rounded(n), len |-> n]
<1>1. /\ next' = next + Rounded(n) /\ used' = (used \ old) \cup {new} /\ pc' = pc
      /\ free' = IF old = {} THEN free ELSE <<AsFree(CHOOSE b \in old : TRUE)>> \o free
  BY DEF Bump
<1>2. next \in Nat /\ Rounded(n) \in Nat /\ new.at = next /\ new.size = Rounded(n)
  BY RoundedUp, HeapAssumption DEF HeapInv
<1> HIDE DEF new
<1>3. free \in Seq(Blocks)
  BY DEF HeapInv, Vacant
<1>4. ToSet(free) \subseteq ToSet(free') /\ \A b \in old : AsFree(b) \in ToSet(free')
  <2>1. CASE old = {}
    BY <1>1, <2>1
  <2>2. ASSUME NEW b \in used, old = {b}
        PROVE  ToSet(free) \subseteq ToSet(free') /\ \A c \in old : AsFree(c) \in ToSet(free')
    <3>1. free' = <<AsFree(b)>> \o free
      BY <1>1, <2>2
    <3> QED BY <2>2, <3>1, <1>3, FrontSet
  <2> QED BY <2>1, <2>2
<1>5. AsFree(new) \in AllBlocks'
  BY <1>1 DEF AllBlocks, AsFree
<1>6. AllBlocks \subseteq AllBlocks'
  BY <1>1, <1>4 DEF AllBlocks, AsFree, Linking
<1>7. ASSUME NEW a \in 0 .. next' - 1 PROVE \E b \in AllBlocks' : InBlock(b, a)
  <2>1. CASE a < next
    BY <2>1, <1>2, <1>6 DEF Whole
  <2>2. CASE a >= next
    <3>1. InBlock(new, a)
      BY <2>2, <1>1, <1>2 DEF InBlock
    <3> QED BY <3>1, <1>5, AsFreeSame
  <2> QED BY <1>1, <1>2, <2>1, <2>2
<1> QED BY <1>1, <1>7 DEF Whole

LEMMA SearchWhole ==
  ASSUME HeapInv, Whole, pc = "user", NEW n \in Sizes, NEW old, Search(n, old)
  PROVE  Whole'
<1>1. /\ UNCHANGED <<next, free, used>> /\ pc' = "found"
      /\ cur' = free[FirstFit(n)] /\ first' = (FirstFit(n) = 1) /\ Fitting(n) # {}
  BY DEF Search
<1>2. AllBlocks' = AllBlocks
  BY <1>1 DEF AllBlocks, AsFree, Linking
<1>3. free # <<>>
  <2>1. PICK i \in DOMAIN free : TRUE
    BY <1>1 DEF Fitting
  <2> QED BY <2>1
<1> QED BY <1>1, <1>2, <1>3 DEF Whole

\* As long as the interrupt lands outside, no byte of the heap is lost.
LEMMA WholeStep ==
  ASSUME HeapInv, Whole, Calm, [Next]_vars
  PROVE  Whole'
<1>1. CASE \E n \in Sizes : Malloc(n)
  <2>1. PICK n \in Sizes : Malloc(n)
    BY <1>1
  <2>2. {} \in SUBSET used
    OBVIOUS
  <2> QED BY <2>1, <2>2, SearchWhole, BumpWhole DEF Malloc
<1>2. CASE Unlink \/ FreeEnd
  BY <1>2, UnlinkWhole, FreeEndWhole
<1>3. CASE \E b \in used : \/ FreeBegin(b) \/ IrqFree(b)
                           \/ \E n \in Sizes : ReallocInPlace(b, n)
  BY <1>3, FreeWhole
<1>4. CASE \E b \in used : \E n \in Sizes : ReallocMoves(b, n)
  <2>1. PICK b \in used, n \in Sizes : ReallocMoves(b, n)
    BY <1>4
  <2>2. {b} \in SUBSET used
    OBVIOUS
  <2> QED BY <2>1, <2>2, SearchWhole, BumpWhole DEF ReallocMoves
<1>5. CASE UNCHANGED vars
  <2>1. UNCHANGED <<next, free, used, pc, rest, first, cur>>
    BY <1>5 DEF vars, callVars
  <2>2. AllBlocks' = AllBlocks
    BY <2>1 DEF AllBlocks, AsFree, Linking
  <2> QED BY <2>1, <2>2 DEF Whole
<1> QED BY <1>1, <1>2, <1>3, <1>4, <1>5 DEF Next

\* Different blocks are apart, and below heap_next.
LEMMA BlocksApart ==
  ASSUME HeapInv
  PROVE  /\ \A b \in AllBlocks : b.at \in Int /\ b.size \in Int /\ b.at + b.size <= next
         /\ \A b, c \in AllBlocks : b # c => Apart(b, c)
<1>1. /\ free \in Seq(Blocks) /\ Spread(free)
      /\ \A i \in DOMAIN free : free[i].at + free[i].size <= next
      /\ \A b \in used : Clear(free, b)
  BY DEF HeapInv, Vacant
<1>2. \A u \in used : /\ u.at \in Int /\ u.size \in Int /\ u.at + u.size <= next
                      /\ \A v \in used : u # v => Apart(u, v)
  BY DEF HeapInv, UsedApart, Allocations
<1>3. ASSUME NEW c \in Linking
      PROVE  /\ c.at \in Int /\ c.size \in Int /\ c.at + c.size <= next /\ c = cur
             /\ Clear(free, c) /\ \A u \in used : Apart(u, c)
  <2>1. c = cur /\ pc = "linking"
    BY DEF Linking
  <2> QED BY <2>1 DEF HeapInv, LinkingApart, Blocks
<1>4. ASSUME NEW b \in AllBlocks
      PROVE  \/ \E u \in used : b = AsFree(u)
             \/ \E i \in DOMAIN free : b = free[i]
             \/ b \in Linking
  BY DEF AllBlocks, ToSet
<1>5. ASSUME NEW b \in AllBlocks PROVE b.at \in Int /\ b.size \in Int /\ b.at + b.size <= next
  BY <1>1, <1>2, <1>3, <1>4, AsFreeSame, ListedBlocks
<1>6. ASSUME NEW b \in AllBlocks, NEW c \in AllBlocks, b # c PROVE Apart(b, c)
  <2>1. ASSUME NEW u \in used, b = AsFree(u) PROVE Apart(b, c)
    <3>1. ASSUME NEW v \in used, c = AsFree(v) PROVE Apart(b, c)
      BY <1>2, <1>6, <2>1, <3>1, AsFreeSame DEF Apart
    <3>2. ASSUME NEW i \in DOMAIN free, c = free[i] PROVE Apart(b, c)
      BY <1>1, <2>1, <3>2, AsFreeSame DEF Apart, Clear
    <3>3. ASSUME c \in Linking PROVE Apart(b, c)
      BY <1>3, <2>1, <3>3, AsFreeSame DEF Apart
    <3> QED BY <1>4, <3>1, <3>2, <3>3
  <2>2. ASSUME NEW j \in DOMAIN free, b = free[j] PROVE Apart(b, c)
    <3>1. ASSUME NEW v \in used, c = AsFree(v) PROVE Apart(b, c)
      BY <1>1, <2>2, <3>1, AsFreeSame DEF Apart, Clear
    <3>2. ASSUME NEW i \in DOMAIN free, c = free[i] PROVE Apart(b, c)
      BY <1>1, <1>6, <2>2, <3>2 DEF Spread
    <3>3. ASSUME c \in Linking PROVE Apart(b, c)
      BY <1>3, <2>2, <3>3 DEF Clear
    <3> QED BY <1>4, <3>1, <3>2, <3>3
  <2>3. ASSUME b \in Linking PROVE Apart(b, c)
    <3>1. ASSUME NEW v \in used, c = AsFree(v) PROVE Apart(b, c)
      BY <1>3, <2>3, <3>1, AsFreeSame DEF Apart
    <3>2. ASSUME NEW i \in DOMAIN free, c = free[i] PROVE Apart(b, c)
      BY <1>3, <2>3, <3>2 DEF Clear, Apart
    <3>3. c \notin Linking
      BY <1>3, <1>6, <2>3
    <3> QED BY <1>4, <3>1, <3>2, <3>3
  <2> QED BY <1>4, <2>1, <2>2, <2>3
<1> QED BY <1>5, <1>6

LEMMA WholeIsTiled ==
  ASSUME HeapInv, Whole
  PROVE  Tiled
<1>1. /\ \A b \in AllBlocks : b.at \in Int /\ b.size \in Int /\ b.at + b.size <= next
      /\ \A b, c \in AllBlocks : b # c => Apart(b, c)
  BY BlocksApart
<1>2. ASSUME NEW a \in 0 .. next - 1
      PROVE  \E b \in AllBlocks : /\ b.at <= a /\ a < b.at + b.size
                                  /\ \A c \in AllBlocks \ {b} : a < c.at \/ c.at + c.size <= a
  <2>1. PICK b \in AllBlocks : InBlock(b, a)
    BY DEF Whole
  <2>2. a \in Int
    OBVIOUS
  <2>3. \A c \in AllBlocks \ {b} : a < c.at \/ c.at + c.size <= a
    BY <2>1, <2>2, <1>1 DEF InBlock, Apart
  <2> QED BY <2>1, <2>3 DEF InBlock
<1>3. ASSUME NEW i \in DOMAIN free, NEW j \in DOMAIN free, free[i] = free[j] PROVE i = j
  <2>1. ~ Apart(free[i], free[j])
    BY <1>3, ListedBlocks DEF HeapInv, Vacant, Apart
  <2> QED BY <2>1 DEF HeapInv, Vacant, Spread
<1> QED BY <1>1, <1>2, <1>3 DEF Tiled, AllBlocks

\* Every byte below heap_next belongs to exactly one block, in use or free.
THEOREM NoByteLost == Calm => (Spec => []Tiled)
<1>1. Init => Whole
  BY HeapAssumption DEF Init, Whole
<1>2. ASSUME Calm PROVE Spec => []Tiled
  <2>1. HeapInv /\ Whole /\ [Next]_vars => Whole'
    BY <1>2, WholeStep
  <2>2. HeapInv /\ Whole => Tiled
    BY WholeIsTiled
  <2> QED BY <1>1, <2>1, <2>2, Invariant, PTL DEF Spec
<1> QED BY <1>2


----------------------------------------------------------------------------
(* The books of the heap: heap_allocated                                     *)

\* What MapThenSumSet computes: the size of a block and the sum of the others.
Chosen(s)   == CHOOSE b \in s : TRUE
Sum(f, s)   == IF s = {} THEN 0 ELSE Chosen(s).size + f[s \ {Chosen(s)}]
Sums(f, S)  == f \in [S -> Int] /\ \A s \in S : f[s] = Sum(f, s)
UpTo(U, n)  == {s \in SUBSET U : Cardinality(s) <= n}
Sized(U)    == IsFiniteSet(U) /\ \A b \in U : b.size \in Int
Total(U)    == MapThenSumSet(LAMBDA b : b.size, U)

LEMMA OneLess ==
  ASSUME NEW U, Sized(U), NEW s \in SUBSET U, NEW b \in s
  PROVE  /\ Cardinality(s) \in Nat /\ Cardinality(s \ {b}) \in Nat
         /\ Cardinality(s \ {b}) = Cardinality(s) - 1
         /\ s \ {b} \in SUBSET U
<1>1. IsFiniteSet(s)
  BY FS_Subset DEF Sized
<1> QED BY <1>1, FS_RemoveElement, FS_CardinalityType, FS_Subset

\* The recursion has a solution for the sets of n blocks, for every n.
LEMMA SumsExist ==
  ASSUME NEW U, Sized(U), NEW n \in Nat
  PROVE  \E f : Sums(f, UpTo(U, n))
<1> DEFINE Bad == {k \in Nat : ~ \E f : Sums(f, UpTo(U, k))}
<1> SUFFICES ASSUME Bad # {} PROVE FALSE
  OBVIOUS
<1>1. PICK m \in Bad : \A k \in Bad : m <= k
  BY Least
<1>2. CASE m = 0
  <2> DEFINE f == [s \in UpTo(U, 0) |-> 0]
  <2>1. ASSUME NEW s \in UpTo(U, 0) PROVE s = {}
    <3>1. IsFiniteSet(s) /\ Cardinality(s) <= 0 /\ Cardinality(s) \in Nat
      BY FS_Subset, FS_CardinalityType DEF UpTo, Sized
    <3> QED BY <3>1, FS_EmptySet
  <2>2. Sums(f, UpTo(U, 0))
    BY <2>1 DEF Sums, Sum
  <2> QED BY <1>1, <1>2, <2>2
<1>3. CASE m # 0
  <2>1. m \in Nat /\ m - 1 \in Nat /\ m - 1 \notin Bad
    BY <1>1, <1>3
  <2>2. PICK f : Sums(f, UpTo(U, m - 1))
    BY <2>1
  <2> DEFINE g == [s \in UpTo(U, m) |-> Sum(f, s)]
  <2>3. ASSUME NEW s \in UpTo(U, m), s # {}
        PROVE  /\ Chosen(s) \in s /\ Chosen(s).size \in Int
               /\ s \ {Chosen(s)} \in UpTo(U, m - 1) /\ s \ {Chosen(s)} \in UpTo(U, m)
    <3>1. Chosen(s) \in s
      BY <2>3 DEF Chosen
    <3>2. s \in SUBSET U /\ Cardinality(s) <= m
      BY DEF UpTo
    <3>3. Chosen(s).size \in Int
      BY <3>1, <3>2 DEF Sized
    <3> QED BY <2>1, <3>1, <3>2, <3>3, OneLess DEF UpTo
  <2>4. ASSUME NEW s \in UpTo(U, m) PROVE g[s] \in Int
    BY <2>2, <2>3 DEF Sum, Sums
  <2>5. ASSUME NEW s \in UpTo(U, m) PROVE g[s] = Sum(g, s)
    <3>1. CASE s = {}
      BY <3>1 DEF Sum
    <3>2. CASE s # {}
      <4> DEFINE r == s \ {Chosen(s)}
      <4>1. r \in UpTo(U, m - 1) /\ r \in UpTo(U, m)
        BY <2>3, <3>2
      <4>2. g[r] = f[r]
        BY <4>1, <2>2 DEF Sums
      <4> QED BY <3>2, <4>2 DEF Sum
    <3> QED BY <3>1, <3>2
  <2>6. g \in [UpTo(U, m) -> Int]
    BY <2>4
  <2>7. Sums(g, UpTo(U, m))
    BY <2>5, <2>6 DEF Sums
  <2> QED BY <1>1, <2>7
<1> QED BY <1>2, <1>3

\* MapThenSumSet is such a solution.
LEMMA TotalSums ==
  ASSUME NEW U, Sized(U)
  PROVE  \E f : Sums(f, SUBSET U) /\ Total(U) = f[U]
<1>1. Cardinality(U) \in Nat /\ UpTo(U, Cardinality(U)) = SUBSET U
  <2>1. IsFiniteSet(U)
    BY DEF Sized
  <2> QED BY <2>1, FS_CardinalityType, FS_Subset DEF UpTo
<1>2. PICK g : Sums(g, SUBSET U)
  <2>1. \E f : Sums(f, UpTo(U, Cardinality(U)))
    BY <1>1, SumsExist
  <2> QED BY <1>1, <2>1
<1> DEFINE Solves(f) == f = [s \in SUBSET U |-> IF s = {} THEN 0
                          ELSE (CHOOSE b \in s : TRUE).size + f[s \ {CHOOSE b \in s : TRUE}]]
           iter == CHOOSE f : Solves(f)
<1>3. Total(U) = iter[U]
  BY DEF Total, MapThenSumSet, MapThenFoldSet
<1>4. Solves(g)
  <2>1. g = [s \in SUBSET U |-> g[s]]
    BY <1>2 DEF Sums
  <2> QED BY <1>2, <2>1 DEF Sums, Sum, Chosen
<1>5. Solves(iter)
  <2> HIDE DEF Solves
  <2> QED BY <1>4
<1>6. DOMAIN iter = SUBSET U /\ \A s \in SUBSET U : iter[s] = Sum(iter, s)
  <2> HIDE DEF iter
  <2> QED BY <1>5 DEF Sum, Chosen
<1> HIDE DEF Solves, iter
<1>7. \A s \in SUBSET U : iter[s] \in Int
  <2> DEFINE Bad == {k \in Nat : \E s \in SUBSET U : Cardinality(s) = k /\ iter[s] \notin Int}
  <2>1. ASSUME Bad # {} PROVE FALSE
    <3>1. PICK m \in Bad : \A k \in Bad : m <= k
      BY <2>1, Least
    <3>2. PICK s \in SUBSET U : Cardinality(s) = m /\ iter[s] \notin Int
      BY <3>1
    <3>3. s # {}
      <4>1. ASSUME s = {} PROVE iter[s] = 0
        BY <1>6, <4>1 DEF Sum
      <4> QED BY <3>2, <4>1
    <3>4. Chosen(s) \in s /\ Chosen(s).size \in Int
      BY <3>3 DEF Chosen, Sized
    <3> DEFINE r == s \ {Chosen(s)}
    <3>5. r \in SUBSET U /\ Cardinality(r) = m - 1 /\ Cardinality(r) \in Nat /\ m \in Nat
      BY <3>2, <3>4, OneLess
    <3>6. iter[r] \in Int
      BY <3>1, <3>5
    <3> QED BY <1>6, <3>2, <3>3, <3>4, <3>6 DEF Sum
  <2>2. ASSUME NEW s \in SUBSET U PROVE Cardinality(s) \in Nat
    BY FS_Subset, FS_CardinalityType DEF Sized
  <2> QED BY <2>1, <2>2
<1>8. iter \in [SUBSET U -> Int]
  <2>1. iter = [s \in SUBSET U |-> iter[s]]
    BY <1>5 DEF Solves
  <2> QED BY <1>7, <2>1
<1>9. Sums(iter, SUBSET U)
  BY <1>6, <1>8 DEF Sums
<1> QED BY <1>3, <1>9

\* The order in which the blocks are added does not matter.
LEMMA SumTakesAny ==
  ASSUME NEW U, Sized(U), NEW f, Sums(f, SUBSET U)
  PROVE  \A s \in SUBSET U : \A b \in s : f[s] = b.size + f[s \ {b}]
<1> DEFINE Wrong(s) == \E b \in s : f[s] # b.size + f[s \ {b}]
           Bad == {k \in Nat : \E s \in SUBSET U : Cardinality(s) = k /\ Wrong(s)}
<1>1. ASSUME Bad # {} PROVE FALSE
  <2>1. PICK m \in Bad : \A k \in Bad : m <= k
    BY <1>1, Least
  <2>2. PICK s \in SUBSET U : Cardinality(s) = m /\ Wrong(s)
    BY <2>1
  <2>3. PICK b \in s : f[s] # b.size + f[s \ {b}]
    BY <2>2
  <2> DEFINE c == Chosen(s)
  <2>4. c \in s
    BY <2>3 DEF Chosen
  <2>5. f[s] = c.size + f[s \ {c}]
    BY <2>3 DEF Sums, Sum
  <2>6. b # c
    BY <2>3, <2>5
  <2> HIDE DEF c
  <2>7. /\ s \ {b} \in SUBSET U /\ s \ {c} \in SUBSET U
        /\ Cardinality(s \ {b}) \in Nat /\ Cardinality(s \ {b}) < m
        /\ Cardinality(s \ {c}) \in Nat /\ Cardinality(s \ {c}) < m
    BY <2>2, <2>4, OneLess
  <2>8. ~ Wrong(s \ {b}) /\ ~ Wrong(s \ {c})
    <3> HIDE DEF Wrong
    <3>1. m \in Nat
      BY <2>1
    <3>2. ASSUME NEW k \in Nat, k < m PROVE k \notin Bad
      <4> HIDE DEF Bad
      <4> QED BY <2>1, <3>1, <3>2
    <3> QED BY <2>7, <3>2
  <2>9. /\ f[s \ {b}] = c.size + f[(s \ {b}) \ {c}]
        /\ f[s \ {c}] = b.size + f[(s \ {c}) \ {b}]
    BY <2>4, <2>6, <2>8
  <2>10. (s \ {b}) \ {c} = (s \ {c}) \ {b} /\ (s \ {b}) \ {c} \in SUBSET U
    OBVIOUS
  <2>11. b.size \in Int /\ c.size \in Int
    <3>1. b \in U /\ c \in U
      BY <2>2, <2>3, <2>4
    <3> QED BY <3>1 DEF Sized
  <2>12. f[(s \ {b}) \ {c}] \in Int
    BY <2>10 DEF Sums
  <2>13. f[(s \ {c}) \ {b}] = f[(s \ {b}) \ {c}]
    BY <2>10
  <2> QED BY <2>3, <2>5, <2>9, <2>11, <2>12, <2>13
<1>2. ASSUME NEW s \in SUBSET U PROVE Cardinality(s) \in Nat
  BY FS_Subset, FS_CardinalityType DEF Sized
<1>3. ASSUME NEW s \in SUBSET U PROVE ~ Wrong(s)
  <2> HIDE DEF Wrong
  <2> QED BY <1>1, <1>2
<1> QED BY <1>3

\* Nor does the set that the recursion starts from.
LEMMA SumsAgree ==
  ASSUME NEW U, Sized(U), NEW V, V \subseteq U, NEW f, Sums(f, SUBSET U), NEW g, Sums(g, SUBSET V)
  PROVE  f[V] = g[V]
<1> DEFINE Bad == {k \in Nat : \E s \in SUBSET V : Cardinality(s) = k /\ f[s] # g[s]}
<1>1. ASSUME Bad # {} PROVE FALSE
  <2>1. PICK m \in Bad : \A k \in Bad : m <= k
    BY <1>1, Least
  <2>2. PICK s \in SUBSET V : Cardinality(s) = m /\ f[s] # g[s]
    BY <2>1
  <2>3. s # {}
    BY <2>2 DEF Sums, Sum
  <2> DEFINE r == s \ {Chosen(s)}
  <2>4. Chosen(s) \in s /\ r \in SUBSET V
    BY <2>3 DEF Chosen
  <2>5. Cardinality(r) \in Nat /\ Cardinality(r) < m
    BY <2>2, <2>4, OneLess
  <2>6. f[r] = g[r]
    BY <2>1, <2>4, <2>5
  <2>7. f[s] = Sum(f, s) /\ g[s] = Sum(g, s)
    BY DEF Sums
  <2> QED BY <2>2, <2>3, <2>6, <2>7 DEF Sum
<1>2. ASSUME NEW s \in SUBSET V PROVE Cardinality(s) \in Nat
  BY FS_Subset, FS_CardinalityType DEF Sized
<1> QED BY <1>1, <1>2

\* The total of the sizes, with a block and without it.
LEMMA TotalWithout ==
  ASSUME NEW U, Sized(U)
  PROVE  /\ Total(U) \in Int
         /\ U = {} => Total(U) = 0
         /\ \A b \in U : Total(U) = b.size + Total(U \ {b})
<1>1. PICK f : Sums(f, SUBSET U) /\ Total(U) = f[U]
  BY TotalSums
<1>2. Total(U) \in Int /\ (U = {} => Total(U) = 0)
  BY <1>1 DEF Sums, Sum
<1>3. ASSUME NEW b \in U PROVE Total(U) = b.size + Total(U \ {b})
  <2>1. Sized(U \ {b}) /\ U \ {b} \in SUBSET U
    BY FS_Subset DEF Sized
  <2>2. PICK g : Sums(g, SUBSET (U \ {b})) /\ Total(U \ {b}) = g[U \ {b}]
    BY <2>1, TotalSums
  <2>3. f[U \ {b}] = g[U \ {b}]
    <3> DEFINE V == U \ {b}
    <3>1. V \subseteq U /\ Sums(g, SUBSET V)
      BY <2>2
    <3>2. Sums(f, SUBSET U)
      BY <1>1
    <3> HIDE DEF V
    <3>3. f[V] = g[V]
      BY <3>1, <3>2, SumsAgree
    <3> QED BY <3>3 DEF V
  <2>4. f[U] = b.size + f[U \ {b}]
    BY <1>1, SumTakesAny
  <2> QED BY <1>1, <2>2, <2>3, <2>4
<1> QED BY <1>2, <1>3

LEMMA TotalWith ==
  ASSUME NEW U, Sized(U), NEW b, b \notin U, b.size \in Int
  PROVE  /\ Sized(U \cup {b})
         /\ Total(U \cup {b}) = b.size + Total(U)
<1>1. Sized(U \cup {b}) /\ (U \cup {b}) \ {b} = U
  BY FS_AddElement DEF Sized
<1> HIDE DEF Sized
<1> QED BY <1>1, TotalWithout

\* Blocks that are apart and below n take n bytes at most.
Below(V, n) == /\ IsFiniteSet(V) /\ V \subseteq Allocations
               /\ \A b \in V : b.at + b.size <= n
               /\ \A b, c \in V : b # c => Apart(b, c)

LEMMA BelowSized ==
  ASSUME NEW V, NEW n, Below(V, n)
  PROVE  Sized(V) /\ \A b \in V : b.at \in Nat /\ b.size \in Nat \ {0}
BY HeapAssumption DEF Below, Sized, Allocations

LEMMA TotalBelow ==
  ASSUME NEW U, NEW top \in Nat, Below(U, top)
  PROVE  Total(U) \in 0 .. top
<1> DEFINE Wrong(V, n) == Below(V, n) /\ Total(V) \notin 0 .. n
           Bad == {k \in Nat : \E V \in SUBSET U : \E n \in Nat : Cardinality(V) = k /\ Wrong(V, n)}
<1>1. ASSUME Bad # {} PROVE FALSE
  <2>1. PICK m \in Bad : \A k \in Bad : m <= k
    BY <1>1, Least
  <2>2. PICK V \in SUBSET U, n \in Nat : Cardinality(V) = m /\ Wrong(V, n)
    BY <2>1
  <2>3. Sized(V) /\ \A b \in V : b.at \in Nat /\ b.size \in Nat \ {0} /\ b.at + b.size <= n
    BY <2>2, BelowSized DEF Below
  <2>4. V # {}
    <3>1. ASSUME V = {} PROVE Total(V) = 0
      BY <2>3, <3>1, TotalWithout
    <3> QED BY <2>2, <3>1
  \* the last of them
  <2>5. PICK b \in V : \A c \in V : c.at <= b.at
    <3> DEFINE S == {n - c.at : c \in V}
    <3>1. S \subseteq Nat /\ S # {}
      BY <2>3, <2>4
    <3>2. PICK x \in S : \A y \in S : x <= y
      <4> HIDE DEF S
      <4> QED BY <3>1, Least
    <3>3. PICK b \in V : x = n - b.at
      BY <3>2
    <3>4. ASSUME NEW c \in V PROVE c.at <= b.at
      <4>1. n - b.at <= n - c.at
        BY <3>2, <3>3
      <4> QED BY <4>1, <2>3
    <3> QED BY <3>4
  <2> DEFINE W == V \ {b}
  <2>6. Total(V) = b.size + Total(W)
    BY <2>3, TotalWithout
  <2>7. Below(W, b.at)
    <3>1. ASSUME NEW c \in W PROVE c.at + c.size <= b.at
      <4>1. Apart(b, c)
        BY <2>2 DEF Below
      <4> QED BY <4>1, <2>3, <2>5 DEF Apart
    <3> QED BY <3>1, <2>2, FS_Subset DEF Below
  <2>8. W \in SUBSET U /\ Cardinality(W) \in Nat /\ Cardinality(W) < m
    BY <2>2, <2>3, OneLess
  <2> HIDE DEF W
  <2>9. Total(W) \in 0 .. b.at
    <3>1. ~ \E n2 \in Nat : Wrong(W, n2)
      <4> HIDE DEF Wrong
      <4>1. Cardinality(W) \notin Bad
        <5>1. m \in Nat
          BY <2>1
        <5> HIDE DEF Bad
        <5> QED BY <2>1, <2>8, <5>1
      <4> QED BY <4>1, <2>8
    <3> QED BY <3>1, <2>3, <2>7
  <2>10. b.at \in Nat /\ b.size \in Nat /\ b.at + b.size <= n
    BY <2>3
  <2>11. Total(V) \in 0 .. n
    BY <2>6, <2>9, <2>10
  <2> QED BY <2>2, <2>11
<1>2. Cardinality(U) \in Nat
  BY FS_CardinalityType DEF Below
<1>3. ~ Wrong(U, top)
  <2> HIDE DEF Wrong
  <2> QED BY <1>1, <1>2
<1> QED BY <1>3

\* The books agree with the blocks, and every variable has its type.
Books ==
  /\ Sized(used) /\ Accounted
  /\ pc \in Points /\ want \in Sizes \cup {0} /\ cur \in Blocks \cup {NoBlock}
  /\ first \in BOOLEAN /\ rest \in Seq(Blocks)

LEMMA AccountedTotal == Accounted <=> allocated = Total(used)
BY DEF Accounted, Total

LEMMA AccountedNext == Accounted' <=> allocated' = Total(used')
<1>1. Accounted' <=> (allocated = Total(used))'
  BY AccountedTotal, PTL
<1>2. (allocated = Total(used))' <=> allocated' = Total(used')
  OBVIOUS
<1> QED BY <1>1, <1>2

\* A block leaves, another comes.
LEMMA BooksMove ==
  ASSUME HeapInv, Books, NEW old \in SUBSET used, old = {} \/ \E b \in used : old = {b},
         NEW new, new \notin used \ old, new.size \in Int, used' = (used \ old) \cup {new},
         allocated' = allocated + new.size - (IF old = {} THEN 0 ELSE (CHOOSE b \in old : TRUE).size)
  PROVE  Sized(used') /\ Accounted'
<1>1. Sized(used) /\ allocated = Total(used)
  BY AccountedTotal DEF Books
<1>2. /\ Sized(used \ old) /\ Total(used \ old) \in Int
      /\ Total(used) = Total(used \ old) + (IF old = {} THEN 0 ELSE (CHOOSE b \in old : TRUE).size)
      /\ (IF old = {} THEN 0 ELSE (CHOOSE b \in old : TRUE).size) \in Int
  <2>1. CASE old = {}
    <3>1. used \ old = used
      BY <2>1
    <3>2. Total(used) \in Int
      BY <1>1, TotalWithout
    <3> QED BY <1>1, <2>1, <3>1, <3>2
  <2>2. ASSUME NEW b \in used, old = {b}
        PROVE  /\ Sized(used \ old) /\ Total(used \ old) \in Int
               /\ Total(used) = Total(used \ old) + (CHOOSE c \in old : TRUE).size
               /\ (CHOOSE c \in old : TRUE).size \in Int
    <3>1. (CHOOSE c \in old : TRUE) = b
      BY <2>2
    <3>2. b.size \in Int /\ Sized(used \ {b})
      BY <1>1, FS_Subset DEF Sized
    <3>3. Total(used) = b.size + Total(used \ {b}) /\ Total(used \ {b}) \in Int
      BY <1>1, <3>2, TotalWithout
    <3> QED BY <2>2, <3>1, <3>2, <3>3
  <2> QED BY <2>1, <2>2
<1> DEFINE gone == IF old = {} THEN 0 ELSE (CHOOSE b \in old : TRUE).size
<1>3. allocated' = allocated + new.size - gone /\ gone \in Int /\ Total(used) = Total(used \ old) + gone
  BY <1>2
<1> HIDE DEF gone
<1>4. Sized(used') /\ Total(used') = new.size + Total(used \ old)
  BY <1>2, TotalWith
<1>5. allocated' = Total(used')
  BY <1>1, <1>2, <1>3, <1>4
<1> QED BY <1>4, <1>5, AccountedNext

\* A block leaves.
LEMMA BooksShrink ==
  ASSUME Books, NEW b \in used, used' = used \ {b}, allocated' = allocated - b.size
  PROVE  Sized(used') /\ Accounted'
<1>1. Sized(used) /\ allocated = Total(used)
  BY AccountedTotal DEF Books
<1>2. b.size \in Int /\ Sized(used \ {b})
  BY <1>1, FS_Subset DEF Sized
<1>3. Total(used) = b.size + Total(used \ {b}) /\ Total(used \ {b}) \in Int
  BY <1>1, <1>2, TotalWithout
<1>4. allocated' = Total(used')
  BY <1>1, <1>2, <1>3
<1> QED BY <1>2, <1>4, AccountedNext

\* What is handed out at heap_next, or out of the list, was not in use.
LEMMA BumpBooks ==
  ASSUME HeapInv, Books, NEW n \in Sizes, NEW old \in SUBSET used,
         old = {} \/ \E b \in used : old = {b}, Bump(n, old)
  PROVE  Books'
<1> DEFINE new == [at |-> next, size |-> Rounded(n), len |-> n]
<1>1. /\ used' = (used \ old) \cup {new} /\ UNCHANGED <<pc, callVars>>
      /\ allocated' = allocated + Rounded(n) - (IF old = {} THEN 0 ELSE (CHOOSE b \in old : TRUE).size)
  BY DEF Bump
<1>2. /\ new.at = next /\ new.size = Rounded(n) /\ Rounded(n) \in Int /\ next \in Int
  BY RoundedUp, HeapAssumption DEF HeapInv
<1> HIDE DEF new
<1>3. new \notin used
  BY <1>2 DEF HeapInv, UsedApart, Allocations
<1>4. Sized(used') /\ Accounted'
  BY <1>1, <1>2, <1>3, BooksMove
<1> QED BY <1>1, <1>4 DEF Books, callVars

LEMMA UnlinkBooks ==
  ASSUME HeapInv, Books, Unlink
  PROVE  Books'
<1> DEFINE total == Rounded(want)
           new == [at |-> cur.at, size |-> Taken(total), len |-> want]
<1>1. /\ pc = "found" /\ pc' = "user" /\ want' = 0 /\ cur' = NoBlock /\ first' = FALSE /\ rest' = rest
      /\ used' = (used \ moving) \cup {new}
      /\ allocated' = allocated + Taken(total) - (IF moving = {} THEN 0 ELSE (CHOOSE b \in moving : TRUE).size)
  BY DEF Unlink, Stamped, MovedSize
<1>2. moving \in SUBSET used /\ (moving = {} \/ \E b \in used : moving = {b})
  BY <1>1 DEF HeapInv, FoundFits
<1>3. PICK i \in DOMAIN free : free[i] = cur
  BY <1>1 DEF HeapInv, FoundFits
<1>4. cur.at \in Nat /\ cur.size \in Nat \ {0} /\ Clear(free, cur) \in BOOLEAN
      /\ \A b \in used : Apart(cur, b)
  BY <1>3, ListedBlocks DEF HeapInv, Vacant, Clear
<1>5. total \in Nat /\ new.at = cur.at /\ new.size = Taken(total) /\ Taken(total) \in Int
  <2>1. want \in Nat
    BY <1>1, HeapAssumption DEF HeapInv, FoundFits
  <2> QED BY <1>4, <2>1, RoundedUp DEF Taken
<1> HIDE DEF new, total
<1>6. new \notin used
  <2>1. \A b \in used : b.at # cur.at
    BY <1>4 DEF HeapInv, UsedApart, Allocations, Apart
  <2> QED BY <1>5, <2>1
<1>7. Sized(used') /\ Accounted'
  BY <1>1, <1>2, <1>5, <1>6, BooksMove
<1> QED BY <1>1, <1>7 DEF Books, Points

LEMMA InPlaceBooks ==
  ASSUME HeapInv, Books, NEW b \in used, NEW n \in Sizes, ReallocInPlace(b, n)
  PROVE  Books'
<1> DEFINE new == [b EXCEPT !.len = n]
<1>1. /\ used' = (used \ {b}) \cup {new} /\ allocated' = allocated /\ UNCHANGED <<pc, callVars>>
  BY DEF ReallocInPlace
<1>2. new.at = b.at /\ new.size = b.size /\ b.at \in Int /\ b.size \in Int /\ b.size > 0
  BY HeapAssumption DEF HeapInv, UsedApart, Allocations
<1> HIDE DEF new
<1>3. new \notin used \ {b}
  <2>1. \A c \in used \ {b} : c.at # b.at
    BY <1>2 DEF HeapInv, UsedApart, Allocations, Apart
  <2> QED BY <1>2, <2>1
<1>4. Sized(used') /\ Accounted'
  <2> DEFINE old == {b}
  <2>1. old \in SUBSET used /\ old # {} /\ (CHOOSE c \in old : TRUE) = b
    OBVIOUS
  <2>2. \E c \in used : old = {c}
    OBVIOUS
  <2>3. allocated \in Int
    BY TotalWithout, AccountedTotal DEF Books
  <2>4. used' = (used \ old) \cup {new} /\ new \notin used \ old
    BY <1>1, <1>3
  <2> HIDE DEF old
  <2>5. allocated' = allocated + new.size - (IF old = {} THEN 0 ELSE (CHOOSE c \in old : TRUE).size)
    <3>1. (IF old = {} THEN 0 ELSE (CHOOSE c \in old : TRUE).size) = b.size
      BY <2>1, Zenon
    <3> QED BY <1>1, <1>2, <2>3, <3>1
  <2> QED BY <1>2, <2>1, <2>2, <2>4, <2>5, BooksMove
<1> QED BY <1>1, <1>4 DEF Books, callVars

LEMMA SearchBooks ==
  ASSUME HeapInv, HeapInv', Books, NEW n \in Sizes, NEW old, Search(n, old)
  PROVE  Books'
<1>1. /\ UNCHANGED <<used, allocated, rest>> /\ pc' = "found" /\ want' = n
      /\ first' = (FirstFit(n) = 1)
  BY DEF Search
<1>2. cur' \in Blocks
  BY <1>1, ListedBlocks DEF HeapInv, FoundFits, Vacant
<1>3. Sized(used') /\ Accounted'
  BY <1>1, AccountedTotal, AccountedNext DEF Books
<1> QED BY <1>1, <1>2, <1>3 DEF Books, Points

LEMMA BooksStep ==
  ASSUME HeapInv, HeapInv', Books, [Next]_vars
  PROVE  Books'
<1>1. CASE \E n \in Sizes : Malloc(n)
  <2>1. PICK n \in Sizes : Malloc(n)
    BY <1>1
  <2>2. {} \in SUBSET used
    OBVIOUS
  <2> QED BY <2>1, <2>2, SearchBooks, BumpBooks DEF Malloc
<1>2. CASE Unlink
  BY <1>2, UnlinkBooks
<1>3. CASE FreeEnd
  <2>1. /\ UNCHANGED <<used, allocated, want, first>> /\ cur' = NoBlock /\ rest' = <<>> /\ pc' = "user"
    BY <1>3 DEF FreeEnd
  <2>2. Sized(used') /\ Accounted'
    BY <2>1, AccountedTotal, AccountedNext DEF Books
  <2> QED BY <2>1, <2>2, EmptySeq DEF Books, Points
<1>4. ASSUME NEW b \in used, FreeBegin(b) PROVE Books'
  <2>1. /\ used' = used \ {b} /\ allocated' = allocated - b.size /\ UNCHANGED <<want, first>>
        /\ cur' = AsFree(b) /\ rest' = free /\ pc' = "linking"
    BY <1>4 DEF FreeBegin
  <2>2. AsFree(b) \in Blocks /\ free \in Seq(Blocks)
    BY DEF HeapInv, UsedApart, Allocations, AsFree, Blocks, Vacant
  <2>3. Sized(used') /\ Accounted'
    BY <2>1, BooksShrink
  <2> QED BY <2>1, <2>2, <2>3 DEF Books, Points
<1>5. ASSUME NEW b \in used, IrqFree(b) PROVE Books'
  <2>1. used' = used \ {b} /\ allocated' = allocated - b.size /\ UNCHANGED <<pc, callVars>>
    BY <1>5 DEF IrqFree
  <2>2. Sized(used') /\ Accounted'
    BY <2>1, BooksShrink
  <2> QED BY <2>1, <2>2 DEF Books, callVars
<1>6. ASSUME NEW b \in used, NEW n \in Sizes, ReallocInPlace(b, n) PROVE Books'
  BY <1>6, InPlaceBooks
<1>7. ASSUME NEW b \in used, NEW n \in Sizes, ReallocMoves(b, n) PROVE Books'
  <2>1. {b} \in SUBSET used
    OBVIOUS
  <2> QED BY <1>7, <2>1, SearchBooks, BumpBooks DEF ReallocMoves
<1>8. CASE UNCHANGED vars
  <2>1. UNCHANGED <<used, allocated, pc, want, cur, first, rest>>
    BY <1>8 DEF vars, callVars
  <2>2. Sized(used') /\ Accounted'
    BY <2>1, AccountedTotal, AccountedNext DEF Books
  <2> QED BY <2>1, <2>2 DEF Books
<1> QED BY <1>1, <1>2, <1>3, <1>4, <1>5, <1>6, <1>7, <1>8 DEF Next

LEMMA BooksInit == Init => Books
<1> SUFFICES ASSUME Init PROVE Books
  OBVIOUS
<1>1. Sized(used) /\ used = {} /\ allocated = 0
  BY FS_EmptySet DEF Init, Sized
<1>2. Accounted
  BY <1>1, TotalWithout, AccountedTotal
<1> QED BY <1>1, <1>2, EmptySeq DEF Books, Init, Points

\* The blocks in use take no more than what lies below heap_next.
LEMMA BooksTyped ==
  ASSUME HeapInv, Books
  PROVE  TypeOK
<1>1. Below(used, next) /\ next \in Nat /\ next <= HeapSize
  BY HeapAssumption DEF HeapInv, UsedApart, Below, Books, Sized
<1>2. allocated \in 0 .. HeapSize
  BY <1>1, TotalBelow, AccountedTotal, HeapAssumption DEF Books
<1>3. moving \subseteq used
  BY DEF HeapInv, FoundFits
<1>4. used \subseteq [at : 0 .. HeapSize, size : 1 .. HeapSize, len : Sizes]
  BY DEF HeapInv, UsedApart, Allocations
<1> QED BY <1>2, <1>3, <1>4 DEF TypeOK, Books, HeapInv, Vacant

\* heap_allocated is what the blocks in use take, header and rounding included,
\* and no more than the heap, whatever sizes are asked for and wherever the
\* interrupt that reaps a task lands: it never wraps below zero.
THEOREM BooksBalance == Spec => [](TypeOK /\ Accounted)
<1>1. HeapInv /\ HeapInv' /\ Books /\ [Next]_vars => Books'
  BY BooksStep
<1>2. HeapInv /\ Books => TypeOK /\ Accounted
  BY BooksTyped DEF Books
<1> QED BY BooksInit, Invariant, <1>1, <1>2, PTL DEF Spec

\* With the interrupt outside the functions of the heap, the blocks, the lists and
\* the statistics agree in every state.
THEOREM HeapAgrees == Calm => (Spec => []HeapConsistent)
<1>1. TypeOK /\ Accounted /\ Tiled => HeapConsistent
  BY DEF HeapConsistent
<1> QED BY <1>1, NoByteLost, BooksBalance, PTL
============================================================================
