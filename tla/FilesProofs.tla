----------------------------- MODULE FilesProofs -----------------------------
(***************************************************************************)
(* What is proved of the tree, the descriptors, the pipes and the generated  *)
(* files, for every size of the pool and every sequence of calls.            *)
(***************************************************************************)
EXTENDS Files, FiniteSetTheorems, SequenceTheorems, WellFoundedInduction, TLAPS

(***************************************************************************)
(* Numbers and recursion                                                     *)
(***************************************************************************)

\* A set of naturals that is not empty has a least element.
LEMMA LeastNatural ==
  ASSUME NEW S \in SUBSET Nat, S # {}
  PROVE  \E m \in S : \A n \in S : m <= n
<1> DEFINE R == {ss \in Nat \X Nat : ss[1] < ss[2]}
<1>1. ~ \E f \in [Nat -> Nat] : \A n \in Nat : f[n+1] < f[n]
  <2> SUFFICES ASSUME NEW f \in [Nat -> Nat], \A n \in Nat : f[n+1] < f[n]
               PROVE  FALSE
    OBVIOUS
  <2>1. \A n \in Nat : f[n] \in Nat /\ f[n+1] \in Nat /\ f[n+1] < f[n]
    OBVIOUS
  <2>2. \A n \in Nat : <<f[n+1], f[n]>> \in OpToRel(<, Nat)
    BY <2>1, Zenon DEF OpToRel
  <2> QED BY <2>2, NatLessThanWellFounded DEF IsWellFoundedOn
<1>2. IsWellFoundedOn(R, Nat)
  BY <1>1 DEF IsWellFoundedOn
<1>3. PICK m \in S : \A n \in S : ~(<<n, m>> \in R)
  BY <1>2, WFMin
<1>4. \A n \in S : m \in Nat /\ n \in Nat /\ ~(n < m)
  BY <1>3
<1> QED BY <1>4

\* What CHOOSE finds when a search takes the first of several places.
LEMMA LowestIsLeast ==
  ASSUME NEW S \in SUBSET Nat, S # {}
  PROVE  Lowest(S) \in S /\ \A j \in S : Lowest(S) <= j
BY LeastNatural DEF Lowest

\* A recursion that starts in S and that no step takes out of S stays in S.
LEMMA RecursionStays ==
  ASSUME NEW n \in Nat, NEW S, NEW w, w[0] \in S,
         \A k \in 1 .. n : w[k - 1] \in S => w[k] \in S
  PROVE  \A k \in 0 .. n : w[k] \in S
<1> DEFINE Bad == {k \in 0 .. n : w[k] \notin S}
<1> SUFFICES ASSUME Bad # {} PROVE FALSE
  OBVIOUS
<1>0. Bad \in SUBSET Nat
  OBVIOUS
<1>1. PICK m \in Bad : \A k \in Bad : m <= k
  <2> HIDE DEF Bad
  <2> QED BY <1>0, LeastNatural
<1>2. m \in 1 .. n
  BY <1>1
<1>3. m - 1 \in 0 .. n /\ m - 1 \notin Bad
  BY <1>1, <1>2
<1> QED BY <1>1, <1>2, <1>3

\* The same with a set of its own for each step.
LEMMA RecursionGoesOn ==
  ASSUME NEW n \in Nat, NEW T, NEW w, w[0] \in T[0],
         \A k \in 1 .. n : w[k - 1] \in T[k - 1] => w[k] \in T[k]
  PROVE  \A k \in 0 .. n : w[k] \in T[k]
<1> DEFINE Bad == {k \in 0 .. n : w[k] \notin T[k]}
<1> SUFFICES ASSUME Bad # {} PROVE FALSE
  OBVIOUS
<1>0. Bad \in SUBSET Nat
  OBVIOUS
<1>1. PICK m \in Bad : \A k \in Bad : m <= k
  <2> HIDE DEF Bad
  <2> QED BY <1>0, LeastNatural
<1>2. m \in 1 .. n
  BY <1>1
<1>3. m - 1 \in 0 .. n /\ m - 1 \notin Bad
  BY <1>1, <1>2
<1> QED BY <1>1, <1>2, <1>3

\* The recursion that takes A and then one value of F after the other has a
\* solution.
Closed(n, S, F) == \A s \in S, k \in 1 .. n : F[<<s, k>>] \in S
Follows(g, n, S, A, F) ==
  g \in [0 .. n -> S] /\ g[0] = A /\ \A k \in 1 .. n : g[k] = F[<<g[k - 1], k>>]
Solvable(n, S, A, F) == \E g : Follows(g, n, S, A, F)
LEMMA RecursionExists ==
  ASSUME NEW n \in Nat, NEW S, NEW A \in S, NEW F, Closed(n, S, F)
  PROVE  Solvable(n, S, A, F)
<1> USE DEF Closed, Follows, Solvable
<1> DEFINE Solves(g, m) == Follows(g, m, S, A, F)
           Bad == {m \in 0 .. n : ~ \E g : Solves(g, m)}
<1> SUFFICES ASSUME Bad # {} PROVE FALSE
  OBVIOUS
<1>0. Bad \in SUBSET Nat
  OBVIOUS
<1>1. PICK m \in Bad : \A k \in Bad : m <= k
  <2> HIDE DEF Bad
  <2> QED BY <1>0, LeastNatural
<1>2. m # 0
  <2>1. Solves([k \in 0 .. 0 |-> A], 0)
    OBVIOUS
  <2> QED BY <1>1, <2>1
<1>3. m - 1 \in 0 .. n /\ m - 1 \notin Bad
  <2>1. m \in 0 .. n
    OBVIOUS
  <2>2. \A k \in Bad : m <= k
    BY <1>1
  <2>3. m - 1 \in 0 .. n /\ ~(m <= m - 1)
    BY <1>2, <2>1
  <2> HIDE DEF Bad
  <2> QED BY <2>2, <2>3
<1>4. PICK g : Solves(g, m - 1)
  BY <1>3
<1>5. PICK h : h = [k \in 0 .. m |-> IF k = m THEN F[<<g[m - 1], m>>] ELSE g[k]]
  OBVIOUS
<1>6. m \in 1 .. n /\ g[m - 1] \in S
  BY <1>1, <1>2, <1>4
<1>7. F[<<g[m - 1], m>>] \in S
  BY <1>6
<1>8. h \in [0 .. m -> S] /\ h[0] = A
  BY <1>4, <1>5, <1>6, <1>7
<1>9. ASSUME NEW k \in 1 .. m PROVE h[k] = F[<<h[k - 1], k>>]
  <2>1. k \in 0 .. m /\ k - 1 \in 0 .. m /\ k - 1 # m
    BY <1>6
  <2>2. h[k - 1] = g[k - 1]
    BY <1>5, <2>1
  <2>3. CASE k = m
    BY <1>5, <2>1, <2>2, <2>3
  <2>4. CASE k # m
    <3>1. k \in 1 .. m - 1
      BY <1>6, <2>4
    <3>2. g[k] = F[<<g[k - 1], k>>]
      BY <1>4, <3>1
    <3> QED BY <1>5, <2>1, <2>2, <2>4, <3>2
  <2> QED BY <2>3, <2>4
<1>10. Solves(h, m)
  BY <1>8, <1>9
<1> QED BY <1>1, <1>10

(***************************************************************************)
(* The types                                                                 *)
(***************************************************************************)

AllWords == Words \cup {Cut, "home", "src", "main", ".."}
Text     == [abs : BOOLEAN, words : Seq(AllWords)]
\* What a byte of a file or of a pipe may be.
DataByte == UNION {{d[k] : k \in DOMAIN d} : d \in Datas}
Byte ==
  DataByte \cup Words \cup Versions
    \cup {"0", "t", "uptime", "meminfo", "loadavg", "tasks", "net", "random", "cpuinfo", "fb0"}
NodeType ==
  [used : BOOLEAN, dir : BOOLEAN, name : Text, parent : NodeId \cup {None},
   children : Seq(NodeId), content : Seq(Byte)]
Pool == [NodeId -> NodeType]

\* Constants of the right kind: each part of an assumption under a name.
LEMMA Sizes ==
  /\ MaxNodes \in Nat /\ MaxNodes > 1 /\ MaxChildren \in Nat /\ MaxChildren > 0
  /\ MaxContent \in Nat /\ MaxContent > 0
  /\ Root \in NodeId /\ None \notin NodeId /\ NodeId \subseteq Nat
  /\ NumFds \in Nat /\ MaxPipes \in Nat /\ PipeBuf \in Nat /\ PipeBuf > 0
BY RamfsAssumption, FilesAssumption, BootAssumption DEF Root, None, NodeId

LEMMA WordIsText == ASSUME NEW w \in AllWords PROVE Word(w) \in Text
BY DEF Word, Text

LEMMA FittedIsWord == ASSUME NEW w \in AllWords PROVE Fitted(w) \in AllWords
BY DEF Fitted, AllWords

LEMMA StoredIsText == ASSUME NEW t \in Text PROVE Stored(t) \in Text
<1>1. CASE ~t.abs /\ Len(t.words) = 1
  <2>1. t.words \in Seq(AllWords)
    BY DEF Text
  <2>2. t.words[1] \in AllWords
    BY <1>1, <2>1, ElementOfSeq
  <2> QED BY <1>1, <2>2, FittedIsWord, WordIsText DEF Stored
<1> QED BY <1>1 DEF Stored

LEMMA FreeIsNode == Free \in NodeType
BY WordIsText DEF Free, NodeType, AllWords, Word, Text, None

LEMMA KnownTexts == HomeText \in Text /\ RootText \in Text
BY DEF HomeText, RootText, Text, AllWords

LEMMA DataIsBytes == ASSUME NEW d \in Datas PROVE d \in Seq(Byte)
<1>1. d \in Seq({d[k] : k \in DOMAIN d})
  BY FilesAssumption
<1>2. {d[k] : k \in DOMAIN d} \subseteq Byte
  <2> DEFINE D == {d[k] : k \in DOMAIN d}
             All == {{e[k] : k \in DOMAIN e} : e \in Datas}
  <2>1. D \in All
    OBVIOUS
  <2>2. D \subseteq UNION All
    <3> HIDE DEF D, All
    <3> QED BY <2>1
  <2>3. UNION All \subseteq Byte
    BY Zenon DEF Byte, DataByte
  <2> QED BY <2>2, <2>3
<1> QED BY <1>1, <1>2, SeqMonotonic

----------------------------------------------------------------------------
(* Names and paths                                                           *)

\* ramfs_find gives a child in use of that name, or nothing.
LEMMA FoundIsChild ==
  ASSUME NEW ns \in Pool, NEW p, NEW t
  PROVE  /\ Find(ns, p, t) \in NodeId \cup {None}
         /\ Find(ns, p, t) # None =>
              /\ IsDir(ns, p)
              /\ \E k \in DOMAIN ns[p].children :
                   /\ Find(ns, p, t) = ns[p].children[k]
                   /\ ns[ns[p].children[k]].used /\ ns[ns[p].children[k]].name = t
<1>1. CASE IsDir(ns, p) /\ Matches(ns, p, t) # {}
  <2>1. p \in NodeId
    BY <1>1 DEF IsDir, IsNode
  <2>2. ns[p].children \in Seq(NodeId)
    BY <2>1 DEF Pool, NodeType
  <2>3. Matches(ns, p, t) \in SUBSET Nat
    BY <2>2 DEF Matches
  <2>4. Lowest(Matches(ns, p, t)) \in Matches(ns, p, t)
    BY <1>1, <2>3, LowestIsLeast
  <2>5. PICK k \in DOMAIN ns[p].children :
          /\ k = Lowest(Matches(ns, p, t))
          /\ ns[ns[p].children[k]].used /\ ns[ns[p].children[k]].name = t
    BY <2>4 DEF Matches
  <2>6. Find(ns, p, t) = ns[p].children[k]
    BY <1>1, <2>5 DEF Find
  <2>7. ns[p].children[k] \in NodeId
    BY <2>2, <2>5
  <2> QED BY <1>1, <2>5, <2>6, <2>7
<1>2. CASE ~(IsDir(ns, p) /\ Matches(ns, p, t) # {})
  BY <1>2 DEF Find
<1> QED BY <1>1, <1>2

\* ramfs_resolve_path gives a node or nothing, one component after the other.
WalksTo(ns, t, w) ==
  /\ w[0] = Root
  /\ \A k \in 1 .. Len(t.words) : w[k] = IF w[k - 1] = None THEN None
                                        ELSE Child(ns, w[k - 1], t.words[k])
  /\ \A k \in 0 .. Len(t.words) : w[k] \in NodeId \cup {None}
  /\ Resolve(ns, t) = IF t.abs THEN w[Len(t.words)] ELSE None

LEMMA ResolveWalks ==
  ASSUME NEW ns \in Pool, NEW t, t.words \in Seq(AllWords)
  PROVE  \E w : WalksTo(ns, t, w)
<1> DEFINE S == NodeId \cup {None}
           n == Len(t.words)
           F == [q \in S \X (1 .. n) |->
                   IF q[1] = None THEN None ELSE Child(ns, q[1], t.words[q[2]])]
<1>1. n \in Nat
  OBVIOUS
<1>2. Root \in S
  BY Sizes
<1>3. ASSUME NEW s \in NodeId, NEW k \in 1 .. n PROVE Child(ns, s, t.words[k]) \in S
  <2>1. ns[s].parent \in S
    BY DEF Pool, NodeType
  <2>2. Find(ns, s, Word(Fitted(t.words[k]))) \in S
    BY FoundIsChild
  <2> QED BY <2>1, <2>2 DEF Child
<1>4. Closed(n, S, F)
  BY <1>3, Sizes DEF Closed
<1>5. PICK g : Follows(g, n, S, Root, F)
  <2> HIDE DEF S, F, n
  <2>1. Solvable(n, S, Root, F)
    BY <1>1, <1>2, <1>4, RecursionExists
  <2> QED BY <2>1 DEF Solvable
<1>6. ASSUME NEW k \in 1 .. n
      PROVE  g[k] = IF g[k - 1] = None THEN None ELSE Child(ns, g[k - 1], t.words[k])
  <2>1. <<g[k - 1], k>> \in S \X (1 .. n)
    BY <1>1, <1>5 DEF Follows
  <2>2. F[<<g[k - 1], k>>] = IF g[k - 1] = None THEN None ELSE Child(ns, g[k - 1], t.words[k])
    BY <2>1
  <2> QED BY <1>5, <2>2 DEF Follows
<1> DEFINE Walks(w) == w = [k \in 0 .. n |->
              IF k = 0 THEN Root ELSE IF w[k - 1] = None THEN None
              ELSE Child(ns, w[k - 1], t.words[k])]
<1>7. Walks(g)
  <2> DEFINE h == [k \in 0 .. n |->
              IF k = 0 THEN Root ELSE IF g[k - 1] = None THEN None
              ELSE Child(ns, g[k - 1], t.words[k])]
  <2>1. ASSUME NEW k \in 0 .. n PROVE h[k] = g[k]
    <3>1. CASE k = 0
      BY <1>5, <3>1 DEF Follows
    <3>2. CASE k # 0
      <4>1. k \in 1 .. n
        BY <1>1, <3>2
      <4> QED BY <1>6, <3>2, <4>1
    <3> QED BY <3>1, <3>2
  <2>2. g = [k \in 0 .. n |-> g[k]]
    BY <1>5 DEF Follows
  <2>3. h = [k \in 0 .. n |-> h[k]]
    OBVIOUS
  <2>4. g = h
    <3> HIDE DEF h
    <3> QED BY <2>1, <2>2, <2>3
  <2> QED BY <2>4
<1>8. PICK w : w = (CHOOSE x : Walks(x))
  OBVIOUS
<1>9. Walks(w)
  <2> HIDE DEF Walks
  <2> QED BY <1>7, <1>8
<1>10. w[0] = Root /\ \A k \in 1 .. n : w[k] = IF w[k - 1] = None THEN None
                                              ELSE Child(ns, w[k - 1], t.words[k])
  <2>1. \A k \in 0 .. n : w[k] = IF k = 0 THEN Root ELSE IF w[k - 1] = None THEN None
                                 ELSE Child(ns, w[k - 1], t.words[k])
    BY <1>9
  <2> QED BY <1>1, <2>1
<1>11. \A k \in 1 .. n : w[k - 1] \in S => w[k] \in S
  BY <1>3, <1>10
<1>12. \A k \in 0 .. n : w[k] \in S
  <2> HIDE DEF S, n
  <2> QED BY <1>1, <1>2, <1>10, <1>11, RecursionStays
<1>13. Resolve(ns, t) = IF t.abs THEN w[n] ELSE None
  BY <1>8 DEF Resolve
<1> QED BY <1>10, <1>12, <1>13 DEF WalksTo

LEMMA ResolvedIsNode ==
  ASSUME NEW ns \in Pool, NEW t, t.words \in Seq(AllWords)
  PROVE  Resolve(ns, t) \in NodeId \cup {None}
<1>1. PICK w : WalksTo(ns, t, w)
  BY ResolveWalks
<1>2. Len(t.words) \in 0 .. Len(t.words)
  OBVIOUS
<1> QED BY <1>1, <1>2 DEF WalksTo

----------------------------------------------------------------------------
(* The pool                                                                  *)

\* ramfs_remove leaves a node blank.
Blank(ns) == \A i \in NodeId : ~ns[i].used => ns[i] = Free
InBounds(ns) == \A i \in NodeId : /\ Len(ns[i].children) <= MaxChildren
                                  /\ Len(ns[i].content) < MaxContent
Plain(ns) == \A i \in NodeId : ns[i].dir => ns[i].content = <<>>
\* Two children of one directory share at most the cut name.
NamesApart(ns) ==
  \A p \in NodeId : \A k, l \in DOMAIN ns[p].children :
    /\ ns[ns[p].children[k]].name = ns[ns[p].children[l]].name
    /\ ns[ns[p].children[k]].name # Word(Cut)
    => k = l
\* Every node in use is one step further from the root than its parent.
IsDepth(ns, d) ==
  /\ d \in [NodeId -> Nat] /\ d[Root] = 0
  /\ \A i \in NodeId \ {Root} : ns[i].used => d[i] = d[ns[i].parent] + 1
HasDepth(ns) == \E d : IsDepth(ns, d)

Sound(ns) ==
  /\ ns \in Pool /\ Blank(ns) /\ InBounds(ns) /\ Plain(ns)
  /\ Tree(ns) /\ NamesApart(ns) /\ HasDepth(ns)

\* What the links of a tree give, without the words of its definition.
LEMMA TreeLinks ==
  ASSUME NEW ns \in Pool, Tree(ns)
  PROVE  /\ ns[Root].used /\ ns[Root].dir /\ ns[Root].parent = None
         /\ \A i \in NodeId \ {Root} : ns[i].used =>
              /\ ns[i].parent \in NodeId /\ ns[ns[i].parent].used /\ ns[ns[i].parent].dir
              /\ \E k \in 1 .. Len(ns[ns[i].parent].children) :
                   ns[ns[i].parent].children[k] = i
         /\ \A p \in NodeId : \A k \in 1 .. Len(ns[p].children) :
              /\ ns[p].children[k] \in NodeId \ {Root}
              /\ ns[ns[p].children[k]].used /\ ns[ns[p].children[k]].parent = p
         /\ \A p \in NodeId : \A k, l \in 1 .. Len(ns[p].children) :
              ns[p].children[k] = ns[p].children[l] => k = l
<1>1. \A p \in NodeId : DOMAIN ns[p].children = 1 .. Len(ns[p].children)
  BY DEF Pool, NodeType
<1>2. RootOK(ns) /\ ns[Root].parent = None
  BY DEF Tree, RootOK
<1>3. ASSUME NEW i \in NodeId \ {Root}, ns[i].used PROVE ParentOK(ns, i)
  BY <1>3 DEF Tree
<1>4. ASSUME NEW p \in NodeId, NEW k \in DOMAIN ns[p].children PROVE ChildOK(ns, p, k)
  BY DEF Tree
<1>5. ASSUME NEW p \in NodeId PROVE NoChildTwice(ns, p)
  BY DEF Tree
<1>6. ns[Root].used /\ ns[Root].dir
  BY <1>2 DEF RootOK, IsDir, IsNode
<1>7. ASSUME NEW i \in NodeId \ {Root}, ns[i].used
      PROVE  /\ ns[i].parent \in NodeId /\ ns[ns[i].parent].used /\ ns[ns[i].parent].dir
             /\ \E k \in 1 .. Len(ns[ns[i].parent].children) :
                  ns[ns[i].parent].children[k] = i
  BY <1>1, <1>3, <1>7 DEF ParentOK, IsDir, IsNode
<1>8. ASSUME NEW p \in NodeId, NEW k \in 1 .. Len(ns[p].children)
      PROVE  /\ ns[p].children[k] \in NodeId \ {Root}
             /\ ns[ns[p].children[k]].used /\ ns[ns[p].children[k]].parent = p
  BY <1>1, <1>2, <1>4, Sizes DEF ChildOK, IsNode
<1>9. ASSUME NEW p \in NodeId, NEW k \in 1 .. Len(ns[p].children),
             NEW l \in 1 .. Len(ns[p].children), ns[p].children[k] = ns[p].children[l]
      PROVE  k = l
  BY <1>1, <1>5, <1>9 DEF NoChildTwice
<1> QED BY <1>2, <1>6, <1>7, <1>8, <1>9

\* The same, the other way round.
LEMMA LinksTree ==
  ASSUME NEW ns \in Pool,
         ns[Root].used /\ ns[Root].dir /\ ns[Root].parent = None,
         \A i \in NodeId \ {Root} : ns[i].used =>
              /\ ns[i].parent \in NodeId /\ ns[ns[i].parent].used /\ ns[ns[i].parent].dir
              /\ \E k \in 1 .. Len(ns[ns[i].parent].children) :
                   ns[ns[i].parent].children[k] = i,
         \A p \in NodeId : \A k \in 1 .. Len(ns[p].children) :
              ns[ns[p].children[k]].used /\ ns[ns[p].children[k]].parent = p,
         \A p \in NodeId : \A k, l \in 1 .. Len(ns[p].children) :
              ns[p].children[k] = ns[p].children[l] => k = l
  PROVE  Tree(ns)
<1>1. \A p \in NodeId : /\ DOMAIN ns[p].children = 1 .. Len(ns[p].children)
                        /\ \A k \in DOMAIN ns[p].children : ns[p].children[k] \in NodeId
  BY DEF Pool, NodeType
<1>2. RootOK(ns)
  BY Sizes DEF RootOK, IsDir, IsNode
<1>3. ASSUME NEW i \in NodeId \ {Root}, ns[i].used PROVE ParentOK(ns, i)
  BY <1>1, <1>3 DEF ParentOK, IsDir, IsNode
<1>4. ASSUME NEW p \in NodeId, NEW k \in DOMAIN ns[p].children PROVE ChildOK(ns, p, k)
  BY <1>1 DEF ChildOK, IsNode
<1>5. ASSUME NEW p \in NodeId PROVE NoChildTwice(ns, p)
  BY <1>1 DEF NoChildTwice
<1> QED BY <1>2, <1>3, <1>4, <1>5 DEF Tree

----------------------------------------------------------------------------
(* ramfs_create and ramfs_mkdir                                              *)

\* One node more: q, the last child of p.
Grown(ns, new, p, q, t, dir) ==
  /\ p \in NodeId /\ ns[p].used /\ ns[p].dir
  /\ q \in NodeId \ {Root} /\ ~ns[q].used /\ ns[q] = Free
  /\ new \in Pool
  /\ new[q].used /\ new[q].dir = dir /\ new[q].name = Stored(t) /\ new[q].parent = p
  /\ new[q].children = <<>> /\ new[q].content = <<>>
  /\ \A i \in NodeId \ {q} :
       /\ new[i].used = ns[i].used /\ new[i].dir = ns[i].dir /\ new[i].name = ns[i].name
       /\ new[i].parent = ns[i].parent /\ new[i].content = ns[i].content
  /\ \A i \in NodeId \ {p, q} : new[i] = ns[i]
  /\ new[p].children = Append(ns[p].children, q)
  /\ Len(new[p].children) = Len(ns[p].children) + 1
  /\ \A k \in 1 .. Len(ns[p].children) : new[p].children[k] = ns[p].children[k]
  /\ new[p].children[Len(ns[p].children) + 1] = q

LEMMA FreshIsUnused ==
  ASSUME NEW ns \in Pool, Unused(ns) # {}
  PROVE  Fresh(ns) \in NodeId /\ ~ns[Fresh(ns)].used
<1>1. Unused(ns) \in SUBSET Nat
  BY Sizes DEF Unused
<1>2. Fresh(ns) \in Unused(ns)
  BY <1>1, LowestIsLeast DEF Fresh
<1> QED BY <1>2 DEF Unused

LEMMA AddedGrows ==
  ASSUME NEW ns, Sound(ns), NEW p, NEW t \in Text, NEW dir \in BOOLEAN, MayAdd(ns, p, t)
  PROVE  Grown(ns, Added(ns, p, t, dir), p, Fresh(ns), t, dir)
<1>1. ns \in Pool /\ Tree(ns) /\ Blank(ns)
  BY DEF Sound
<1>2. p \in NodeId /\ ns[p].used /\ ns[p].dir
  BY DEF MayAdd, IsDir, IsNode
<1>3. PICK q : q = Fresh(ns)
  OBVIOUS
<1>4. q \in NodeId /\ ~ns[q].used
  BY <1>1, <1>3, FreshIsUnused DEF MayAdd
<1>5. q # Root /\ q # p /\ ns[q] = Free
  BY <1>1, <1>2, <1>4, TreeLinks DEF Blank
<1>6. PICK e : e = [Free EXCEPT !.used = TRUE, !.dir = dir, !.name = Stored(t), !.parent = p]
  OBVIOUS
<1>7. e.used /\ e.dir = dir /\ e.name = Stored(t) /\ e.parent = p
      /\ e.children = <<>> /\ e.content = <<>>
  BY <1>6 DEF Free
<1>8. e \in NodeType
  <2>1. Free \in NodeType /\ Stored(t) \in Text /\ p \in NodeId \cup {None}
    BY <1>2, FreeIsNode, StoredIsText
  <2> QED BY <1>6, <2>1 DEF NodeType
<1>9. PICK new : new = [ns EXCEPT ![q] = e, ![p].children = Append(@, q)]
  OBVIOUS
<1>10. Added(ns, p, t, dir) = new
  BY <1>3, <1>6, <1>9 DEF Added
<1>11. ns[p] \in NodeType /\ ns[p].children \in Seq(NodeId)
  BY <1>1, <1>2 DEF Pool, NodeType
<1>12. new[q] = e /\ new[p] = [ns[p] EXCEPT !.children = Append(@, q)]
  BY <1>1, <1>2, <1>4, <1>5, <1>9 DEF Pool
<1>13. \A i \in NodeId \ {p, q} : new[i] = ns[i]
  BY <1>1, <1>9 DEF Pool
<1>14. DOMAIN new = NodeId /\ new = [i \in NodeId |-> new[i]]
  BY <1>1, <1>9 DEF Pool
<1>15. Append(ns[p].children, q) \in Seq(NodeId)
  BY <1>4, <1>11
<1>16. new[p] \in NodeType
  BY <1>11, <1>12, <1>15 DEF NodeType
<1>17. \A i \in NodeId : new[i] \in NodeType
  BY <1>1, <1>8, <1>12, <1>13, <1>16 DEF Pool
<1>18. new \in Pool
  BY <1>14, <1>17 DEF Pool
<1>19. new[p].children = Append(ns[p].children, q)
       /\ new[p].used = ns[p].used /\ new[p].dir = ns[p].dir /\ new[p].name = ns[p].name
       /\ new[p].parent = ns[p].parent /\ new[p].content = ns[p].content
  BY <1>11, <1>12 DEF NodeType
<1>20. /\ Len(new[p].children) = Len(ns[p].children) + 1
       /\ \A k \in 1 .. Len(ns[p].children) : new[p].children[k] = ns[p].children[k]
       /\ new[p].children[Len(ns[p].children) + 1] = q
  BY <1>4, <1>11, <1>19, AppendProperties
<1>21. \A i \in NodeId \ {q} :
       /\ new[i].used = ns[i].used /\ new[i].dir = ns[i].dir /\ new[i].name = ns[i].name
       /\ new[i].parent = ns[i].parent /\ new[i].content = ns[i].content
  BY <1>13, <1>19
<1>22. Grown(ns, new, p, q, t, dir)
  BY <1>2, <1>4, <1>5, <1>7, <1>12, <1>13, <1>18, <1>19, <1>20, <1>21 DEF Grown
<1> QED BY <1>3, <1>10, <1>22

LEMMA AddedIsTree ==
  ASSUME NEW ns, Sound(ns), NEW new, NEW p, NEW q, NEW t, NEW dir, Grown(ns, new, p, q, t, dir)
  PROVE  Tree(new)
<1> DEFINE n == Len(ns[p].children)
<1>1. ns \in Pool /\ Tree(ns)
  BY DEF Sound
<1>2. new \in Pool /\ p \in NodeId /\ q \in NodeId \ {Root} /\ p # q /\ n \in Nat
  BY <1>1 DEF Grown, Pool, NodeType
<1>3. \A i \in NodeId : Len(ns[i].children) \in Nat
  BY <1>1 DEF Pool, NodeType
<1>4. ASSUME NEW i \in NodeId, NEW k \in 1 .. Len(ns[i].children)
      PROVE  /\ ns[i].children[k] \in NodeId \ {Root} /\ ns[i].children[k] # q
             /\ new[i].children[k] = ns[i].children[k] /\ k \in 1 .. Len(new[i].children)
  <2>1. ns[i].children[k] \in NodeId \ {Root} /\ ns[ns[i].children[k]].used
    BY <1>1, TreeLinks
  <2>2. ns[i].children[k] # q
    BY <2>1 DEF Grown
  <2>3. CASE i = p
    <3>1. Len(new[p].children) = n + 1 /\ \A l \in 1 .. n : new[p].children[l] = ns[p].children[l]
      BY DEF Grown
    <3>2. k \in 1 .. n
      BY <2>3
    <3> HIDE DEF n
    <3>3. new[p].children[k] = ns[p].children[k] /\ k \in 1 .. Len(new[p].children)
      BY <1>2, <3>1, <3>2
    <3> QED BY <2>1, <2>2, <2>3, <3>3
  <2>4. CASE i = q
    <3>1. Len(ns[i].children) = 0
      BY <2>4 DEF Grown, Free
    <3> QED BY <3>1
  <2>5. CASE i # p /\ i # q
    <3>1. new[i] = ns[i]
      BY <2>5 DEF Grown
    <3> QED BY <2>1, <2>2, <3>1
  <2> QED BY <2>1, <2>2, <2>3, <2>4, <2>5
<1>5. new[Root].used /\ new[Root].dir /\ new[Root].parent = None
  BY <1>1, <1>2, TreeLinks, Sizes DEF Grown
<1>6. ASSUME NEW i \in NodeId \ {Root}, new[i].used
      PROVE  /\ new[i].parent \in NodeId /\ new[new[i].parent].used /\ new[new[i].parent].dir
             /\ \E k \in 1 .. Len(new[new[i].parent].children) :
                  new[new[i].parent].children[k] = i
  <2>1. CASE i = q
    <3>1. new[i].parent = p /\ new[p].used /\ new[p].dir
      BY <1>2, <2>1 DEF Grown
    <3>2. n + 1 \in 1 .. Len(new[p].children) /\ new[p].children[n + 1] = q
      BY <1>2 DEF Grown
    <3> QED BY <1>2, <2>1, <3>1, <3>2
  <2>2. CASE i # q
    <3>1. ns[i].used /\ new[i].parent = ns[i].parent
      BY <1>6, <2>2 DEF Grown
    <3>2. /\ ns[i].parent \in NodeId /\ ns[ns[i].parent].used /\ ns[ns[i].parent].dir
          /\ \E k \in 1 .. Len(ns[ns[i].parent].children) : ns[ns[i].parent].children[k] = i
      BY <1>1, <3>1, TreeLinks
    <3>3. ns[i].parent # q
      BY <3>2 DEF Grown
    <3>4. new[ns[i].parent].used /\ new[ns[i].parent].dir
      BY <3>2, <3>3 DEF Grown
    <3>5. PICK k \in 1 .. Len(ns[ns[i].parent].children) : ns[ns[i].parent].children[k] = i
      BY <3>2
    <3>6. k \in 1 .. Len(new[ns[i].parent].children) /\ new[ns[i].parent].children[k] = i
      BY <1>4, <3>2, <3>5
    <3> QED BY <3>1, <3>2, <3>4, <3>6
  <2> QED BY <2>1, <2>2
<1>7. ASSUME NEW i \in NodeId, NEW k \in 1 .. Len(new[i].children)
      PROVE  \/ k \in 1 .. Len(ns[i].children)
             \/ i = p /\ k = n + 1 /\ new[i].children[k] = q
  <2>1. CASE i = p
    BY <1>2, <2>1 DEF Grown
  <2>2. CASE i = q
    <3>1. Len(new[i].children) = 0
      BY <2>2 DEF Grown
    <3> QED BY <3>1
  <2>3. CASE i # p /\ i # q
    BY <2>3 DEF Grown
  <2> QED BY <2>1, <2>2, <2>3
<1>8. ASSUME NEW i \in NodeId, NEW k \in 1 .. Len(new[i].children)
      PROVE  new[new[i].children[k]].used /\ new[new[i].children[k]].parent = i
  <2>1. CASE k \in 1 .. Len(ns[i].children)
    <3>1. ns[ns[i].children[k]].used /\ ns[ns[i].children[k]].parent = i
      BY <1>1, <2>1, TreeLinks
    <3>2. /\ ns[i].children[k] \in NodeId \ {Root} /\ ns[i].children[k] # q
          /\ new[i].children[k] = ns[i].children[k]
      BY <1>4, <2>1
    <3>3. PICK c \in NodeId \ {q} : c = ns[i].children[k]
      BY <3>2
    <3>4. new[c].used = ns[c].used /\ new[c].parent = ns[c].parent
      BY DEF Grown
    <3> QED BY <3>1, <3>2, <3>3, <3>4
  <2>2. CASE i = p /\ new[i].children[k] = q
    BY <2>2 DEF Grown
  <2> QED BY <1>7, <2>1, <2>2
<1>9. ASSUME NEW i \in NodeId, NEW k \in 1 .. Len(new[i].children),
             NEW l \in 1 .. Len(new[i].children), new[i].children[k] = new[i].children[l]
      PROVE  k = l
  <2>1. CASE k \in 1 .. Len(ns[i].children) /\ l \in 1 .. Len(ns[i].children)
    <3>1. ns[i].children[k] = ns[i].children[l]
      BY <1>4, <1>9, <2>1
    <3> QED BY <1>1, <2>1, <3>1, TreeLinks
  <2>2. CASE k \notin 1 .. Len(ns[i].children) /\ l \in 1 .. Len(ns[i].children)
    <3>1. new[i].children[k] = q
      BY <1>7, <2>2
    <3> QED BY <1>4, <1>9, <2>2, <3>1
  <2>3. CASE k \in 1 .. Len(ns[i].children) /\ l \notin 1 .. Len(ns[i].children)
    <3>1. new[i].children[l] = q
      BY <1>7, <2>3
    <3> QED BY <1>4, <1>9, <2>3, <3>1
  <2>4. CASE k \notin 1 .. Len(ns[i].children) /\ l \notin 1 .. Len(ns[i].children)
    <3>1. k = n + 1
      BY <1>7, <2>4
    <3>2. l = n + 1
      BY <1>7, <2>4
    <3> QED BY <3>1, <3>2
  <2> QED BY <2>1, <2>2, <2>3, <2>4
<1> QED BY <1>2, <1>5, <1>6, <1>8, <1>9, LinksTree

\* A name is kept as it is, or it is the cut one.
LEMMA StoredOrCut ==
  ASSUME NEW t \in Text
  PROVE  Stored(t) = t \/ Stored(t) = Word(Cut)
<1>1. CASE ~t.abs /\ Len(t.words) = 1
  <2>1. t.words \in Seq(AllWords) /\ t = [abs |-> t.abs, words |-> t.words] /\ t.abs = FALSE
    BY <1>1 DEF Text
  <2>2. t.words = <<t.words[1]>>
    BY <1>1, <2>1
  <2>3. t = Word(t.words[1])
    BY <2>1, <2>2 DEF Word
  <2> QED BY <1>1, <2>3 DEF Stored, Fitted
<1> QED BY <1>1 DEF Stored

\* If ramfs_find finds nothing, no child in use has that name.
LEMMA NothingFound ==
  ASSUME NEW ns \in Pool, NEW p \in NodeId, NEW t, ns[p].used, ns[p].dir,
         Find(ns, p, t) = None
  PROVE  \A k \in DOMAIN ns[p].children :
           ns[ns[p].children[k]].used => ns[ns[p].children[k]].name # t
<1>1. IsDir(ns, p)
  BY DEF IsDir, IsNode
<1>2. ns[p].children \in Seq(NodeId)
  BY DEF Pool, NodeType
<1>3. SUFFICES ASSUME Matches(ns, p, t) # {} PROVE FALSE
  BY DEF Matches
<1>4. Matches(ns, p, t) \in SUBSET Nat
  BY <1>2 DEF Matches
<1>5. Lowest(Matches(ns, p, t)) \in DOMAIN ns[p].children
  BY <1>3, <1>4, LowestIsLeast DEF Matches
<1>6. Find(ns, p, t) \in NodeId
  BY <1>1, <1>2, <1>3, <1>5 DEF Find
<1> QED BY <1>6, Sizes

LEMMA AddedIsSound ==
  ASSUME NEW ns, Sound(ns), NEW p, NEW t \in Text, NEW dir \in BOOLEAN, MayAdd(ns, p, t)
  PROVE  Sound(Added(ns, p, t, dir))
<1>1. PICK new, q : new = Added(ns, p, t, dir) /\ q = Fresh(ns) /\ Grown(ns, new, p, q, t, dir)
  BY AddedGrows
<1>2. Tree(new)
  BY <1>1, AddedIsTree
<1>3. ns \in Pool /\ Tree(ns) /\ Blank(ns) /\ InBounds(ns) /\ Plain(ns) /\ NamesApart(ns)
  BY DEF Sound
<1>4. p \in NodeId /\ ns[p].used /\ ns[p].dir /\ q \in NodeId \ {Root} /\ p # q /\ new \in Pool
  BY <1>1 DEF Grown
<1>5. Blank(new)
  <2> SUFFICES ASSUME NEW i \in NodeId, ~new[i].used PROVE new[i] = Free
    BY DEF Blank
  <2>1. i # p /\ i # q
    BY <1>1, <1>4 DEF Grown
  <2>2. new[i] = ns[i]
    BY <1>1, <2>1 DEF Grown
  <2> QED BY <1>3, <2>2 DEF Blank
<1>6. InBounds(new)
  <2> SUFFICES ASSUME NEW i \in NodeId
               PROVE  Len(new[i].children) <= MaxChildren /\ Len(new[i].content) < MaxContent
    BY DEF InBounds
  <2>1. Len(ns[i].children) <= MaxChildren /\ Len(ns[i].content) < MaxContent
    BY <1>3 DEF InBounds
  <2>2. CASE i = p
    <3>1. new[p].content = ns[p].content /\ Len(new[p].children) = Len(ns[p].children) + 1
      BY <1>1, <1>4 DEF Grown
    <3>2. Len(ns[p].children) < MaxChildren /\ Len(ns[p].children) \in Nat
      BY <1>3, <1>4 DEF MayAdd, Pool, NodeType
    <3> QED BY <2>1, <2>2, <3>1, <3>2, Sizes
  <2>3. CASE i = q
    BY <1>1, <2>3, Sizes DEF Grown
  <2>4. CASE i # p /\ i # q
    <3>1. new[i] = ns[i]
      BY <1>1, <2>4 DEF Grown
    <3> QED BY <2>1, <3>1
  <2> QED BY <2>2, <2>3, <2>4
<1>7. Plain(new)
  BY <1>1, <1>3 DEF Plain, Grown
<1>8. NamesApart(new)
  <2> SUFFICES ASSUME NEW i \in NodeId,
                      NEW k \in DOMAIN new[i].children, NEW l \in DOMAIN new[i].children,
                      new[new[i].children[k]].name = new[new[i].children[l]].name,
                      new[new[i].children[k]].name # Word(Cut)
               PROVE  k = l
    BY DEF NamesApart
  <2>1. k \in 1 .. Len(new[i].children) /\ l \in 1 .. Len(new[i].children)
    BY <1>4 DEF Pool, NodeType
  <2>2. CASE i # p
    <3>1. Len(new[q].children) = 0
      BY <1>1 DEF Grown
    <3>2. new[i] = ns[i]
      BY <1>1, <2>1, <2>2, <3>1 DEF Grown
    <3>3. \A m \in 1 .. Len(ns[i].children) : new[ns[i].children[m]].name = ns[ns[i].children[m]].name
      <4>1. \A m \in 1 .. Len(ns[i].children) :
              ns[i].children[m] \in NodeId /\ ns[ns[i].children[m]].used
        BY <1>3, TreeLinks
      <4> QED BY <1>1, <4>1 DEF Grown
    <3>4. DOMAIN ns[i].children = 1 .. Len(ns[i].children)
      BY <1>3 DEF Pool, NodeType
    <3> QED BY <1>3, <2>1, <3>2, <3>3, <3>4 DEF NamesApart
  <2>3. CASE i = p
    <3>1. PICK n \in Nat : n = Len(ns[p].children)
      BY <1>3, <1>4 DEF Pool, NodeType
    <3>2. DOMAIN ns[p].children = 1 .. n
      BY <1>3, <1>4, <3>1 DEF Pool, NodeType
    <3>3. /\ Len(new[p].children) = n + 1 /\ new[p].children[n + 1] = q
          /\ \A m \in 1 .. n : new[p].children[m] = ns[p].children[m]
      BY <1>1, <3>1 DEF Grown
    <3>4. \A m \in 1 .. n : ns[p].children[m] \in NodeId /\ ns[ns[p].children[m]].used
      BY <1>3, <1>4, <3>1, TreeLinks
    <3>5. \A m \in 1 .. n : new[new[p].children[m]].name = ns[ns[p].children[m]].name
      BY <1>1, <3>3, <3>4 DEF Grown
    <3>6. \A m \in 1 .. n : ns[ns[p].children[m]].name # t
      <4>1. Find(ns, p, t) = None
        BY DEF MayAdd
      <4> QED BY <1>3, <1>4, <3>2, <3>4, <4>1, NothingFound
    <3>7. new[new[p].children[n + 1]].name = Stored(t)
      BY <1>1, <3>3 DEF Grown
    <3>8. (k \in 1 .. n \/ k = n + 1) /\ (l \in 1 .. n \/ l = n + 1)
      BY <2>1, <2>3, <3>3
    <3>9. CASE k \in 1 .. n /\ l \in 1 .. n
      BY <1>3, <1>4, <2>3, <3>2, <3>5, <3>9 DEF NamesApart
    <3>10. CASE k = n + 1 /\ l \in 1 .. n
      BY <2>3, <3>5, <3>6, <3>7, <3>10, StoredOrCut
    <3>11. CASE k \in 1 .. n /\ l = n + 1
      BY <2>3, <3>5, <3>6, <3>7, <3>11, StoredOrCut
    <3> QED BY <3>8, <3>9, <3>10, <3>11
  <2> QED BY <2>2, <2>3
<1>9. HasDepth(new)
  <2>1. PICK d : IsDepth(ns, d)
    BY DEF Sound, HasDepth
  <2>2. PICK e : e = [d EXCEPT ![q] = d[p] + 1]
    OBVIOUS
  <2>3. e \in [NodeId -> Nat] /\ e[q] = d[p] + 1 /\ \A i \in NodeId \ {q} : e[i] = d[i]
    BY <1>4, <2>1, <2>2 DEF IsDepth
  <2>4. e[Root] = 0
    BY <1>4, <2>1, <2>3, Sizes DEF IsDepth
  <2>5. ASSUME NEW i \in NodeId \ {Root}, new[i].used PROVE e[i] = e[new[i].parent] + 1
    <3>1. CASE i = q
      <4>1. new[q].parent = p
        BY <1>1 DEF Grown
      <4> QED BY <1>4, <2>3, <3>1, <4>1
    <3>2. CASE i # q
      <4>1. ns[i].used /\ new[i].parent = ns[i].parent
        BY <1>1, <2>5, <3>2 DEF Grown
      <4>2. ns[i].parent \in NodeId /\ ns[ns[i].parent].used
        BY <1>3, <4>1, TreeLinks
      <4>3. ns[i].parent # q
        BY <1>1, <4>2 DEF Grown
      <4>4. d[i] = d[ns[i].parent] + 1
        BY <2>1, <4>1 DEF IsDepth
      <4> QED BY <2>3, <3>2, <4>1, <4>2, <4>3, <4>4
    <3> QED BY <3>1, <3>2
  <2> QED BY <2>3, <2>4, <2>5 DEF HasDepth, IsDepth
<1> QED BY <1>1, <1>2, <1>4, <1>5, <1>6, <1>7, <1>8, <1>9 DEF Sound

LEMMA AddedIfPossibleIsSound ==
  ASSUME NEW ns, Sound(ns), NEW p, NEW t \in Text, NEW dir \in BOOLEAN
  PROVE  Sound(AddedIfPossible(ns, p, t, dir))
BY AddedIsSound DEF AddedIfPossible

----------------------------------------------------------------------------
(* ramfs_write and ramfs_append                                              *)

\* The first n of a sequence.
LEMMA FirstOf ==
  ASSUME NEW S, NEW s \in Seq(S), NEW n \in Nat
  PROVE  /\ First(n, s) \in Seq(S)
         /\ Len(First(n, s)) = IF n < Len(s) THEN n ELSE Len(s)
         /\ \A k \in 1 .. Len(First(n, s)) : First(n, s)[k] = s[k]
<1>1. PICK m \in Nat : m = (IF n < Len(s) THEN n ELSE Len(s))
  OBVIOUS
<1>2. First(n, s) = SubSeq(s, 1, m)
  BY <1>1 DEF First
<1>3. \A k \in 1 .. m : s[k] \in S
  BY <1>1
<1>4. /\ SubSeq(s, 1, m) \in Seq(S)
      /\ Len(SubSeq(s, 1, m)) = IF 1 <= m THEN m - 1 + 1 ELSE 0
      /\ \A k \in 1 .. m - 1 + 1 : SubSeq(s, 1, m)[k] = s[1 + k - 1]
  BY <1>3, SubSeqProperties
<1> QED BY <1>1, <1>2, <1>4

\* The content of node i is another, and nothing else is.
Rewritten(ns, new, i, c) ==
  /\ i \in NodeId /\ ns[i].used /\ ~ns[i].dir
  /\ new \in Pool /\ new = [ns EXCEPT ![i].content = c]
  /\ new[i].content = c /\ new[i].children = ns[i].children
  /\ \A j \in NodeId : /\ new[j].used = ns[j].used /\ new[j].dir = ns[j].dir
                       /\ new[j].name = ns[j].name /\ new[j].parent = ns[j].parent
                       /\ new[j].children = ns[j].children
  /\ \A j \in NodeId \ {i} : new[j] = ns[j]

LEMMA ContentRewritten ==
  ASSUME NEW ns \in Pool, NEW i, IsFile(ns, i), NEW c \in Seq(Byte)
  PROVE  Rewritten(ns, [ns EXCEPT ![i].content = c], i, c)
<1>1. i \in NodeId /\ ns[i].used /\ ~ns[i].dir
  BY DEF IsFile, IsNode
<1>2. PICK new : new = [ns EXCEPT ![i].content = c]
  OBVIOUS
<1>3. ns[i] \in NodeType
  BY <1>1 DEF Pool
<1>4. new[i] = [ns[i] EXCEPT !.content = c] /\ \A j \in NodeId \ {i} : new[j] = ns[j]
  BY <1>1, <1>2 DEF Pool
<1>5. new[i] \in NodeType
  BY <1>3, <1>4 DEF NodeType
<1>6. new = [j \in NodeId |-> new[j]]
  BY <1>2 DEF Pool
<1>7. \A j \in NodeId : new[j] \in NodeType
  BY <1>4, <1>5 DEF Pool
<1>8. new \in Pool
  BY <1>6, <1>7 DEF Pool
<1>9. /\ new[i].content = c /\ new[i].children = ns[i].children
      /\ new[i].used = ns[i].used /\ new[i].dir = ns[i].dir
      /\ new[i].name = ns[i].name /\ new[i].parent = ns[i].parent
  BY <1>3, <1>4 DEF NodeType
<1> QED BY <1>1, <1>2, <1>4, <1>8, <1>9 DEF Rewritten

LEMMA RewrittenIsSound ==
  ASSUME NEW ns, Sound(ns), NEW new, NEW i, NEW c, Rewritten(ns, new, i, c), Len(c) < MaxContent
  PROVE  Sound(new)
<1>1. ns \in Pool /\ Tree(ns) /\ Blank(ns) /\ InBounds(ns) /\ Plain(ns) /\ NamesApart(ns)
  BY DEF Sound
<1>2. new \in Pool /\ i \in NodeId /\ ns[i].used /\ ~ns[i].dir
  BY DEF Rewritten
<1>3. \A j \in NodeId : /\ new[j].used = ns[j].used /\ new[j].dir = ns[j].dir
                        /\ new[j].name = ns[j].name /\ new[j].parent = ns[j].parent
                        /\ new[j].children = ns[j].children
  BY DEF Rewritten
<1>4. Tree(new)
  <2>1. new[Root].used /\ new[Root].dir /\ new[Root].parent = None
    BY <1>1, <1>3, TreeLinks, Sizes
  <2>2. ASSUME NEW j \in NodeId \ {Root}, new[j].used
        PROVE  /\ new[j].parent \in NodeId /\ new[new[j].parent].used /\ new[new[j].parent].dir
               /\ \E k \in 1 .. Len(new[new[j].parent].children) :
                    new[new[j].parent].children[k] = j
    <3>1. /\ ns[j].parent \in NodeId /\ ns[ns[j].parent].used /\ ns[ns[j].parent].dir
          /\ \E k \in 1 .. Len(ns[ns[j].parent].children) : ns[ns[j].parent].children[k] = j
      BY <1>1, <1>3, <2>2, TreeLinks
    <3> QED BY <1>3, <3>1
  <2>3. ASSUME NEW p \in NodeId, NEW k \in 1 .. Len(new[p].children)
        PROVE  new[new[p].children[k]].used /\ new[new[p].children[k]].parent = p
    <3>1. /\ ns[p].children[k] \in NodeId
          /\ ns[ns[p].children[k]].used /\ ns[ns[p].children[k]].parent = p
      BY <1>1, <1>3, TreeLinks
    <3> QED BY <1>3, <3>1
  <2>4. ASSUME NEW p \in NodeId, NEW k \in 1 .. Len(new[p].children),
               NEW l \in 1 .. Len(new[p].children), new[p].children[k] = new[p].children[l]
        PROVE  k = l
    BY <1>1, <1>3, <2>4, TreeLinks
  <2> QED BY <1>2, <2>1, <2>2, <2>3, <2>4, LinksTree
<1>5. Blank(new)
  BY <1>1, <1>2 DEF Blank, Rewritten
<1>6. InBounds(new)
  <2> SUFFICES ASSUME NEW j \in NodeId
               PROVE  Len(new[j].children) <= MaxChildren /\ Len(new[j].content) < MaxContent
    BY DEF InBounds
  <2>1. j # i => new[j].content = ns[j].content
    BY DEF Rewritten
  <2>2. new[i].content = c
    BY DEF Rewritten
  <2> QED BY <1>1, <1>3, <2>1, <2>2 DEF InBounds
<1>7. Plain(new)
  BY <1>1, <1>2 DEF Plain, Rewritten
<1>8. NamesApart(new)
  <2> SUFFICES ASSUME NEW p \in NodeId,
                      NEW k \in DOMAIN new[p].children, NEW l \in DOMAIN new[p].children,
                      new[new[p].children[k]].name = new[new[p].children[l]].name,
                      new[new[p].children[k]].name # Word(Cut)
               PROVE  k = l
    BY DEF NamesApart
  <2>1. new[p].children = ns[p].children
    BY <1>3
  <2>2. ns[p].children[k] \in NodeId /\ ns[p].children[l] \in NodeId
    BY <1>1, <2>1 DEF Pool, NodeType
  <2>3. /\ ns[ns[p].children[k]].name = ns[ns[p].children[l]].name
        /\ ns[ns[p].children[k]].name # Word(Cut)
    BY <1>3, <2>1, <2>2
  <2> QED BY <1>1, <2>1, <2>3 DEF NamesApart
<1>9. HasDepth(new)
  <2>1. PICK d : IsDepth(ns, d)
    BY DEF Sound, HasDepth
  <2>2. IsDepth(new, d)
    BY <1>3, <2>1 DEF IsDepth
  <2> QED BY <2>2 DEF HasDepth
<1> QED BY <1>2, <1>4, <1>5, <1>6, <1>7, <1>8, <1>9 DEF Sound

\* What is written fits the array, whatever was asked for.
LEMMA CutFits ==
  ASSUME NEW s \in Seq(Byte)
  PROVE  First(MaxContent - 1, s) \in Seq(Byte) /\ Len(First(MaxContent - 1, s)) < MaxContent
<1>1. MaxContent - 1 \in Nat
  BY Sizes
<1> QED BY <1>1, FirstOf, Sizes

LEMMA WrittenIsSound ==
  ASSUME NEW ns, Sound(ns), NEW i, NEW s \in Seq(Byte)
  PROVE  Sound(Written(ns, i, s))
<1>1. CASE IsFile(ns, i)
  <2>1. Rewritten(ns, Written(ns, i, s), i, First(MaxContent - 1, s))
    BY <1>1, CutFits, ContentRewritten DEF Written, Sound
  <2> QED BY <2>1, CutFits, RewrittenIsSound
<1> QED BY <1>1 DEF Written

LEMMA AppendedIsSound ==
  ASSUME NEW ns, Sound(ns), NEW i, NEW s \in Seq(Byte)
  PROVE  Sound(Appended(ns, i, s))
<1>1. CASE IsFile(ns, i)
  <2>1. ns \in Pool /\ i \in NodeId
    BY <1>1 DEF Sound, IsFile, IsNode
  <2>2. ns[i].content \in Seq(Byte)
    BY <2>1 DEF Pool, NodeType
  <2>3. ns[i].content \o s \in Seq(Byte)
    BY <2>2, ConcatProperties
  <2>4. Appended(ns, i, s) = [ns EXCEPT ![i].content = First(MaxContent - 1, ns[i].content \o s)]
    <3>1. ns[i] \in NodeType
      BY <2>1 DEF Pool
    <3> QED BY <1>1, <2>1, <3>1 DEF Appended, Pool
  <2>5. PICK c : c = First(MaxContent - 1, ns[i].content \o s)
    OBVIOUS
  <2>6. c \in Seq(Byte) /\ Len(c) < MaxContent
    BY <2>3, <2>5, CutFits
  <2>7. Rewritten(ns, [ns EXCEPT ![i].content = c], i, c)
    BY <1>1, <2>1, <2>6, ContentRewritten
  <2>8. Appended(ns, i, s) = [ns EXCEPT ![i].content = c]
    BY <2>4, <2>5
  <2> QED BY <2>6, <2>7, <2>8, RewrittenIsSound
<1> QED BY <1>1 DEF Appended

----------------------------------------------------------------------------
(* ramfs_remove                                                              *)

\* One entry leaves, the ones behind it move down.
OnlyAt(s, i, k) ==
  k \in 1 .. Len(s) /\ s[k] = i /\ \A l \in 1 .. Len(s) : s[l] = i => l = k
ShiftedDown(S, s, k, r) ==
  /\ r \in Seq(S) /\ Len(r) = Len(s) - 1
  /\ \A l \in 1 .. k - 1 : r[l] = s[l]
  /\ \A l \in k .. Len(s) - 1 : r[l] = s[l + 1]
LEMMA WithoutOne ==
  ASSUME NEW S, NEW s \in Seq(S), NEW i, NEW k, OnlyAt(s, i, k)
  PROVE  ShiftedDown(S, s, k, Without(s, i))
<1> USE DEF OnlyAt, ShiftedDown
<1>1. PICK n \in Nat : n = Len(s) /\ DOMAIN s = 1 .. n
  BY LenProperties
<1>2. Places(s, i) = {k}
  BY <1>1 DEF Places
<1>3. Lowest({k}) = k
  BY DEF Lowest
<1>4. PICK a, b : a = SubSeq(s, 1, k - 1) /\ b = SubSeq(s, k + 1, n)
  OBVIOUS
<1>5. Without(s, i) = a \o b
  BY <1>1, <1>2, <1>3, <1>4 DEF Without
<1>6. \A l \in 1 .. n : s[l] \in S
  BY <1>1, ElementOfSeq
<1>7. k \in Int /\ 1 <= k /\ k <= n
  BY <1>1
<1>8. /\ a \in Seq(S) /\ Len(a) = k - 1
      /\ \A l \in 1 .. k - 1 : a[l] = s[l]
  <2>1. \A l \in 1 .. k - 1 : s[l] \in S
    BY <1>6, <1>7
  <2>2. /\ SubSeq(s, 1, k - 1) \in Seq(S)
        /\ Len(SubSeq(s, 1, k - 1)) = IF 1 <= k - 1 THEN k - 1 - 1 + 1 ELSE 0
        /\ \A l \in 1 .. k - 1 - 1 + 1 : SubSeq(s, 1, k - 1)[l] = s[1 + l - 1]
    BY <1>7, <2>1, SubSeqProperties
  <2> QED BY <1>4, <1>7, <2>2
<1>9. /\ b \in Seq(S) /\ Len(b) = n - k
      /\ \A l \in 1 .. n - k : b[l] = s[k + l]
  <2>1. \A l \in k + 1 .. n : s[l] \in S
    BY <1>6, <1>7
  <2>2. /\ SubSeq(s, k + 1, n) \in Seq(S)
        /\ Len(SubSeq(s, k + 1, n)) = IF k + 1 <= n THEN n - (k + 1) + 1 ELSE 0
        /\ \A l \in 1 .. n - (k + 1) + 1 : SubSeq(s, k + 1, n)[l] = s[k + 1 + l - 1]
    BY <1>7, <2>1, SubSeqProperties
  <2> QED BY <1>1, <1>4, <1>7, <2>2
<1>10. /\ a \o b \in Seq(S) /\ Len(a \o b) = Len(a) + Len(b)
       /\ \A l \in 1 .. Len(a) + Len(b) :
            (a \o b)[l] = IF l <= Len(a) THEN a[l] ELSE b[l - Len(a)]
  BY <1>8, <1>9, ConcatProperties
<1>11. ASSUME NEW l \in 1 .. k - 1 PROVE (a \o b)[l] = s[l]
  BY <1>7, <1>8, <1>9, <1>10
<1>12. ASSUME NEW l \in k .. n - 1 PROVE (a \o b)[l] = s[l + 1]
  <2>1. l - (k - 1) \in 1 .. n - k /\ l \in 1 .. n - 1 /\ ~(l <= k - 1)
    BY <1>1, <1>7
  <2>2. (a \o b)[l] = b[l - (k - 1)]
    BY <1>1, <1>7, <1>8, <1>9, <1>10, <2>1
  <2>3. b[l - (k - 1)] = s[k + (l - (k - 1))]
    BY <1>9, <2>1
  <2> QED BY <1>7, <2>1, <2>2, <2>3
<1> QED BY <1>1, <1>5, <1>7, <1>8, <1>9, <1>10, <1>11, <1>12

\* One leaf less: i, the k-th child of p.
Shrunk(ns, new, i, p, k) ==
  /\ i \in NodeId \ {Root} /\ ns[i].used /\ ns[i].parent = p
  /\ p \in NodeId /\ p # i /\ ns[p].used /\ ns[p].dir
  /\ k \in 1 .. Len(ns[p].children) /\ ns[p].children[k] = i
  /\ \A j \in NodeId \ {Root} : ns[j].used => ns[j].parent # i
  /\ new \in Pool /\ new[i] = Free
  /\ \A j \in NodeId \ {i} :
       /\ new[j].used = ns[j].used /\ new[j].dir = ns[j].dir /\ new[j].name = ns[j].name
       /\ new[j].parent = ns[j].parent /\ new[j].content = ns[j].content
  /\ \A j \in NodeId \ {i, p} : new[j] = ns[j]
  /\ Len(new[p].children) = Len(ns[p].children) - 1
  /\ \A l \in 1 .. k - 1 : new[p].children[l] = ns[p].children[l]
  /\ \A l \in k .. Len(ns[p].children) - 1 : new[p].children[l] = ns[p].children[l + 1]

LEMMA RemovedShrinks ==
  ASSUME NEW ns, Sound(ns), NEW i, MayRemove(ns, i)
  PROVE  \E p, k : Shrunk(ns, Removed(ns, i), i, p, k)
<1>1. ns \in Pool /\ Tree(ns)
  BY DEF Sound
<1>2. i \in NodeId \ {Root} /\ ns[i].used
  BY Sizes DEF MayRemove, IsNode, Root
<1>3. PICK p : p = ns[i].parent
  OBVIOUS
<1>4. /\ p \in NodeId /\ ns[p].used /\ ns[p].dir
      /\ \E k \in 1 .. Len(ns[p].children) : ns[p].children[k] = i
  BY <1>1, <1>2, <1>3, TreeLinks
<1>5. PICK k \in 1 .. Len(ns[p].children) : ns[p].children[k] = i
  BY <1>4
<1>6. ASSUME NEW j \in NodeId \ {Root}, ns[j].used PROVE ns[j].parent # i
  <2> SUFFICES ASSUME ns[j].parent = i PROVE FALSE
    OBVIOUS
  <2>1. /\ ns[i].dir
        /\ \E l \in 1 .. Len(ns[i].children) : ns[i].children[l] = j
    BY <1>1, <1>6, TreeLinks
  <2>2. ns[i].children = <<>>
    BY <2>1 DEF MayRemove
  <2> QED BY <2>1, <2>2
<1>7. p # i
  BY <1>2, <1>3, <1>6
<1>8. PICK new : new = Removed(ns, i)
  OBVIOUS
<1>9. new = [ns EXCEPT ![p].children = Without(@, i), ![i] = Free]
  BY <1>3, <1>4, <1>8 DEF Removed, IsNode
<1>10. ns[p] \in NodeType /\ ns[p].children \in Seq(NodeId)
  BY <1>1, <1>4 DEF Pool, NodeType
<1>11. \A l \in 1 .. Len(ns[p].children) : ns[p].children[l] = i => l = k
  BY <1>1, <1>4, <1>5, TreeLinks
<1>12. /\ Without(ns[p].children, i) \in Seq(NodeId)
       /\ Len(Without(ns[p].children, i)) = Len(ns[p].children) - 1
       /\ \A l \in 1 .. k - 1 : Without(ns[p].children, i)[l] = ns[p].children[l]
       /\ \A l \in k .. Len(ns[p].children) - 1 :
            Without(ns[p].children, i)[l] = ns[p].children[l + 1]
  <2>1. PICK s : s = ns[p].children
    OBVIOUS
  <2>2. s \in Seq(NodeId) /\ OnlyAt(s, i, k)
    BY <1>5, <1>10, <1>11, <2>1 DEF OnlyAt
  <2>3. ShiftedDown(NodeId, s, k, Without(s, i))
    BY <2>2, WithoutOne
  <2> QED BY <2>1, <2>3 DEF ShiftedDown
<1>13. PICK c : c = Without(ns[p].children, i)
  OBVIOUS
<1>14. /\ new[i] = Free /\ new[p] = [ns[p] EXCEPT !.children = c]
       /\ \A j \in NodeId \ {i, p} : new[j] = ns[j]
  BY <1>1, <1>2, <1>4, <1>7, <1>9, <1>13 DEF Pool
<1>15. new[p] \in NodeType
  BY <1>10, <1>12, <1>13, <1>14 DEF NodeType
<1>16. new = [j \in NodeId |-> new[j]]
  BY <1>1, <1>9 DEF Pool
<1>17. \A j \in NodeId : new[j] \in NodeType
  BY <1>1, <1>14, <1>15, FreeIsNode DEF Pool
<1>18. new \in Pool
  BY <1>16, <1>17 DEF Pool
<1>19. /\ new[p].children = c /\ new[p].used = ns[p].used /\ new[p].dir = ns[p].dir
       /\ new[p].name = ns[p].name /\ new[p].parent = ns[p].parent
       /\ new[p].content = ns[p].content
  BY <1>10, <1>14 DEF NodeType
<1>20. /\ Len(new[p].children) = Len(ns[p].children) - 1
       /\ \A l \in 1 .. k - 1 : new[p].children[l] = ns[p].children[l]
       /\ \A l \in k .. Len(ns[p].children) - 1 : new[p].children[l] = ns[p].children[l + 1]
  BY <1>12, <1>13, <1>19
<1>21. \A j \in NodeId \ {i} :
       /\ new[j].used = ns[j].used /\ new[j].dir = ns[j].dir /\ new[j].name = ns[j].name
       /\ new[j].parent = ns[j].parent /\ new[j].content = ns[j].content
  BY <1>14, <1>19
<1>22. Shrunk(ns, new, i, p, k)
  BY <1>2, <1>3, <1>4, <1>5, <1>6, <1>7, <1>14, <1>18, <1>20, <1>21 DEF Shrunk
<1> QED BY <1>8, <1>22

\* The entries of p after the removal are those before it, but for i.
LEMMA ShrunkEntries ==
  ASSUME NEW ns \in Pool, Tree(ns), NEW new, NEW i, NEW p, NEW k, Shrunk(ns, new, i, p, k),
         NEW j \in NodeId, NEW l \in 1 .. Len(new[j].children)
  PROVE  \E m \in 1 .. Len(ns[j].children) :
           /\ new[j].children[l] = ns[j].children[m] /\ ns[j].children[m] # i
           /\ m = IF j = p /\ l >= k THEN l + 1 ELSE l
<1>1. CASE j = p
  <2>1. PICK n \in Nat : n = Len(ns[p].children) /\ k \in 1 .. n /\ l \in 1 .. n - 1
    BY <1>1 DEF Shrunk, Pool, NodeType
  <2>2. \A a, b \in 1 .. n : ns[p].children[a] = ns[p].children[b] => a = b
    <3>1. \A f \in NodeId : \A a, b \in 1 .. Len(ns[f].children) :
            ns[f].children[a] = ns[f].children[b] => a = b
      BY TreeLinks
    <3> QED BY <1>1, <2>1, <3>1
  <2>3. ns[p].children[k] = i
    BY DEF Shrunk
  <2>4. CASE l >= k
    <3>1. l \in k .. n - 1 /\ l + 1 \in 1 .. n /\ l + 1 # k
      BY <2>1, <2>4
    <3>2. new[p].children[l] = ns[p].children[l + 1]
      BY <2>1, <3>1 DEF Shrunk
    <3> QED BY <1>1, <2>1, <2>2, <2>3, <2>4, <3>1, <3>2
  <2>5. CASE ~(l >= k)
    <3>1. l \in 1 .. k - 1 /\ l \in 1 .. n /\ l # k
      BY <2>1, <2>5
    <3>2. new[p].children[l] = ns[p].children[l]
      BY <2>1, <3>1 DEF Shrunk
    <3> QED BY <1>1, <2>1, <2>2, <2>3, <2>5, <3>1, <3>2
  <2> QED BY <2>4, <2>5
<1>2. CASE j = i
  <2>1. Len(new[i].children) = 0
    BY DEF Shrunk, Free
  <2> QED BY <1>2, <2>1
<1>3. CASE j # p /\ j # i
  <2>1. new[j] = ns[j]
    BY <1>3 DEF Shrunk
  <2>2. ns[ns[j].children[l]].parent = j
    BY <2>1, TreeLinks
  <2>3. ns[i].parent = p
    BY DEF Shrunk
  <2>4. ns[j].children[l] # i
    BY <1>3, <2>2, <2>3
  <2> QED BY <1>3, <2>1, <2>4
<1> QED BY <1>1, <1>2, <1>3

LEMMA ShrunkIsSound ==
  ASSUME NEW ns, Sound(ns), NEW new, NEW i, NEW p, NEW k, Shrunk(ns, new, i, p, k)
  PROVE  Sound(new)
<1>1. ns \in Pool /\ Tree(ns) /\ Blank(ns) /\ InBounds(ns) /\ Plain(ns) /\ NamesApart(ns)
  BY DEF Sound
<1>2. /\ new \in Pool /\ i \in NodeId \ {Root} /\ p \in NodeId \ {i}
      /\ new[i] = Free /\ ns[i].parent = p
  BY DEF Shrunk
<1>3. ASSUME NEW j \in NodeId \ {i}
      PROVE  /\ new[j].used = ns[j].used /\ new[j].dir = ns[j].dir /\ new[j].name = ns[j].name
             /\ new[j].parent = ns[j].parent /\ new[j].content = ns[j].content
  BY DEF Shrunk
<1>4. \A j \in NodeId : Len(ns[j].children) \in Nat /\ Len(new[j].children) \in Nat
  BY <1>1, <1>2 DEF Pool, NodeType
<1>5. ASSUME NEW j \in NodeId, NEW l \in 1 .. Len(new[j].children)
      PROVE  \E m \in 1 .. Len(ns[j].children) :
               /\ new[j].children[l] = ns[j].children[m] /\ ns[j].children[m] # i
               /\ m = IF j = p /\ l >= k THEN l + 1 ELSE l
  BY <1>1, ShrunkEntries
<1>6. k \in Int
  BY <1>4 DEF Shrunk
<1>7. Tree(new)
  <2>1. new[Root].used /\ new[Root].dir /\ new[Root].parent = None
    BY <1>1, <1>2, <1>3, TreeLinks, Sizes
  <2>2. ASSUME NEW j \in NodeId \ {Root}, new[j].used
        PROVE  /\ new[j].parent \in NodeId /\ new[new[j].parent].used /\ new[new[j].parent].dir
               /\ \E l \in 1 .. Len(new[new[j].parent].children) :
                    new[new[j].parent].children[l] = j
    <3>1. j # i
      BY <1>2, <2>2 DEF Free
    <3>2. ns[j].used /\ new[j].parent = ns[j].parent
      BY <1>3, <2>2, <3>1
    <3>3. PICK f : f = ns[j].parent
      OBVIOUS
    <3>4. /\ f \in NodeId /\ ns[f].used /\ ns[f].dir
          /\ \E l \in 1 .. Len(ns[f].children) : ns[f].children[l] = j
      BY <1>1, <3>2, <3>3, TreeLinks
    <3>5. f # i
      BY <3>2, <3>3 DEF Shrunk
    <3>6. new[f].used /\ new[f].dir
      BY <1>3, <3>4, <3>5
    <3>7. PICK l \in 1 .. Len(ns[f].children) : ns[f].children[l] = j
      BY <3>4
    <3>8. \E m \in 1 .. Len(new[f].children) : new[f].children[m] = j
      <4>1. CASE f = p
        <5>1. PICK n \in Nat : n = Len(ns[p].children)
          BY <1>2, <1>4
        <5>2. /\ k \in 1 .. n /\ ns[p].children[k] = i /\ Len(new[p].children) = n - 1
              /\ \A m \in 1 .. k - 1 : new[p].children[m] = ns[p].children[m]
              /\ \A m \in k .. n - 1 : new[p].children[m] = ns[p].children[m + 1]
          BY <5>1 DEF Shrunk
        <5>3. l \in 1 .. n /\ l # k /\ ns[p].children[l] = j
          BY <3>1, <3>7, <4>1, <5>1, <5>2
        <5>4. CASE l < k
          <6>1. l \in 1 .. k - 1 /\ l \in 1 .. n - 1
            BY <5>2, <5>3, <5>4
          <6> QED BY <4>1, <5>2, <5>3, <6>1
        <5>5. CASE l > k
          <6>1. l - 1 \in k .. n - 1 /\ l - 1 \in 1 .. n - 1 /\ (l - 1) + 1 = l
            BY <5>2, <5>3, <5>5
          <6>2. new[p].children[l - 1] = ns[p].children[l]
            BY <5>2, <6>1
          <6> QED BY <4>1, <5>2, <5>3, <6>1, <6>2
        <5> QED BY <5>2, <5>3, <5>4, <5>5
      <4>2. CASE f # p
        <5>1. new[f] = ns[f]
          BY <3>4, <3>5, <4>2 DEF Shrunk
        <5> QED BY <3>7, <5>1
      <4> QED BY <4>1, <4>2
    <3> QED BY <3>2, <3>3, <3>4, <3>6, <3>8
  <2>3. ASSUME NEW j \in NodeId, NEW l \in 1 .. Len(new[j].children)
        PROVE  new[new[j].children[l]].used /\ new[new[j].children[l]].parent = j
    <3>1. PICK m \in 1 .. Len(ns[j].children) :
            new[j].children[l] = ns[j].children[m] /\ ns[j].children[m] # i
      BY <1>5
    <3>2. /\ ns[j].children[m] \in NodeId
          /\ ns[ns[j].children[m]].used /\ ns[ns[j].children[m]].parent = j
      BY <1>1, TreeLinks
    <3>3. PICK c \in NodeId \ {i} : c = ns[j].children[m]
      BY <3>1, <3>2
    <3> QED BY <1>3, <3>1, <3>2, <3>3
  <2>4. ASSUME NEW j \in NodeId, NEW l \in 1 .. Len(new[j].children),
               NEW m \in 1 .. Len(new[j].children), new[j].children[l] = new[j].children[m]
        PROVE  l = m
    <3>1. PICK a \in 1 .. Len(ns[j].children) :
            new[j].children[l] = ns[j].children[a] /\ a = IF j = p /\ l >= k THEN l + 1 ELSE l
      BY <1>5
    <3>2. PICK b \in 1 .. Len(ns[j].children) :
            new[j].children[m] = ns[j].children[b] /\ b = IF j = p /\ m >= k THEN m + 1 ELSE m
      BY <1>5
    <3>3. ns[j].children[a] = ns[j].children[b]
      BY <2>4, <3>1, <3>2
    <3>4. a = b
      BY <1>1, <3>3, TreeLinks
    <3> QED BY <1>4, <1>6, <3>1, <3>2, <3>4
  <2> QED BY <1>2, <2>1, <2>2, <2>3, <2>4, LinksTree
<1>8. Blank(new)
  <2> SUFFICES ASSUME NEW j \in NodeId, ~new[j].used PROVE new[j] = Free
    BY DEF Blank
  <2>1. CASE j = p
    BY <1>2, <1>3, <2>1 DEF Shrunk
  <2>2. CASE j # p /\ j # i
    <3>1. new[j] = ns[j]
      BY <2>2 DEF Shrunk
    <3> QED BY <1>1, <3>1 DEF Blank
  <2> QED BY <1>2, <2>1, <2>2
<1>9. InBounds(new)
  <2> SUFFICES ASSUME NEW j \in NodeId
               PROVE  Len(new[j].children) <= MaxChildren /\ Len(new[j].content) < MaxContent
    BY DEF InBounds
  <2>1. Len(ns[j].children) <= MaxChildren /\ Len(ns[j].content) < MaxContent
    BY <1>1 DEF InBounds
  <2>2. CASE j = i
    BY <1>2, <2>2, Sizes DEF Free
  <2>3. CASE j = p
    <3>1. Len(new[p].children) = Len(ns[p].children) - 1
      BY DEF Shrunk
    <3>2. PICK n \in Nat : n = Len(ns[j].children)
      BY <1>4
    <3>3. new[p].content = ns[p].content
      BY DEF Shrunk
    <3> QED BY <2>1, <2>3, <3>1, <3>2, <3>3, Sizes
  <2>4. CASE j # p /\ j # i
    <3>1. new[j] = ns[j]
      BY <2>4 DEF Shrunk
    <3> QED BY <2>1, <3>1
  <2> QED BY <2>2, <2>3, <2>4
<1>10. Plain(new)
  BY <1>1, <1>2, <1>3 DEF Plain, Free
<1>11. NamesApart(new)
  <2> SUFFICES ASSUME NEW j \in NodeId,
                      NEW l \in DOMAIN new[j].children, NEW m \in DOMAIN new[j].children,
                      new[new[j].children[l]].name = new[new[j].children[m]].name,
                      new[new[j].children[l]].name # Word(Cut)
               PROVE  l = m
    BY DEF NamesApart
  <2>1. l \in 1 .. Len(new[j].children) /\ m \in 1 .. Len(new[j].children)
    BY <1>2 DEF Pool, NodeType
  <2>2. PICK a \in 1 .. Len(ns[j].children) :
          /\ new[j].children[l] = ns[j].children[a] /\ ns[j].children[a] # i
          /\ a = IF j = p /\ l >= k THEN l + 1 ELSE l
    BY <1>5, <2>1
  <2>3. PICK b \in 1 .. Len(ns[j].children) :
          /\ new[j].children[m] = ns[j].children[b] /\ ns[j].children[b] # i
          /\ b = IF j = p /\ m >= k THEN m + 1 ELSE m
    BY <1>5, <2>1
  <2>4. ns[j].children[a] \in NodeId /\ ns[j].children[b] \in NodeId
    BY <1>1, TreeLinks
  <2>5. /\ ns[ns[j].children[a]].name = ns[ns[j].children[b]].name
        /\ ns[ns[j].children[a]].name # Word(Cut)
    <3>1. PICK x \in NodeId \ {i}, y \in NodeId \ {i} :
            x = ns[j].children[a] /\ y = ns[j].children[b]
      BY <2>2, <2>3, <2>4
    <3>2. new[x].name = new[y].name /\ new[x].name # Word(Cut)
      BY <2>2, <2>3, <3>1
    <3>3. new[x].name = ns[x].name /\ new[y].name = ns[y].name
      BY <3>1 DEF Shrunk
    <3> QED BY <3>1, <3>2, <3>3
  <2>6. DOMAIN ns[j].children = 1 .. Len(ns[j].children)
    BY <1>1 DEF Pool, NodeType
  <2>7. a = b
    BY <1>1, <2>5, <2>6 DEF NamesApart
  <2> QED BY <1>4, <1>6, <2>1, <2>2, <2>3, <2>7
<1>12. HasDepth(new)
  <2>1. PICK d : IsDepth(ns, d)
    BY DEF Sound, HasDepth
  <2>2. IsDepth(new, d)
    <3> SUFFICES ASSUME NEW j \in NodeId \ {Root}, new[j].used
                 PROVE  d[j] = d[new[j].parent] + 1
      BY <2>1 DEF IsDepth
    <3>1. j # i
      BY <1>2 DEF Free
    <3>2. ns[j].used /\ new[j].parent = ns[j].parent
      BY <1>3, <3>1
    <3> QED BY <2>1, <3>2 DEF IsDepth
  <2> QED BY <2>2 DEF HasDepth
<1> QED BY <1>2, <1>7, <1>8, <1>9, <1>10, <1>11, <1>12 DEF Sound

LEMMA RemovedIsSound ==
  ASSUME NEW ns, Sound(ns), NEW i, MayRemove(ns, i)
  PROVE  Sound(Removed(ns, i))
BY RemovedShrinks, ShrunkIsSound

----------------------------------------------------------------------------
(* The way to the root                                                       *)

AncestorsAre(ns, i, n, up) ==
  /\ up \in [0 .. n -> NodeId \cup {None}] /\ up[0] = i
  /\ \A k \in 1 .. n : up[k] = IF up[k - 1] = None THEN None ELSE ns[up[k - 1]].parent

LEMMA AncestorsExist ==
  ASSUME NEW ns \in Pool, NEW i \in NodeId \cup {None}, NEW n \in Nat
  PROVE  AncestorsAre(ns, i, n, Ancestors(ns, i, n))
<1> DEFINE S == NodeId \cup {None}
           Above(s) == IF s = None THEN None ELSE ns[s].parent
           F == [q \in S \X (1 .. n) |-> Above(q[1])]
<1>1. \A s \in S : Above(s) \in S
  BY DEF Pool, NodeType
<1>2. \A s \in S, k \in 1 .. n : F[<<s, k>>] = Above(s)
  <2> HIDE DEF Above, S
  <2> QED OBVIOUS
<1>3. Closed(n, S, F)
  <2> HIDE DEF Above, F, S
  <2> QED BY <1>1, <1>2 DEF Closed
<1>4. PICK g : Follows(g, n, S, i, F)
  <2> HIDE DEF S, F
  <2>1. Solvable(n, S, i, F)
    <3>1. i \in S
      BY DEF S
    <3> QED BY <1>3, <3>1, RecursionExists
  <2> QED BY <2>1 DEF Solvable
<1> DEFINE Climbs(w) == w = [k \in 0 .. n |-> IF k = 0 THEN i
                             ELSE IF w[k - 1] = None THEN None ELSE ns[w[k - 1]].parent]
<1>5. Climbs(g)
  <2> DEFINE h == [k \in 0 .. n |-> IF k = 0 THEN i
                     ELSE IF g[k - 1] = None THEN None ELSE ns[g[k - 1]].parent]
  <2>1. ASSUME NEW k \in 0 .. n PROVE h[k] = g[k]
    <3>1. CASE k = 0
      BY <1>4, <3>1 DEF Follows
    <3>2. CASE k # 0
      <4>1. k \in 1 .. n /\ g[k - 1] \in S
        BY <1>4, <3>2 DEF Follows
      <4>2. g[k] = F[<<g[k - 1], k>>]
        BY <1>4, <4>1 DEF Follows
      <4>3. g[k] = Above(g[k - 1])
        <5> HIDE DEF F, S, Above
        <5> QED BY <1>2, <4>1, <4>2
      <4> QED BY <3>2, <4>3
    <3> QED BY <3>1, <3>2
  <2>2. g = [k \in 0 .. n |-> g[k]]
    BY <1>4 DEF Follows
  <2>3. h = [k \in 0 .. n |-> h[k]]
    OBVIOUS
  <2>4. g = h
    <3> HIDE DEF h
    <3> QED BY <2>1, <2>2, <2>3
  <2> QED BY <2>4
<1>6. PICK w : w = (CHOOSE x : Climbs(x))
  OBVIOUS
<1>7. Climbs(w)
  <2> HIDE DEF Climbs
  <2> QED BY <1>5, <1>6
<1>8. /\ w[0] = i
      /\ \A k \in 1 .. n : w[k] = IF w[k - 1] = None THEN None ELSE ns[w[k - 1]].parent
  <2>1. \A k \in 0 .. n : w[k] = IF k = 0 THEN i ELSE IF w[k - 1] = None THEN None
                                 ELSE ns[w[k - 1]].parent
    BY <1>7
  <2> QED BY <2>1
<1>9. \A k \in 1 .. n : w[k - 1] \in S => w[k] \in S
  BY <1>1, <1>8
<1>10. \A k \in 0 .. n : w[k] \in S
  <2> HIDE DEF S
  <2>1. w[0] \in S
    BY <1>8 DEF S
  <2> QED BY <1>9, <2>1, RecursionStays
<1>11. w = [k \in 0 .. n |-> w[k]]
  BY <1>7
<1>12. w \in [0 .. n -> S]
  BY <1>10, <1>11
<1>13. Ancestors(ns, i, n) = w
  BY <1>6 DEF Ancestors
<1> QED BY <1>8, <1>12, <1>13 DEF AncestorsAre

\* As long as the depth lasts, the parents are nodes in use, one level higher each.
LEMMA LevelsGoUp ==
  ASSUME NEW ns \in Pool, Tree(ns), NEW d, IsDepth(ns, d), NEW i \in NodeId, ns[i].used,
         NEW n \in Nat, NEW up, AncestorsAre(ns, i, n, up)
  PROVE  \A k \in 0 .. n : k <= d[i] =>
           up[k] \in NodeId /\ ns[up[k]].used /\ d[up[k]] = d[i] - k
<1> DEFINE OnTheWay(k) == k <= d[i] => up[k] \in NodeId /\ ns[up[k]].used /\ d[up[k]] = d[i] - k
           Bad == {k \in 0 .. n : ~OnTheWay(k)}
<1> SUFFICES ASSUME Bad # {} PROVE FALSE
  OBVIOUS
<1>0. Bad \in SUBSET Nat
  OBVIOUS
<1>1. PICK m \in Bad : \A k \in Bad : m <= k
  <2> HIDE DEF Bad
  <2> QED BY <1>0, LeastNatural
<1>2. d[i] \in Nat /\ d[Root] = 0 /\ \A j \in NodeId : d[j] \in Nat
  BY Sizes DEF IsDepth
<1>3. OnTheWay(0)
  BY <1>2 DEF AncestorsAre
<1>4. m \in 1 .. n /\ m <= d[i]
  BY <1>1, <1>3
<1>5. m - 1 \in 0 .. n /\ m - 1 \notin Bad
  BY <1>1, <1>4
<1>6. PICK j \in NodeId : j = up[m - 1] /\ ns[j].used /\ d[j] = d[i] - (m - 1)
  BY <1>2, <1>4, <1>5
<1>7. j # Root
  BY <1>2, <1>4, <1>6
<1>8. ns[j].parent \in NodeId /\ ns[ns[j].parent].used /\ d[j] = d[ns[j].parent] + 1
  BY <1>6, <1>7, TreeLinks DEF IsDepth
<1>9. up[m] = ns[j].parent
  <2>1. up[m] = IF up[m - 1] = None THEN None ELSE ns[up[m - 1]].parent
    BY <1>4 DEF AncestorsAre
  <2> QED BY <1>6, <2>1, Sizes
<1>10. d[up[m]] = d[i] - m
  BY <1>2, <1>4, <1>6, <1>8, <1>9
<1>11. OnTheWay(m)
  BY <1>8, <1>9, <1>10
<1> QED BY <1>1, <1>11

\* There are fewer levels than nodes.
LEMMA DepthBelowSize ==
  ASSUME NEW ns \in Pool, Tree(ns), NEW d, IsDepth(ns, d), NEW i \in NodeId, ns[i].used
  PROVE  d[i] < MaxNodes
<1> SUFFICES ASSUME ~(d[i] < MaxNodes) PROVE FALSE
  OBVIOUS
<1>1. d[i] \in Nat /\ MaxNodes \in Nat /\ MaxNodes > 1
  BY Sizes DEF IsDepth
<1>2. PICK up : AncestorsAre(ns, i, MaxNodes, up)
  BY <1>1, AncestorsExist
<1>3. \A k \in 0 .. MaxNodes : up[k] \in NodeId /\ d[up[k]] = d[i] - k
  <2>1. \A k \in 0 .. MaxNodes : k <= d[i] => up[k] \in NodeId /\ d[up[k]] = d[i] - k
    BY <1>1, <1>2, LevelsGoUp
  <2> QED BY <1>1, <2>1
<1>4. up \in [0 .. MaxNodes -> NodeId]
  BY <1>2, <1>3 DEF AncestorsAre
<1>5. IsFiniteSet(0 .. MaxNodes) /\ Cardinality(0 .. MaxNodes) = MaxNodes + 1
  BY <1>1, FS_Interval
<1>6. IsFiniteSet(NodeId) /\ Cardinality(NodeId) = MaxNodes
  <2>1. MaxNodes - 1 \in Int /\ ~(0 > MaxNodes - 1)
    BY <1>1
  <2>2. IsFiniteSet(0 .. MaxNodes - 1) /\ Cardinality(0 .. MaxNodes - 1) = MaxNodes - 1 - 0 + 1
    BY <2>1, FS_Interval
  <2> QED BY <1>1, <2>2 DEF NodeId
<1>7. PICK a \in 0 .. MaxNodes, b \in 0 .. MaxNodes : a # b /\ up[a] = up[b]
  <2>1. Cardinality(NodeId) < Cardinality(0 .. MaxNodes)
    BY <1>1, <1>5, <1>6
  <2> QED BY <1>4, <1>5, <1>6, <2>1, FS_PigeonHole
<1>8. d[i] - a = d[i] - b
  BY <1>3, <1>7
<1> QED BY <1>1, <1>7, <1>8

\* From every node in use the parents lead to the root.
LEMMA AncestorsReachRoot ==
  ASSUME NEW ns, Sound(ns), NEW i \in NodeId, ns[i].used
  PROVE  \E k \in 0 .. MaxNodes : Ancestors(ns, i, MaxNodes)[k] = Root
<1>1. ns \in Pool /\ Tree(ns)
  BY DEF Sound
<1>2. PICK d : IsDepth(ns, d)
  BY DEF Sound, HasDepth
<1>3. PICK up : up = Ancestors(ns, i, MaxNodes)
  OBVIOUS
<1>4. AncestorsAre(ns, i, MaxNodes, up)
  BY <1>1, <1>3, AncestorsExist, Sizes
<1>5. d[i] \in 0 .. MaxNodes
  BY <1>1, <1>2, DepthBelowSize, Sizes DEF IsDepth
<1>6. up[d[i]] \in NodeId /\ ns[up[d[i]]].used /\ d[up[d[i]]] = d[i] - d[i]
  BY <1>1, <1>2, <1>4, <1>5, LevelsGoUp, Sizes
<1>7. up[d[i]] = Root
  <2>1. PICK j \in NodeId : j = up[d[i]] /\ ns[j].used /\ d[j] = 0
    BY <1>5, <1>6
  <2>2. j # Root => d[j] = d[ns[j].parent] + 1 /\ d[ns[j].parent] \in Nat
    BY <1>1, <1>2, <2>1, TreeLinks DEF IsDepth
  <2> QED BY <2>1, <2>2
<1> QED BY <1>3, <1>5, <1>7

----------------------------------------------------------------------------
(* Paths as texts                                                            *)

LEMMA PathIsNames ==
  ASSUME NEW ns \in Pool, NEW i
  PROVE  PathOf(ns, i) \in Seq(Text)
<1>1. CASE ~IsNode(ns, i)
  <2>1. PathOf(ns, i) = <<>>
    BY <1>1 DEF PathOf
  <2> QED BY <2>1, EmptySeq
<1>2. CASE IsNode(ns, i)
  <2>1. i \in NodeId
    BY <1>2 DEF IsNode
  <2>2. PICK up : up = Ancestors(ns, i, 7)
    OBVIOUS
  <2>3. AncestorsAre(ns, i, 7, up)
    BY <2>1, <2>2, AncestorsExist
  <2>4. /\ \A k \in 0 .. 7 : up[k] \in NodeId \cup {None}
        /\ \A k \in 1 .. 7 : up[k - 1] = None => up[k] = None
    BY <2>3 DEF AncestorsAre
  <2> DEFINE Ends == {k \in 0 .. 8 : k = 8 \/ up[k] = None}
  <2>5. PICK m \in Ends : \A k \in Ends : m <= k
    <3>1. Ends \in SUBSET Nat /\ 8 \in Ends
      OBVIOUS
    <3> HIDE DEF Ends
    <3> QED BY <3>1, LeastNatural
  <2>6. m \in 0 .. 8 /\ \A k \in 0 .. 7 : k < m => up[k] # None
    BY <2>5
  <2>7. \A k \in 0 .. 7 : k >= m => up[k] = None
    <3> DEFINE Bad == {k \in 0 .. 7 : k >= m /\ up[k] # None}
    <3> SUFFICES ASSUME Bad # {} PROVE FALSE
      OBVIOUS
    <3>1. PICK b \in Bad : \A k \in Bad : b <= k
      <4>1. Bad \in SUBSET Nat
        OBVIOUS
      <4> HIDE DEF Bad
      <4> QED BY <4>1, LeastNatural
    <3>2. b # m
      BY <2>5, <3>1
    <3>3. b - 1 \in 0 .. 7 /\ b - 1 >= m /\ b \in 1 .. 7
      BY <2>6, <3>1, <3>2
    <3>4. b - 1 \notin Bad
      BY <3>1, <3>3
    <3> QED BY <2>4, <3>1, <3>3, <3>4
  <2>8. {k \in 0 .. 7 : up[k] # None} = 0 .. m - 1
    BY <2>6, <2>7
  <2>9. Cardinality(0 .. m - 1) = m
    <3>1. m \in Int /\ m - 1 \in Int
      BY <2>6
    <3>2. Cardinality(0 .. m - 1) = IF 0 > m - 1 THEN 0 ELSE m - 1 - 0 + 1
      BY <3>1, FS_Interval
    <3> QED BY <2>6, <3>2
  <2>10. PathOf(ns, i) = [k \in 1 .. m - 1 |-> ns[up[m - 1 - k]].name]
    BY <1>2, <2>2, <2>8, <2>9 DEF PathOf
  <2>11. ASSUME NEW k \in 1 .. m - 1 PROVE ns[up[m - 1 - k]].name \in Text
    <3>1. m - 1 - k \in 0 .. 7 /\ m - 1 - k < m
      BY <2>6
    <3>2. up[m - 1 - k] \in NodeId
      BY <2>4, <2>6, <3>1
    <3> QED BY <3>2 DEF Pool, NodeType
  <2>12. PICK n \in Nat : 1 .. n = 1 .. m - 1
    <3>1. CASE m = 0
      <4>1. 1 .. 0 = 1 .. m - 1
        BY <3>1
      <4> QED BY <4>1
    <3>2. CASE m # 0
      <4>1. m - 1 \in Nat
        BY <2>6, <3>2
      <4> QED BY <4>1
    <3> QED BY <3>1, <3>2
  <2>13. PathOf(ns, i) = [k \in 1 .. n |-> ns[up[m - 1 - k]].name]
    BY <2>10, <2>12
  <2>14. PathOf(ns, i) \in [1 .. n -> Text]
    BY <2>11, <2>12, <2>13
  <2> QED BY <2>14, SeqDef
<1> QED BY <1>1, <1>2

LEMMA NodeTextIsText ==
  ASSUME nodes \in Pool, NEW i
  PROVE  NodeText(i) \in Text
<1> DEFINE S == Seq(AllWords)
<1>1. PICK names \in Seq(Text) : names = PathOf(nodes, i)
  BY PathIsNames
<1>2. PICK n \in Nat : n = Len(names)
  BY <1>1
<1> DEFINE F == [q \in S \X (1 .. n) |-> q[1] \o names[q[2]].words]
<1>3. \A k \in 1 .. n : names[k].words \in S
  <2>1. \A k \in 1 .. n : names[k] \in Text
    BY <1>1, <1>2, ElementOfSeq
  <2> QED BY <2>1 DEF Text
<1>4. \A s \in S, k \in 1 .. n : s \o names[k].words \in S
  BY <1>3, ConcatProperties
<1>5. \A s \in S, k \in 1 .. n : F[<<s, k>>] = s \o names[k].words
  <2> HIDE DEF S
  <2> QED OBVIOUS
<1>6. Closed(n, S, F)
  <2> HIDE DEF F, S
  <2> QED BY <1>4, <1>5 DEF Closed
<1>7. <<>> \in S
  OBVIOUS
<1>8. PICK g : Follows(g, n, S, <<>>, F)
  <2> HIDE DEF S, F
  <2>1. Solvable(n, S, <<>>, F)
    BY <1>6, <1>7, RecursionExists
  <2> QED BY <2>1 DEF Solvable
<1> DEFINE Joins(w) == w = [k \in 0 .. n |-> IF k = 0 THEN <<>> ELSE w[k - 1] \o names[k].words]
<1>9. Joins(g)
  <2> DEFINE h == [k \in 0 .. n |-> IF k = 0 THEN <<>> ELSE g[k - 1] \o names[k].words]
  <2>1. ASSUME NEW k \in 0 .. n PROVE h[k] = g[k]
    <3>1. CASE k = 0
      BY <1>8, <3>1 DEF Follows
    <3>2. CASE k # 0
      <4>1. k \in 1 .. n /\ g[k - 1] \in S
        <5> HIDE DEF S, F
        <5> QED BY <1>8, <3>2 DEF Follows
      <4>2. g[k] = F[<<g[k - 1], k>>]
        <5> HIDE DEF S, F
        <5> QED BY <1>8, <4>1 DEF Follows
      <4>3. g[k] = g[k - 1] \o names[k].words
        <5> HIDE DEF F, S
        <5> QED BY <1>5, <4>1, <4>2
      <4> QED BY <3>2, <4>3
    <3> QED BY <3>1, <3>2
  <2>2. g = [k \in 0 .. n |-> g[k]]
    <3> HIDE DEF S, F
    <3> QED BY <1>8 DEF Follows
  <2>3. h = [k \in 0 .. n |-> h[k]]
    OBVIOUS
  <2>4. g = h
    <3> HIDE DEF h
    <3> QED BY <2>1, <2>2, <2>3
  <2> QED BY <2>4
<1>10. PICK w : w = (CHOOSE x : Joins(x))
  OBVIOUS
<1>11. Joins(w)
  <2> HIDE DEF Joins
  <2> QED BY <1>9, <1>10
<1>12. w[0] = <<>> /\ \A k \in 1 .. n : w[k] = w[k - 1] \o names[k].words
  <2>1. \A k \in 0 .. n : w[k] = IF k = 0 THEN <<>> ELSE w[k - 1] \o names[k].words
    BY <1>11
  <2>2. w[0] = <<>>
    BY <2>1
  <2>3. ASSUME NEW k \in 1 .. n PROVE w[k] = w[k - 1] \o names[k].words
    <3>1. k \in 0 .. n /\ k # 0
      OBVIOUS
    <3> QED BY <2>1, <3>1, Zenon
  <2> QED BY <2>2, <2>3
<1>13. \A k \in 0 .. n : w[k] \in S
  <2>1. \A k \in 1 .. n : w[k - 1] \in S => w[k] \in S
    <3> HIDE DEF S
    <3> QED BY <1>4, <1>12
  <2>2. w[0] \in S
    BY <1>7, <1>12
  <2> HIDE DEF S
  <2> QED BY <2>1, <2>2, RecursionStays
<1>14. NodeText(i) = [abs |-> TRUE, words |-> w[n]]
  BY <1>1, <1>2, <1>10 DEF NodeText
<1>15. w[n] \in Seq(AllWords)
  BY <1>13
<1> QED BY <1>14, <1>15 DEF Text

LEMMA JoinedIsText ==
  ASSUME NEW c \in Text, NEW t \in Text
  PROVE  Joined(c, t) \in Text
<1>1. c.words \o t.words \in Seq(AllWords)
  BY ConcatProperties DEF Text
<1> QED BY <1>1 DEF Joined, Text

\* The file a command writes to: found, or made if it can be.
LEMMA FoundOrMadeIsSound ==
  ASSUME NEW ns, Sound(ns), NEW i \in NodeId \cup {None}, NEW p, NEW t \in Text
  PROVE  /\ Sound(FoundOrMade(ns, i, p, t)[1])
         /\ FoundOrMade(ns, i, p, t)[2] \in NodeId \cup {None}
<1>1. CASE i = None /\ MayAdd(ns, p, t)
  <2>1. Sound(Added(ns, p, t, FALSE))
    BY <1>1, AddedIsSound
  <2>2. Fresh(ns) \in NodeId
    BY <1>1, FreshIsUnused DEF MayAdd, Sound
  <2> QED BY <1>1, <2>1, <2>2 DEF FoundOrMade
<1> QED BY <1>1 DEF FoundOrMade

----------------------------------------------------------------------------
(* The tree after the boot                                                   *)

LEMMA EmptyPoolIsSound == Sound(EmptyPool)
<1> DEFINE r == [Free EXCEPT !.used = TRUE, !.dir = TRUE, !.name = RootText]
<1>1. r \in NodeType /\ Free \in NodeType
  BY FreeIsNode, KnownTexts DEF NodeType
<1>2. PICK ns : ns = EmptyPool
  OBVIOUS
<1>3. ns[Root] = r /\ \A i \in NodeId \ {Root} : ns[i] = Free
  BY <1>2, Sizes DEF EmptyPool, RootText
<1>4. /\ r.used /\ r.dir /\ r.parent = None /\ r.children = <<>> /\ r.content = <<>>
      /\ ~Free.used /\ ~Free.dir /\ Free.children = <<>> /\ Free.content = <<>>
  BY DEF Free
<1>5. ns \in Pool
  <2>1. ns = [i \in NodeId |-> ns[i]]
    BY <1>2 DEF EmptyPool
  <2>2. \A i \in NodeId : ns[i] \in NodeType
    <3> HIDE DEF r
    <3> QED BY <1>1, <1>3
  <2> QED BY <2>1, <2>2 DEF Pool
<1> HIDE DEF r
<1>6. \A i \in NodeId : /\ ns[i].children = <<>> /\ Len(ns[i].children) = 0
                        /\ DOMAIN ns[i].children = {} /\ Len(ns[i].content) = 0
                        /\ ns[i].content = <<>>
  BY <1>3, <1>4
<1>7. Tree(ns)
  <2>1. ns[Root].used /\ ns[Root].dir /\ ns[Root].parent = None
    BY <1>3, <1>4
  <2>2. \A i \in NodeId \ {Root} : ~ns[i].used
    BY <1>3, <1>4
  <2>3. \A i \in NodeId : 1 .. Len(ns[i].children) = {}
    BY <1>6
  <2> QED BY <1>5, <2>1, <2>2, <2>3, LinksTree
<1>8. Blank(ns)
  BY <1>3, <1>4 DEF Blank
<1>9. InBounds(ns) /\ Plain(ns) /\ NamesApart(ns)
  BY <1>6, Sizes DEF InBounds, Plain, NamesApart
<1>10. HasDepth(ns)
  <2>1. PICK d : d = [i \in NodeId |-> 0]
    OBVIOUS
  <2>2. IsDepth(ns, d)
    BY <1>3, <1>4, <2>1, Sizes DEF IsDepth
  <2> QED BY <2>2 DEF HasDepth
<1> QED BY <1>2, <1>5, <1>7, <1>8, <1>9, <1>10 DEF Sound

\* /home is the first directory of the root.
HomeThere(ns) ==
  LET h == ns[Root].children[1]
  IN /\ Len(ns[Root].children) > 0
     /\ h \in NodeId /\ ns[h].used /\ ns[h].dir /\ ns[h].name = Word("home")

LEMMA AddedKeepsHome ==
  ASSUME NEW ns, Sound(ns), HomeThere(ns), NEW p, NEW t \in Text, NEW dir \in BOOLEAN
  PROVE  HomeThere(AddedIfPossible(ns, p, t, dir))
<1>1. CASE MayAdd(ns, p, t)
  <2>1. PICK new, q : new = Added(ns, p, t, dir) /\ Grown(ns, new, p, q, t, dir)
    BY <1>1, AddedGrows
  <2>2. PICK h : h = ns[Root].children[1]
    OBVIOUS
  <2>3. /\ Len(ns[Root].children) \in Nat /\ Len(ns[Root].children) > 0
        /\ h \in NodeId /\ ns[h].used /\ ns[h].dir /\ ns[h].name = Word("home")
    BY <2>2, Sizes DEF HomeThere, Sound, Pool, NodeType
  <2>4. h # q /\ Root # q
    BY <2>1, <2>3 DEF Grown
  <2>5. new[h].used /\ new[h].dir /\ new[h].name = Word("home")
    BY <2>1, <2>3, <2>4 DEF Grown
  <2>6. Len(new[Root].children) > 0 /\ new[Root].children[1] = h
    <3>1. CASE p = Root
      <4>1. 1 \in 1 .. Len(ns[Root].children)
        BY <2>3
      <4>2. /\ Len(new[Root].children) = Len(ns[Root].children) + 1
            /\ new[Root].children[1] = ns[Root].children[1]
        BY <2>1, <3>1, <4>1 DEF Grown
      <4> QED BY <2>2, <2>3, <4>2
    <3>2. CASE p # Root
      <4>1. new[Root] = ns[Root]
        BY <2>1, <2>4, <3>2, Sizes DEF Grown
      <4> QED BY <2>2, <2>3, <4>1
    <3> QED BY <3>1, <3>2
  <2>7. HomeThere(new)
    BY <2>3, <2>5, <2>6 DEF HomeThere
  <2> QED BY <1>1, <2>1, <2>7 DEF AddedIfPossible
<1> QED BY <1>1 DEF AddedIfPossible

LEMMA WrittenKeepsHome ==
  ASSUME NEW ns, Sound(ns), HomeThere(ns), NEW i, NEW s \in Seq(Byte)
  PROVE  HomeThere(Written(ns, i, s))
<1>1. CASE IsFile(ns, i)
  <2>1. PICK new, c : new = Written(ns, i, s) /\ Rewritten(ns, new, i, c)
    BY <1>1, CutFits, ContentRewritten DEF Written, Sound
  <2>2. \A j \in NodeId : /\ new[j].used = ns[j].used /\ new[j].dir = ns[j].dir
                          /\ new[j].name = ns[j].name /\ new[j].children = ns[j].children
    BY <2>1 DEF Rewritten
  <2>3. HomeThere(new)
    BY <2>2, Sizes DEF HomeThere
  <2> QED BY <2>1, <2>3
<1> QED BY <1>1 DEF Written

\* ... and found there under its name.
LEMMA HomeResolves ==
  ASSUME NEW ns, Sound(ns), HomeThere(ns)
  PROVE  Resolve(ns, HomeText) \in NodeId
<1>1. ns \in Pool /\ Tree(ns)
  BY DEF Sound
<1>2. PICK t : t = HomeText
  OBVIOUS
<1>3. t \in Text /\ t.abs /\ Len(t.words) = 1 /\ t.words[1] = "home"
  BY <1>2, KnownTexts DEF HomeText
<1>4. PICK w : WalksTo(ns, t, w)
  BY <1>1, <1>3, ResolveWalks DEF Text
<1>5. Resolve(ns, t) = w[1] /\ w[0] = Root /\ w[1] = Child(ns, Root, "home")
      /\ w[1] \in NodeId \cup {None}
  <2>1. 1 \in 1 .. Len(t.words) /\ 1 \in 0 .. Len(t.words)
    BY <1>3
  <2>2. w[1] = IF w[1 - 1] = None THEN None ELSE Child(ns, w[1 - 1], t.words[1])
    BY <1>4, <2>1 DEF WalksTo
  <2>3. w[0] = Root /\ Root # None
    BY <1>4, Sizes DEF WalksTo
  <2> QED BY <1>3, <1>4, <2>1, <2>2, <2>3 DEF WalksTo
<1>6. Child(ns, Root, "home") = Find(ns, Root, Word("home"))
  <2>1. "home" \notin Long
    BY BootAssumption, RamfsAssumption
  <2> QED BY <2>1 DEF Child, Fitted
<1>7. Find(ns, Root, Word("home")) # None
  <2>1. Root \in NodeId /\ ns[Root].used /\ ns[Root].dir
    BY <1>1, TreeLinks, Sizes
  <2>2. DOMAIN ns[Root].children = 1 .. Len(ns[Root].children)
        /\ Len(ns[Root].children) \in Nat
    BY <1>1, <2>1 DEF Pool, NodeType
  <2>3. 1 \in DOMAIN ns[Root].children
    BY <2>2 DEF HomeThere
  <2>4. /\ ns[ns[Root].children[1]].used
        /\ ns[ns[Root].children[1]].name = Word("home")
    BY DEF HomeThere
  <2> QED BY <1>1, <2>1, <2>3, <2>4, NothingFound
<1> QED BY <1>2, <1>5, <1>6, <1>7

SoundPools == {ns \in Pool : Sound(ns)}
HomePools  == {ns \in SoundPools : HomeThere(ns)}

LEMMA GenTextIsBytes ==
  ASSUME NEW f \in Words, NEW k \in [Sources -> Versions]
  PROVE  GenText(f, k) \in Seq(Byte)
<1>1. \A s \in {"ticks", "heap", "sched", "net"} : k[s] \in Byte
  BY DEF Sources, Byte, Versions
<1>2. /\ UptimeText(k) \in Seq(Byte) /\ MeminfoText(k) \in Seq(Byte)
      /\ LoadavgText(k) \in Seq(Byte) /\ TasksText(k) \in Seq(Byte)
  <2>1. \A b \in {"uptime", "meminfo", "loadavg", "tasks"} : b \in Byte
    BY DEF Byte
  <2> QED BY <1>1, <2>1 DEF UptimeText, MeminfoText, LoadavgText, TasksText
<1>3. /\ NetText(k) \in Seq(Byte) /\ RandomText(k) \in Seq(Byte)
      /\ CpuinfoText \in Seq(Byte) /\ Fb0Text \in Seq(Byte)
  <2>1. \A b \in {"net", "random", "cpuinfo", "fb0"} : b \in Byte
    BY DEF Byte
  <2> QED BY <1>1, <2>1 DEF NetText, RandomText, CpuinfoText, Fb0Text
<1>4. <<f>> \in Seq(Byte) /\ <<>> \in Seq(Byte)
  <2>1. f \in Byte
    BY DEF Byte
  <2> QED BY <2>1
<1> QED BY <1>2, <1>3, <1>4 DEF GenText

LEMMA FirstKernelType == FirstKernel \in [Sources -> Versions]
BY DEF FirstKernel, Versions

\* The entries of ramfs_init: the directories, /home before all, then the files.
Entries == Text \X Words \X BOOLEAN \X Seq(Byte)
LEMMA BootListType ==
  BootList \in Seq(Entries) /\ Len(BootList) > 0 /\ BootList[1] = <<RootText, "home", TRUE, <<>>>>
<1>1. PICK A, B : /\ A = [k \in DOMAIN BootDirs |-> <<RootText, BootDirs[k], TRUE, <<>>>>]
                  /\ B = [k \in DOMAIN BootFiles |-> <<HomeText, BootFiles[k], FALSE, <<"t">>>>]
  OBVIOUS
<1>2. <<>> \in Seq(Byte) /\ <<"t">> \in Seq(Byte)
  <2>1. "t" \in Byte
    BY DEF Byte
  <2> QED BY <2>1
<1>3. PICK m \in Nat, n \in Nat :
        /\ m = Len(BootDirs) /\ BootDirs \in [1 .. m -> Words] /\ DOMAIN BootDirs = 1 .. m
        /\ n = Len(BootFiles) /\ BootFiles \in [1 .. n -> Words] /\ DOMAIN BootFiles = 1 .. n
  BY BootAssumption, LenProperties
<1>4. \A k \in 1 .. m : <<RootText, BootDirs[k], TRUE, <<>>>> \in Entries
  <2>1. \A k \in 1 .. m : BootDirs[k] \in Words
    BY <1>3
  <2> QED BY <1>2, <2>1, KnownTexts DEF Entries
<1>5. \A k \in 1 .. n : <<HomeText, BootFiles[k], FALSE, <<"t">>>> \in Entries
  <2>1. \A k \in 1 .. n : BootFiles[k] \in Words
    BY <1>3
  <2> QED BY <1>2, <2>1, KnownTexts DEF Entries
<1>6. A \in [1 .. m -> Entries] /\ A \in Seq(Entries)
  <2> HIDE DEF Entries
  <2>1. A \in [1 .. m -> Entries]
    BY <1>1, <1>3, <1>4
  <2> QED BY <2>1, SeqDef
<1>7. B \in Seq(Entries)
  <2> HIDE DEF Entries
  <2>1. B \in [1 .. n -> Entries]
    BY <1>1, <1>3, <1>5
  <2> QED BY <2>1, SeqDef
<1>8. m > 0 /\ BootDirs[1] = "home"
  BY <1>3, BootAssumption
<1>9. Len(A) = m
  BY <1>6
<1>10. A[1] = <<RootText, "home", TRUE, <<>>>>
  <2>1. 1 \in DOMAIN BootDirs
    BY <1>3, <1>8
  <2>2. A[1] = <<RootText, BootDirs[1], TRUE, <<>>>>
    BY <1>1, <2>1
  <2> QED BY <1>8, <2>2
<1>11. BootList = A \o B
  BY <1>1 DEF BootList
<1>12. /\ A \o B \in Seq(Entries) /\ Len(A \o B) = Len(A) + Len(B)
       /\ \A k \in 1 .. Len(A) + Len(B) : (A \o B)[k] = IF k <= Len(A) THEN A[k] ELSE B[k - Len(A)]
  BY <1>6, <1>7, ConcatProperties
<1>13. Len(B) \in Nat
  BY <1>7
<1>14. (A \o B)[1] = A[1]
  BY <1>8, <1>9, <1>12, <1>13
<1> QED BY <1>8, <1>9, <1>10, <1>11, <1>12, <1>13, <1>14

LEMMA PlantedIsSound ==
  ASSUME NEW ns, Sound(ns), NEW e \in Entries
  PROVE  Sound(Planted(ns, e)) /\ (HomeThere(ns) => HomeThere(Planted(ns, e)))
<1>1. e[1] \in Text /\ e[2] \in AllWords /\ e[3] \in BOOLEAN /\ e[4] \in Seq(Byte)
  BY DEF Entries, AllWords
<1>2. PICK in : in = AddedIfPossible(ns, Resolve(ns, e[1]), Word(e[2]), e[3])
  OBVIOUS
<1>3. Sound(in) /\ (HomeThere(ns) => HomeThere(in))
  BY <1>1, <1>2, WordIsText, AddedIfPossibleIsSound, AddedKeepsHome
<1>4. Sound(Written(in, Fresh(ns), e[4])) /\ (HomeThere(in) => HomeThere(Written(in, Fresh(ns), e[4])))
  BY <1>1, <1>3, WrittenIsSound, WrittenKeepsHome
<1> QED BY <1>2, <1>3, <1>4 DEF Planted

LEMMA FirstPlanted ==
  HomeThere(Planted(EmptyPool, <<RootText, "home", TRUE, <<>>>>))
<1>1. PICK ns : ns = EmptyPool /\ Sound(ns)
  BY EmptyPoolIsSound
<1>2. ns \in Pool /\ Tree(ns)
  BY <1>1 DEF Sound
<1>3. Resolve(ns, RootText) = Root
  <2>1. RootText.words = <<>> /\ RootText.abs
    BY DEF RootText
  <2>2. PICK w : WalksTo(ns, RootText, w)
    BY <1>2, KnownTexts, ResolveWalks DEF Text
  <2>3. Len(RootText.words) = 0
    BY <2>1
  <2> QED BY <2>1, <2>2, <2>3 DEF WalksTo
<1>4. Word("home") \in Text
  BY WordIsText DEF AllWords
<1>5. Root \in NodeId /\ ns[Root].used /\ ns[Root].dir
  BY <1>2, TreeLinks, Sizes
<1>6. ns[Root].children = <<>>
  BY <1>1, Sizes DEF EmptyPool, Free
<1>7. MayAdd(ns, Root, Word("home"))
  <2>1. IsDir(ns, Root)
    BY <1>5 DEF IsDir, IsNode
  <2>2. Matches(ns, Root, Word("home")) = {}
    BY <1>6 DEF Matches
  <2>3. Find(ns, Root, Word("home")) = None
    BY <2>2 DEF Find
  <2>4. 1 \in Unused(ns)
    BY <1>1, Sizes DEF Unused, EmptyPool, Free, NodeId, Root
  <2>5. Len(ns[Root].children) < MaxChildren
    BY <1>6, Sizes
  <2> QED BY <2>1, <2>3, <2>4, <2>5 DEF MayAdd
<1>8. PICK new, q : new = Added(ns, Root, Word("home"), TRUE)
                    /\ Grown(ns, new, Root, q, Word("home"), TRUE)
  BY <1>1, <1>4, <1>7, AddedGrows
<1>9. Stored(Word("home")) = Word("home")
  <2>1. "home" \notin Long
    BY BootAssumption, RamfsAssumption
  <2>2. Word("home").abs = FALSE /\ Len(Word("home").words) = 1 /\ Word("home").words[1] = "home"
    BY DEF Word
  <2> QED BY <2>1, <2>2 DEF Stored, Fitted
<1>10. Len(new[Root].children) > 0 /\ new[Root].children[1] = q
  <2>1. Len(ns[Root].children) = 0
    BY <1>6
  <2>2. /\ Len(new[Root].children) = Len(ns[Root].children) + 1
        /\ new[Root].children[Len(ns[Root].children) + 1] = q
    BY <1>8 DEF Grown
  <2> QED BY <2>1, <2>2
<1>11. q \in NodeId /\ new[q].used /\ new[q].dir /\ new[q].name = Word("home")
  BY <1>8, <1>9 DEF Grown
<1>12. HomeThere(new)
  BY <1>10, <1>11 DEF HomeThere
<1>13. PICK e : e = <<RootText, "home", TRUE, <<>>>>
  OBVIOUS
<1>14. e[1] = RootText /\ e[2] = "home" /\ e[3] = TRUE
  BY <1>13
<1>15. Planted(ns, e) = new
  BY <1>3, <1>7, <1>8, <1>14 DEF Planted, AddedIfPossible
<1> QED BY <1>1, <1>12, <1>13, <1>15

\* The tree of ramfs_init is sound, and /home is in it.
LEMMA BootTreeIsSound == BootTree \in HomePools
<1> DEFINE n == Len(BootList)
<1>1. n \in Nat /\ n > 0 /\ EmptyPool \in SoundPools
  <2>1. Len(BootList) \in Nat
    BY BootListType, LenProperties
  <2>2. EmptyPool \in SoundPools
    BY EmptyPoolIsSound DEF SoundPools, Sound
  <2> QED BY <2>1, <2>2, BootListType
<1>2. \A s \in SoundPools, k \in 1 .. n : Planted(s, BootList[k]) \in SoundPools
  <2>1. \A k \in 1 .. n : BootList[k] \in Entries
    BY BootListType, ElementOfSeq
  <2> QED BY <2>1, PlantedIsSound DEF SoundPools, Sound
<1> DEFINE F == [q \in SoundPools \X (1 .. n) |-> Planted(q[1], BootList[q[2]])]
<1>3. \A s \in SoundPools, k \in 1 .. n : F[<<s, k>>] = Planted(s, BootList[k])
  <2> HIDE DEF n
  <2> QED OBVIOUS
<1>4. Closed(n, SoundPools, F)
  <2> HIDE DEF n, F
  <2> QED BY <1>2, <1>3 DEF Closed
<1>5. PICK g : Follows(g, n, SoundPools, EmptyPool, F)
  <2> HIDE DEF n, F
  <2>1. Solvable(n, SoundPools, EmptyPool, F)
    BY <1>1, <1>4, RecursionExists
  <2> QED BY <2>1 DEF Solvable
<1>6. g \in [0 .. n -> SoundPools] /\ g[0] = EmptyPool
      /\ \A k \in 1 .. n : g[k] = Planted(g[k - 1], BootList[k])
  <2> HIDE DEF n, F
  <2>1. g \in [0 .. n -> SoundPools] /\ g[0] = EmptyPool /\ \A k \in 1 .. n : g[k] = F[<<g[k - 1], k>>]
    BY <1>5 DEF Follows
  <2>2. \A k \in 1 .. n : g[k - 1] \in SoundPools
    BY <1>1, <2>1
  <2> QED BY <1>3, <2>1, <2>2
<1> HIDE DEF F
<1> DEFINE Grows(w) == w = [k \in 0 .. n |-> IF k = 0 THEN EmptyPool ELSE Planted(w[k - 1], BootList[k])]
<1>7. Grows(g)
  <2> DEFINE h == [k \in 0 .. n |-> IF k = 0 THEN EmptyPool ELSE Planted(g[k - 1], BootList[k])]
  <2> HIDE DEF n
  <2>1. ASSUME NEW k \in 0 .. n PROVE h[k] = g[k]
    <3>1. CASE k = 0
      BY <1>6, <3>1
    <3>2. CASE k # 0
      <4>1. k \in 1 .. n
        BY <1>1, <3>2
      <4> QED BY <1>6, <3>2, <4>1
    <3> QED BY <3>1, <3>2
  <2>2. g = [k \in 0 .. n |-> g[k]]
    BY <1>6
  <2>3. h = [k \in 0 .. n |-> h[k]]
    OBVIOUS
  <2>4. g = h
    <3> HIDE DEF h
    <3> QED BY <2>1, <2>2, <2>3
  <2> QED BY <2>4
<1>8. PICK w : w = (CHOOSE x : Grows(x))
  OBVIOUS
<1>9. Grows(w)
  <2> HIDE DEF Grows
  <2> QED BY <1>7, <1>8
<1>10. w[0] = EmptyPool /\ \A k \in 1 .. n : w[k] = Planted(w[k - 1], BootList[k])
  <2>1. \A k \in 0 .. n : w[k] = IF k = 0 THEN EmptyPool ELSE Planted(w[k - 1], BootList[k])
    BY <1>9
  <2>2. w[0] = EmptyPool
    BY <1>1, <2>1
  <2>3. ASSUME NEW k \in 1 .. n PROVE w[k] = Planted(w[k - 1], BootList[k])
    <3>1. k \in 0 .. n /\ k # 0
      BY <1>1
    <3> QED BY <2>1, <3>1, Zenon
  <2> QED BY <2>2, <2>3
<1>11. BootTree = w[n]
  BY <1>8 DEF BootTree
<1>12. \A k \in 1 .. n : w[k - 1] \in SoundPools => w[k] \in SoundPools
  BY <1>2, <1>10
<1> DEFINE T == [k \in 0 .. n |-> IF k = 0 THEN SoundPools ELSE HomePools]
<1>13. w[0] \in T[0]
  BY <1>1, <1>10
<1>14. ASSUME NEW k \in 1 .. n, w[k - 1] \in T[k - 1] PROVE w[k] \in T[k]
  <2>1. BootList[k] \in Entries /\ k \in 0 .. n /\ k - 1 \in 0 .. n /\ k # 0
    BY <1>1, BootListType, ElementOfSeq
  <2>2. w[k - 1] \in SoundPools /\ (k # 1 => HomeThere(w[k - 1]))
    BY <1>14, <2>1 DEF HomePools
  <2>3. w[k] = Planted(w[k - 1], BootList[k])
    BY <1>10
  <2>4. w[k] \in SoundPools
    BY <1>2, <2>2, <2>3
  <2>5. HomeThere(w[k])
    <3>1. CASE k = 1
      <4>1. w[0] = EmptyPool /\ BootList[1] = <<RootText, "home", TRUE, <<>>>>
        BY <1>10, BootListType
      <4>2. w[1] = Planted(w[0], BootList[1])
        BY <2>3, <3>1
      <4> QED BY <3>1, <4>1, <4>2, FirstPlanted
    <3>2. CASE k # 1
      <4>1. Sound(w[k - 1]) /\ HomeThere(w[k - 1])
        BY <2>2, <3>2 DEF SoundPools
      <4> QED BY <2>1, <2>3, <4>1, PlantedIsSound
    <3> QED BY <3>1, <3>2
  <2> QED BY <2>1, <2>4, <2>5 DEF HomePools
<1>15. \A k \in 0 .. n : w[k] \in T[k]
  <2> HIDE DEF T, n
  <2> QED BY <1>1, <1>13, <1>14, RecursionGoesOn
<1>16. w[n] \in T[n] /\ T[n] = HomePools
  BY <1>1, <1>15
<1> QED BY <1>11, <1>16

LEMMA GenFilesType ==
  /\ Len(GenFiles) \in Nat
  /\ \A g \in 1 .. Len(GenFiles) : /\ GenFiles[g][1] \in Words /\ GenFiles[g][2] \in Words
                                   /\ GenDir(g) \in Text /\ GenPath(g) \in Text
<1>1. Len(GenFiles) \in Nat
  BY BootAssumption, LenProperties
<1>2. ASSUME NEW g \in 1 .. Len(GenFiles)
      PROVE  /\ GenFiles[g][1] \in Words /\ GenFiles[g][2] \in Words
             /\ GenDir(g) \in Text /\ GenPath(g) \in Text
  <2>1. GenFiles[g] \in Words \X Words
    BY BootAssumption, ElementOfSeq
  <2>2. GenFiles[g][1] \in AllWords /\ GenFiles[g][2] \in AllWords
    BY <2>1 DEF AllWords
  <2>3. <<GenFiles[g][1]>> \in Seq(AllWords) /\ <<GenFiles[g][1], GenFiles[g][2]>> \in Seq(AllWords)
    BY <2>2
  <2> QED BY <2>1, <2>3 DEF GenDir, GenPath, Text
<1> QED BY <1>1, <1>2

LEMMA WithGenFileIsSound ==
  ASSUME NEW ns \in HomePools, NEW g \in 1 .. Len(GenFiles)
  PROVE  WithGenFile(ns, g) \in HomePools
<1>1. GenFiles[g][1] \in AllWords /\ GenFiles[g][2] \in AllWords
  BY GenFilesType DEF AllWords
<1>2. Word(GenFiles[g][1]) \in Text /\ Word(GenFiles[g][2]) \in Text
  BY <1>1, WordIsText
<1>3. Sound(ns) /\ HomeThere(ns)
  BY DEF HomePools, SoundPools
<1>4. PICK in : in = AddedIfPossible(ns, Root, Word(GenFiles[g][1]), TRUE)
  OBVIOUS
<1>5. Sound(in) /\ HomeThere(in)
  BY <1>2, <1>3, <1>4, AddedIfPossibleIsSound, AddedKeepsHome
<1>6. PICK new : new = AddedIfPossible(in, Resolve(in, GenDir(g)), Word(GenFiles[g][2]), FALSE)
  OBVIOUS
<1>7. Sound(new) /\ HomeThere(new)
  BY <1>2, <1>5, <1>6, AddedIfPossibleIsSound, AddedKeepsHome
<1>8. WithGenFile(ns, g) = new
  BY <1>4, <1>6 DEF WithGenFile
<1> QED BY <1>7, <1>8 DEF HomePools, SoundPools, Sound

\* procfs_init and devfs_init keep it so, whatever they can make ...
LEMMA MountTreeIsSound == MountTree \in HomePools
<1> DEFINE n == Len(GenFiles)
<1>1. n \in Nat /\ BootTree \in HomePools
  BY GenFilesType, BootTreeIsSound
<1>2. \A s \in HomePools, k \in 1 .. n : WithGenFile(s, k) \in HomePools
  BY WithGenFileIsSound
<1> DEFINE F == [q \in HomePools \X (1 .. n) |-> WithGenFile(q[1], q[2])]
<1>3. \A s \in HomePools, k \in 1 .. n : F[<<s, k>>] = WithGenFile(s, k)
  <2> HIDE DEF n
  <2> QED OBVIOUS
<1>4. Closed(n, HomePools, F)
  <2> HIDE DEF n, F
  <2> QED BY <1>2, <1>3 DEF Closed
<1>5. PICK g : Follows(g, n, HomePools, BootTree, F)
  <2> HIDE DEF n, F
  <2>1. Solvable(n, HomePools, BootTree, F)
    BY <1>1, <1>4, RecursionExists
  <2> QED BY <2>1 DEF Solvable
<1>6. g \in [0 .. n -> HomePools] /\ g[0] = BootTree
      /\ \A k \in 1 .. n : g[k] = WithGenFile(g[k - 1], k)
  <2> HIDE DEF n, F
  <2>1. g \in [0 .. n -> HomePools] /\ g[0] = BootTree /\ \A k \in 1 .. n : g[k] = F[<<g[k - 1], k>>]
    BY <1>5 DEF Follows
  <2>2. \A k \in 1 .. n : g[k - 1] \in HomePools
    BY <1>1, <2>1
  <2> QED BY <1>3, <2>1, <2>2
<1> HIDE DEF F
<1> DEFINE Grows(w) == w = [k \in 0 .. n |-> IF k = 0 THEN BootTree ELSE WithGenFile(w[k - 1], k)]
<1>7. Grows(g)
  <2> DEFINE h == [k \in 0 .. n |-> IF k = 0 THEN BootTree ELSE WithGenFile(g[k - 1], k)]
  <2> HIDE DEF n
  <2>1. ASSUME NEW k \in 0 .. n PROVE h[k] = g[k]
    <3>1. CASE k = 0
      BY <1>6, <3>1
    <3>2. CASE k # 0
      <4>1. k \in 1 .. n
        BY <1>1, <3>2
      <4> QED BY <1>6, <3>2, <4>1
    <3> QED BY <3>1, <3>2
  <2>2. g = [k \in 0 .. n |-> g[k]]
    BY <1>6
  <2>3. h = [k \in 0 .. n |-> h[k]]
    OBVIOUS
  <2>4. g = h
    <3> HIDE DEF h
    <3> QED BY <2>1, <2>2, <2>3
  <2> QED BY <2>4
<1>8. PICK w : w = (CHOOSE x : Grows(x))
  OBVIOUS
<1>9. Grows(w)
  <2> HIDE DEF Grows
  <2> QED BY <1>7, <1>8
<1>10. w[0] = BootTree /\ \A k \in 1 .. n : w[k] = WithGenFile(w[k - 1], k)
  <2>1. \A k \in 0 .. n : w[k] = IF k = 0 THEN BootTree ELSE WithGenFile(w[k - 1], k)
    BY <1>9
  <2>2. w[0] = BootTree
    BY <1>1, <2>1
  <2>3. ASSUME NEW k \in 1 .. n PROVE w[k] = WithGenFile(w[k - 1], k)
    <3>1. k \in 0 .. n /\ k # 0
      BY <1>1
    <3> QED BY <2>1, <3>1, Zenon
  <2> QED BY <2>2, <2>3
<1>11. MountTree = w[n]
  BY <1>8 DEF MountTree
<1>12. \A k \in 1 .. n : w[k - 1] \in HomePools => w[k] \in HomePools
  BY <1>2, <1>10
<1>13. \A k \in 0 .. n : w[k] \in HomePools
  <2> HIDE DEF n
  <2>1. w[0] \in HomePools
    BY <1>1, <1>10
  <2> QED BY <1>1, <1>12, <2>1, RecursionStays
<1> QED BY <1>1, <1>11, <1>13

LEMMA GeneratedIsSound ==
  ASSUME NEW ns \in HomePools, NEW g \in 1 .. Len(GenFiles)
  PROVE  Generated(ns, g) \in HomePools
<1>1. Sound(ns) /\ HomeThere(ns)
  BY DEF HomePools, SoundPools
<1>2. PICK s \in Seq(Byte) : s = GenText(GenFiles[g][2], FirstKernel)
  BY GenFilesType, FirstKernelType, GenTextIsBytes
<1>3. PICK i : i = Resolve(MountTree, GenPath(g))
  OBVIOUS
<1>4. Sound(Written(ns, i, s)) /\ HomeThere(Written(ns, i, s))
  BY <1>1, WrittenIsSound, WrittenKeepsHome
<1> QED BY <1>2, <1>3, <1>4 DEF Generated, HomePools, SoundPools, Sound

\* ... and so does their first content.
LEMMA MountedIsSound == Mounted \in HomePools
<1> DEFINE n == Len(GenFiles)
<1>1. n \in Nat /\ MountTree \in HomePools
  BY GenFilesType, MountTreeIsSound
<1>2. \A s \in HomePools, k \in 1 .. n : Generated(s, k) \in HomePools
  BY GeneratedIsSound
<1> DEFINE F == [q \in HomePools \X (1 .. n) |-> Generated(q[1], q[2])]
<1>3. \A s \in HomePools, k \in 1 .. n : F[<<s, k>>] = Generated(s, k)
  <2> HIDE DEF n
  <2> QED OBVIOUS
<1>4. Closed(n, HomePools, F)
  <2> HIDE DEF n, F
  <2> QED BY <1>2, <1>3 DEF Closed
<1>5. PICK g : Follows(g, n, HomePools, MountTree, F)
  <2> HIDE DEF n, F
  <2>1. Solvable(n, HomePools, MountTree, F)
    BY <1>1, <1>4, RecursionExists
  <2> QED BY <2>1 DEF Solvable
<1>6. g \in [0 .. n -> HomePools] /\ g[0] = MountTree
      /\ \A k \in 1 .. n : g[k] = Generated(g[k - 1], k)
  <2> HIDE DEF n, F
  <2>1. g \in [0 .. n -> HomePools] /\ g[0] = MountTree /\ \A k \in 1 .. n : g[k] = F[<<g[k - 1], k>>]
    BY <1>5 DEF Follows
  <2>2. \A k \in 1 .. n : g[k - 1] \in HomePools
    BY <1>1, <2>1
  <2> QED BY <1>3, <2>1, <2>2
<1> HIDE DEF F
<1> DEFINE Grows(w) == w = [k \in 0 .. n |-> IF k = 0 THEN MountTree ELSE Generated(w[k - 1], k)]
<1>7. Grows(g)
  <2> DEFINE h == [k \in 0 .. n |-> IF k = 0 THEN MountTree ELSE Generated(g[k - 1], k)]
  <2> HIDE DEF n
  <2>1. ASSUME NEW k \in 0 .. n PROVE h[k] = g[k]
    <3>1. CASE k = 0
      BY <1>6, <3>1
    <3>2. CASE k # 0
      <4>1. k \in 1 .. n
        BY <1>1, <3>2
      <4> QED BY <1>6, <3>2, <4>1
    <3> QED BY <3>1, <3>2
  <2>2. g = [k \in 0 .. n |-> g[k]]
    BY <1>6
  <2>3. h = [k \in 0 .. n |-> h[k]]
    OBVIOUS
  <2>4. g = h
    <3> HIDE DEF h
    <3> QED BY <2>1, <2>2, <2>3
  <2> QED BY <2>4
<1>8. PICK w : w = (CHOOSE x : Grows(x))
  OBVIOUS
<1>9. Grows(w)
  <2> HIDE DEF Grows
  <2> QED BY <1>7, <1>8
<1>10. w[0] = MountTree /\ \A k \in 1 .. n : w[k] = Generated(w[k - 1], k)
  <2>1. \A k \in 0 .. n : w[k] = IF k = 0 THEN MountTree ELSE Generated(w[k - 1], k)
    BY <1>9
  <2>2. w[0] = MountTree
    BY <1>1, <2>1
  <2>3. ASSUME NEW k \in 1 .. n PROVE w[k] = Generated(w[k - 1], k)
    <3>1. k \in 0 .. n /\ k # 0
      BY <1>1
    <3> QED BY <2>1, <3>1, Zenon
  <2> QED BY <2>2, <2>3
<1>11. Mounted = w[n]
  BY <1>8 DEF Mounted
<1>12. \A k \in 1 .. n : w[k - 1] \in HomePools => w[k] \in HomePools
  BY <1>2, <1>10
<1>13. \A k \in 0 .. n : w[k] \in HomePools
  <2> HIDE DEF n
  <2>1. w[0] \in HomePools
    BY <1>1, <1>10
  <2> QED BY <1>1, <1>12, <2>1, RecursionStays
<1> QED BY <1>1, <1>11, <1>13

(***************************************************************************)
(* The invariant                                                             *)
(***************************************************************************)

FdType ==
  [type : {"none", "console", "null", "file", "read", "write"}, node : NodeId \cup {None},
   off : 0 .. MaxContent, append : BOOLEAN, pipe : Pipe \cup {None}]
PipeType ==
  [ring : [0 .. PipeBuf - 1 -> Byte], rpos : 0 .. PipeBuf - 1, wpos : 0 .. PipeBuf - 1,
   count : 0 .. PipeBuf, ropen : BOOLEAN, wopen : BOOLEAN, fed : Seq(Byte), drawn : Seq(Byte)]

TreeInv == Sound(nodes)
UserInv ==
  /\ vcwd \in NodeId /\ tNode \in NodeId /\ tCwd \in Text
  /\ kernel \in [Sources -> Versions]
FdInv ==
  /\ fds \in [Fd -> FdType]
  /\ \A f \in Fd : fds[f].type \in {"read", "write"} => fds[f].pipe \in Pipe
  /\ inUse \in BOOLEAN
  /\ ~inUse => \A f \in Fd : fds[f].type = "none"
\* The positions of a ring, and what is in it: the bytes taken and not handed out.
RingOK(p) ==
  /\ p \in PipeType
  /\ p.wpos = Around(p.rpos, p.count)
  /\ p.fed = p.drawn \o Taken(p.ring, p.rpos, p.count)
RingInv ==
  /\ pipes = [p \in Pipe |-> pipes[p]]
  /\ \A p \in Pipe : RingOK(pipes[p])
  /\ made \in 0 .. MaxPipes
FilesInv == TreeInv /\ UserInv /\ FdInv /\ RingInv /\ OpenEndIsHeld

----------------------------------------------------------------------------
(* What users type and where they work                                       *)

LEMMA TypedAreTexts ==
  /\ \A w \in Names : w \in AllWords /\ Word(w) \in Text
  /\ \A t \in Paths : t \in Text
  /\ \A t \in Relative : t \in Text
  /\ \A t \in Typed : t \in Text
<1>1. ASSUME NEW w \in Names PROVE w \in AllWords /\ Word(w) \in Text
  BY FilesAssumption, WordIsText DEF AllWords
<1>2. ASSUME NEW t \in Paths PROVE t \in Text
  <2>1. t \in [abs : BOOLEAN, words : Seq(Words)]
    BY FilesAssumption
  <2>2. t.words \in Seq(AllWords)
    BY <2>1, SeqMonotonic DEF AllWords
  <2> QED BY <2>1, <2>2 DEF Text
<1> QED BY <1>1, <1>2 DEF Relative, Typed

LEMMA HomeIsNode == ASSUME TreeInv PROVE Home(nodes) \in NodeId \cup {None}
BY KnownTexts, ResolvedIsNode DEF TreeInv, Sound, Home, Text

LEMMA TextResolves ==
  ASSUME TreeInv, NEW t \in Text
  PROVE  Resolve(nodes, t) \in NodeId \cup {None}
BY ResolvedIsNode DEF TreeInv, Sound, Text

LEMMA TermResolves ==
  ASSUME TreeInv, UserInv, NEW t \in Text
  PROVE  TermResolve(t) \in NodeId \cup {None}
BY JoinedIsText, TextResolves DEF TermResolve, UserInv

\* A step that changes the tree alone has to keep the tree sound.
LEMMA OnlyTheTree ==
  ASSUME FilesInv, Sound(nodes'), UNCHANGED <<fdVars, pipeVars, userVars, still>>
  PROVE  FilesInv'
BY DEF FilesInv, TreeInv, UserInv, FdInv, RingInv, OpenEndIsHeld, fdVars, pipeVars, userVars, still

----------------------------------------------------------------------------
(* The commands                                                              *)

LEMMA MakesKeep ==
  ASSUME FilesInv, NEW w \in Names, ShTouch(w) \/ ShMkdir(w)
  PROVE  FilesInv'
<1>1. Sound(nodes')
  BY TypedAreTexts, AddedIfPossibleIsSound DEF FilesInv, TreeInv, ShTouch, ShMkdir
<1> QED BY <1>1, OnlyTheTree DEF ShTouch, ShMkdir

LEMMA ShRmKeeps == ASSUME FilesInv, NEW t, ShRm(t) PROVE FilesInv'
<1>1. Sound(nodes')
  BY RemovedIsSound DEF FilesInv, TreeInv, ShRm
<1> QED BY <1>1, OnlyTheTree DEF ShRm

LEMMA ShWriteKeeps ==
  ASSUME FilesInv, NEW w \in Names, NEW d \in Datas, ShWrite(w, d)
  PROVE  FilesInv'
<1>1. PICK t : t = [HomeText EXCEPT !.words = Append(@, w)]
  OBVIOUS
<1>2. t \in Text
  <2>1. HomeText.words \in Seq(AllWords) /\ w \in AllWords
    BY KnownTexts, TypedAreTexts DEF Text
  <2>2. Append(HomeText.words, w) \in Seq(AllWords)
    BY <2>1
  <2> QED BY <1>1, <2>2, KnownTexts DEF Text
<1>3. Resolve(nodes, t) \in NodeId \cup {None}
  BY <1>2, TextResolves DEF FilesInv
<1>4. PICK r : r = FoundOrMade(nodes, Resolve(nodes, t), Home(nodes), Word(w))
  OBVIOUS
<1>5. Sound(r[1])
  BY <1>3, <1>4, TypedAreTexts, FoundOrMadeIsSound DEF FilesInv, TreeInv
<1>6. nodes' = Written(r[1], r[2], d) /\ UNCHANGED <<fdVars, pipeVars, userVars, still>>
  BY <1>1, <1>4 DEF ShWrite
<1>7. Sound(nodes')
  BY <1>5, <1>6, DataIsBytes, WrittenIsSound
<1> QED BY <1>6, <1>7, OnlyTheTree

\* The commands that look for a file, make it if there is none, and write.
LEMMA FilledKeeps ==
  ASSUME FilesInv, NEW i \in NodeId \cup {None}, NEW p, NEW t \in Text, NEW d \in Datas,
         LET r == FoundOrMade(nodes, i, p, t)
         IN nodes' = Written(r[1], r[2], d) \/ nodes' = Appended(r[1], r[2], d),
         UNCHANGED <<fdVars, pipeVars, userVars, still>>
  PROVE  FilesInv'
<1>1. PICK r : r = FoundOrMade(nodes, i, p, t)
  OBVIOUS
<1>2. Sound(r[1])
  BY <1>1, FoundOrMadeIsSound DEF FilesInv, TreeInv
<1>3. Sound(nodes')
  BY <1>1, <1>2, DataIsBytes, WrittenIsSound, AppendedIsSound
<1> QED BY <1>3, OnlyTheTree

LEMMA ShRedirectKeeps ==
  ASSUME FilesInv, NEW t \in Paths, NEW d \in Datas, NEW a \in BOOLEAN, ShRedirect(t, d, a)
  PROVE  FilesInv'
<1>1. t \in Text /\ Resolve(nodes, t) \in NodeId \cup {None}
  BY TypedAreTexts, TextResolves DEF FilesInv
<1>2. PICK i : i = Resolve(nodes, t)
  OBVIOUS
<1>3. LET r == FoundOrMade(nodes, i, Home(nodes), t)
      IN nodes' = Written(r[1], r[2], d) \/ nodes' = Appended(r[1], r[2], d)
  BY <1>2 DEF ShRedirect
<1>4. UNCHANGED <<fdVars, pipeVars, userVars, still>>
  BY DEF ShRedirect
<1> QED BY <1>1, <1>2, <1>3, <1>4, FilledKeeps

LEMMA ShCdKeeps == ASSUME FilesInv, NEW t, ShCd(t) PROVE FilesInv'
BY DEF ShCd, FilesInv, TreeInv, UserInv, FdInv, RingInv, OpenEndIsHeld, fdVars, pipeVars, still

LEMMA ShCatKeeps == ASSUME FilesInv, NEW g \in GenRange, ShCat(g) PROVE FilesInv'
<1>1. GenFiles[g][2] \in Words
  <2>1. GenRange = 1 .. Len(GenFiles)
    BY BootAssumption, LenProperties DEF GenRange
  <2> QED BY <2>1, GenFilesType
<1>2. PICK s \in Seq(Byte) : s = GenText(GenFiles[g][2], kernel)
  BY <1>1, GenTextIsBytes DEF FilesInv, UserInv
<1>3. Sound(nodes')
  BY <1>2, WrittenIsSound DEF FilesInv, TreeInv, ShCat, Refreshed
<1> QED BY <1>3, OnlyTheTree DEF ShCat

LEMMA KernelKeeps == ASSUME FilesInv, NEW x \in Sources, KernelChanges(x) PROVE FilesInv'
<1>1. kernel' \in [Sources -> Versions]
  BY DEF FilesInv, UserInv, KernelChanges
<1> QED BY <1>1 DEF KernelChanges, FilesInv, TreeInv, UserInv, FdInv, RingInv, OpenEndIsHeld,
                    fdVars, pipeVars, userVars

LEMMA TermMakeKeeps ==
  ASSUME FilesInv, NEW t \in Relative, TermTouch(t) \/ TermMkdir(t)
  PROVE  FilesInv'
<1>1. Sound(nodes')
  BY TypedAreTexts, AddedIfPossibleIsSound DEF FilesInv, TreeInv, TermTouch, TermMkdir
<1> QED BY <1>1, OnlyTheTree DEF TermTouch, TermMkdir

LEMMA TermRmKeeps == ASSUME FilesInv, NEW t, TermRm(t) PROVE FilesInv'
<1>1. Sound(nodes')
  BY RemovedIsSound DEF FilesInv, TreeInv, TermRm
<1> QED BY <1>1, OnlyTheTree DEF TermRm

LEMMA TermEchoKeeps ==
  ASSUME FilesInv, NEW t \in Relative, NEW d \in Datas, TermEcho(t, d)
  PROVE  FilesInv'
<1>1. t \in Text /\ TermResolve(t) \in NodeId \cup {None}
  BY TypedAreTexts, TermResolves DEF FilesInv
<1>2. PICK i : i = TermResolve(t)
  OBVIOUS
<1>3. LET r == FoundOrMade(nodes, i, tNode, t)
      IN nodes' = Written(r[1], r[2], d) \/ nodes' = Appended(r[1], r[2], d)
  BY <1>2 DEF TermEcho
<1>4. UNCHANGED <<fdVars, pipeVars, userVars, still>>
  BY DEF TermEcho
<1> QED BY <1>1, <1>2, <1>3, <1>4, FilledKeeps

LEMMA TermCdKeeps ==
  ASSUME FilesInv, NEW t, t \in Typed \cup {Word("..")}, TermCd(t)
  PROVE  FilesInv'
<1>1. PICK to : to = (IF t = HomeText THEN Home(nodes)
            ELSE IF t = RootText THEN Root
            ELSE IF t = Word("..") THEN (IF IsNode(nodes, tNode) THEN nodes[tNode].parent ELSE None)
            ELSE TermResolve(t))
  OBVIOUS
<1>2. /\ to # None /\ tNode' = to
      /\ tCwd' = IF t \in {HomeText, RootText} THEN t ELSE NodeText(to)
      /\ UNCHANGED <<nodes, fdVars, pipeVars, shCwd, still>>
  BY <1>1, Zenon DEF TermCd
<1>3. nodes \in Pool
  BY DEF FilesInv, TreeInv, Sound
<1>4. to \in NodeId
  <2>1. Home(nodes) \in NodeId \cup {None}
    BY HomeIsNode DEF FilesInv
  <2>2. nodes[tNode].parent \in NodeId \cup {None}
    BY <1>3 DEF FilesInv, UserInv, Pool, NodeType
  <2>3. t \in Typed => TermResolve(t) \in NodeId \cup {None}
    BY TypedAreTexts, TermResolves DEF FilesInv
  <2> QED BY <1>1, <1>2, <2>1, <2>2, <2>3, Sizes
<1>5. tCwd' \in Text
  BY <1>2, <1>3, NodeTextIsText, KnownTexts
<1> QED BY <1>2, <1>4, <1>5 DEF FilesInv, TreeInv, UserInv, FdInv, RingInv, OpenEndIsHeld,
                                fdVars, pipeVars, still

LEMMA EditKeeps ==
  ASSUME FilesInv, NEW w \in Names, NEW d \in Datas, EditSave(Word(w), d)
  PROVE  FilesInv'
<1>1. PICK t \in Text : t = Word(w)
  BY TypedAreTexts
<1>2. PICK i \in NodeId \cup {None} : i = Resolve(nodes, t)
  BY TextResolves DEF FilesInv
<1>3. LET r == FoundOrMade(nodes, i, Root, t)
      IN nodes' = Written(r[1], r[2], d) \/ nodes' = Appended(r[1], r[2], d)
  BY <1>1, <1>2 DEF EditSave
<1>4. UNCHANGED <<fdVars, pipeVars, userVars, still>>
  BY DEF EditSave
<1> QED BY <1>3, <1>4, FilledKeeps

LEMMA PkgKeeps ==
  ASSUME FilesInv, NEW w \in Names, NEW d \in Datas, PkgInit(w, d)
  PROVE  FilesInv'
<1>1. Word(w) \in Text /\ Word("src") \in Text /\ Word("main") \in Text
  BY TypedAreTexts, WordIsText DEF AllWords
<1>2. PICK top : top = AddedIfPossible(nodes, Home(nodes), Word(w), TRUE)
  OBVIOUS
<1>3. PICK sub : sub = AddedIfPossible(top, Fresh(nodes), Word("src"), TRUE)
  OBVIOUS
<1>4. PICK file : file = AddedIfPossible(sub, Fresh(top), Word("main"), FALSE)
  OBVIOUS
<1>5. Sound(top)
  BY <1>1, <1>2, AddedIfPossibleIsSound DEF FilesInv, TreeInv
<1>6. Sound(sub)
  BY <1>1, <1>3, <1>5, AddedIfPossibleIsSound
<1>7. Sound(file)
  BY <1>1, <1>4, <1>6, AddedIfPossibleIsSound
<1>8. Sound(Written(file, Fresh(sub), d))
  BY <1>7, DataIsBytes, WrittenIsSound
<1>9. nodes' = (IF sub = top THEN top ELSE IF file = sub THEN sub ELSE Written(file, Fresh(sub), d))
      /\ UNCHANGED <<fdVars, pipeVars, userVars, still>>
  BY <1>2, <1>3, <1>4, Zenon DEF PkgInit
<1> QED BY <1>5, <1>6, <1>8, <1>9, OnlyTheTree

----------------------------------------------------------------------------
(* Descriptors                                                               *)

LEMMA FdFacts ==
  /\ NoFd \in FdType /\ Console \in FdType /\ StandardFds \in [Fd -> FdType]
  /\ [NoFd EXCEPT !.type = "null"] \in FdType
  /\ NoFd.type = "none" /\ Console.type = "console"
  /\ \A f \in Fd : StandardFds[f].type \notin {"read", "write"}
<1>1. NoFd \in FdType /\ NoFd.type = "none"
  BY Sizes DEF NoFd, FdType
<1>2. Console \in FdType /\ Console.type = "console" /\ [NoFd EXCEPT !.type = "null"] \in FdType
  BY <1>1 DEF Console, FdType
<1>3. \A f \in Fd : StandardFds[f] = IF f <= 2 THEN Console ELSE NoFd
  BY DEF StandardFds
<1>4. StandardFds \in [Fd -> FdType]
  BY <1>1, <1>2, <1>3 DEF StandardFds
<1> QED BY <1>1, <1>2, <1>3, <1>4

LEMMA LowestFree ==
  ASSUME FilesInv, FreeFds # {}
  PROVE  Lowest(FreeFds) \in Fd /\ fds[Lowest(FreeFds)].type = "none"
<1>1. FreeFds \in SUBSET Nat
  BY DEF FreeFds, Fd
<1>2. Lowest(FreeFds) \in FreeFds
  BY <1>1, LowestIsLeast
<1> QED BY <1>2 DEF FreeFds

\* A descriptor that was free, or a file, becomes another that is no end of a pipe.
LEMMA OneDescriptor ==
  ASSUME FilesInv, NEW x \in Fd, fds[x].type \notin {"read", "write"},
         NEW e \in FdType, e.type \notin {"read", "write"},
         fds' = [fds EXCEPT ![x] = e], inUse, UNCHANGED <<inUse, pipes>>
  PROVE  FdInv' /\ OpenEndIsHeld'
<1>1. fds \in [Fd -> FdType]
  BY DEF FilesInv, FdInv
<1>2. fds'[x] = e /\ (\A f \in Fd \ {x} : fds'[f] = fds[f]) /\ fds' \in [Fd -> FdType]
  BY <1>1
<1>3. FdInv'
  BY <1>2 DEF FilesInv, FdInv
<1>4. OpenEndIsHeld'
  <2>1. ASSUME NEW f \in Fd, fds[f].type \in {"read", "write"} PROVE fds'[f] = fds[f]
    BY <1>2, <2>1
  <2> QED BY <2>1 DEF FilesInv, OpenEndIsHeld
<1> QED BY <1>3, <1>4

LEMMA OpenNullKeeps == ASSUME FilesInv, OpenNull PROVE FilesInv'
<1>1. FdInv' /\ OpenEndIsHeld'
  <2>1. PICK x : x = Lowest(FreeFds)
    OBVIOUS
  <2>2. PICK e : e = [NoFd EXCEPT !.type = "null"]
    OBVIOUS
  <2>3. e \in FdType /\ e.type = "null"
    BY <2>2, FdFacts DEF NoFd
  <2>4. x \in Fd /\ fds[x].type = "none"
    BY <2>1, LowestFree DEF OpenNull
  <2>5. fds' = [fds EXCEPT ![x] = e] /\ inUse /\ UNCHANGED <<inUse, pipes>>
    BY <2>1, <2>2 DEF OpenNull, pipeVars
  <2> QED BY <2>3, <2>4, <2>5, OneDescriptor
<1> QED BY <1>1 DEF OpenNull, FilesInv, TreeInv, UserInv, RingInv, pipeVars, userVars, still

LEMMA OpenKeeps ==
  ASSUME FilesInv, NEW t \in Typed, NEW create \in BOOLEAN, NEW trunc \in BOOLEAN,
         NEW append \in BOOLEAN, Open(t, create, trunc, append)
  PROVE  FilesInv'
<1>1. t \in Text
  BY TypedAreTexts
<1>2. PICK found \in NodeId \cup {None} : found = Resolve(nodes, t)
  BY <1>1, TextResolves DEF FilesInv
<1>3. PICK name : name = (IF t.abs THEN BaseName(t) ELSE t)
  OBVIOUS
<1>4. name \in Text
  <2>1. t.words \in Seq(AllWords) /\ t.words # <<>>
    BY <1>1 DEF Text, Open
  <2>2. t.words[Len(t.words)] \in AllWords
    BY <2>1
  <2> QED BY <1>1, <1>3, <2>2, WordIsText DEF BaseName
<1>5. PICK r : r = (IF found # None \/ ~create THEN <<nodes, found>>
                    ELSE FoundOrMade(nodes, None, Parent(t), name))
  OBVIOUS
<1>6. Sound(r[1]) /\ r[2] \in NodeId \cup {None}
  <2>1. Sound(nodes)
    BY DEF FilesInv, TreeInv
  <2>2. /\ Sound(FoundOrMade(nodes, None, Parent(t), name)[1])
        /\ FoundOrMade(nodes, None, Parent(t), name)[2] \in NodeId \cup {None}
    BY <1>4, <2>1, FoundOrMadeIsSound
  <2> QED BY <1>5, <2>1, <2>2
<1>7. PICK ok \in BOOLEAN : ok <=> (IsFile(r[1], r[2]) /\ FreeFds # {})
  OBVIOUS
<1>8. PICK e : e = [type |-> "file", node |-> r[2], append |-> append, pipe |-> None,
                    off |-> IF append /\ ~trunc THEN Len(r[1][r[2]].content) ELSE 0]
  OBVIOUS
<1>9. /\ nodes' = (IF ok /\ trunc THEN Written(r[1], r[2], <<>>) ELSE r[1])
      /\ fds' = (IF ~ok THEN fds ELSE [fds EXCEPT ![Lowest(FreeFds)] = e])
      /\ inUse /\ UNCHANGED <<inUse, vcwd, pipeVars, userVars, still>>
  BY <1>2, <1>3, <1>5, <1>7, <1>8 DEF Open
<1>10. Sound(nodes')
  <2>1. <<>> \in Seq(Byte)
    BY EmptySeq
  <2>2. Sound(Written(r[1], r[2], <<>>))
    BY <1>6, <2>1, WrittenIsSound
  <2> QED BY <1>6, <1>9, <2>2
<1>11. FdInv' /\ OpenEndIsHeld'
  <2>1. CASE ~ok
    BY <1>9, <2>1 DEF FilesInv, FdInv, OpenEndIsHeld, pipeVars
  <2>2. CASE ok
    <3>1. r[2] \in NodeId /\ r[1] \in Pool /\ InBounds(r[1])
      BY <1>6, <1>7, <2>2 DEF IsFile, IsNode, Sound
    <3>2. Len(r[1][r[2]].content) \in 0 .. MaxContent
      <4>1. Len(r[1][r[2]].content) \in Nat
        BY <3>1 DEF Pool, NodeType
      <4>2. Len(r[1][r[2]].content) < MaxContent
        BY <3>1 DEF InBounds
      <4> QED BY <4>1, <4>2, Sizes
    <3>3. e \in FdType /\ e.type = "file"
      <4>1. PICK off \in 0 .. MaxContent :
              off = IF append /\ ~trunc THEN Len(r[1][r[2]].content) ELSE 0
        BY <3>2, Sizes
      <4> QED BY <1>8, <3>1, <4>1 DEF FdType
    <3>4. PICK x \in Fd : x = Lowest(FreeFds) /\ fds[x].type = "none"
      BY <1>7, <2>2, LowestFree
    <3>5. fds' = [fds EXCEPT ![x] = e] /\ UNCHANGED <<inUse, pipes>>
      BY <1>9, <2>2, <3>4 DEF pipeVars
    <3> QED BY <1>9, <3>3, <3>4, <3>5, OneDescriptor
  <2> QED BY <2>1, <2>2
<1> QED BY <1>9, <1>10, <1>11 DEF FilesInv, TreeInv, UserInv, RingInv, pipeVars, userVars, still

\* A file's descriptor moves to another offset.
LEMMA OffsetMoves ==
  ASSUME FilesInv, NEW f \in Fd, fds[f].type = "file", NEW n \in 0 .. MaxContent,
         fds' = [fds EXCEPT ![f].off = n], UNCHANGED <<inUse, pipes>>
  PROVE  FdInv' /\ OpenEndIsHeld'
<1>1. fds[f] \in FdType /\ inUse
  BY DEF FilesInv, FdInv
<1>2. PICK e : e = [fds[f] EXCEPT !.off = n]
  OBVIOUS
<1>3. e \in FdType /\ e.type = "file"
  BY <1>1, <1>2 DEF FdType
<1>4. fds' = [fds EXCEPT ![f] = e]
  BY <1>2
<1> QED BY <1>1, <1>3, <1>4, OneDescriptor

LEMMA ReadFileKeeps ==
  ASSUME FilesInv, NEW f \in Fd, NEW n \in Counts, ReadFile(f, n)
  PROVE  FilesInv'
<1>1. PICK off \in 0 .. MaxContent : off = fds[f].off
  BY DEF FilesInv, FdInv, FdType
<1>2. PICK i \in NodeId : i = fds[f].node
  BY DEF ReadFile, Live, IsFile, IsNode
<1>3. nodes[i].content \in Seq(Byte) /\ Len(nodes[i].content) < MaxContent
  BY DEF FilesInv, TreeInv, Sound, Pool, NodeType, InBounds
<1>4. PICK len \in Nat : len = Len(nodes[i].content) /\ len < MaxContent
  BY <1>3
<1>5. off < len /\ fds[f].type = "file"
  BY <1>1, <1>2, <1>4 DEF ReadFile, Content
<1>6. off + Least(n, len - off) \in 0 .. MaxContent
  <2>1. n \in Nat
    BY FilesAssumption
  <2> QED BY <1>4, <1>5, <2>1, Sizes DEF Least
<1>7. fds' = [fds EXCEPT ![f].off = off + Least(n, len - off)]
  BY <1>1, <1>2, <1>4 DEF ReadFile, Content
<1>8. FdInv' /\ OpenEndIsHeld'
  <2>1. PICK m \in 0 .. MaxContent : m = off + Least(n, len - off)
    BY <1>6
  <2>2. UNCHANGED <<inUse, pipes>>
    BY DEF ReadFile, pipeVars
  <2> QED BY <1>5, <1>7, <2>1, <2>2, OffsetMoves
<1> QED BY <1>8 DEF ReadFile, FilesInv, TreeInv, UserInv, RingInv, pipeVars, userVars, still

LEMMA SeekKeeps ==
  ASSUME FilesInv, NEW f \in Fd, NEW pos \in SeekTo, Seek(f, pos)
  PROVE  FilesInv'
<1>1. pos \in 0 .. MaxContent
  BY FilesAssumption
<1>2. FdInv' /\ OpenEndIsHeld'
  BY <1>1, OffsetMoves DEF Seek, pipeVars
<1> QED BY <1>2 DEF Seek, FilesInv, TreeInv, UserInv, RingInv, pipeVars, userVars, still

----------------------------------------------------------------------------
(* Writing through a descriptor                                              *)

LEMMA FilledUp ==
  ASSUME NEW s \in Seq(Byte), NEW n \in Nat
  PROVE  /\ Fill(s, n) \in Seq(Byte)
         /\ Len(Fill(s, n)) = IF n > Len(s) THEN n ELSE Len(s)
         /\ \A k \in 1 .. Len(s) : Fill(s, n)[k] = s[k]
<1>1. PICK m \in Nat : m = (IF n > Len(s) THEN n - Len(s) ELSE 0)
  OBVIOUS
<1>2. PICK z : z = [k \in 1 .. m |-> "0"]
  OBVIOUS
<1>3. z \in Seq(Byte) /\ Len(z) = m
  <2>1. "0" \in Byte
    BY DEF Byte
  <2>2. z \in [1 .. m -> Byte]
    BY <1>2, <2>1
  <2>3. z \in Seq(Byte)
    BY <2>2, SeqDef
  <2> QED BY <2>2, <2>3
<1>4. Fill(s, n) = s \o z
  BY <1>1, <1>2 DEF Fill
<1>5. /\ s \o z \in Seq(Byte) /\ Len(s \o z) = Len(s) + m
      /\ \A k \in 1 .. Len(s) + m : (s \o z)[k] = IF k <= Len(s) THEN s[k] ELSE z[k - Len(s)]
  BY <1>3, ConcatProperties
<1>6. \A k \in 1 .. Len(s) : k \in 1 .. Len(s) + m /\ k <= Len(s)
  OBVIOUS
<1> QED BY <1>1, <1>4, <1>5, <1>6

\* What vfs_write makes of a file: its length, and the bytes that stay.
LEMMA OverlaidKeepsRest ==
  ASSUME NEW s \in Seq(Byte), NEW off \in Nat, NEW d \in Seq(Byte)
  PROVE  /\ Overlaid(s, off, d) \in Seq(Byte)
         /\ Len(Overlaid(s, off, d)) = IF off + Len(d) > Len(s) THEN off + Len(d) ELSE Len(s)
         /\ \A k \in 1 .. Len(s) :
              k <= off \/ k > off + Len(d) => Overlaid(s, off, d)[k] = s[k]
<1>1. PICK n \in Nat, m \in Nat : n = Len(s) /\ m = Len(d)
  OBVIOUS
<1>2. PICK a : a = First(off, Fill(s, off))
  OBVIOUS
<1>3. /\ a \in Seq(Byte) /\ Len(a) = off
      /\ \A k \in 1 .. off : k <= n => a[k] = s[k]
  <2>1. PICK f : f = Fill(s, off)
    OBVIOUS
  <2>2. /\ f \in Seq(Byte) /\ Len(f) = (IF off > n THEN off ELSE n)
        /\ \A k \in 1 .. n : f[k] = s[k]
    BY <1>1, <2>1, FilledUp
  <2>3. /\ First(off, f) \in Seq(Byte)
        /\ Len(First(off, f)) = IF off < Len(f) THEN off ELSE Len(f)
        /\ \A k \in 1 .. Len(First(off, f)) : First(off, f)[k] = f[k]
    BY <2>2, FirstOf
  <2>4. Len(a) = off
    BY <1>2, <2>1, <2>2, <2>3
  <2> QED BY <1>2, <2>1, <2>2, <2>3, <2>4
<1>4. PICK b : b = SubSeq(s, off + m + 1, n)
  OBVIOUS
<1>5. /\ b \in Seq(Byte) /\ Len(b) = (IF off + m + 1 <= n THEN n - (off + m + 1) + 1 ELSE 0)
      /\ \A k \in 1 .. n - (off + m + 1) + 1 : b[k] = s[off + m + 1 + k - 1]
  <2>1. \A k \in off + m + 1 .. n : s[k] \in Byte
    BY <1>1
  <2>2. off + m + 1 \in Int /\ n \in Int
    BY <1>1
  <2> QED BY <1>4, <2>1, <2>2, SubSeqProperties
<1>6. PICK c : c = a \o d
  OBVIOUS
<1>7. /\ c \in Seq(Byte) /\ Len(c) = off + m
      /\ \A k \in 1 .. off : c[k] = a[k]
  <2>1. /\ a \o d \in Seq(Byte) /\ Len(a \o d) = Len(a) + Len(d)
        /\ \A k \in 1 .. Len(a) + Len(d) : (a \o d)[k] = IF k <= Len(a) THEN a[k] ELSE d[k - Len(a)]
    BY <1>3, ConcatProperties
  <2>2. \A k \in 1 .. off : k \in 1 .. Len(a) + Len(d) /\ k <= Len(a)
    BY <1>1, <1>3
  <2> QED BY <1>1, <1>3, <1>6, <2>1, <2>2
<1>8. Overlaid(s, off, d) = c \o b
  BY <1>1, <1>2, <1>4, <1>6 DEF Overlaid
<1>9. /\ c \o b \in Seq(Byte) /\ Len(c \o b) = Len(c) + Len(b)
      /\ \A k \in 1 .. Len(c) + Len(b) : (c \o b)[k] = IF k <= Len(c) THEN c[k] ELSE b[k - Len(c)]
  BY <1>5, <1>7, ConcatProperties
<1> PICK y \in Nat : y = Len(b) /\ y = (IF off + m + 1 <= n THEN n - (off + m + 1) + 1 ELSE 0)
  <2>1. (IF off + m + 1 <= n THEN n - (off + m + 1) + 1 ELSE 0) \in Nat
    BY <1>1
  <2> QED BY <1>5, <2>1
<1>13. Len(c) + Len(b) = off + m + y /\ Len(c) = off + m
  BY <1>7
<1>10. Len(c \o b) = IF off + m > n THEN off + m ELSE n
  <2>1. Len(c \o b) = off + m + y
    BY <1>9, <1>13
  <2>2. off + m + y = IF off + m > n THEN off + m ELSE n
    OBVIOUS
  <2> QED BY <2>1, <2>2
<1>11. ASSUME NEW k \in 1 .. n, k <= off PROVE (c \o b)[k] = s[k]
  <2>0. k \in 1 .. off /\ k \in 1 .. off + m + y /\ k <= off + m
    BY <1>11
  <2>1. k \in 1 .. off /\ k \in 1 .. Len(c) + Len(b) /\ k <= Len(c)
    BY <1>13, <2>0
  <2> QED BY <1>3, <1>7, <1>9, <2>1
<1>12. ASSUME NEW k \in 1 .. n, k > off + m PROVE (c \o b)[k] = s[k]
  <2>0. k \in 1 .. off + m + y /\ ~(k <= off + m)
    BY <1>12
  <2>1. k \in 1 .. Len(c) + Len(b) /\ ~(k <= Len(c)) /\ Len(c) = off + m
    BY <1>13, <2>0
  <2>2. (c \o b)[k] = b[k - (off + m)]
    BY <1>9, <2>1
  <2>3. k - (off + m) \in 1 .. n - (off + m + 1) + 1
    BY <1>1, <1>12
  <2>4. b[k - (off + m)] = s[off + m + 1 + (k - (off + m)) - 1]
    BY <1>5, <2>3
  <2>5. off + m + 1 + (k - (off + m)) - 1 = k
    BY <1>1
  <2> QED BY <2>2, <2>4, <2>5
<1> QED BY <1>1, <1>8, <1>9, <1>10, <1>11, <1>12

\* How many bytes vfs_write takes at an offset.
LEMMA RoomIs ==
  ASSUME FilesInv, NEW f \in Fd, NEW d \in Datas
  PROVE  /\ fds[f].off \in 0 .. MaxContent /\ Room(f, d) \in Nat /\ Room(f, d) <= Len(d)
         /\ fds[f].off + Room(f, d) \in 0 .. MaxContent
         /\ First(Room(f, d), d) \in Seq(Byte) /\ Len(First(Room(f, d), d)) = Room(f, d)
<1>1. d \in Seq(Byte) /\ Len(d) \in Nat
  BY DataIsBytes, LenProperties
<1>2. PICK off \in 0 .. MaxContent : off = fds[f].off
  BY DEF FilesInv, FdInv, FdType
<1>3. PICK n \in Nat : n = Room(f, d) /\ n <= Len(d) /\ off + n \in 0 .. MaxContent
  <2>1. Room(f, d) = IF Len(d) < MaxContent - off THEN Len(d) ELSE MaxContent - off
    BY <1>2 DEF Room, Least
  <2> QED BY <1>1, <2>1, Sizes
<1>4. /\ First(n, d) \in Seq(Byte) /\ Len(First(n, d)) = IF n < Len(d) THEN n ELSE Len(d)
  BY <1>1, FirstOf
<1> QED BY <1>1, <1>2, <1>3, <1>4

LEMMA ExistingIsBytes ==
  ASSUME FilesInv, NEW f \in Fd
  PROVE  /\ Existing(f) \in Seq(Byte)
         /\ Live(f) => Existing(f) = nodes[fds[f].node].content /\ Len(Existing(f)) < MaxContent
<1>1. CASE Live(f)
  <2>1. fds[f].node \in NodeId
    BY <1>1 DEF Live, IsFile, IsNode
  <2> QED BY <1>1, <2>1 DEF FilesInv, TreeInv, Sound, Pool, NodeType, InBounds, Existing, Content
<1>2. CASE ~Live(f)
  BY <1>2, EmptySeq DEF Existing
<1> QED BY <1>1, <1>2

LEMMA WriteAtKeeps ==
  ASSUME FilesInv, NEW f \in Fd, NEW d \in Datas, WriteAt(f, d)
  PROVE  FilesInv'
<1>1. PICK off \in 0 .. MaxContent, n \in Nat, e \in Seq(Byte) :
        /\ off = fds[f].off /\ n = Room(f, d) /\ off + n \in 0 .. MaxContent
        /\ e = First(Room(f, d), d)
  BY RoomIs
<1>2. PICK s \in Seq(Byte) : s = Overlaid(Existing(f), off, e)
  <2>1. Existing(f) \in Seq(Byte) /\ off \in Nat
    BY ExistingIsBytes, Sizes
  <2> QED BY <2>1, OverlaidKeepsRest
<1>3. nodes' = Written(nodes, fds[f].node, s)
  BY <1>1, <1>2 DEF WriteAt
<1>4. Sound(nodes')
  BY <1>3, WrittenIsSound DEF FilesInv, TreeInv
<1>5. FdInv' /\ OpenEndIsHeld'
  <2>1. PICK m \in 0 .. MaxContent : m = off + n
    BY <1>1
  <2>2. fds' = [fds EXCEPT ![f].off = m] /\ UNCHANGED <<inUse, pipes>> /\ fds[f].type = "file"
    BY <1>1, <2>1 DEF WriteAt, pipeVars
  <2> QED BY <2>2, OffsetMoves
<1> QED BY <1>4, <1>5 DEF WriteAt, FilesInv, TreeInv, UserInv, RingInv, pipeVars, userVars, still

LEMMA WriteAppendKeeps ==
  ASSUME FilesInv, NEW f \in Fd, NEW d \in Datas, WriteAppend(f, d)
  PROVE  FilesInv'
<1>1. Sound(nodes')
  BY DataIsBytes, AppendedIsSound DEF WriteAppend, FilesInv, TreeInv
<1> QED BY <1>1, OnlyTheTree DEF WriteAppend

LEMMA ChdirKeeps == ASSUME FilesInv, NEW t, Chdir(t) PROVE FilesInv'
BY DEF Chdir, IsDir, IsNode, FilesInv, TreeInv, UserInv, FdInv, RingInv, OpenEndIsHeld,
       pipeVars, userVars, still

----------------------------------------------------------------------------
(* Ends of pipes                                                             *)

\* The flags of the ends change, and nothing else of a ring.
EndsChange(p, q) ==
  \E r, w \in BOOLEAN : q = [p EXCEPT !.ropen = r, !.wopen = w]

LEMMA RingKeepsEnds ==
  ASSUME NEW p, RingOK(p), NEW q, EndsChange(p, q)
  PROVE  RingOK(q)
<1>1. PICK r \in BOOLEAN, w \in BOOLEAN : q = [p EXCEPT !.ropen = r, !.wopen = w]
  BY DEF EndsChange
<1>2. p \in PipeType
  BY DEF RingOK
<1>3. q \in PipeType
  BY <1>1, <1>2 DEF PipeType
<1>4. /\ q.ring = p.ring /\ q.rpos = p.rpos /\ q.wpos = p.wpos /\ q.count = p.count
      /\ q.fed = p.fed /\ q.drawn = p.drawn
  BY <1>1, <1>2 DEF PipeType
<1> QED BY <1>3, <1>4 DEF RingOK

\* One end of the pipe of a descriptor is set; all others stay as they are.
EndSet(ps, new, e, b) ==
  /\ new = [p \in Pipe |-> new[p]]
  /\ \A p \in Pipe : EndsChange(ps[p], new[p])
  /\ \A p \in Pipe :
       /\ new[p].ropen = IF e.type = "read" /\ e.pipe = p THEN b ELSE ps[p].ropen
       /\ new[p].wopen = IF e.type = "write" /\ e.pipe = p THEN b ELSE ps[p].wopen

LEMMA EndIsSet ==
  ASSUME FilesInv, NEW e \in FdType, e.type \in {"read", "write"} => e.pipe \in Pipe
  PROVE  /\ EndSet(pipes, ClosedEnd(pipes, e), e, FALSE)
         /\ EndSet(pipes, OpenedEnd(pipes, e), e, TRUE)
<1>1. pipes = [p \in Pipe |-> pipes[p]] /\ \A p \in Pipe : pipes[p] \in PipeType
  BY DEF FilesInv, RingInv, RingOK
<1>2. \A p \in Pipe : /\ pipes[p].ropen \in BOOLEAN /\ pipes[p].wopen \in BOOLEAN
                      /\ pipes[p] = [pipes[p] EXCEPT !.ropen = pipes[p].ropen,
                                                     !.wopen = pipes[p].wopen]
  BY <1>1 DEF PipeType
<1>3. \A p \in Pipe : \A b \in BOOLEAN :
        /\ [pipes[p] EXCEPT !.ropen = b] = [pipes[p] EXCEPT !.ropen = b, !.wopen = pipes[p].wopen]
        /\ [pipes[p] EXCEPT !.ropen = b].ropen = b
        /\ [pipes[p] EXCEPT !.ropen = b].wopen = pipes[p].wopen
        /\ [pipes[p] EXCEPT !.wopen = b] = [pipes[p] EXCEPT !.ropen = pipes[p].ropen, !.wopen = b]
        /\ [pipes[p] EXCEPT !.wopen = b].wopen = b
        /\ [pipes[p] EXCEPT !.wopen = b].ropen = pipes[p].ropen
  BY <1>1 DEF PipeType
<1>4. \A p \in Pipe : EndsChange(pipes[p], pipes[p])
  BY <1>2, Zenon DEF EndsChange
<1>5. \A p \in Pipe : \A b \in BOOLEAN : /\ EndsChange(pipes[p], [pipes[p] EXCEPT !.ropen = b])
                                         /\ EndsChange(pipes[p], [pipes[p] EXCEPT !.wopen = b])
  BY <1>2, <1>3, Zenon DEF EndsChange
<1>6. (EndSet(pipes, pipes, e, TRUE) /\ EndSet(pipes, pipes, e, FALSE))
      \/ e.type \in {"read", "write"}
  BY <1>1, <1>4 DEF EndSet
<1>7. ASSUME NEW b \in BOOLEAN, e.type = "read"
      PROVE  EndSet(pipes, [pipes EXCEPT ![e.pipe].ropen = b], e, b)
  <2>1. PICK x \in Pipe : x = e.pipe
    BY <1>7
  <2>2. PICK new : new = [pipes EXCEPT ![x].ropen = b]
    OBVIOUS
  <2>3. /\ new = [p \in Pipe |-> new[p]] /\ new[x] = [pipes[x] EXCEPT !.ropen = b]
        /\ \A p \in Pipe \ {x} : new[p] = pipes[p]
    BY <1>1, <2>2
  <2>4. \A p \in Pipe : EndsChange(pipes[p], new[p])
    BY <1>4, <1>5, <2>3
  <2>0. /\ [pipes[x] EXCEPT !.ropen = b].ropen = b
        /\ [pipes[x] EXCEPT !.ropen = b].wopen = pipes[x].wopen
    BY <1>3
  <2>5. /\ new[x].ropen = b
        /\ new[x].wopen = pipes[x].wopen
    BY <2>0, <2>3, Zenon
  <2>6. EndSet(pipes, new, e, b)
    BY <1>7, <2>1, <2>3, <2>4, <2>5 DEF EndSet
  <2> QED BY <2>1, <2>2, <2>6
<1>8. ASSUME NEW b \in BOOLEAN, e.type = "write"
      PROVE  EndSet(pipes, [pipes EXCEPT ![e.pipe].wopen = b], e, b)
  <2>1. PICK x \in Pipe : x = e.pipe
    BY <1>8
  <2>2. PICK new : new = [pipes EXCEPT ![x].wopen = b]
    OBVIOUS
  <2>3. /\ new = [p \in Pipe |-> new[p]] /\ new[x] = [pipes[x] EXCEPT !.wopen = b]
        /\ \A p \in Pipe \ {x} : new[p] = pipes[p]
    BY <1>1, <2>2
  <2>4. \A p \in Pipe : EndsChange(pipes[p], new[p])
    BY <1>4, <1>5, <2>3
  <2>0. /\ [pipes[x] EXCEPT !.wopen = b].ropen = pipes[x].ropen
        /\ [pipes[x] EXCEPT !.wopen = b].wopen = b
    BY <1>3
  <2>5. /\ new[x].ropen = pipes[x].ropen
        /\ new[x].wopen = b
    BY <2>0, <2>3, Zenon
  <2>6. EndSet(pipes, new, e, b)
    BY <1>8, <2>1, <2>3, <2>4, <2>5 DEF EndSet
  <2> QED BY <2>1, <2>2, <2>6
<1>9. e.pipe \notin Pipe => e.type \notin {"read", "write"}
  OBVIOUS
<1> QED BY <1>6, <1>7, <1>8, <1>9 DEF ClosedEnd, OpenedEnd

LEMMA EndSetKeepsRings ==
  ASSUME FilesInv, NEW e, NEW b, EndSet(pipes, pipes', e, b), UNCHANGED made
  PROVE  RingInv'
<1>1. \A p \in Pipe : RingOK(pipes[p]) /\ EndsChange(pipes[p], pipes'[p])
  BY DEF FilesInv, RingInv, EndSet
<1>2. \A p \in Pipe : RingOK(pipes'[p])
  BY <1>1, RingKeepsEnds
<1> QED BY <1>2 DEF FilesInv, RingInv, EndSet

\* An end that some other descriptor holds stays held when one descriptor goes.
LEMMA HeldByOthers ==
  ASSUME FilesInv, NEW g \in Fd, EndSet(pipes, pipes', fds[g], FALSE),
         \A h \in Fd \ {g} : fds[h].type \in {"read", "write"} => fds'[h] = fds[h]
  PROVE  OpenEndIsHeld'
<1>1. ASSUME NEW p \in Pipe, pipes'[p].ropen
      PROVE  \E f \in Fd : fds'[f].type = "read" /\ fds'[f].pipe = p
  <2>1. pipes[p].ropen /\ ~(fds[g].type = "read" /\ fds[g].pipe = p)
    BY <1>1 DEF EndSet
  <2>2. PICK f \in Fd : fds[f].type = "read" /\ fds[f].pipe = p
    BY <2>1 DEF FilesInv, OpenEndIsHeld
  <2> QED BY <2>1, <2>2
<1>2. ASSUME NEW p \in Pipe, pipes'[p].wopen
      PROVE  \E f \in Fd : fds'[f].type = "write" /\ fds'[f].pipe = p
  <2>1. pipes[p].wopen /\ ~(fds[g].type = "write" /\ fds[g].pipe = p)
    BY <1>2 DEF EndSet
  <2>2. PICK f \in Fd : fds[f].type = "write" /\ fds[f].pipe = p
    BY <2>1 DEF FilesInv, OpenEndIsHeld
  <2> QED BY <2>1, <2>2
<1> QED BY <1>1, <1>2 DEF OpenEndIsHeld

LEMMA FdIsTyped ==
  ASSUME FilesInv, NEW f \in Fd
  PROVE  /\ fds[f] \in FdType
         /\ fds[f].type \in {"read", "write"} => fds[f].pipe \in Pipe
         /\ IsOpen(f) => inUse
BY DEF FilesInv, FdInv, IsOpen

LEMMA CloseKeeps == ASSUME FilesInv, NEW f \in Fd, Close(f) PROVE FilesInv'
<1>1. EndSet(pipes, pipes', fds[f], FALSE)
  BY FdIsTyped, EndIsSet DEF Close
<1>2. /\ fds \in [Fd -> FdType] /\ NoFd \in FdType /\ NoFd.type = "none"
      /\ fds' = [fds EXCEPT ![f] = NoFd]
  BY FdFacts DEF Close, FilesInv, FdInv
<1>3. /\ fds' \in [Fd -> FdType] /\ fds'[f].type = "none"
      /\ \A h \in Fd \ {f} : fds'[h] = fds[h]
  BY <1>2
<1>4. OpenEndIsHeld'
  BY <1>1, <1>3, HeldByOthers
<1>5. FdInv'
  BY <1>3, FdIsTyped DEF Close, FilesInv, FdInv
<1>6. RingInv'
  BY <1>1, EndSetKeepsRings DEF Close
<1> QED BY <1>4, <1>5, <1>6 DEF Close, FilesInv, TreeInv, UserInv, userVars, still

LEMMA Dup2Keeps == ASSUME FilesInv, NEW f \in Fd, NEW g \in Fd, Dup2(f, g) PROVE FilesInv'
<1>1. EndSet(pipes, pipes', fds[g], FALSE)
  BY FdIsTyped, EndIsSet DEF Dup2
<1>2. fds \in [Fd -> FdType] /\ NoFd \in FdType /\ NoFd.type = "none"
  BY FdFacts DEF FilesInv, FdInv
<1>3. PICK closed : closed = IF IsOpen(g) THEN [fds EXCEPT ![g] = NoFd] ELSE fds
  OBVIOUS
<1>4. closed \in [Fd -> FdType] /\ closed[f] \in {fds[f], NoFd}
      /\ \A h \in Fd \ {g} : closed[h] = fds[h]
  BY <1>2, <1>3
<1>5. fds' = [closed EXCEPT ![g] = closed[f]]
  BY <1>3 DEF Dup2
<1>6. /\ fds' \in [Fd -> FdType] /\ fds'[g] \in {fds[f], NoFd}
      /\ \A h \in Fd \ {g} : fds'[h] = fds[h]
  BY <1>4, <1>5
<1>7. OpenEndIsHeld'
  BY <1>1, <1>6, HeldByOthers
<1>8. FdInv'
  <2>1. inUse /\ inUse' = inUse
    BY FdIsTyped DEF Dup2
  <2>2. \A h \in Fd : fds'[h].type \in {"read", "write"} => fds'[h].pipe \in Pipe
    BY <1>2, <1>6, FdIsTyped
  <2> QED BY <1>6, <2>1, <2>2 DEF FdInv
<1>9. RingInv'
  BY <1>1, EndSetKeepsRings DEF Dup2
<1> QED BY <1>7, <1>8, <1>9 DEF Dup2, FilesInv, TreeInv, UserInv, userVars, still

LEMMA DupKeeps == ASSUME FilesInv, NEW f \in Fd, Dup(f) PROVE FilesInv'
<1>1. EndSet(pipes, pipes', fds[f], TRUE)
  BY FdIsTyped, EndIsSet DEF Dup
<1>2. PICK x \in Fd : x = Lowest(FreeFds) /\ fds[x].type = "none"
  BY LowestFree DEF Dup
<1>3. fds \in [Fd -> FdType] /\ fds' = [fds EXCEPT ![x] = fds[f]] /\ fds[f].type # "none"
  BY <1>2 DEF Dup, IsOpen, FilesInv, FdInv
<1>4. fds' \in [Fd -> FdType] /\ fds'[x] = fds[f] /\ \A h \in Fd \ {x} : fds'[h] = fds[h]
  BY <1>3
<1>5. OpenEndIsHeld'
  <2>1. ASSUME NEW h \in Fd, fds[h].type # "none" PROVE fds'[h] = fds[h]
    BY <1>2, <1>4, <2>1
  <2>2. ASSUME NEW p \in Pipe, pipes'[p].ropen
        PROVE  \E h \in Fd : fds'[h].type = "read" /\ fds'[h].pipe = p
    <3>1. pipes[p].ropen \/ (fds[f].type = "read" /\ fds[f].pipe = p)
      BY <1>1, <2>2 DEF EndSet
    <3>2. PICK h \in Fd : fds[h].type = "read" /\ fds[h].pipe = p
      BY <3>1 DEF FilesInv, OpenEndIsHeld
    <3> QED BY <2>1, <3>2
  <2>3. ASSUME NEW p \in Pipe, pipes'[p].wopen
        PROVE  \E h \in Fd : fds'[h].type = "write" /\ fds'[h].pipe = p
    <3>1. pipes[p].wopen \/ (fds[f].type = "write" /\ fds[f].pipe = p)
      BY <1>1, <2>3 DEF EndSet
    <3>2. PICK h \in Fd : fds[h].type = "write" /\ fds[h].pipe = p
      BY <3>1 DEF FilesInv, OpenEndIsHeld
    <3> QED BY <2>1, <3>2
  <2> QED BY <2>2, <2>3 DEF OpenEndIsHeld
<1>6. FdInv'
  <2>1. inUse /\ inUse' = inUse
    BY FdIsTyped DEF Dup
  <2>2. \A h \in Fd : fds'[h].type \in {"read", "write"} => fds'[h].pipe \in Pipe
    BY <1>4, FdIsTyped
  <2> QED BY <1>4, <2>1, <2>2 DEF FdInv
<1>7. RingInv'
  BY <1>1, EndSetKeepsRings DEF Dup
<1> QED BY <1>5, <1>6, <1>7 DEF Dup, FilesInv, TreeInv, UserInv, userVars, still

\* Without a table there is no descriptor, and no end of a pipe is open.
LEMMA AllocTaskKeeps == ASSUME FilesInv, AllocTask PROVE FilesInv'
<1>1. \A p \in Pipe : ~pipes[p].ropen /\ ~pipes[p].wopen
  BY DEF AllocTask, FilesInv, FdInv, OpenEndIsHeld
<1>2. OpenEndIsHeld'
  BY <1>1 DEF AllocTask, OpenEndIsHeld, pipeVars
<1>3. FdInv'
  BY FdFacts DEF AllocTask, FdInv
<1>4. vcwd' \in NodeId
  BY Sizes DEF AllocTask
<1> QED BY <1>2, <1>3, <1>4
    DEF AllocTask, FilesInv, TreeInv, UserInv, RingInv, pipeVars, userVars, still

LEMMA FreeTaskKeeps == ASSUME FilesInv, FreeTask PROVE FilesInv'
<1>1. \A p \in Pipe : pipes[p] \in PipeType /\ RingOK(pipes[p])
  BY DEF FilesInv, RingInv, RingOK
<1>2. ASSUME NEW p \in Pipe
      PROVE  /\ EndsChange(pipes[p], pipes'[p])
             /\ ~pipes'[p].ropen /\ ~pipes'[p].wopen
  <2>1. PICK r \in BOOLEAN, w \in BOOLEAN :
          /\ r = (pipes[p].ropen /\ ~\E f \in Fd : fds[f].type = "read" /\ fds[f].pipe = p)
          /\ w = (pipes[p].wopen /\ ~\E f \in Fd : fds[f].type = "write" /\ fds[f].pipe = p)
    OBVIOUS
  <2>2. ~r /\ ~w
    BY <2>1 DEF FilesInv, OpenEndIsHeld
  <2>3. pipes'[p] = [pipes[p] EXCEPT !.ropen = r, !.wopen = w]
    BY <2>1 DEF FreeTask
  <2> QED BY <1>1, <2>2, <2>3 DEF EndsChange, PipeType
<1>3. OpenEndIsHeld'
  BY <1>2 DEF OpenEndIsHeld
<1>4. RingInv'
  <2>1. \A p \in Pipe : RingOK(pipes'[p])
    BY <1>1, <1>2, RingKeepsEnds
  <2>2. pipes' = [p \in Pipe |-> pipes'[p]]
    BY DEF FreeTask
  <2> QED BY <2>1, <2>2 DEF RingInv, FreeTask, FilesInv
<1>5. FdInv'
  BY FdFacts DEF FreeTask, FdInv
<1> QED BY <1>3, <1>4, <1>5 DEF FreeTask, FilesInv, TreeInv, UserInv, userVars, still

----------------------------------------------------------------------------
(* Pipes                                                                     *)

LEMMA EmptyRing ==
  LET q == [NoPipe EXCEPT !.ropen = TRUE, !.wopen = TRUE]
  IN RingOK(NoPipe) /\ RingOK(q) /\ q.ropen /\ q.wopen
<1>1. "0" \in Byte
  BY DEF Byte
<1>2. [k \in 0 .. PipeBuf - 1 |-> "0"] \in [0 .. PipeBuf - 1 -> Byte]
  BY <1>1
<1>3. 0 \in 0 .. PipeBuf - 1 /\ 0 \in 0 .. PipeBuf /\ 0 % PipeBuf = 0
  BY Sizes, SMTT(20)
<1>4. <<>> \in Seq(Byte)
  BY EmptySeq
<1>5. NoPipe \in PipeType
  BY <1>2, <1>3, <1>4, Zenon DEF NoPipe, PipeType
<1>6. NoPipe.count = 0 /\ NoPipe.rpos = 0 /\ NoPipe.wpos = 0 /\ NoPipe.fed = <<>> /\ NoPipe.drawn = <<>>
  BY DEF NoPipe
<1>7. Taken(NoPipe.ring, 0, 0) = <<>>
  BY DEF Taken
<1>8. <<>> \o <<>> = <<>>
  OBVIOUS
<1>9. Around(0, 0) = 0
  BY <1>3 DEF Around
<1>10. RingOK(NoPipe)
  BY <1>5, <1>6, <1>7, <1>8, <1>9, Zenon DEF RingOK
<1>11. PICK q : q = [NoPipe EXCEPT !.ropen = TRUE, !.wopen = TRUE]
  OBVIOUS
<1>12. EndsChange(NoPipe, q)
  BY <1>11 DEF EndsChange
<1>13. q.ropen /\ q.wopen
  BY <1>5, <1>11 DEF PipeType
<1> QED BY <1>10, <1>11, <1>12, <1>13, RingKeepsEnds

LEMMA MakePipeKeeps == ASSUME FilesInv, inUse, MakePipe PROVE FilesInv'
<1>1. PICK r \in Fd : r = Lowest(FreeFds) /\ fds[r].type = "none"
  <2>1. Cardinality({}) = 0
    BY FS_EmptySet
  <2>2. FreeFds # {}
    BY <2>1 DEF MakePipe
  <2> QED BY <2>2, LowestFree
<1>2. PICK w \in Fd : w = Lowest(FreeFds \ {r}) /\ fds[w].type = "none" /\ w # r
  <2>1. Cardinality({}) = 0 /\ Cardinality({r}) = 1
    BY FS_EmptySet, FS_Singleton
  <2>2. FreeFds \ {r} # {}
    <3>1. Cardinality(FreeFds) >= 2
      BY DEF MakePipe
    <3>2. FreeFds # {} /\ FreeFds # {r}
      BY <2>1, <3>1
    <3> QED BY <3>2, Zenon
  <2>3. FreeFds \ {r} \in SUBSET Nat
    BY DEF FreeFds, Fd
  <2>4. Lowest(FreeFds \ {r}) \in FreeFds \ {r}
    BY <2>2, <2>3, LowestIsLeast
  <2> QED BY <2>4 DEF FreeFds
<1>3. PICK x \in Pipe : x = made
  BY Sizes DEF MakePipe, FilesInv, RingInv, Pipe
<1>4. PICK er, ew : /\ er = [NoFd EXCEPT !.type = "read", !.pipe = x]
                    /\ ew = [NoFd EXCEPT !.type = "write", !.pipe = x]
  OBVIOUS
<1>5. /\ er \in FdType /\ er.type = "read" /\ er.pipe = x
      /\ ew \in FdType /\ ew.type = "write" /\ ew.pipe = x
  <2>1. /\ er = [type |-> "read", node |-> None, off |-> 0, append |-> FALSE, pipe |-> x]
        /\ ew = [type |-> "write", node |-> None, off |-> 0, append |-> FALSE, pipe |-> x]
    BY <1>4 DEF NoFd
  <2>2. 0 \in 0 .. MaxContent
    BY Sizes
  <2> QED BY <2>1, <2>2 DEF FdType
<1>6. fds \in [Fd -> FdType] /\ fds' = [fds EXCEPT ![r] = er, ![w] = ew]
  BY <1>1, <1>2, <1>3, <1>4 DEF MakePipe, FilesInv, FdInv
<1>7. /\ fds' \in [Fd -> FdType] /\ fds'[r] = er /\ fds'[w] = ew
      /\ \A h \in Fd \ {r, w} : fds'[h] = fds[h]
  BY <1>2, <1>5, <1>6
<1>8. PICK q : q = [NoPipe EXCEPT !.ropen = TRUE, !.wopen = TRUE]
  OBVIOUS
<1>9. RingOK(q)
  BY <1>8, EmptyRing
<1>10. pipes = [p \in Pipe |-> pipes[p]] /\ pipes' = [pipes EXCEPT ![x] = q]
  BY <1>3, <1>8 DEF MakePipe, FilesInv, RingInv
<1>11. /\ pipes' = [p \in Pipe |-> pipes'[p]] /\ pipes'[x] = q
       /\ \A p \in Pipe \ {x} : pipes'[p] = pipes[p]
  BY <1>10
<1>12. RingInv'
  <2>1. \A p \in Pipe : RingOK(pipes'[p])
    BY <1>9, <1>11 DEF FilesInv, RingInv
  <2>2. made' \in 0 .. MaxPipes
    BY Sizes DEF MakePipe, FilesInv, RingInv
  <2> QED BY <1>11, <2>1, <2>2 DEF RingInv
<1>13. FdInv'
  <2>2. \A h \in Fd : fds'[h].type \in {"read", "write"} => fds'[h].pipe \in Pipe
    BY <1>5, <1>7, FdIsTyped
  <2>3. inUse' = TRUE
    BY DEF MakePipe, FilesInv, FdInv
  <2> QED BY <1>7, <2>2, <2>3 DEF FdInv
<1>14. OpenEndIsHeld'
  <2>1. ASSUME NEW h \in Fd, fds[h].type # "none" PROVE fds'[h] = fds[h]
    BY <1>1, <1>2, <1>7, <2>1
  <2>2. ASSUME NEW p \in Pipe, pipes'[p].ropen
        PROVE  \E h \in Fd : fds'[h].type = "read" /\ fds'[h].pipe = p
    <3>1. CASE p = x
      BY <1>5, <1>7, <3>1
    <3>2. CASE p # x
      <4>1. PICK h \in Fd : fds[h].type = "read" /\ fds[h].pipe = p
        BY <1>11, <2>2, <3>2 DEF FilesInv, OpenEndIsHeld
      <4> QED BY <2>1, <4>1
    <3> QED BY <3>1, <3>2
  <2>3. ASSUME NEW p \in Pipe, pipes'[p].wopen
        PROVE  \E h \in Fd : fds'[h].type = "write" /\ fds'[h].pipe = p
    <3>1. CASE p = x
      BY <1>5, <1>7, <3>1
    <3>2. CASE p # x
      <4>1. PICK h \in Fd : fds[h].type = "write" /\ fds[h].pipe = p
        BY <1>11, <2>3, <3>2 DEF FilesInv, OpenEndIsHeld
      <4> QED BY <2>1, <4>1
    <3> QED BY <3>1, <3>2
  <2> QED BY <2>2, <2>3 DEF OpenEndIsHeld
<1> QED BY <1>12, <1>13, <1>14 DEF MakePipe, FilesInv, TreeInv, UserInv, userVars, still

\* Positions go around the ring.
LEMMA AroundIs ==
  ASSUME NEW i \in 0 .. PipeBuf - 1, NEW n \in 0 .. PipeBuf
  PROVE  /\ Around(i, n) = IF i + n < PipeBuf THEN i + n ELSE i + n - PipeBuf
         /\ Around(i, n) \in 0 .. PipeBuf - 1
<1>1. PipeBuf \in Nat /\ PipeBuf > 0
  BY Sizes
<1>2. Around(i, n) = IF i + n < PipeBuf THEN i + n ELSE i + n - PipeBuf
  BY <1>1, SMTT(20) DEF Around
<1> QED BY <1>1, <1>2

LEMMA AroundTwice ==
  ASSUME NEW i \in 0 .. PipeBuf - 1, NEW m \in 0 .. PipeBuf, NEW n \in 0 .. PipeBuf,
         m + n <= PipeBuf
  PROVE  Around(Around(i, m), n) = Around(i, m + n)
<1>1. PipeBuf \in Nat /\ PipeBuf > 0 /\ m + n \in 0 .. PipeBuf
  BY Sizes
<1>2. PICK j \in 0 .. PipeBuf - 1 : /\ j = Around(i, m)
                                    /\ j = IF i + m < PipeBuf THEN i + m ELSE i + m - PipeBuf
  BY AroundIs
<1>3. Around(j, n) = IF j + n < PipeBuf THEN j + n ELSE j + n - PipeBuf
  BY AroundIs
<1>4. Around(i, m + n) = IF i + (m + n) < PipeBuf THEN i + (m + n) ELSE i + (m + n) - PipeBuf
  BY <1>1, AroundIs
<1> QED BY <1>1, <1>2, <1>3, <1>4

LEMMA AroundIsInjective ==
  ASSUME NEW i \in 0 .. PipeBuf - 1, NEW m \in 0 .. PipeBuf - 1, NEW n \in 0 .. PipeBuf - 1,
         Around(i, m) = Around(i, n)
  PROVE  m = n
<1>1. PipeBuf \in Nat /\ PipeBuf > 0 /\ m \in 0 .. PipeBuf /\ n \in 0 .. PipeBuf
  BY Sizes
<1>2. Around(i, m) = IF i + m < PipeBuf THEN i + m ELSE i + m - PipeBuf
  BY <1>1, AroundIs
<1>3. Around(i, n) = IF i + n < PipeBuf THEN i + n ELSE i + n - PipeBuf
  BY <1>1, AroundIs
<1>4. (IF i + m < PipeBuf THEN i + m ELSE i + m - PipeBuf)
      = IF i + n < PipeBuf THEN i + n ELSE i + n - PipeBuf
  BY <1>2, <1>3
<1>5. i \in Int /\ m \in Int /\ n \in Int /\ 0 <= m /\ m < PipeBuf /\ 0 <= n /\ n < PipeBuf
  BY <1>1
<1>6. CASE i + m < PipeBuf /\ i + n < PipeBuf
  BY <1>1, <1>4, <1>5, <1>6
<1>7. CASE i + m < PipeBuf /\ i + n >= PipeBuf
  BY <1>1, <1>4, <1>5, <1>7
<1>8. CASE i + m >= PipeBuf /\ i + n < PipeBuf
  BY <1>1, <1>4, <1>5, <1>8
<1>9. CASE i + m >= PipeBuf /\ i + n >= PipeBuf
  BY <1>1, <1>4, <1>5, <1>9
<1> QED BY <1>1, <1>5, <1>6, <1>7, <1>8, <1>9

Ring == [0 .. PipeBuf - 1 -> Byte]

LEMMA TakenIs ==
  ASSUME NEW ring \in Ring, NEW i \in 0 .. PipeBuf - 1, NEW n \in 0 .. PipeBuf
  PROVE  /\ Taken(ring, i, n) \in Seq(Byte) /\ Len(Taken(ring, i, n)) = n
         /\ \A k \in 1 .. n : Taken(ring, i, n)[k] = ring[Around(i, k - 1)]
<1>1. ASSUME NEW k \in 1 .. n PROVE ring[Around(i, k - 1)] \in Byte
  <2>1. k - 1 \in 0 .. PipeBuf
    BY Sizes
  <2> QED BY <2>1, AroundIs DEF Ring
<1>2. Taken(ring, i, n) \in [1 .. n -> Byte]
  BY <1>1 DEF Taken
<1>3. n \in Nat
  BY Sizes
<1>4. Taken(ring, i, n) \in Seq(Byte)
  BY <1>2, <1>3, SeqDef
<1> QED BY <1>2, <1>3, <1>4 DEF Taken

LEMMA TakenSplits ==
  ASSUME NEW ring \in Ring, NEW i \in 0 .. PipeBuf - 1, NEW m \in 0 .. PipeBuf,
         NEW n \in 0 .. PipeBuf, m + n <= PipeBuf
  PROVE  Taken(ring, i, m + n) = Taken(ring, i, m) \o Taken(ring, Around(i, m), n)
<1>0. PipeBuf \in Nat /\ m + n \in 0 .. PipeBuf /\ m \in Nat /\ n \in Nat
  BY Sizes
<1>1. PICK j \in 0 .. PipeBuf - 1 : j = Around(i, m)
  BY AroundIs
<1>2. PICK a \in Seq(Byte) : /\ a = Taken(ring, i, m) /\ Len(a) = m
                             /\ \A k \in 1 .. m : a[k] = ring[Around(i, k - 1)]
  BY TakenIs
<1>3. PICK b \in Seq(Byte) : /\ b = Taken(ring, j, n) /\ Len(b) = n
                             /\ \A k \in 1 .. n : b[k] = ring[Around(j, k - 1)]
  BY TakenIs
<1>4. PICK c \in Seq(Byte) : /\ c = Taken(ring, i, m + n) /\ Len(c) = m + n
                             /\ \A k \in 1 .. m + n : c[k] = ring[Around(i, k - 1)]
  BY <1>0, TakenIs
<1>5. /\ a \o b \in Seq(Byte) /\ Len(a \o b) = m + n
      /\ \A k \in 1 .. m + n : (a \o b)[k] = IF k <= m THEN a[k] ELSE b[k - m]
  <2>1. /\ a \o b \in Seq(Byte) /\ Len(a \o b) = Len(a) + Len(b)
        /\ \A k \in 1 .. Len(a) + Len(b) : (a \o b)[k] = IF k <= Len(a) THEN a[k] ELSE b[k - Len(a)]
    BY ConcatProperties
  <2> QED BY <1>2, <1>3, <2>1
<1>6. ASSUME NEW k \in 1 .. m + n PROVE c[k] = (a \o b)[k]
  <2>1. CASE k <= m
    <3>1. k \in 1 .. m
      BY <2>1
    <3>2. (a \o b)[k] = a[k]
      BY <1>5, <2>1
    <3> QED BY <1>2, <1>4, <3>1, <3>2
  <2>2. CASE k > m
    <3>1. PICK h \in 1 .. n : h = k - m
      BY <1>0, <2>2
    <3>2. (a \o b)[k] = b[h]
      <4>1. ~(k <= m)
        BY <1>0, <2>2
      <4> QED BY <1>5, <3>1, <4>1
    <3>3. b[h] = ring[Around(j, h - 1)]
      BY <1>3
    <3>4. Around(j, h - 1) = Around(i, m + (h - 1))
      <4>1. h - 1 \in 0 .. PipeBuf /\ m + (h - 1) <= PipeBuf
        BY <1>0
      <4> QED BY <1>1, <4>1, AroundTwice
    <3>5. m + (h - 1) = k - 1
      BY <1>0, <3>1
    <3> QED BY <1>4, <3>2, <3>3, <3>4, <3>5
  <2>3. k <= m \/ k > m
    BY <1>0
  <2> QED BY <2>1, <2>2, <2>3
<1>7. c = a \o b
  BY <1>4, <1>5, <1>6, SeqEqual
<1> QED BY <1>1, <1>2, <1>3, <1>4, <1>7

LEMMA FilledIs ==
  ASSUME NEW ring \in Ring, NEW i \in 0 .. PipeBuf - 1, NEW d \in Seq(Byte), Len(d) <= PipeBuf
  PROVE  /\ Filled(ring, i, d) \in Ring
         /\ \A k \in 1 .. Len(d) : Filled(ring, i, d)[Around(i, k - 1)] = d[k]
         /\ \A j \in 0 .. PipeBuf - 1 : (\A k \in 1 .. Len(d) : Around(i, k - 1) # j)
              => Filled(ring, i, d)[j] = ring[j]
<1>1. DOMAIN d = 1 .. Len(d) /\ Len(d) \in Nat /\ PipeBuf \in Nat
  BY Sizes, LenProperties
<1>2. ASSUME NEW k \in 1 .. Len(d)
      PROVE  /\ k - 1 \in 0 .. PipeBuf - 1 /\ k - 1 \in 0 .. PipeBuf /\ d[k] \in Byte
             /\ Around(i, k - 1) \in 0 .. PipeBuf - 1
  <2>1. k - 1 \in 0 .. PipeBuf - 1 /\ k - 1 \in 0 .. PipeBuf /\ d[k] \in Byte
    BY <1>1
  <2> QED BY <2>1, AroundIs
<1>3. PICK at : at = [j \in 0 .. PipeBuf - 1 |-> CHOOSE k \in DOMAIN d : Around(i, k - 1) = j]
  OBVIOUS
<1>4. PICK new : new = Filled(ring, i, d)
  OBVIOUS
<1>5. new = [j \in 0 .. PipeBuf - 1 |->
               IF \E k \in DOMAIN d : Around(i, k - 1) = j THEN d[at[j]] ELSE ring[j]]
  BY <1>3, <1>4 DEF Filled, Ring
<1>6. ASSUME NEW j \in 0 .. PipeBuf - 1, \E k \in 1 .. Len(d) : Around(i, k - 1) = j
      PROVE  at[j] \in 1 .. Len(d) /\ Around(i, at[j] - 1) = j
  BY <1>1, <1>3, <1>6
<1>7. new \in Ring
  <2>1. \A j \in 0 .. PipeBuf - 1 : new[j] \in Byte
    BY <1>1, <1>2, <1>5, <1>6 DEF Ring
  <2> QED BY <1>5, <2>1 DEF Ring
<1>8. ASSUME NEW k \in 1 .. Len(d) PROVE new[Around(i, k - 1)] = d[k]
  <2>1. PICK j \in 0 .. PipeBuf - 1 : j = Around(i, k - 1)
    BY <1>2
  <2>2. PICK h \in 1 .. Len(d) : h = at[j] /\ Around(i, h - 1) = j
    BY <1>6, <2>1
  <2>3. k - 1 = h - 1
    BY <1>2, <2>1, <2>2, AroundIsInjective
  <2>4. k = h
    BY <1>1, <2>3
  <2> QED BY <1>1, <1>5, <2>1, <2>2, <2>4
<1>9. ASSUME NEW j \in 0 .. PipeBuf - 1, \A k \in 1 .. Len(d) : Around(i, k - 1) # j
      PROVE  new[j] = ring[j]
  BY <1>1, <1>5, <1>9
<1> QED BY <1>4, <1>7, <1>8, <1>9

\* A step that changes one ring, and no flag of its ends.
LEMMA OneRing ==
  ASSUME FilesInv, NEW x \in Pipe, NEW q, RingOK(q),
         q.ropen = pipes[x].ropen, q.wopen = pipes[x].wopen,
         pipes = [r \in Pipe |-> pipes[r]], pipes' = [pipes EXCEPT ![x] = q],
         UNCHANGED <<nodes, fdVars, made, userVars, still>>
  PROVE  FilesInv'
<1>1. /\ pipes' = [r \in Pipe |-> pipes'[r]] /\ pipes'[x] = q
      /\ \A r \in Pipe \ {x} : pipes'[r] = pipes[r]
  OBVIOUS
<1>2. UNCHANGED <<nodes, fds, inUse, vcwd, made, tNode, tCwd, kernel>>
  BY DEF fdVars, userVars, still
<1>3. \A r \in Pipe : RingOK(pipes'[r])
  BY <1>1 DEF FilesInv, RingInv
<1>4. RingInv'
  BY <1>1, <1>2, <1>3 DEF FilesInv, RingInv
<1>5. \A r \in Pipe : pipes'[r].ropen = pipes[r].ropen /\ pipes'[r].wopen = pipes[r].wopen
  BY <1>1
<1>6. OpenEndIsHeld'
  BY <1>2, <1>5 DEF FilesInv, OpenEndIsHeld
<1>7. FdInv'
  BY <1>2 DEF FilesInv, FdInv
<1>8. TreeInv' /\ UserInv'
  BY <1>2 DEF FilesInv, TreeInv, UserInv
<1> QED BY <1>4, <1>6, <1>7, <1>8 DEF FilesInv

\* Three runs of bytes make one run, in whichever order they are joined.
LEMMA Grouped ==
  ASSUME NEW u \in Seq(Byte), NEW v \in Seq(Byte), NEW w \in Seq(Byte)
  PROVE  (u \o v) \o w = u \o (v \o w)
BY ConcatAssociative

\* What is read leaves the pipe, and the rest stays in order.
LEMMA ReadPipeKeeps ==
  ASSUME FilesInv, NEW f \in Fd, NEW n \in Counts, ReadPipe(f, n)
  PROVE  FilesInv'
<1>1. PICK x \in Pipe : x = fds[f].pipe
  BY FdIsTyped DEF ReadPipe
<1>2. PICK p \in PipeType : p = pipes[x] /\ RingOK(p)
  BY DEF FilesInv, RingInv, RingOK
<1>3. PICK m \in 0 .. PipeBuf : m = Least(n, p.count) /\ m <= p.count
  <2>1. n \in Nat /\ p.count \in 0 .. PipeBuf
    BY FilesAssumption DEF PipeType
  <2> QED BY <2>1, Sizes DEF Least
<1>4. PICK c \in 0 .. PipeBuf : c = p.count - m
  BY <1>3, Sizes DEF PipeType
<1>5. PICK i \in 0 .. PipeBuf - 1 : i = Around(p.rpos, m)
  BY AroundIs DEF PipeType
<1>6. PICK b \in Seq(Byte) : b = Taken(p.ring, p.rpos, m)
  BY TakenIs DEF PipeType, Ring
<1>7. PICK q : q = [p EXCEPT !.rpos = i, !.count = c, !.drawn = p.drawn \o b]
  OBVIOUS
<1>8. /\ q \in PipeType
      /\ q.ring = p.ring /\ q.rpos = i /\ q.wpos = p.wpos /\ q.count = c
      /\ q.ropen = p.ropen /\ q.wopen = p.wopen /\ q.fed = p.fed /\ q.drawn = p.drawn \o b
  <2>1. p.drawn \o b \in Seq(Byte)
    BY ConcatProperties DEF PipeType
  <2> QED BY <1>7, <2>1 DEF PipeType
<1>9. RingOK(q)
  <2>1. p.ring \in Ring /\ p.rpos \in 0 .. PipeBuf - 1 /\ p.drawn \in Seq(Byte)
    BY DEF PipeType, Ring
  <2>2. m + c = p.count /\ m + c <= PipeBuf
    BY <1>3, <1>4, Sizes DEF PipeType
  <2>3. p.wpos = Around(i, c)
    <3>1. p.wpos = Around(p.rpos, m + c)
      BY <1>2, <2>2 DEF RingOK
    <3> QED BY <1>5, <2>1, <2>2, <3>1, AroundTwice
  <2>4. p.fed = (p.drawn \o b) \o Taken(p.ring, i, c)
    <3>1. Taken(p.ring, p.rpos, m + c) = b \o Taken(p.ring, i, c)
      BY <1>5, <1>6, <2>1, <2>2, TakenSplits
    <3>2. PICK u \in Seq(Byte) : u = Taken(p.ring, i, c)
      BY <2>1, TakenIs
    <3>3. p.fed = p.drawn \o (b \o u)
      BY <1>2, <2>2, <3>1, <3>2 DEF RingOK
    <3>4. PICK v \in Seq(Byte) : v = p.drawn
      BY <2>1
    <3>5. (v \o b) \o u = v \o (b \o u)
      BY Grouped
    <3> QED BY <3>2, <3>3, <3>4, <3>5
  <2> QED BY <1>8, <2>3, <2>4 DEF RingOK
<1>10. pipes = [r \in Pipe |-> pipes[r]] /\ pipes' = [pipes EXCEPT ![x] = q]
  <2>1. pipes' = [pipes EXCEPT ![fds[f].pipe] =
          [pipes[fds[f].pipe] EXCEPT
             !.rpos = Around(@, Least(n, pipes[fds[f].pipe].count)),
             !.count = @ - Least(n, pipes[fds[f].pipe].count),
             !.drawn = @ \o Taken(pipes[fds[f].pipe].ring, pipes[fds[f].pipe].rpos,
                                  Least(n, pipes[fds[f].pipe].count))]]
    BY Zenon DEF ReadPipe
  <2>2. pipes' = [pipes EXCEPT ![x] = [p EXCEPT !.rpos = Around(p.rpos, m), !.count = p.count - m,
                                                !.drawn = p.drawn \o Taken(p.ring, p.rpos, m)]]
    BY <1>1, <1>2, <1>3, <2>1
  <2> QED BY <1>4, <1>5, <1>6, <1>7, <2>2 DEF FilesInv, RingInv
<1>11. UNCHANGED <<nodes, fdVars, made, userVars, still>>
  BY DEF ReadPipe
<1> QED BY <1>2, <1>8, <1>9, <1>10, <1>11, OneRing

\* What is written enters the pipe behind what is there.
LEMMA WritePipeKeeps ==
  ASSUME FilesInv, NEW f \in Fd, NEW d \in Datas, WritePipe(f, d)
  PROVE  FilesInv'
<1>1. PICK x \in Pipe : x = fds[f].pipe
  BY FdIsTyped DEF WritePipe
<1>2. PICK p \in PipeType : p = pipes[x] /\ RingOK(p)
  BY DEF FilesInv, RingInv, RingOK
<1>3. PICK s \in Seq(Byte) : s = First(Space(p), d) /\ Len(s) <= PipeBuf - p.count
  <2>1. d \in Seq(Byte)
    BY DataIsBytes
  <2>2. PICK n \in Nat : n = Space(p) /\ n = PipeBuf - p.count
    BY Sizes DEF Space, PipeType
  <2>3. First(n, d) \in Seq(Byte) /\ Len(First(n, d)) = IF n < Len(d) THEN n ELSE Len(d)
    BY <2>1, FirstOf
  <2>4. Len(First(n, d)) <= n
    BY <2>1, <2>3
  <2> QED BY <2>2, <2>3, <2>4
<1>4. PICK n \in 0 .. PipeBuf : n = Len(s) /\ p.count + n \in 0 .. PipeBuf
  <2>1. Len(s) \in Nat /\ p.count \in 0 .. PipeBuf
    BY DEF PipeType
  <2> QED BY <1>3, <2>1, Sizes
<1>5. PICK ring \in Ring :
        /\ ring = Filled(p.ring, p.wpos, s)
        /\ \A k \in 1 .. n : ring[Around(p.wpos, k - 1)] = s[k]
        /\ \A j \in 0 .. PipeBuf - 1 : (\A k \in 1 .. n : Around(p.wpos, k - 1) # j)
             => ring[j] = p.ring[j]
  <2>1. p.ring \in Ring /\ p.wpos \in 0 .. PipeBuf - 1
    BY DEF PipeType, Ring
  <2>2. Len(s) <= PipeBuf
    BY <1>4, Sizes
  <2>3. PICK filled : filled = Filled(p.ring, p.wpos, s)
    OBVIOUS
  <2>4. /\ filled \in Ring
        /\ \A k \in 1 .. Len(s) : filled[Around(p.wpos, k - 1)] = s[k]
        /\ \A j \in 0 .. PipeBuf - 1 : (\A k \in 1 .. Len(s) : Around(p.wpos, k - 1) # j)
             => filled[j] = p.ring[j]
    BY <2>1, <2>2, <2>3, FilledIs
  <2> QED BY <1>4, <2>3, <2>4
<1>6. PICK i \in 0 .. PipeBuf - 1 : i = Around(p.wpos, n)
  BY AroundIs DEF PipeType
<1>7. PICK q : q = [p EXCEPT !.ring = ring, !.wpos = i, !.count = p.count + n, !.fed = p.fed \o s]
  OBVIOUS
<1>8. /\ q \in PipeType
      /\ q.ring = ring /\ q.rpos = p.rpos /\ q.wpos = i /\ q.count = p.count + n
      /\ q.ropen = p.ropen /\ q.wopen = p.wopen /\ q.fed = p.fed \o s /\ q.drawn = p.drawn
  <2>1. p.fed \o s \in Seq(Byte)
    BY ConcatProperties DEF PipeType
  <2> QED BY <1>4, <1>7, <2>1 DEF PipeType, Ring
<1>9. RingOK(q)
  <2>1. /\ p.ring \in Ring /\ p.rpos \in 0 .. PipeBuf - 1 /\ p.drawn \in Seq(Byte)
        /\ p.count \in 0 .. PipeBuf /\ p.wpos = Around(p.rpos, p.count)
        /\ p.count + n <= PipeBuf
    BY <1>2, <1>4, Sizes DEF PipeType, Ring, RingOK
  <2>2. i = Around(p.rpos, p.count + n)
    BY <1>6, <2>1, AroundTwice
  <2>3. Taken(ring, p.rpos, p.count) = Taken(p.ring, p.rpos, p.count)
    <3>1. ASSUME NEW k \in 1 .. p.count
          PROVE  ring[Around(p.rpos, k - 1)] = p.ring[Around(p.rpos, k - 1)]
      <4>1. PICK h \in 0 .. PipeBuf - 1 : h = k - 1 /\ h < p.count
        BY <2>1, Sizes
      <4>2. PICK j \in 0 .. PipeBuf - 1 : j = Around(p.rpos, h)
        <5>1. h \in 0 .. PipeBuf
          BY Sizes
        <5> QED BY <2>1, <5>1, AroundIs
      <4>3. ASSUME NEW l \in 1 .. n PROVE Around(p.wpos, l - 1) # j
        <5>1. PICK g \in 0 .. PipeBuf : g = l - 1 /\ p.count + g \in 0 .. PipeBuf - 1
          BY <2>1, Sizes
        <5>2. p.count + g <= PipeBuf
          BY <5>1, Sizes
        <5>3. Around(p.wpos, g) = Around(p.rpos, p.count + g)
          BY <2>1, <5>2, AroundTwice
        <5>4. p.count + g # h
          BY <2>1, <4>1, <5>1, Sizes
        <5> QED BY <2>1, <4>2, <5>1, <5>3, <5>4, AroundIsInjective
      <4> QED BY <1>5, <4>1, <4>2, <4>3
    <3> QED BY <3>1 DEF Taken
  <2>4. Taken(ring, p.wpos, n) = s
    <3>1. p.wpos \in 0 .. PipeBuf - 1
      BY DEF PipeType
    <3>2. /\ Taken(ring, p.wpos, n) \in Seq(Byte) /\ Len(Taken(ring, p.wpos, n)) = n
          /\ \A k \in 1 .. n : Taken(ring, p.wpos, n)[k] = ring[Around(p.wpos, k - 1)]
      BY <3>1, TakenIs
    <3>3. \A k \in 1 .. Len(s) : Taken(ring, p.wpos, n)[k] = s[k]
      BY <1>4, <1>5, <3>2
    <3> QED BY <1>4, <3>2, <3>3, SeqEqual
  <2>5. Taken(ring, p.rpos, p.count + n) = Taken(p.ring, p.rpos, p.count) \o s
    <3>1. Taken(ring, p.rpos, p.count + n)
          = Taken(ring, p.rpos, p.count) \o Taken(ring, Around(p.rpos, p.count), n)
      BY <2>1, TakenSplits
    <3> QED BY <2>1, <2>3, <2>4, <3>1
  <2>6. p.fed \o s = p.drawn \o (Taken(p.ring, p.rpos, p.count) \o s)
    <3>1. PICK u \in Seq(Byte), v \in Seq(Byte) :
            u = Taken(p.ring, p.rpos, p.count) /\ v = p.drawn
      BY <2>1, TakenIs
    <3>2. (v \o u) \o s = v \o (u \o s)
      BY ConcatAssociative
    <3>3. p.fed = v \o u
      BY <1>2, <3>1 DEF RingOK
    <3> QED BY <3>1, <3>2, <3>3
  <2> QED BY <1>8, <2>2, <2>5, <2>6 DEF RingOK
<1>10. pipes = [r \in Pipe |-> pipes[r]] /\ pipes' = [pipes EXCEPT ![x] = q]
  <2>1. pipes' = [pipes EXCEPT ![x] = [p EXCEPT !.ring = Filled(p.ring, p.wpos, s),
                                                !.wpos = Around(p.wpos, Len(s)),
                                                !.count = p.count + Len(s), !.fed = p.fed \o s]]
    BY <1>1, <1>2, <1>3 DEF WritePipe
  <2> QED BY <1>4, <1>5, <1>6, <1>7, <2>1 DEF FilesInv, RingInv
<1>11. UNCHANGED <<nodes, fdVars, made, userVars, still>>
  BY DEF WritePipe
<1> QED BY <1>2, <1>8, <1>9, <1>10, <1>11, OneRing

(***************************************************************************)
(* The theorems                                                              *)
(***************************************************************************)

LEMMA InitFilesInv == Init => FilesInv
<1> SUFFICES ASSUME Init PROVE FilesInv
  OBVIOUS
<1>1. TreeInv /\ HomeThere(nodes)
  BY MountedIsSound DEF Init, TreeInv, HomePools, SoundPools
<1>2. UserInv
  <2>1. tNode \in NodeId
    BY <1>1, HomeResolves DEF Init, TreeInv
  <2>2. vcwd \in NodeId /\ tCwd \in Text /\ kernel \in [Sources -> Versions]
    BY Sizes, KnownTexts, FirstKernelType DEF Init
  <2> QED BY <2>1, <2>2 DEF UserInv
<1>3. FdInv
  BY FdFacts DEF Init, FdInv
<1>4. RingInv
  <2>1. RingOK(NoPipe)
    BY EmptyRing
  <2>2. 0 \in 0 .. MaxPipes
    BY Sizes
  <2> QED BY <2>1, <2>2 DEF Init, RingInv
<1>5. OpenEndIsHeld
  BY DEF Init, OpenEndIsHeld, NoPipe
<1> QED BY <1>1, <1>2, <1>3, <1>4, <1>5 DEF FilesInv

LEMMA NextFilesInv == FilesInv /\ [Next]_vars => FilesInv'
<1> SUFFICES ASSUME FilesInv, [Next]_vars PROVE FilesInv'
  OBVIOUS
<1>1. CASE Makes
  BY <1>1, MakesKeep DEF Makes
<1>2. CASE Removes
  BY <1>2, ShRmKeeps DEF Removes
<1>3. CASE Shell
  BY <1>3, ShWriteKeeps, ShRedirectKeeps, ShCdKeeps DEF Shell
<1>4. CASE Cats
  BY <1>4, ShCatKeeps, KernelKeeps DEF Cats
<1>5. CASE Terminal
  BY <1>5, TermMakeKeeps, TermRmKeeps, TermEchoKeeps, TermCdKeeps DEF Terminal
<1>6. CASE Apps
  BY <1>6, EditKeeps, PkgKeeps DEF Apps
<1>7. CASE Tables
  BY <1>7, AllocTaskKeeps, FreeTaskKeeps DEF Tables
<1>8. CASE Opens
  <2>1. ASSUME NEW t \in Typed, Open(t, FALSE, FALSE, FALSE) \/ Open(t, TRUE, TRUE, FALSE)
                                \/ Open(t, TRUE, FALSE, TRUE)
        PROVE  FilesInv'
    BY <2>1, OpenKeeps
  <2> QED BY <1>8, <2>1, OpenNullKeeps DEF Opens
<1>9. CASE Chdirs
  BY <1>9, ChdirKeeps DEF Chdirs
<1>10. CASE Streams
  BY <1>10, ReadFileKeeps, WriteAtKeeps, WriteAppendKeeps DEF Streams
<1>11. CASE Seeks
  BY <1>11, SeekKeeps DEF Seeks
<1>12. CASE Handles
  BY <1>12, CloseKeeps, DupKeeps, Dup2Keeps DEF Handles
<1>13. CASE inUse /\ Pipes
  BY <1>13, MakePipeKeeps, ReadPipeKeeps, WritePipeKeeps DEF Pipes
<1>14. CASE UNCHANGED vars
  BY <1>14 DEF vars, fdVars, pipeVars, userVars, still, FilesInv, TreeInv, UserInv, FdInv,
               RingInv, OpenEndIsHeld
<1> QED
  BY <1>1, <1>2, <1>3, <1>4, <1>5, <1>6, <1>7, <1>8, <1>9, <1>10, <1>11, <1>12, <1>13, <1>14
  DEF Next

(* Whatever the shell, the terminal, the editor, the generated files and the *)
(* holders of descriptors do, in any order: the pool of ramfs.c is one tree  *)
(* with names and lengths in bounds, descriptors and working directories are *)
(* of the right kind, every ring holds the bytes it took and did not hand    *)
(* out, and open ends of pipes are held.  The invariant all others rest on.  *)
THEOREM FilesInvariant == Spec => []FilesInv
BY InitFilesInv, NextFilesInv, PTL DEF Spec

LEMMA FilesInvImplies == FilesInv => FilesOK
<1> SUFFICES ASSUME FilesInv PROVE FilesOK
  OBVIOUS
<1>0. Sound(nodes) /\ nodes \in Pool
  BY DEF FilesInv, TreeInv, Sound
<1>1. TypeOK
  <2>1. ASSUME NEW i \in NodeId
        PROVE  /\ nodes[i].parent \in NodeId \cup {None}
               /\ Len(nodes[i].children) <= MaxChildren /\ Len(nodes[i].content) < MaxContent
    BY <1>0 DEF Pool, NodeType, Sound, InBounds
  <2>2. ASSUME NEW f \in Fd
        PROVE  /\ fds[f].type \in {"none", "console", "null", "file", "read", "write"}
               /\ fds[f].node \in NodeId \cup {None} /\ fds[f].pipe \in Pipe \cup {None}
    BY DEF FilesInv, FdInv, FdType
  <2>3. \A p \in Pipe : pipes[p].count \in 0 .. PipeBuf
    BY DEF FilesInv, RingInv, RingOK, PipeType
  <2> QED BY <2>1, <2>2, <2>3 DEF TypeOK, FilesInv, UserInv, FdInv, RingInv
<1>2. Rooted
  BY <1>0, AncestorsReachRoot DEF Rooted, LeadsToRoot
<1>3. RoomNeverWraps
  BY Sizes DEF FilesInv, FdInv, FdType, RoomNeverWraps
<1> QED BY <1>0, <1>1, <1>2, <1>3 DEF FilesOK, TreeOK, DirsHoldNoBytes, Sound, Plain

(* The pool stays one tree of directories with files as leaves, every node   *)
(* in use leads to the root, and no offset passes the size of a file: the    *)
(* stale indexes that descriptors, directories and procfs.c keep do not      *)
(* break what ramfs.c and vfs.c rely on, for any sizes of the tables.        *)
THEOREM TreeStaysWhole == Spec => []FilesOK
BY FilesInvariant, FilesInvImplies, PTL

LEMMA NamesApartFind == FilesInv => NamesFindTheirNode
<1> SUFFICES ASSUME FilesInv, NEW i \in NodeId \ {Root}, nodes[i].used, nodes[i].name # Word(Cut)
             PROVE  Find(nodes, nodes[i].parent, nodes[i].name) = i
  BY DEF NamesFindTheirNode
<1>1. nodes \in Pool /\ Tree(nodes) /\ NamesApart(nodes)
  BY DEF FilesInv, TreeInv, Sound
<1>2. PICK p \in NodeId : /\ p = nodes[i].parent /\ nodes[p].used /\ nodes[p].dir
                          /\ \E k \in 1 .. Len(nodes[p].children) : nodes[p].children[k] = i
  BY <1>1, TreeLinks
<1>3. DOMAIN nodes[p].children = 1 .. Len(nodes[p].children)
  BY <1>1 DEF Pool, NodeType
<1>4. PICK k \in DOMAIN nodes[p].children : nodes[p].children[k] = i
  BY <1>2, <1>3
<1>5. PICK t : t = nodes[i].name
  OBVIOUS
<1>6. PICK r : r = Find(nodes, p, t)
  OBVIOUS
<1>7. r # None
  BY <1>1, <1>2, <1>4, <1>5, <1>6, NothingFound
<1>8. PICK l \in DOMAIN nodes[p].children :
        /\ r = nodes[p].children[l] /\ nodes[nodes[p].children[l]].name = t
  BY <1>1, <1>6, <1>7, FoundIsChild
<1>9. k = l
  BY <1>1, <1>4, <1>5, <1>8 DEF NamesApart
<1> QED BY <1>2, <1>4, <1>5, <1>6, <1>8, <1>9

(* A name that fits its array is found under its directory and denotes one   *)
(* node: no later creation hides it, through whichever caller.               *)
THEOREM NamesAreFound == Spec => []NamesFindTheirNode
BY FilesInvariant, NamesApartFind, PTL

LEMMA RingsAreFifo == FilesInv => PipesOK
BY DEF FilesInv, RingInv, RingOK, PipesOK, PipeIsFifo

(* Every pipe of vfs.c hands out the bytes it took, in order and once, for   *)
(* rings of any size, and an end counts as open only while a descriptor      *)
(* holds it, across dup, dup2, close and the end of the table.               *)
THEOREM PipesAreFifo == Spec => []PipesOK
BY FilesInvariant, RingsAreFifo, PTL

\* The bytes of s in front of the offset and behind the n written ones are in new.
KeepsRest(new, s, off, n) ==
  /\ Len(new) >= Len(s)
  /\ \A k \in 1 .. Len(s) : k <= off \/ k > off + n => new[k] = s[k]

\* What Overlaid keeps survives the cut at the size of a file.
LEMMA OverlaidThenCut ==
  ASSUME NEW s \in Seq(Byte), Len(s) < MaxContent, NEW off \in Nat, NEW d \in Seq(Byte),
         NEW new, new = First(MaxContent - 1, Overlaid(s, off, d))
  PROVE  KeepsRest(new, s, off, Len(d))
<1>1. MaxContent - 1 \in Nat /\ Len(s) \in Nat /\ Len(d) \in Nat
  BY Sizes
<1>2. PICK o \in Seq(Byte) :
        /\ o = Overlaid(s, off, d)
        /\ Len(o) = (IF off + Len(d) > Len(s) THEN off + Len(d) ELSE Len(s))
        /\ \A k \in 1 .. Len(s) : k <= off \/ k > off + Len(d) => o[k] = s[k]
  BY OverlaidKeepsRest
<1>3. /\ new \in Seq(Byte)
      /\ Len(new) = IF MaxContent - 1 < Len(o) THEN MaxContent - 1 ELSE Len(o)
      /\ \A k \in 1 .. Len(new) : new[k] = o[k]
  BY <1>1, <1>2, FirstOf
<1>4. Len(new) >= Len(s)
  BY <1>1, <1>2, <1>3, Sizes
<1>5. ASSUME NEW k \in 1 .. Len(s), k <= off \/ k > off + Len(d) PROVE new[k] = s[k]
  <2>1. k \in 1 .. Len(new)
    BY <1>1, <1>3, <1>4
  <2> QED BY <1>2, <1>3, <1>5, <2>1
<1> QED BY <1>4, <1>5 DEF KeepsRest

LEMMA WriteLosesNothing ==
  ASSUME FilesInv, NEW f \in Fd, fds[f].type = "file", Live(f), NEW d \in Datas, WriteAt(f, d),
         NEW old, old = Content(f), NEW new, new = nodes'[fds[f].node].content
  PROVE  /\ Len(new) >= Len(old)
         /\ \A k \in DOMAIN old : k <= fds[f].off \/ k > fds[f].off + Len(d) => new[k] = old[k]
<1>1. PICK i \in NodeId : i = fds[f].node /\ nodes[i].used /\ ~nodes[i].dir
  BY DEF Live, IsFile, IsNode
<1>2. nodes \in Pool /\ IsFile(nodes, i)
  BY <1>1 DEF FilesInv, TreeInv, Sound, Live
<1>3. PICK off \in 0 .. MaxContent, e \in Seq(Byte) :
        /\ off = fds[f].off /\ e = First(Room(f, d), d) /\ Len(e) <= Len(d)
  BY RoomIs
<1>4. Existing(f) = old /\ old \in Seq(Byte) /\ Len(old) < MaxContent
  BY <1>1, ExistingIsBytes DEF Existing
<1>5. off \in Nat /\ Len(e) \in Nat /\ Len(d) \in Nat
  BY DataIsBytes, Sizes, LenProperties
<1>6. PICK c : c = First(MaxContent - 1, Overlaid(old, off, e))
  OBVIOUS
<1>7. nodes' = [nodes EXCEPT ![i].content = c]
  BY <1>1, <1>2, <1>3, <1>4, <1>6 DEF WriteAt, Written
<1>8. nodes'[i].content = c
  BY <1>1, <1>2, <1>7 DEF Pool, NodeType
<1>9. KeepsRest(c, old, off, Len(e))
  BY <1>3, <1>4, <1>5, <1>6, OverlaidThenCut
<1>10. DOMAIN old = 1 .. Len(old)
  BY <1>4
<1>11. ASSUME NEW k \in 1 .. Len(old), k > off + Len(d) PROVE k > off + Len(e)
  BY <1>3, <1>4, <1>5, <1>11
<1> QED BY <1>1, <1>3, <1>8, <1>9, <1>10, <1>11 DEF KeepsRest

LEMMA WritesKeep ==
  FilesInv => \A f \in {g \in Fd : fds[g].type = "file" /\ Live(g)}, d \in Datas :
    WriteAt(f, d) =>
      LET old == Content(f)  new == nodes'[fds[f].node].content  off == fds[f].off
      IN /\ Len(new) >= Len(old)
         /\ \A k \in DOMAIN old : k <= off \/ k > off + Len(d) => new[k] = old[k]
<1> SUFFICES ASSUME FilesInv, NEW f \in {g \in Fd : fds[g].type = "file" /\ Live(g)},
                    NEW d \in Datas, WriteAt(f, d)
             PROVE  /\ Len(nodes'[fds[f].node].content) >= Len(Content(f))
                    /\ \A k \in DOMAIN Content(f) :
                         k <= fds[f].off \/ k > fds[f].off + Len(d)
                           => nodes'[fds[f].node].content[k] = Content(f)[k]
  OBVIOUS
<1>1. f \in Fd /\ fds[f].type = "file" /\ Live(f)
  OBVIOUS
<1> QED BY <1>1, WriteLosesNothing

(* vfs_write reads a file whole, puts the bytes in and writes it back: the   *)
(* bytes in front of the offset and behind the written ones survive, for     *)
(* every offset, every length and every size of a file.                      *)
THEOREM WritesLoseNothing == Spec => WriteKeepsRest
<1>1. FilesInv => \A f \in {g \in Fd : fds[g].type = "file" /\ Live(g)}, d \in Datas :
        WriteAt(f, d) =>
          LET old == Content(f)  new == nodes'[fds[f].node].content  off == fds[f].off
          IN /\ Len(new) >= Len(old)
             /\ \A k \in DOMAIN old : k <= off \/ k > off + Len(d) => new[k] = old[k]
  BY WritesKeep
<1> QED BY <1>1, FilesInvariant, PTL DEF WriteKeepsRest

LEMMA ShownText ==
  ASSUME NEW f \in DOMAIN Shows, NEW k PROVE GenText(f, k) = <<f, k[Shows[f]]>>
<1>1. f \in {"uptime", "meminfo", "tasks", "net", "random"}
  BY DEF Shows
<1>2. /\ Shows["uptime"] = "ticks" /\ Shows["meminfo"] = "heap" /\ Shows["tasks"] = "sched"
      /\ Shows["net"] = "net" /\ Shows["random"] = "ticks"
  BY DEF Shows
<1> QED BY <1>1, <1>2 DEF GenText, UptimeText, MeminfoText, TasksText, NetText, RandomText

LEMMA CatRefreshes ==
  ASSUME MaxContent > 2, FilesInv, NEW g \in GenRange, nodes'[gen[g]] # nodes[gen[g]], ShCat(g),
         GenFiles[g][2] \in DOMAIN Shows
  PROVE  nodes'[gen[g]].content = <<GenFiles[g][2], kernel[Shows[GenFiles[g][2]]]>>
<1>1. PICK f \in DOMAIN Shows : f = GenFiles[g][2]
  OBVIOUS
<1>2. PICK s : s = <<f, kernel[Shows[f]]>>
  OBVIOUS
<1>3. nodes' = Written(nodes, gen[g], s)
  BY <1>1, <1>2, ShownText DEF ShCat, Refreshed
<1>4. PICK i \in NodeId : i = gen[g] /\ IsFile(nodes, i)
  BY <1>3 DEF Written, IsFile, IsNode
<1>5. First(MaxContent - 1, s) = s
  <2>1. s \in Seq({f, kernel[Shows[f]]}) /\ Len(s) = 2
    BY <1>2
  <2>2. MaxContent - 1 \in Nat /\ ~(MaxContent - 1 < 2)
    BY Sizes
  <2>3. /\ First(MaxContent - 1, s) \in Seq({f, kernel[Shows[f]]})
        /\ Len(First(MaxContent - 1, s)) = IF MaxContent - 1 < Len(s) THEN MaxContent - 1 ELSE Len(s)
        /\ \A k \in 1 .. Len(First(MaxContent - 1, s)) : First(MaxContent - 1, s)[k] = s[k]
    BY <2>1, <2>2, FirstOf
  <2>4. Len(First(MaxContent - 1, s)) = Len(s)
    BY <2>1, <2>2, <2>3
  <2> QED BY <2>1, <2>3, <2>4, SeqEqual
<1>6. nodes' = [nodes EXCEPT ![i].content = s]
  BY <1>3, <1>4, <1>5 DEF Written
<1>7. nodes \in Pool
  BY DEF FilesInv, TreeInv, Sound
<1>8. nodes'[i].content = s
  BY <1>6, <1>7 DEF Pool, NodeType
<1> QED BY <1>1, <1>2, <1>4, <1>8

(* cat of a generated file that is still the one of the boot prints the      *)
(* present state of the part of the kernel its name says, as long as the     *)
(* text fits a file.                                                         *)
THEOREM CatIsFresh == ASSUME MaxContent > 2 PROVE Spec => CatShowsKernel
<1>1. FilesInv => \A g \in {g \in GenRange : nodes'[gen[g]] # nodes[gen[g]]} :
        ShCat(g) /\ Resolve(nodes, GenPath(g)) = gen[g] /\ GenFiles[g][2] \in DOMAIN Shows
          => nodes'[gen[g]].content = <<GenFiles[g][2], kernel[Shows[GenFiles[g][2]]]>>
  BY CatRefreshes
<1> QED BY <1>1, FilesInvariant, PTL DEF CatShowsKernel

=============================================================================
