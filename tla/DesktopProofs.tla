----------------------------- MODULE DesktopProofs -----------------------------
(***************************************************************************)
(* The desktop is proved correct: the inductive invariant DInv, and from it   *)
(* each invariant that the run of Desktop checks, for any number of windows,  *)
(* terminals, tasks, lines and notes, and whatever the user does (no theorem  *)
(* asks anything of Mixes).  Folds, which the model writes text and bytes     *)
(* with, are unrolled into the sequence of their steps, and what each step    *)
(* keeps holds of the last since there would be a least one that lost it.     *)
(***************************************************************************)
EXTENDS Desktop, FiniteSetTheorems, SequenceTheorems, NaturalsInduction, WellFoundedInduction, TLAPS

\* A set of naturals that is not empty has a least one.
LEMMA LeastNatural ==
  ASSUME NEW S \in SUBSET Nat, S # {}
  PROVE  \E m \in S : \A n \in S : m <= n
<1> DEFINE R == {ss \in Nat \X Nat : ss[1] < ss[2]}
<1>1. ~ \E f \in [Nat -> Nat] : \A n \in Nat : f[n+1] < f[n]
  <2> SUFFICES ASSUME NEW f \in [Nat -> Nat], \A n \in Nat : f[n+1] < f[n]
               PROVE  FALSE
    OBVIOUS
  <2>1. \A n \in Nat : f[n] \in Nat /\ f[n+1] \in Nat /\ f[n+1] < f[n]
    OBVIOUS
  <2>2. \A n \in Nat : <<f[n+1], f[n]>> \in OpToRel(<, Nat)
    BY <2>1, Zenon DEF OpToRel
  <2> QED BY <2>2, NatLessThanWellFounded DEF IsWellFoundedOn
<1>2. IsWellFoundedOn(R, Nat)
  BY <1>1 DEF IsWellFoundedOn
<1>3. PICK m \in S : \A n \in S : ~(<<n, m>> \in R)
  BY <1>2, WFMin
<1>4. \A n \in S : m \in Nat /\ n \in Nat /\ ~(n < m)
  BY <1>3
<1> QED BY <1>4

LEMMA MinLeast ==
  ASSUME NEW S \in SUBSET Nat, S # {}
  PROVE  Min(S) \in S /\ \A j \in S : Min(S) <= j
BY LeastNatural DEF Min

\* A set of naturals with a bound has a greatest one.
LEMMA MaxGreatest ==
  ASSUME NEW S \in SUBSET Nat, S # {}, NEW n \in Nat, \A j \in S : j <= n
  PROVE  Max(S) \in S /\ \A j \in S : j <= Max(S)
<1> DEFINE B == {b \in Nat : \A j \in S : j <= b}
<1>1. PICK m \in B : \A b \in B : m <= b
  BY LeastNatural
<1>2. m \in S
  <2> SUFFICES ASSUME m \notin S PROVE FALSE
    OBVIOUS
  <2>1. PICK j \in S : TRUE
    OBVIOUS
  <2>2. m \in Nat /\ j <= m /\ j # m /\ j \in Nat
    BY <1>1, <2>1
  <2>3. \A k \in S : k <= m - 1
    BY <1>1
  <2>4. m - 1 \in B
    BY <2>2, <2>3
  <2> QED BY <1>1, <2>2, <2>4
<1>3. \A j \in S : m >= j
  BY <1>1
<1> QED BY <1>2, <1>3 DEF Max

LEMMA MaxOfInterval ==
  ASSUME NEW n \in Nat, n # 0
  PROVE  Max(1 .. n) = n /\ (1 .. n) \ {n} = 1 .. n - 1 /\ 1 .. n # {}
<1>1. n \in 1 .. n /\ 1 .. n \in SUBSET Nat
  OBVIOUS
<1>2. \A j \in 1 .. n : j <= n
  OBVIOUS
<1>3. 1 .. n # {}
  BY <1>1
<1>4. Max(1 .. n) \in 1 .. n /\ \A j \in 1 .. n : j <= Max(1 .. n)
  BY ONLY <1>1, <1>2, <1>3, MaxGreatest, n \in Nat
<1> QED BY <1>1, <1>3, <1>4

(***************************************************************************)
(* A fold over a sequence goes from element to element.                      *)
(***************************************************************************)
LEMMA PutsSteps ==
  ASSUME NEW t, NEW s, NEW n \in Nat, DOMAIN s = 1 .. n
  PROVE  \E f : /\ f[0] = t
                /\ \A k \in 1 .. n : f[k] = Putc(f[k-1], s[k])
                /\ Puts(t, s) = f[n]
<1> DEFINE Body(F, u) == IF u = {} THEN t ELSE Putc(F[u \ {Max(u)}], s[Max(u)])
           Ok(F, k) == F = [u \in SUBSET (1 .. k) |-> Body(F, u)]
           Bad == {k \in 0 .. n : ~ \E F : Ok(F, k)}
<1>1. Bad = {}
  <2> SUFFICES ASSUME Bad # {} PROVE FALSE
    OBVIOUS
  <2>1. PICK m \in Bad : \A b \in Bad : m <= b
    <3>1. Bad \in SUBSET Nat
      OBVIOUS
    <3> HIDE DEF Bad
    <3> QED BY <3>1, LeastNatural
  <2>2. m # 0
    <3> DEFINE F0 == [u \in SUBSET (1 .. 0) |-> t]
    <3>1. Ok(F0, 0)
      OBVIOUS
    <3> QED BY <3>1
  <2>3. m - 1 \in 0 .. n /\ m - 1 \notin Bad /\ m \in 1 .. n
    <3>1. m \in 0 .. n
      BY <2>1
    <3>2. m - 1 \in 0 .. n /\ m \in 1 .. n /\ ~(m <= m - 1)
      BY <3>1, <2>2
    <3> QED BY <2>1, <3>2
  <2>4. PICK F : Ok(F, m - 1)
    BY <2>3
  <2> DEFINE G == [u \in SUBSET (1 .. m) |-> IF m \in u THEN Putc(F[u \ {m}], s[m]) ELSE F[u]]
  <2>5. ASSUME NEW u \in SUBSET (1 .. m) PROVE G[u] = Body(G, u)
    <3>1. CASE m \in u
      <4>1. Max(u) = m
        <5>1. u \in SUBSET Nat /\ u # {} /\ m \in Nat /\ \A j \in u : j <= m
          BY <3>1, <2>3
        <5>2. Max(u) \in u /\ \A j \in u : j <= Max(u)
          BY ONLY <5>1, MaxGreatest
        <5>3. Max(u) \in Nat /\ Max(u) <= m /\ m <= Max(u)
          BY <5>1, <5>2, <3>1
        <5> QED BY <5>1, <5>3
      <4>2. u \ {m} \in SUBSET (1 .. m) /\ m \notin u \ {m} /\ u # {}
        BY <3>1
      <4>3. G[u \ {m}] = F[u \ {m}]
        BY <4>2
      <4> HIDE DEF G
      <4>4. G[u] = Putc(F[u \ {m}], s[m])
        BY <3>1 DEF G
      <4> QED BY <4>1, <4>2, <4>3, <4>4
    <3>2. CASE m \notin u
      <4>1. u \in SUBSET (1 .. m - 1)
        BY <3>2, <2>3
      <4>2. G[u] = F[u] /\ F[u] = Body(F, u)
        BY <4>1, <3>2, <2>4
      <4>3. CASE u = {}
        BY <4>2, <4>3
      <4>4. CASE u # {}
        <5>1. u \ {Max(u)} \in SUBSET (1 .. m) /\ m \notin u \ {Max(u)}
          BY <3>2
        <5>2. G[u \ {Max(u)}] = F[u \ {Max(u)}]
          BY <5>1
        <5> HIDE DEF G
        <5> QED BY <4>2, <4>4, <5>2
      <4> QED BY <4>3, <4>4
    <3> QED BY <3>1, <3>2
  <2>6. Ok(G, m)
    <3>1. G = [u \in SUBSET (1 .. m) |-> G[u]]
      OBVIOUS
    <3> HIDE DEF G
    <3> QED BY <2>5, <3>1
  <2> QED BY <2>1, <2>6
<1> DEFINE I == CHOOSE F : Ok(F, n)
<1>2. Ok(I, n)
  <2>1. n \in 0 .. n
    OBVIOUS
  <2>2. n \notin Bad
    <3> HIDE DEF Bad
    <3> QED BY <1>1
  <2>3. \E F : Ok(F, n)
    BY <2>1, <2>2
  <2> HIDE DEF Ok
  <2> QED BY <2>3
<1>3. Puts(t, s) = I[1 .. n]
  BY Zenon DEF Puts, FoldLeft, MapThenFoldSet
<1> HIDE DEF I
<1> DEFINE f == [k \in 0 .. n |-> I[1 .. k]]
<1>4. f[0] = t
  <2>1. 1 .. 0 = {}
    OBVIOUS
  <2> QED BY <2>1, <1>2
<1>5. ASSUME NEW k \in 1 .. n PROVE f[k] = Putc(f[k-1], s[k])
  <2>1. 1 .. k \in SUBSET (1 .. n) /\ k - 1 \in 0 .. n /\ k \in 0 .. n
    OBVIOUS
  <2>2. I[1 .. k] = Body(I, 1 .. k)
    BY <1>2, <2>1
  <2>3. Max(1 .. k) = k /\ (1 .. k) \ {k} = 1 .. k - 1 /\ 1 .. k # {}
    <3>1. k \in Nat /\ k # 0
      OBVIOUS
    <3> QED BY ONLY <3>1, MaxOfInterval
  <2>4. I[1 .. k] = Putc(I[1 .. k - 1], s[k])
    BY <2>2, <2>3
  <2>5. f[k] = I[1 .. k] /\ f[k-1] = I[1 .. k - 1]
    BY <2>1
  <2> HIDE DEF f
  <2> QED BY <2>4, <2>5
<1>6. f[n] = I[1 .. n]
  OBVIOUS
<1> HIDE DEF f
<1> QED BY <1>3, <1>4, <1>5, <1>6

Bytes(s, n) == n \in Nat /\ DOMAIN s = 1 .. n
ByteRun(t, s, n, f) == /\ f[0] = t
                       /\ \A k \in 1 .. n : f[k] = HandleByte(f[k-1], s[k])
                       /\ HandleBytes(t, s) = f[n]

LEMMA BytesSteps ==
  ASSUME NEW t, NEW s, NEW n, Bytes(s, n)
  PROVE  \E f : ByteRun(t, s, n, f)
<1> SUFFICES ASSUME n \in Nat, DOMAIN s = 1 .. n
             PROVE  \E f : /\ f[0] = t
                           /\ \A k \in 1 .. n : f[k] = HandleByte(f[k-1], s[k])
                           /\ HandleBytes(t, s) = f[n]
  BY DEF Bytes, ByteRun
<1> DEFINE Body(F, u) == IF u = {} THEN t ELSE HandleByte(F[u \ {Max(u)}], s[Max(u)])
           Ok(F, k) == F = [u \in SUBSET (1 .. k) |-> Body(F, u)]
           Bad == {k \in 0 .. n : ~ \E F : Ok(F, k)}
<1>1. Bad = {}
  <2> SUFFICES ASSUME Bad # {} PROVE FALSE
    OBVIOUS
  <2>1. PICK m \in Bad : \A b \in Bad : m <= b
    <3>1. Bad \in SUBSET Nat
      OBVIOUS
    <3> HIDE DEF Bad
    <3> QED BY <3>1, LeastNatural
  <2>2. m # 0
    <3> DEFINE F0 == [u \in SUBSET (1 .. 0) |-> t]
    <3>1. Ok(F0, 0)
      OBVIOUS
    <3> QED BY <3>1
  <2>3. m - 1 \in 0 .. n /\ m - 1 \notin Bad /\ m \in 1 .. n
    <3>1. m \in 0 .. n
      BY <2>1
    <3>2. m - 1 \in 0 .. n /\ m \in 1 .. n /\ ~(m <= m - 1)
      BY <3>1, <2>2
    <3> QED BY <2>1, <3>2
  <2>4. PICK F : Ok(F, m - 1)
    BY <2>3
  <2> DEFINE G == [u \in SUBSET (1 .. m) |-> IF m \in u THEN HandleByte(F[u \ {m}], s[m]) ELSE F[u]]
  <2>5. ASSUME NEW u \in SUBSET (1 .. m) PROVE G[u] = Body(G, u)
    <3>1. CASE m \in u
      <4>1. Max(u) = m
        <5>1. u \in SUBSET Nat /\ u # {} /\ m \in Nat /\ \A j \in u : j <= m
          BY <3>1, <2>3
        <5>2. Max(u) \in u /\ \A j \in u : j <= Max(u)
          BY ONLY <5>1, MaxGreatest
        <5>3. Max(u) \in Nat /\ Max(u) <= m /\ m <= Max(u)
          BY <5>1, <5>2, <3>1
        <5> QED BY <5>1, <5>3
      <4>2. u \ {m} \in SUBSET (1 .. m) /\ m \notin u \ {m} /\ u # {}
        BY <3>1
      <4>3. G[u \ {m}] = F[u \ {m}]
        BY <4>2
      <4> HIDE DEF G
      <4>4. G[u] = HandleByte(F[u \ {m}], s[m])
        BY <3>1 DEF G
      <4> QED BY <4>1, <4>2, <4>3, <4>4
    <3>2. CASE m \notin u
      <4>1. u \in SUBSET (1 .. m - 1)
        BY <3>2, <2>3
      <4>2. G[u] = F[u] /\ F[u] = Body(F, u)
        BY <4>1, <3>2, <2>4
      <4>3. CASE u = {}
        BY <4>2, <4>3
      <4>4. CASE u # {}
        <5>1. u \ {Max(u)} \in SUBSET (1 .. m) /\ m \notin u \ {Max(u)}
          BY <3>2
        <5>2. G[u \ {Max(u)}] = F[u \ {Max(u)}]
          BY <5>1
        <5> HIDE DEF G
        <5> QED BY <4>2, <4>4, <5>2
      <4> QED BY <4>3, <4>4
    <3> QED BY <3>1, <3>2
  <2>6. Ok(G, m)
    <3>1. G = [u \in SUBSET (1 .. m) |-> G[u]]
      OBVIOUS
    <3> HIDE DEF G
    <3> QED BY <2>5, <3>1
  <2> QED BY <2>1, <2>6
<1> DEFINE I == CHOOSE F : Ok(F, n)
<1>2. Ok(I, n)
  <2>1. n \in 0 .. n
    OBVIOUS
  <2>2. n \notin Bad
    <3> HIDE DEF Bad
    <3> QED BY <1>1
  <2>3. \E F : Ok(F, n)
    BY <2>1, <2>2
  <2> HIDE DEF Ok
  <2> QED BY <2>3
<1>3. HandleBytes(t, s) = I[1 .. n]
  BY Zenon DEF HandleBytes, FoldLeft, MapThenFoldSet
<1> HIDE DEF I
<1> DEFINE f == [k \in 0 .. n |-> I[1 .. k]]
<1>4. f[0] = t
  <2>1. 1 .. 0 = {}
    OBVIOUS
  <2> QED BY <2>1, <1>2
<1>5. ASSUME NEW k \in 1 .. n PROVE f[k] = HandleByte(f[k-1], s[k])
  <2>1. 1 .. k \in SUBSET (1 .. n) /\ k - 1 \in 0 .. n /\ k \in 0 .. n
    OBVIOUS
  <2>2. I[1 .. k] = Body(I, 1 .. k)
    BY <1>2, <2>1
  <2>3. Max(1 .. k) = k /\ (1 .. k) \ {k} = 1 .. k - 1 /\ 1 .. k # {}
    <3>1. k \in Nat /\ k # 0
      OBVIOUS
    <3> QED BY ONLY <3>1, MaxOfInterval
  <2>4. I[1 .. k] = HandleByte(I[1 .. k - 1], s[k])
    BY <2>2, <2>3
  <2>5. f[k] = I[1 .. k] /\ f[k-1] = I[1 .. k - 1]
    BY <2>1
  <2> HIDE DEF f
  <2> QED BY <2>4, <2>5
<1>6. f[n] = I[1 .. n]
  OBVIOUS
<1> HIDE DEF f
<1> QED BY <1>3, <1>4, <1>5, <1>6

LEMMA LinesSteps ==
  ASSUME NEW t, NEW n \in Nat
  PROVE  \E f : /\ f[0] = t
                /\ \A k \in 1 .. n : f[k] = Puts(f[k-1], Line)
                /\ PutLines(t, n) = f[n]
<1> DEFINE s == [i \in 1 .. n |-> Line]
<1>s. DOMAIN s = 1 .. n /\ \A k \in 1 .. n : s[k] = Line
  OBVIOUS
<1> DEFINE Body(F, u) == IF u = {} THEN t ELSE Puts(F[u \ {Max(u)}], s[Max(u)])
           Ok(F, k) == F = [u \in SUBSET (1 .. k) |-> Body(F, u)]
           Bad == {k \in 0 .. n : ~ \E F : Ok(F, k)}
<1>1. Bad = {}
  <2> SUFFICES ASSUME Bad # {} PROVE FALSE
    OBVIOUS
  <2>1. PICK m \in Bad : \A b \in Bad : m <= b
    <3>1. Bad \in SUBSET Nat
      OBVIOUS
    <3> HIDE DEF Bad
    <3> QED BY <3>1, LeastNatural
  <2>2. m # 0
    <3> DEFINE F0 == [u \in SUBSET (1 .. 0) |-> t]
    <3>1. Ok(F0, 0)
      OBVIOUS
    <3> QED BY <3>1
  <2>3. m - 1 \in 0 .. n /\ m - 1 \notin Bad /\ m \in 1 .. n
    <3>1. m \in 0 .. n
      BY <2>1
    <3>2. m - 1 \in 0 .. n /\ m \in 1 .. n /\ ~(m <= m - 1)
      BY <3>1, <2>2
    <3> QED BY <2>1, <3>2
  <2>4. PICK F : Ok(F, m - 1)
    BY <2>3
  <2> DEFINE G == [u \in SUBSET (1 .. m) |-> IF m \in u THEN Puts(F[u \ {m}], s[m]) ELSE F[u]]
  <2>5. ASSUME NEW u \in SUBSET (1 .. m) PROVE G[u] = Body(G, u)
    <3>1. CASE m \in u
      <4>1. Max(u) = m
        <5>1. u \in SUBSET Nat /\ u # {} /\ m \in Nat /\ \A j \in u : j <= m
          BY <3>1, <2>3
        <5>2. Max(u) \in u /\ \A j \in u : j <= Max(u)
          BY ONLY <5>1, MaxGreatest
        <5>3. Max(u) \in Nat /\ Max(u) <= m /\ m <= Max(u)
          BY <5>1, <5>2, <3>1
        <5> QED BY <5>1, <5>3
      <4>2. u \ {m} \in SUBSET (1 .. m) /\ m \notin u \ {m} /\ u # {}
        BY <3>1
      <4>3. G[u \ {m}] = F[u \ {m}]
        BY <4>2
      <4> HIDE DEF G
      <4>4. G[u] = Puts(F[u \ {m}], s[m])
        BY <3>1 DEF G
      <4> QED BY <4>1, <4>2, <4>3, <4>4
    <3>2. CASE m \notin u
      <4>1. u \in SUBSET (1 .. m - 1)
        BY <3>2, <2>3
      <4>2. G[u] = F[u] /\ F[u] = Body(F, u)
        BY <4>1, <3>2, <2>4
      <4>3. CASE u = {}
        BY <4>2, <4>3
      <4>4. CASE u # {}
        <5>1. u \ {Max(u)} \in SUBSET (1 .. m) /\ m \notin u \ {Max(u)}
          BY <3>2
        <5>2. G[u \ {Max(u)}] = F[u \ {Max(u)}]
          BY <5>1
        <5> HIDE DEF G
        <5> QED BY <4>2, <4>4, <5>2
      <4> QED BY <4>3, <4>4
    <3> QED BY <3>1, <3>2
  <2>6. Ok(G, m)
    <3>1. G = [u \in SUBSET (1 .. m) |-> G[u]]
      OBVIOUS
    <3> HIDE DEF G
    <3> QED BY <2>5, <3>1
  <2> QED BY <2>1, <2>6
<1> DEFINE I == CHOOSE F : Ok(F, n)
<1>2. Ok(I, n)
  <2>1. n \in 0 .. n
    OBVIOUS
  <2>2. n \notin Bad
    <3> HIDE DEF Bad
    <3> QED BY <1>1
  <2>3. \E F : Ok(F, n)
    BY <2>1, <2>2
  <2> HIDE DEF Ok
  <2> QED BY <2>3
<1>3. PutLines(t, n) = I[1 .. n]
  BY Zenon DEF PutLines, FoldLeft, MapThenFoldSet
<1> HIDE DEF I
<1> DEFINE f == [k \in 0 .. n |-> I[1 .. k]]
<1>4. f[0] = t
  <2>1. 1 .. 0 = {}
    OBVIOUS
  <2> QED BY <2>1, <1>2
<1>5. ASSUME NEW k \in 1 .. n PROVE f[k] = Puts(f[k-1], Line)
  <2>1. 1 .. k \in SUBSET (1 .. n) /\ k - 1 \in 0 .. n /\ k \in 0 .. n
    OBVIOUS
  <2>2. I[1 .. k] = Body(I, 1 .. k)
    BY <1>2, <2>1
  <2>3. Max(1 .. k) = k /\ (1 .. k) \ {k} = 1 .. k - 1 /\ 1 .. k # {}
    <3>1. k \in Nat /\ k # 0
      OBVIOUS
    <3> QED BY ONLY <3>1, MaxOfInterval
  <2>4. I[1 .. k] = Puts(I[1 .. k - 1], s[k])
    BY <2>2, <2>3
  <2>5. f[k] = I[1 .. k] /\ f[k-1] = I[1 .. k - 1]
    BY <2>1
  <2> HIDE DEF f
  <2> QED BY <2>4, <2>5
<1>6. f[n] = I[1 .. n]
  OBVIOUS
<1> HIDE DEF f
<1> QED BY <1>3, <1>4, <1>5, <1>6

(***************************************************************************)
(* Cooperative tasks.                                                        *)
(***************************************************************************)
TaskT == [active : BOOLEAN, oneshot : BOOLEAN, due : Nat, ran : BOOLEAN]
TasksT == [pool : [0 .. MaxTasks - 1 -> TaskT], count : Int, i : Int]
Counted(k) ==
  /\ k \in TasksT
  /\ k.count = Cardinality(Active(k))
  /\ \A i \in Active(k) : ~(k.pool[i].oneshot /\ k.pool[i].ran)

LEMMA MaxOfTwo ==
  ASSUME NEW a \in Int, NEW b \in Int
  PROVE  Max({a, b}) = IF a >= b THEN a ELSE b
BY DEF Max

LEMMA MinOfTwo ==
  ASSUME NEW a \in Int, NEW b \in Int
  PROVE  Min({a, b}) = IF a <= b THEN a ELSE b
BY DEF Min

LEMMA ActiveFinite ==
  ASSUME NEW k \in TasksT
  PROVE  IsFiniteSet(Active(k)) /\ Active(k) \subseteq 0 .. MaxTasks - 1 /\ Cardinality(Active(k)) \in Nat
<1>1. MaxTasks \in Nat
  BY TaskAssumption
<1>2. IsFiniteSet(0 .. MaxTasks - 1)
  BY <1>1, FS_Interval
<1>3. Active(k) \subseteq 0 .. MaxTasks - 1
  BY DEF Active, TasksT
<1>4. IsFiniteSet(Active(k))
  BY <1>2, <1>3, FS_Subset
<1> QED BY <1>3, <1>4, FS_CardinalityType

LEMMA TaskCreateKeeps ==
  ASSUME NEW k, Counted(k), NEW o \in BOOLEAN
  PROVE  /\ Counted(TaskCreate(k, o))
         /\ \A i \in Active(k) : TaskCreate(k, o).pool[i] = k.pool[i]
         /\ \A i \in Active(k) : i \in Active(TaskCreate(k, o))
<1>1. CASE Idle(k) = {}
  BY <1>1 DEF TaskCreate
<1>2. CASE Idle(k) # {}
  <2> DEFINE c == TaskCreate(k, o)
  <2>0. k \in TasksT /\ MaxTasks \in Nat
    BY TaskAssumption DEF Counted
  <2>1. Idle(k) \in SUBSET Nat
    BY <2>0 DEF Idle, TasksT
  <2>2. PICK m \in Idle(k) : Min(Idle(k)) = m
    BY <2>1, <1>2, MinLeast
  <2>3. m \in 0 .. MaxTasks - 1 /\ m \notin Active(k)
    BY <2>0, <2>2 DEF Idle, TasksT
  <2>4. PICK new \in TaskT : /\ new = [active |-> TRUE, oneshot |-> o, ran |-> FALSE, due |-> IF o THEN Interval ELSE 0]
                             /\ new.active /\ ~new.ran
    <3> DEFINE w == [active |-> TRUE, oneshot |-> o, ran |-> FALSE, due |-> IF o THEN Interval ELSE 0]
    <3>1. w \in TaskT
      BY TaskAssumption DEF TaskT
    <3>2. w.active /\ ~w.ran
      OBVIOUS
    <3> QED BY <3>1, <3>2
  <2>5. c = [k EXCEPT !.count = @ + 1, !.pool[m] = new]
    BY <1>2, <2>2, <2>4 DEF TaskCreate
  <2> HIDE DEF c
  <2>6. c \in TasksT
    <3>1. c.pool = [k.pool EXCEPT ![m] = new] /\ c.count = k.count + 1 /\ c.i = k.i
            /\ c = [pool |-> c.pool, count |-> c.count, i |-> c.i]
      BY <2>0, <2>5 DEF TasksT
    <3>2. c.pool \in [0 .. MaxTasks - 1 -> TaskT] /\ c.count \in Int /\ c.i \in Int
      BY <2>0, <2>3, <2>4, <3>1 DEF TasksT
    <3> QED BY <3>1, <3>2 DEF TasksT
  <2>7. c.count = k.count + 1 /\ \A i \in 0 .. MaxTasks - 1 : c.pool[i] = IF i = m THEN new ELSE k.pool[i]
    BY <2>0, <2>3, <2>5 DEF TasksT
  <2>8. Active(c) = Active(k) \cup {m}
    BY <2>0, <2>3, <2>4, <2>6, <2>7 DEF Active, TasksT
  <2>9. Cardinality(Active(c)) = Cardinality(Active(k)) + 1
    BY <2>0, <2>3, <2>8, ActiveFinite, FS_AddElement
  <2>10. c.count = Cardinality(Active(c))
    BY <2>7, <2>9 DEF Counted
  <2>11. ASSUME NEW i \in Active(k) PROVE c.pool[i] = k.pool[i] /\ i \in Active(c)
    BY <2>0, <2>3, <2>7, <2>8, <2>11, ActiveFinite
  <2>12. ASSUME NEW i \in Active(c) PROVE ~(c.pool[i].oneshot /\ c.pool[i].ran)
    BY <2>3, <2>4, <2>7, <2>8, <2>11 DEF Counted
  <2> QED BY <2>6, <2>10, <2>11, <2>12 DEF Counted, c
<1> QED BY <1>1, <1>2

LEMMA TaskRemoveKeeps ==
  ASSUME NEW k, Counted(k), NEW j \in 0 .. MaxTasks - 1
  PROVE  /\ Counted(TaskRemove(k, j))
         /\ \A i \in 0 .. MaxTasks - 1 : TaskRemove(k, j).pool[i].oneshot = k.pool[i].oneshot
         /\ \A i \in Active(k) : i # j => i \in Active(TaskRemove(k, j))
<1>1. CASE j \notin Active(k)
  BY <1>1 DEF TaskRemove
<1>2. CASE j \in Active(k)
  <2> DEFINE c == TaskRemove(k, j)
  <2>0. k \in TasksT
    BY DEF Counted
  <2>1. c = [k EXCEPT !.pool[j].active = FALSE, !.count = @ - 1]
    BY <1>2 DEF TaskRemove
  <2> HIDE DEF c
  <2>2. c \in TasksT
    <3>1. c.pool = [k.pool EXCEPT ![j].active = FALSE] /\ c.count = k.count - 1 /\ c.i = k.i
            /\ c = [pool |-> c.pool, count |-> c.count, i |-> c.i]
      BY <2>0, <2>1 DEF TasksT
    <3>2. [k.pool[j] EXCEPT !.active = FALSE] \in TaskT
      BY <2>0 DEF TasksT, TaskT
    <3>3. c.pool \in [0 .. MaxTasks - 1 -> TaskT] /\ c.count \in Int /\ c.i \in Int
      BY <2>0, <3>1, <3>2 DEF TasksT
    <3> QED BY <3>1, <3>3 DEF TasksT
  <2>3. /\ c.count = k.count - 1
        /\ \A i \in 0 .. MaxTasks - 1 : /\ c.pool[i].active = IF i = j THEN FALSE ELSE k.pool[i].active
                                        /\ c.pool[i].oneshot = k.pool[i].oneshot
                                        /\ c.pool[i].ran = k.pool[i].ran
    BY <2>0, <2>1 DEF TasksT, TaskT
  <2>4. Active(c) = Active(k) \ {j}
    BY <2>0, <2>2, <2>3 DEF Active, TasksT
  <2>5. Cardinality(Active(c)) = Cardinality(Active(k)) - 1
    BY <1>2, <2>0, <2>4, ActiveFinite, FS_RemoveElement
  <2>6. c.count = Cardinality(Active(c))
    BY <2>3, <2>5 DEF Counted
  <2>7. ASSUME NEW i \in Active(c) PROVE ~(c.pool[i].oneshot /\ c.pool[i].ran)
    BY <2>0, <2>3, <2>4, ActiveFinite DEF Counted
  <2> QED BY <2>2, <2>3, <2>4, <2>6, <2>7 DEF Counted, c
<1> QED BY <1>1, <1>2

LEMMA CallbackKeeps ==
  ASSUME NEW k, Counted(k), NEW i \in Active(k), NEW c \in Callbacks(k, i)
  PROVE  /\ Counted(c)
         /\ c.pool[i].oneshot = k.pool[i].oneshot
         /\ k.pool[i].oneshot => i \in Active(c)
<1>0. k \in TasksT /\ i \in 0 .. MaxTasks - 1
  BY ActiveFinite DEF Counted
<1>1. CASE c = k
  BY <1>1
<1>2. ASSUME NEW o \in BOOLEAN, c = TaskCreate(k, o) PROVE /\ Counted(c) /\ c.pool[i].oneshot = k.pool[i].oneshot
                                                         /\ i \in Active(c)
  BY <1>2, TaskCreateKeeps
<1>3. ASSUME NEW j \in DOMAIN k.pool, j # i \/ ~k.pool[i].oneshot, c = TaskRemove(k, j)
      PROVE  /\ Counted(c) /\ c.pool[i].oneshot = k.pool[i].oneshot
             /\ k.pool[i].oneshot => i \in Active(c)
  <2>1. j \in 0 .. MaxTasks - 1
    BY <1>0 DEF TasksT
  <2> QED BY <1>0, <1>3, <2>1, TaskRemoveKeeps
<1> QED BY <1>1, <1>2, <1>3 DEF Callbacks

LEMMA RanKeeps ==
  ASSUME NEW k, Counted(k), NEW i \in Active(k), NEW c \in Callbacks(k, i)
  PROVE  Counted(Ran(c, i))
<1>0. k \in TasksT /\ i \in 0 .. MaxTasks - 1 /\ c \in TasksT /\ Counted(c) /\ Interval \in Nat
  BY ActiveFinite, CallbackKeeps, TaskAssumption DEF Counted
<1> DEFINE r == Ran(c, i)
<1>1. CASE c.pool[i].oneshot
  <2>1. r = [c EXCEPT !.i = i + 1, !.pool[i].ran = TRUE, !.pool[i].active = FALSE, !.count = @ - 1]
    BY <1>1 DEF Ran
  <2> HIDE DEF r
  <2>2. PICK w \in TaskT : w = [c.pool[i] EXCEPT !.ran = TRUE, !.active = FALSE]
    BY <1>0 DEF TasksT, TaskT
  <2>a. /\ r.pool = [c.pool EXCEPT ![i] = w] /\ r.count = c.count - 1 /\ r.i = i + 1
        /\ r = [pool |-> r.pool, count |-> r.count, i |-> r.i]
    BY <1>0, <2>1, <2>2 DEF TasksT
  <2>b. r.pool \in [0 .. MaxTasks - 1 -> TaskT] /\ r.count \in Int /\ r.i \in Int
    BY <1>0, <2>2, <2>a DEF TasksT
  <2>c. r \in TasksT
    BY <2>a, <2>b DEF TasksT
  <2>d. w.active = FALSE
    BY <1>0, <2>2 DEF TasksT, TaskT
  <2>3. /\ r.count = c.count - 1
        /\ \A j \in 0 .. MaxTasks - 1 : /\ r.pool[j].active = IF j = i THEN FALSE ELSE c.pool[j].active
                                        /\ j # i => r.pool[j] = c.pool[j]
    BY <1>0, <2>a, <2>d DEF TasksT
  <2>4. Active(r) = Active(c) \ {i} /\ i \in Active(c)
    <3>1. i \in Active(c)
      BY <1>1, CallbackKeeps
    <3> QED BY <1>0, <2>c, <2>3, <3>1 DEF Active, TasksT
  <2>5. Cardinality(Active(r)) = Cardinality(Active(c)) - 1
    BY <1>0, <2>4, ActiveFinite, FS_RemoveElement
  <2>6. r.count = Cardinality(Active(r))
    BY <1>0, <2>3, <2>5 DEF Counted
  <2>7. ASSUME NEW j \in Active(r) PROVE ~(r.pool[j].oneshot /\ r.pool[j].ran)
    BY <1>0, <2>3, <2>4, ActiveFinite DEF Counted
  <2> QED BY <2>c, <2>6, <2>7 DEF Counted, r
<1>2. CASE ~c.pool[i].oneshot
  <2>1. r = [c EXCEPT !.i = i + 1, !.pool[i].ran = TRUE, !.pool[i].due = Interval]
    BY <1>2 DEF Ran
  <2> HIDE DEF r
  <2>2. PICK w \in TaskT : w = [c.pool[i] EXCEPT !.ran = TRUE, !.due = Interval]
    BY <1>0 DEF TasksT, TaskT
  <2>a. /\ r.pool = [c.pool EXCEPT ![i] = w] /\ r.count = c.count /\ r.i = i + 1
        /\ r = [pool |-> r.pool, count |-> r.count, i |-> r.i]
    BY <1>0, <2>1, <2>2 DEF TasksT
  <2>b. r.pool \in [0 .. MaxTasks - 1 -> TaskT] /\ r.count \in Int /\ r.i \in Int
    BY <1>0, <2>2, <2>a DEF TasksT
  <2>c. r \in TasksT
    BY <2>a, <2>b DEF TasksT
  <2>d. w.active = c.pool[i].active /\ w.oneshot = c.pool[i].oneshot
    BY <1>0, <2>2 DEF TasksT, TaskT
  <2>3. /\ r.count = c.count
        /\ \A j \in 0 .. MaxTasks - 1 : /\ r.pool[j].active = c.pool[j].active
                                        /\ r.pool[j].oneshot = c.pool[j].oneshot
                                        /\ j # i => r.pool[j] = c.pool[j]
    BY <1>0, <2>a, <2>d DEF TasksT
  <2>4. Active(r) = Active(c)
    BY <1>0, <2>c, <2>3 DEF Active, TasksT
  <2>7. ASSUME NEW j \in Active(r) PROVE ~(r.pool[j].oneshot /\ r.pool[j].ran)
    BY <1>0, <1>2, <2>3, <2>4, ActiveFinite DEF Counted
  <2> QED BY <1>0, <2>c, <2>3, <2>4, <2>7 DEF Counted, r
<1> QED BY <1>1, <1>2

LEMMA ElapseKeeps ==
  ASSUME NEW k, Counted(k)
  PROVE  Counted(Elapse(k))
<1>0. k \in TasksT
  BY DEF Counted
<1> DEFINE e == Elapse(k)
<1>1. DOMAIN k.pool = 0 .. MaxTasks - 1
  BY <1>0 DEF TasksT
<1>2. ASSUME NEW j \in 0 .. MaxTasks - 1 PROVE Max({0, k.pool[j].due - 1}) \in Nat
  <2>1. k.pool[j].due \in Nat
    BY <1>0 DEF TasksT, TaskT
  <2> QED BY <2>1, MaxOfTwo
<1>3. e = [k EXCEPT !.i = 0, !.pool = [j \in 0 .. MaxTasks - 1 |-> [k.pool[j] EXCEPT !.due = Max({0, @ - 1})]]]
  BY <1>1 DEF Elapse
<1> HIDE DEF e
<1>4. /\ e.count = k.count /\ e.i = 0
      /\ e.pool = [j \in 0 .. MaxTasks - 1 |-> [k.pool[j] EXCEPT !.due = Max({0, @ - 1})]]
      /\ e = [pool |-> e.pool, count |-> e.count, i |-> e.i]
  BY <1>0, <1>3 DEF TasksT
<1>5. ASSUME NEW j \in 0 .. MaxTasks - 1
      PROVE  /\ e.pool[j] \in TaskT
             /\ e.pool[j].active = k.pool[j].active
             /\ e.pool[j].oneshot = k.pool[j].oneshot
             /\ e.pool[j].ran = k.pool[j].ran
  <2>1. k.pool[j] \in TaskT
    BY <1>0 DEF TasksT
  <2> QED BY <1>2, <1>4, <2>1 DEF TaskT
<1>6. e.pool \in [0 .. MaxTasks - 1 -> TaskT]
  BY <1>4, <1>5
<1>7. e \in TasksT
  <2>1. e.count \in Int /\ e.i \in Int
    BY <1>0, <1>4 DEF TasksT
  <2> QED BY <1>4, <1>6, <2>1 DEF TasksT
<1>8. Active(e) = Active(k)
  BY <1>0, <1>7, <1>5 DEF Active, TasksT
<1>9. ASSUME NEW j \in Active(e) PROVE ~(e.pool[j].oneshot /\ e.pool[j].ran)
  BY <1>0, <1>5, <1>8, ActiveFinite DEF Counted
<1> QED BY <1>4, <1>7, <1>8, <1>9 DEF Counted, e

LEMMA NoTasksCounted == Counted(NoTasks)
<1>1. NoTasks \in TasksT
  BY DEF NoTasks, NoTask, TasksT, TaskT
<1>2. Active(NoTasks) = {}
  BY DEF NoTasks, NoTask, Active
<1> QED BY <1>1, <1>2, FS_EmptySet DEF Counted, NoTasks

LEMMA DueTaken ==
  ASSUME NEW k, Counted(k), Due(k) # {}
  PROVE  Min(Due(k)) \in Active(k)
<1>1. Due(k) \in SUBSET Nat
  BY ActiveFinite DEF Counted, Due
<1> QED BY <1>1, MinLeast DEF Due

(***************************************************************************)
(* The decoder of the mouse.                                                 *)
(***************************************************************************)
ByteT  == [bit3 : BOOLEAN, left : BOOLEAN, right : BOOLEAN, over : BOOLEAN]
MouseT == [cycle : 0 .. 2, flags : ByteT, event : BOOLEAN, held : ByteT]

LEMMA ByteHandled ==
  ASSUME NEW m \in MouseT, NEW b \in ByteT
  PROVE  /\ HandleByte(m, b) \in MouseT
         /\ HandleByte(m, b).cycle = IF m.cycle = 0 /\ ~b.bit3 THEN 0 ELSE (m.cycle + 1) % 3
<1>1. CASE m.cycle = 0 /\ ~b.bit3
  BY <1>1 DEF HandleByte
<1>2. CASE ~(m.cycle = 0 /\ ~b.bit3)
  <2> DEFINE h == HandleByte(m, b)
  <2>1. h = [m EXCEPT !.cycle = (@ + 1) % 3, !.flags = IF m.cycle = 0 THEN b ELSE @,
                      !.event = @ \/ (m.cycle = 2 /\ ~m.flags.over)]
    BY <1>2 DEF HandleByte
  <2> HIDE DEF h
  <2>2. /\ h.cycle = (m.cycle + 1) % 3 /\ h.flags = IF m.cycle = 0 THEN b ELSE m.flags
        /\ h.event = (m.event \/ (m.cycle = 2 /\ ~m.flags.over)) /\ h.held = m.held
        /\ h = [cycle |-> h.cycle, flags |-> h.flags, event |-> h.event, held |-> h.held]
    BY <2>1 DEF MouseT
  <2>3. h.cycle \in 0 .. 2
    <3>1. m.cycle \in {0, 1, 2}
      BY DEF MouseT
    <3> QED BY <2>2, <3>1
  <2>4. h.flags \in ByteT /\ h.event \in BOOLEAN /\ h.held \in ByteT
    BY <2>2 DEF MouseT
  <2> QED BY <1>2, <2>2, <2>3, <2>4 DEF MouseT, h
<1> QED BY <1>1, <1>2

LEMMA ClicksAreBytes ==
  ASSUME NEW b \in Clicks
  PROVE  b \in ByteT /\ b.bit3 /\ Quiet \in ByteT /\ ~Quiet.bit3 /\ Loud \in ByteT /\ Over \in ByteT
<1>3. b \in ByteT /\ b.bit3
  <2> DEFINE Rights == IF mix.right THEN BOOLEAN ELSE {FALSE}
  <2>1. b \in [bit3 : {TRUE}, left : BOOLEAN, right : Rights, over : {FALSE}]
    BY DEF Clicks
  <2>2. Rights \subseteq BOOLEAN
    OBVIOUS
  <2> HIDE DEF Rights
  <2> QED BY <2>1, <2>2 DEF ByteT
<1>4. Quiet \in ByteT /\ ~Quiet.bit3
  BY DEF Quiet, ByteT
<1>5. Loud \in ByteT /\ Over \in ByteT
  BY DEF Loud, Over, ByteT
<1> QED BY <1>3, <1>4, <1>5

LEMMA PacketsAreBytes ==
  ASSUME NEW b \in Clicks, NEW bytes \in Sent(b)
  PROVE  \E n \in {2, 3} : DOMAIN bytes = 1 .. n /\ \A k \in 1 .. n : bytes[k] \in ByteT
<1>1. /\ b \in ByteT /\ Quiet \in ByteT /\ Loud \in ByteT /\ Over \in ByteT
  BY ClicksAreBytes
<1>2. PICK o \in ByteT : o = [b EXCEPT !.over = TRUE]
  BY <1>1 DEF ByteT
<1>3. bytes \in {<<b, Quiet, Quiet>>, <<b, Loud, Quiet>>, <<b, Quiet, Loud>>, <<o, Over, Quiet>>,
                 <<b, Quiet>>, <<b, Loud>>, <<Quiet, Loud>>}
  BY <1>2, Zenon DEF Sent
<1>4. \A x \in ByteT, y \in ByteT, z \in ByteT :
        /\ DOMAIN <<x, y, z>> = 1 .. 3 /\ \A k \in 1 .. 3 : <<x, y, z>>[k] \in ByteT
        /\ DOMAIN <<x, y>> = 1 .. 2 /\ \A k \in 1 .. 2 : <<x, y>>[k] \in ByteT
  OBVIOUS
<1>5. ASSUME NEW x \in ByteT, NEW y \in ByteT, bytes = <<x, y>>
      PROVE  DOMAIN bytes = 1 .. 2 /\ \A k \in 1 .. 2 : bytes[k] \in ByteT
  BY <1>4, <1>5
<1>6. ASSUME NEW x \in ByteT, NEW y \in ByteT, NEW z \in ByteT, bytes = <<x, y, z>>
      PROVE  DOMAIN bytes = 1 .. 3 /\ \A k \in 1 .. 3 : bytes[k] \in ByteT
  BY <1>4, <1>6
<1> HIDE DEF Quiet, Loud, Over
<1> QED BY <1>1, <1>3, <1>5, <1>6

LEMMA PacketHandled ==
  ASSUME NEW m \in MouseT, NEW b \in Clicks, NEW bytes \in Sent(b)
  PROVE  HandleBytes(m, bytes) \in MouseT
<1>1. PICK n \in {2, 3} : DOMAIN bytes = 1 .. n /\ \A k \in 1 .. n : bytes[k] \in ByteT
  BY PacketsAreBytes
<1>2. n \in Nat
  BY <1>1
<1>r. PICK f : ByteRun(m, bytes, n, f)
  <2>1. Bytes(bytes, n)
    BY <1>1, <1>2 DEF Bytes
  <2> QED BY ONLY <2>1, BytesSteps
<1>3. /\ f[0] = m
      /\ \A k \in 1 .. n : f[k] = HandleByte(f[k-1], bytes[k])
      /\ HandleBytes(m, bytes) = f[n]
  BY <1>r DEF ByteRun
<1>4. f[1] \in MouseT
  <2>1. 1 \in 1 .. n /\ 1 - 1 = 0
    BY <1>1
  <2>2. f[1] = HandleByte(m, bytes[1]) /\ bytes[1] \in ByteT
    BY <1>1, <1>3, <2>1
  <2> QED BY <2>2, ByteHandled
<1>5. f[2] \in MouseT
  <2>1. 2 \in 1 .. n /\ 2 - 1 = 1
    BY <1>1
  <2>2. f[2] = HandleByte(f[1], bytes[2]) /\ bytes[2] \in ByteT
    BY <1>1, <1>3, <2>1
  <2> QED BY <1>4, <2>2, ByteHandled
<1>6. CASE n = 3
  <2>1. 3 \in 1 .. n /\ 3 - 1 = 2
    BY <1>6
  <2>2. f[3] = HandleByte(f[2], bytes[3]) /\ bytes[3] \in ByteT
    BY <1>1, <1>3, <2>1
  <2> QED BY <1>3, <1>5, <1>6, <2>2, ByteHandled
<1> QED BY <1>1, <1>3, <1>5, <1>6

LEMMA StillPacketResyncs ==
  ASSUME NEW m \in MouseT, NEW b \in Clicks
  PROVE  HandleBytes(m, <<b, Quiet, Quiet>>).cycle = 0
<1> DEFINE s == <<b, Quiet, Quiet>>
<1>1. b \in ByteT /\ b.bit3 /\ Quiet \in ByteT /\ ~Quiet.bit3
  BY ClicksAreBytes
<1>2. DOMAIN s = 1 .. 3 /\ s[1] = b /\ s[2] = Quiet /\ s[3] = Quiet
  OBVIOUS
<1> HIDE DEF s
<1>r. PICK f : ByteRun(m, s, 3, f)
  <2>1. Bytes(s, 3)
    BY <1>2 DEF Bytes
  <2> QED BY ONLY <2>1, BytesSteps
<1>3. /\ f[0] = m
      /\ \A k \in 1 .. 3 : f[k] = HandleByte(f[k-1], s[k])
      /\ HandleBytes(m, s) = f[3]
  BY <1>r DEF ByteRun
<1>4. f[1] = HandleByte(f[0], b) /\ f[2] = HandleByte(f[1], Quiet) /\ f[3] = HandleByte(f[2], Quiet)
  <2>1. 1 \in 1 .. 3 /\ 2 \in 1 .. 3 /\ 3 \in 1 .. 3 /\ 1 - 1 = 0 /\ 2 - 1 = 1 /\ 3 - 1 = 2
    OBVIOUS
  <2>2. f[1] = HandleByte(f[1-1], s[1]) /\ f[2] = HandleByte(f[2-1], s[2]) /\ f[3] = HandleByte(f[3-1], s[3])
    BY <1>3, <2>1
  <2> QED BY <1>2, <2>1, <2>2
<1>5. f[1] \in MouseT /\ f[1].cycle = (m.cycle + 1) % 3
  BY <1>1, <1>3, <1>4, ByteHandled
<1>6. f[2] \in MouseT /\ f[2].cycle = IF f[1].cycle = 0 THEN 0 ELSE (f[1].cycle + 1) % 3
  BY <1>1, <1>4, <1>5, ByteHandled
<1>7. f[3] \in MouseT /\ f[3].cycle = IF f[2].cycle = 0 THEN 0 ELSE (f[2].cycle + 1) % 3
  BY <1>1, <1>4, <1>6, ByteHandled
<1>8. m.cycle \in {0, 1, 2}
  BY DEF MouseT
<1>9. f[3].cycle = 0
  BY <1>5, <1>6, <1>7, <1>8
<1> QED BY <1>3, <1>9 DEF s

(***************************************************************************)
(* The speaker.                                                              *)
(***************************************************************************)
SpeakerOK(s, noting) ==
  /\ s = [on |-> s.on, idx |-> s.idx, count |-> s.count, left |-> s.left]
  /\ s.on \in BOOLEAN /\ s.idx \in Nat /\ s.count \in {0, 2, Chime}
  /\ s.idx <= s.count
  /\ s.on \/ noting => s.idx < s.count

LEMMA QueuedOK ==
  ASSUME NEW n \in {2, Chime}, NEW lag, NEW noting
  PROVE  SpeakerOK(Queued(n, lag), noting)
BY DesktopAssumption DEF Queued, SpeakerOK

LEMMA NextNoteOK ==
  ASSUME NEW s, SpeakerOK(s, TRUE)
  PROVE  SpeakerOK(NextNote(s), FALSE)
<1>1. s.count \in Nat
  BY DesktopAssumption DEF SpeakerOK
<1>2. PICK on, x, c, l : s = [on |-> on, idx |-> x, count |-> c, left |-> l]
  BY DEF SpeakerOK
<1>3. x \in Nat /\ c \in {0, 2, Chime} /\ x < c /\ c \in Nat
  BY <1>1, <1>2 DEF SpeakerOK
<1>4. CASE x + 1 < c
  <2>1. NextNote(s) = [on |-> TRUE, idx |-> x + 1, count |-> c, left |-> 1]
    <3>1. (s.idx + 1 < s.count) = TRUE
      BY <1>2, <1>4
    <3>2. NextNote(s) = [s EXCEPT !.on = TRUE, !.idx = s.idx + 1, !.left = 1]
      BY <3>1, Zenon DEF NextNote
    <3> QED BY <1>2, <3>2
  <2> QED BY <1>3, <1>4, <2>1 DEF SpeakerOK
<1>5. CASE ~(x + 1 < c)
  <2>1. NextNote(s) = [on |-> FALSE, idx |-> x + 1, count |-> c, left |-> l]
    <3>1. (s.idx + 1 < s.count) = FALSE
      BY <1>2, <1>5
    <3>2. NextNote(s) = [s EXCEPT !.on = FALSE, !.idx = s.idx + 1, !.left = s.left]
      BY <3>1, Zenon DEF NextNote
    <3> QED BY <1>2, <3>2
  <2> QED BY <1>3, <1>5, <2>1 DEF SpeakerOK
<1> QED BY <1>4, <1>5


(***************************************************************************)
(* The table of windows.                                                     *)
(***************************************************************************)
Titles == Apps \cup {"none"}
WinT == [shown : BOOLEAN, min : BOOLEAN, anim : Anims, frame : Nat, focused : BOOLEAN,
         drag : {"none", "size", "move"}, title : Titles, term : BOOLEAN,
         text : Titles \X (Terms \cup {None}), typed : {0, 1}, own : Terms \cup {None},
         place : Places \cup {0}]
GuiT == [win : [Slots -> WinT], count : 0 .. MaxWindows, focus : Slots \cup {None},
         left : BOOLEAN, right : BOOLEAN, start : BOOLEAN, context : BOOLEAN,
         tab : BOOLEAN, tabIdx : Slots]

\* What a window does to the rest: w was the window, f tells whether it has the focus,
\* dragging whether the GUI has seen the button go down.
WinOK(w, f, dragging) ==
  /\ f => w.shown /\ ~w.min
  /\ ~(w.shown /\ ~w.min) => w.anim = "none"
  /\ w.drag # "none" => dragging
  /\ w.term => w.title = "terminal"
  /\ w.shown => w.text[1] \in {"none", w.title}
GuiOK(g) ==
  /\ g \in GuiT
  /\ g.focus # None => g.focus \in Used(g)
  /\ \A i \in Used(g) : WinOK(g.win[i], i = g.focus, g.left)
  /\ \A i, j \in Used(g) : g.win[i].drag # "none" /\ g.win[j].drag # "none" => i = j

\* No window comes to be shown, and those that stay are what they were.
Tame(h, g) ==
  /\ h.count = g.count
  /\ \A i \in Used(g) : /\ h.win[i].shown => g.win[i].shown
                        /\ h.win[i].title = g.win[i].title
                        /\ h.win[i].term = g.win[i].term

LEMMA UsedSlots ==
  ASSUME NEW g \in GuiT
  PROVE  /\ Used(g) \subseteq Slots /\ None \notin Slots /\ Slots \subseteq Nat
         /\ Shown(g) \subseteq Used(g) /\ Visible(g) \subseteq Shown(g)
         /\ MaxWindows \in Nat /\ 0 \in Slots
BY GuiAssumption DEF Used, Slots, None, Shown, Visible, GuiT

LEMMA GuiFields ==
  ASSUME NEW g \in GuiT
  PROVE  /\ g.win \in [Slots -> WinT] /\ g.count \in 0 .. MaxWindows /\ g.focus \in Slots \cup {None}
         /\ g.left \in BOOLEAN /\ g.right \in BOOLEAN /\ g.start \in BOOLEAN /\ g.context \in BOOLEAN
         /\ g.tab \in BOOLEAN /\ g.tabIdx \in Slots
         /\ \A i \in Slots : g.win[i] \in WinT
BY DEF GuiT

\* One window is replaced.
LEMMA OneWindow ==
  ASSUME NEW g, GuiOK(g), NEW h, NEW i \in Used(g), NEW w \in WinT,
         h.win = [g.win EXCEPT ![i] = w],
         h.focus \in {g.focus, i, None},
         h \in GuiT, h.count = g.count, h.left = g.left,
         WinOK(w, i = h.focus, h.left),
         w.drag \in {"none", g.win[i].drag} \/ \A j \in Used(g) : g.win[j].drag = "none",
         w.shown => g.win[i].shown, w.title = g.win[i].title, w.term = g.win[i].term
  PROVE  GuiOK(h) /\ Tame(h, g)
<1>1. Used(h) = Used(g)
  BY DEF Used
<1>2. \A j \in Used(g) : h.win[j] = IF j = i THEN w ELSE g.win[j]
  BY UsedSlots, GuiFields DEF GuiOK
<1>3. ASSUME NEW j \in Used(g) PROVE WinOK(h.win[j], j = h.focus, h.left)
  <2>1. CASE j = i
    BY <1>2, <2>1
  <2>2. CASE j # i
    <3>1. h.win[j] = g.win[j] /\ WinOK(g.win[j], j = g.focus, g.left)
      BY <1>2, <2>2 DEF GuiOK
    <3>2. j = h.focus => j = g.focus
      BY <2>2, UsedSlots DEF GuiOK
    <3> QED BY <3>1, <3>2 DEF WinOK
  <2> QED BY <2>1, <2>2
<1>4. \A j, k \in Used(g) : h.win[j].drag # "none" /\ h.win[k].drag # "none" => j = k
  BY <1>2 DEF GuiOK
<1>5. h.focus # None => h.focus \in Used(g)
  BY DEF GuiOK
<1> QED BY <1>1, <1>2, <1>3, <1>4, <1>5 DEF GuiOK, Tame

LEMMA AnimatedOK ==
  ASSUME NEW g, GuiOK(g), NEW i \in Used(g), NEW a \in Anims, a = "none" \/ i \in Visible(g)
  PROVE  GuiOK(Animated(g, i, a)) /\ Tame(Animated(g, i, a), g)
<1> DEFINE h == Animated(g, i, a)
<1>1. g \in GuiT /\ i \in Slots /\ g.win[i] \in WinT
  BY UsedSlots, GuiFields DEF GuiOK
<1>2. PICK w \in WinT : w = [g.win[i] EXCEPT !.anim = a, !.frame = 0]
  BY <1>1 DEF WinT
<1>3. h = [g EXCEPT !.win = [g.win EXCEPT ![i] = w]]
  BY <1>1, <1>2 DEF Animated, GuiT
<1>4. h \in GuiT /\ h.win = [g.win EXCEPT ![i] = w] /\ h.focus = g.focus /\ h.count = g.count /\ h.left = g.left
  BY <1>1, <1>3 DEF GuiT
<1>5. WinOK(w, i = h.focus, h.left) /\ w.drag = g.win[i].drag /\ w.shown = g.win[i].shown
        /\ w.title = g.win[i].title /\ w.term = g.win[i].term
  BY <1>1, <1>2, <1>4 DEF WinOK, GuiOK, WinT, Visible, Shown
<1> QED BY <1>4, <1>5, OneWindow

LEMMA GoneOK ==
  ASSUME NEW g, GuiOK(g), NEW i \in Used(g)
  PROVE  /\ GuiOK(Gone(g, i)) /\ Tame(Gone(g, i), g) /\ ~Gone(g, i).win[i].shown
         /\ Gone(g, i).focus \in {g.focus, None}
         /\ \A j \in Slots : j # i => Gone(g, i).win[j] = g.win[j]
<1> DEFINE h == Gone(g, i)
<1>1. g \in GuiT /\ i \in Slots /\ g.win[i] \in WinT
  BY UsedSlots, GuiFields DEF GuiOK
<1>2. PICK w \in WinT : w = [g.win[i] EXCEPT !.shown = FALSE, !.anim = "none"]
  BY <1>1 DEF WinT, Anims
<1>3. PICK f \in Slots \cup {None} : f = IF g.focus = i THEN None ELSE g.focus
  BY <1>1 DEF GuiT
<1>4. h = [g EXCEPT !.win = [g.win EXCEPT ![i] = w], !.focus = f]
  BY <1>1, <1>2, <1>3 DEF Gone, GuiT
<1>5. h \in GuiT /\ h.win = [g.win EXCEPT ![i] = w] /\ h.focus = f /\ h.count = g.count /\ h.left = g.left
  <2>1. f \in Slots \cup {None} /\ [g.win EXCEPT ![i] = w] \in [Slots -> WinT]
    BY <1>1 DEF GuiT
  <2> QED BY <1>1, <1>4, <2>1 DEF GuiT
<1>6. WinOK(w, i = h.focus, h.left) /\ w.drag = g.win[i].drag /\ (w.shown => g.win[i].shown)
        /\ w.title = g.win[i].title /\ w.term = g.win[i].term /\ ~w.shown
  BY <1>1, <1>2, <1>3, <1>5, UsedSlots DEF WinOK, GuiOK, WinT
<1>7. h.win[i] = w /\ \A j \in Slots : j # i => h.win[j] = g.win[j]
  BY <1>1, <1>5, GuiFields
<1> QED BY <1>3, <1>5, <1>6, <1>7, OneWindow

LEMMA MinimizedOK ==
  ASSUME NEW g, GuiOK(g), NEW i \in Used(g), g.win[i].anim = "min"
  PROVE  /\ GuiOK(Ended(g, i)) /\ Tame(Ended(g, i), g)
         /\ Ended(g, i).focus \in {g.focus, None}
         /\ \A j \in Slots : j # i => Ended(g, i).win[j] = g.win[j]
<1> DEFINE h == Ended(g, i)
<1>1. g \in GuiT /\ i \in Slots /\ g.win[i] \in WinT
  BY UsedSlots, GuiFields DEF GuiOK
<1>2. PICK w \in WinT : w = [g.win[i] EXCEPT !.min = TRUE, !.anim = "none"]
  BY <1>1 DEF WinT, Anims
<1>3. PICK f \in Slots \cup {None} : f = IF g.focus = i THEN None ELSE g.focus
  BY <1>1 DEF GuiT
<1>4. h = [g EXCEPT !.win = [g.win EXCEPT ![i] = w], !.focus = f]
  BY <1>1, <1>2, <1>3 DEF Ended, GuiT
<1> HIDE DEF h
<1>5. h \in GuiT /\ h.win = [g.win EXCEPT ![i] = w] /\ h.focus = f /\ h.count = g.count /\ h.left = g.left
  BY <1>1, <1>4 DEF GuiT
<1>6. WinOK(w, i = h.focus, h.left) /\ w.drag = g.win[i].drag /\ w.shown = g.win[i].shown /\ w.min = TRUE /\ w.anim = "none"
        /\ w.text = g.win[i].text
        /\ w.title = g.win[i].title /\ w.term = g.win[i].term
  <2>1. /\ w.drag = g.win[i].drag /\ w.shown = g.win[i].shown /\ w.min = TRUE /\ w.anim = "none"
        /\ w.text = g.win[i].text /\ w.title = g.win[i].title /\ w.term = g.win[i].term
    BY <1>1, <1>2 DEF WinT
  <2>2. WinOK(g.win[i], i = g.focus, g.left) /\ i # f
    BY <1>1, <1>3, UsedSlots DEF GuiOK
  <2> QED BY <1>5, <2>1, <2>2 DEF WinOK
<1>7. h.win[i] = w /\ \A j \in Slots : j # i => h.win[j] = g.win[j]
  BY <1>1, <1>5, GuiFields
<1> QED BY <1>3, <1>5, <1>6, <1>7, OneWindow DEF h

\* A field that only frame changes.
LEMMA FrameSet ==
  ASSUME NEW g, GuiOK(g), NEW i \in Used(g), NEW n \in Nat
  PROVE  /\ GuiOK([g EXCEPT !.win[i].frame = n]) /\ Tame([g EXCEPT !.win[i].frame = n], g)
<1> DEFINE h == [g EXCEPT !.win[i].frame = n]
<1>1. g \in GuiT /\ i \in Slots /\ g.win[i] \in WinT
  BY UsedSlots, GuiFields DEF GuiOK
<1>2. PICK w \in WinT : w = [g.win[i] EXCEPT !.frame = n]
  BY <1>1 DEF WinT
<1>3. h = [g EXCEPT !.win = [g.win EXCEPT ![i] = w]]
  BY <1>1, <1>2 DEF GuiT
<1>4. h \in GuiT /\ h.win = [g.win EXCEPT ![i] = w] /\ h.focus = g.focus /\ h.count = g.count /\ h.left = g.left
  BY <1>1, <1>3 DEF GuiT
<1>5. WinOK(w, i = h.focus, h.left) /\ w.drag = g.win[i].drag /\ w.shown = g.win[i].shown
        /\ w.title = g.win[i].title /\ w.term = g.win[i].term
  BY <1>1, <1>2, <1>4 DEF WinOK, GuiOK, WinT
<1> QED BY <1>4, <1>5, OneWindow

LEMMA TameChain ==
  ASSUME NEW g, NEW h, NEW k, Tame(h, g), Tame(k, h)
  PROVE  Tame(k, g)
BY DEF Tame, Used

LEMMA CloseWindowOK ==
  ASSUME NEW g, GuiOK(g), NEW i \in Visible(g)
  PROVE  GuiOK(CloseWindow(g, i)) /\ Tame(CloseWindow(g, i), g)
<1>0. g \in GuiT /\ i \in Used(g) /\ g.win[i].shown
  BY UsedSlots DEF GuiOK, Visible, Shown
<1>1. CASE g.win[i].anim = "close"
  <2> DEFINE h == Gone(g, i)
  <2>1. GuiOK(h) /\ Tame(h, g)
    BY <1>0, GoneOK
  <2>2. i \in Used(h)
    BY <1>0, <2>1 DEF Tame, Used
  <2>3. CloseWindow(g, i) = [h EXCEPT !.win[i].frame = 0]
    BY <1>0, <1>1 DEF CloseWindow
  <2> HIDE DEF h
  <2> QED BY <2>1, <2>2, <2>3, FrameSet, TameChain
<1>2. CASE g.win[i].anim # "close"
  BY <1>0, <1>2, AnimatedOK DEF CloseWindow, Anims
<1> QED BY <1>1, <1>2

\* All windows are changed, each in a way that the table does not notice.
LEMMA AllWindows ==
  ASSUME NEW g, GuiOK(g), NEW h, h \in GuiT, h.count = g.count,
         h.focus # None => h.focus \in Used(g),
         \A i \in Used(g) : /\ WinOK(h.win[i], i = h.focus, h.left)
                            /\ h.win[i].drag \in {"none", g.win[i].drag}
                            /\ h.win[i].shown => g.win[i].shown
                            /\ h.win[i].title = g.win[i].title
                            /\ h.win[i].term = g.win[i].term
  PROVE  GuiOK(h) /\ Tame(h, g)
BY DEF GuiOK, Tame, Used

LEMMA OnlyFocusOK ==
  ASSUME NEW g, GuiOK(g), NEW i \in Shown(g)
  PROVE  /\ GuiOK(OnlyFocus(g, i)) /\ Tame(OnlyFocus(g, i), g)
         /\ OnlyFocus(g, i).left = g.left /\ i \in Visible(OnlyFocus(g, i)) 
         /\ \A j \in Used(g) : OnlyFocus(g, i).win[j].drag = g.win[j].drag
<1> DEFINE h == OnlyFocus(g, i)
<1>0. g \in GuiT /\ i \in Used(g) /\ i \in Slots /\ g.win[i].shown /\ Used(g) \subseteq Slots
  BY UsedSlots DEF GuiOK, Shown
<1> DEFINE W(j) == [g.win[j] EXCEPT !.focused = IF j \in Used(g) THEN j = i ELSE @,
                                    !.min = IF j = i THEN FALSE ELSE @]
<1>1. ASSUME NEW j \in Slots
      PROVE  \E w \in WinT : /\ w = W(j)
                             /\ w.min = IF j = i THEN FALSE ELSE g.win[j].min
                             /\ w.shown = g.win[j].shown /\ w.anim = g.win[j].anim
                             /\ w.drag = g.win[j].drag /\ w.title = g.win[j].title
                             /\ w.term = g.win[j].term /\ w.text = g.win[j].text
  <2>1. g.win[j] \in WinT
    BY <1>0, GuiFields
  <2>2. PICK b \in BOOLEAN : b = IF j \in Used(g) THEN j = i ELSE g.win[j].focused
    BY <2>1 DEF WinT
  <2>3. PICK m \in BOOLEAN : m = IF j = i THEN FALSE ELSE g.win[j].min
    BY <2>1 DEF WinT
  <2>4. W(j) = [g.win[j] EXCEPT !.focused = b, !.min = m]
    BY <2>2, <2>3, Zenon
  <2>5. PICK w \in WinT : w = [g.win[j] EXCEPT !.focused = b, !.min = m]
    BY <2>1 DEF WinT
  <2> HIDE DEF W
  <2>6. /\ w.min = m /\ w.shown = g.win[j].shown /\ w.anim = g.win[j].anim
        /\ w.drag = g.win[j].drag /\ w.title = g.win[j].title
        /\ w.term = g.win[j].term /\ w.text = g.win[j].text
    BY <2>1, <2>5 DEF WinT
  <2>7. w = W(j)
    BY <2>4, <2>5
  <2> QED BY <2>3, <2>6, <2>7
<1>2. h = [g EXCEPT !.focus = i, !.win = [j \in Slots |-> W(j)]]
  BY DEF OnlyFocus
<1> HIDE DEF h, W
<1>3. [j \in Slots |-> W(j)] \in [Slots -> WinT]
  BY <1>1
<1>4. h \in GuiT /\ h.win = [j \in Slots |-> W(j)] /\ h.focus = i /\ h.count = g.count /\ h.left = g.left
  BY <1>0, <1>2, <1>3 DEF GuiT
<1>5. ASSUME NEW j \in Used(g)
      PROVE  /\ h.win[j].min = IF j = i THEN FALSE ELSE g.win[j].min
             /\ h.win[j].shown = g.win[j].shown /\ h.win[j].anim = g.win[j].anim
             /\ h.win[j].drag = g.win[j].drag /\ h.win[j].title = g.win[j].title
             /\ h.win[j].term = g.win[j].term /\ h.win[j].text = g.win[j].text
  <2>1. j \in Slots
    BY <1>0
  <2>2. h.win[j] = W(j)
    BY <1>4, <2>1
  <2>3. PICK w \in WinT : /\ w = W(j)
                          /\ w.min = IF j = i THEN FALSE ELSE g.win[j].min
                          /\ w.shown = g.win[j].shown /\ w.anim = g.win[j].anim
                          /\ w.drag = g.win[j].drag /\ w.title = g.win[j].title
                          /\ w.term = g.win[j].term /\ w.text = g.win[j].text
    BY <1>1, <2>1
  <2> QED BY <2>2, <2>3
<1>6. ASSUME NEW j \in Used(g) PROVE WinOK(h.win[j], j = h.focus, h.left)
  <2>1. WinOK(g.win[j], j = g.focus, g.left) /\ (j = h.focus <=> j = i)
    BY <1>4 DEF GuiOK
  <2>2. CASE j = i
    BY <1>0, <1>4, <1>5, <2>1, <2>2 DEF WinOK
  <2>3. CASE j # i
    <3>1. h.win[j].min = g.win[j].min
      BY <1>5, <2>3
    <3> QED BY <1>4, <1>5, <2>1, <2>3, <3>1 DEF WinOK
  <2> QED BY <2>2, <2>3
<1>7. GuiOK(h) /\ Tame(h, g)
  BY <1>0, <1>4, <1>5, <1>6, AllWindows
<1>8. i \in Visible(h)
  BY <1>0, <1>4, <1>5 DEF Visible, Shown, Used
<1> QED BY <1>4, <1>5, <1>7, <1>8 DEF h

\* The flags and the switcher are no part of it.
LEMMA FlagsOK ==
  ASSUME NEW g, GuiOK(g), NEW h, h \in GuiT, h.win = g.win, h.count = g.count,
         h.focus = g.focus, h.left = g.left
  PROVE  GuiOK(h) /\ Tame(h, g) /\ Used(h) = Used(g) /\ Shown(h) = Shown(g) /\ Visible(h) = Visible(g)
BY DEF GuiOK, Tame, Used, Shown, Visible

\* What is there to be hit stays there.
LEMMA SameShown ==
  ASSUME NEW g, NEW h, h.count = g.count,
         \A j \in Used(g) : h.win[j].shown = g.win[j].shown /\ h.win[j].min = g.win[j].min
  PROVE  Used(h) = Used(g) /\ Shown(h) = Shown(g) /\ Visible(h) = Visible(g)
<1>1. Used(h) = Used(g)
  BY DEF Used
<1>2. Shown(h) = Shown(g)
  BY <1>1 DEF Shown
<1> QED BY <1>1, <1>2, UsedSlots DEF Visible, Shown

LEMMA ClickWindowOK ==
  ASSUME NEW g, GuiOK(g), NEW i \in Visible(g), NEW part, g.left,
         \A j \in Used(g) : g.win[j].drag = "none"
  PROVE  GuiOK(ClickWindow(g, i, part)) /\ Tame(ClickWindow(g, i, part), g)
<1>0. g \in GuiT /\ i \in Used(g) /\ i \in Slots /\ i \in Shown(g) /\ g.win[i] \in WinT
  BY UsedSlots, GuiFields DEF GuiOK, Visible, Shown
<1>1. CASE part = "close"
  BY <1>1, CloseWindowOK DEF ClickWindow
<1>2. CASE part = "min"
  BY <1>0, <1>2, AnimatedOK DEF ClickWindow, Anims
<1>3. CASE part = "max"
  <2> DEFINE h == [g EXCEPT !.win[i].place = 0]
  <2>1. PICK w \in WinT : w = [g.win[i] EXCEPT !.place = 0]
    BY <1>0 DEF WinT
  <2>2. h = [g EXCEPT !.win = [g.win EXCEPT ![i] = w]]
    BY <1>0, <2>1 DEF GuiT
  <2>3. h \in GuiT /\ h.win = [g.win EXCEPT ![i] = w] /\ h.focus = g.focus /\ h.count = g.count /\ h.left = g.left
    BY <1>0, <2>2 DEF GuiT
  <2>4. WinOK(w, i = h.focus, h.left) /\ w.drag = g.win[i].drag /\ w.shown = g.win[i].shown
          /\ w.title = g.win[i].title /\ w.term = g.win[i].term
    BY <1>0, <2>1, <2>3 DEF WinOK, GuiOK, WinT
  <2>5. GuiOK(h) /\ Tame(h, g)
    BY <1>0, <2>3, <2>4, OneWindow
  <2>6. ClickWindow(g, i, part) = h
    BY <1>3 DEF ClickWindow
  <2> QED BY <2>5, <2>6
<1>4. CASE part \notin {"close", "min", "max"}
  <2> DEFINE f == OnlyFocus(g, i)
             d == IF part = "corner" THEN "size" ELSE IF part = "title" THEN "move" ELSE f.win[i].drag
             h == [f EXCEPT !.win[i].drag = d]
  <2>1. GuiOK(f) /\ Tame(f, g) /\ f.left = g.left /\ i \in Visible(f)
          /\ \A j \in Used(g) : f.win[j].drag = "none"
    BY <1>0, OnlyFocusOK
  <2>2. ClickWindow(g, i, part) = h
    BY <1>4 DEF ClickWindow
  <2> HIDE DEF f
  <2>3. f \in GuiT /\ i \in Used(f) /\ f.win[i] \in WinT /\ Used(f) = Used(g)
    BY <1>0, <2>1, GuiFields DEF GuiOK, Tame, Used
  <2>4. d \in {"none", "size", "move"}
    BY <2>3 DEF WinT
  <2> HIDE DEF d
  <2>5. PICK w \in WinT : w = [f.win[i] EXCEPT !.drag = d]
    BY <2>3, <2>4 DEF WinT
  <2>6. h = [f EXCEPT !.win = [f.win EXCEPT ![i] = w]]
    BY <2>3, <2>5 DEF GuiT
  <2>7. h \in GuiT /\ h.win = [f.win EXCEPT ![i] = w] /\ h.focus = f.focus /\ h.count = f.count /\ h.left = f.left
    BY <1>0, <2>3, <2>6 DEF GuiT
  <2>8. WinOK(w, i = h.focus, h.left) /\ w.shown = f.win[i].shown
          /\ w.title = f.win[i].title /\ w.term = f.win[i].term
    <3>1. /\ w.shown = f.win[i].shown /\ w.min = f.win[i].min /\ w.anim = f.win[i].anim
          /\ w.title = f.win[i].title /\ w.term = f.win[i].term /\ w.text = f.win[i].text
      BY <2>3, <2>5 DEF WinT
    <3>2. WinOK(f.win[i], i = f.focus, f.left) /\ f.left
      BY <2>1, <2>3 DEF GuiOK
    <3> QED BY <2>7, <3>1, <3>2 DEF WinOK
  <2>9. GuiOK(h) /\ Tame(h, f)
    BY <2>1, <2>3, <2>7, <2>8, OneWindow
  <2> QED BY <2>1, <2>2, <2>9, TameChain
<1> QED BY <1>1, <1>2, <1>3, <1>4

LEMMA MouseMoveOK ==
  ASSUME NEW g, GuiOK(g), NEW p \in Places \cup {0}
  PROVE  /\ GuiOK(MouseMove(g, p)) /\ Tame(MouseMove(g, p), g)
         /\ Used(MouseMove(g, p)) = Used(g) /\ Shown(MouseMove(g, p)) = Shown(g)
         /\ Visible(MouseMove(g, p)) = Visible(g)
         /\ MouseMove(g, p).left = g.left /\ MouseMove(g, p).right = g.right
<1> DEFINE h == MouseMove(g, p)
           W(i) == IF g.left /\ i \in Used(g) /\ g.win[i].drag # "none"
                   THEN [g.win[i] EXCEPT !.place = p] ELSE g.win[i]
<1>0. g \in GuiT /\ Used(g) \subseteq Slots
  BY UsedSlots DEF GuiOK
<1>1. ASSUME NEW i \in Slots
      PROVE  /\ W(i) \in WinT
             /\ W(i).shown = g.win[i].shown /\ W(i).min = g.win[i].min /\ W(i).anim = g.win[i].anim
             /\ W(i).drag = g.win[i].drag /\ W(i).title = g.win[i].title
             /\ W(i).term = g.win[i].term /\ W(i).text = g.win[i].text
  <2>1. g.win[i] \in WinT
    BY <1>0, GuiFields
  <2>2. PICK w : w = [g.win[i] EXCEPT !.place = p]
    OBVIOUS
  <2>a. /\ w.shown = g.win[i].shown /\ w.min = g.win[i].min /\ w.anim = g.win[i].anim
        /\ w.drag = g.win[i].drag /\ w.title = g.win[i].title
        /\ w.term = g.win[i].term /\ w.text = g.win[i].text
    BY <2>1, <2>2 DEF WinT
  <2>b. w \in WinT
    BY <2>1, <2>2 DEF WinT
  <2>3. W(i) = w \/ W(i) = g.win[i]
    BY <2>2
  <2> HIDE DEF W
  <2> QED BY <2>1, <2>a, <2>b, <2>3
<1>2. h = [g EXCEPT !.win = [i \in Slots |-> W(i)]]
  BY DEF MouseMove
<1> HIDE DEF h, W
<1>3. [i \in Slots |-> W(i)] \in [Slots -> WinT]
  BY <1>1
<1>4. h \in GuiT /\ h.win = [i \in Slots |-> W(i)] /\ h.focus = g.focus /\ h.count = g.count
        /\ h.left = g.left /\ h.right = g.right
  BY <1>0, <1>2, <1>3 DEF GuiT
<1>5. ASSUME NEW i \in Used(g)
      PROVE  /\ h.win[i].shown = g.win[i].shown /\ h.win[i].min = g.win[i].min /\ h.win[i].anim = g.win[i].anim
             /\ h.win[i].drag = g.win[i].drag /\ h.win[i].title = g.win[i].title
             /\ h.win[i].term = g.win[i].term /\ h.win[i].text = g.win[i].text
  <2>1. i \in Slots /\ h.win[i] = W(i)
    BY <1>0, <1>4
  <2> QED BY <1>1, <2>1
<1>6. ASSUME NEW i \in Used(g) PROVE WinOK(h.win[i], i = h.focus, h.left)
  <2>1. WinOK(g.win[i], i = g.focus, g.left)
    BY DEF GuiOK
  <2> QED BY <1>4, <1>5, <2>1 DEF WinOK
<1>7. GuiOK(h) /\ Tame(h, g)
  <2>1. h.focus # None => h.focus \in Used(g)
    BY <1>4 DEF GuiOK
  <2> QED BY <1>4, <1>5, <1>6, <2>1, AllWindows
<1>8. Used(h) = Used(g) /\ Shown(h) = Shown(g) /\ Visible(h) = Visible(g)
  BY <1>4, <1>5, SameShown
<1> QED BY <1>4, <1>7, <1>8 DEF h

LEMMA ButtonsOK ==
  ASSUME NEW g, GuiOK(g), NEW left \in BOOLEAN, NEW right \in BOOLEAN
  PROVE  /\ GuiOK(Buttons(g, left, right, FALSE)) /\ Tame(Buttons(g, left, right, FALSE), g)
         /\ Used(Buttons(g, left, right, FALSE)) = Used(g)
         /\ Shown(Buttons(g, left, right, FALSE)) = Shown(g)
         /\ Visible(Buttons(g, left, right, FALSE)) = Visible(g)
         /\ Buttons(g, left, right, FALSE).left = left
         /\ ~g.left => \A i \in Used(g) : Buttons(g, left, right, FALSE).win[i].drag = "none"
<1> DEFINE h == Buttons(g, left, right, FALSE)
           W(i) == [g.win[i] EXCEPT !.drag = IF ~left /\ g.left /\ i \in Used(g) THEN "none" ELSE @]
<1>0. g \in GuiT /\ Used(g) \subseteq Slots
  BY UsedSlots DEF GuiOK
<1>1. ASSUME NEW i \in Slots
      PROVE  /\ W(i) \in WinT
             /\ W(i).shown = g.win[i].shown /\ W(i).min = g.win[i].min /\ W(i).anim = g.win[i].anim
             /\ W(i).title = g.win[i].title /\ W(i).term = g.win[i].term /\ W(i).text = g.win[i].text
             /\ W(i).drag = IF ~left /\ g.left /\ i \in Used(g) THEN "none" ELSE g.win[i].drag
  <2>1. g.win[i] \in WinT
    BY <1>0, GuiFields
  <2>2. PICK d \in {"none", "size", "move"} : d = IF ~left /\ g.left /\ i \in Used(g) THEN "none" ELSE g.win[i].drag
    BY <2>1 DEF WinT
  <2>3. W(i) = [g.win[i] EXCEPT !.drag = d]
    BY <2>2, Zenon
  <2> HIDE DEF W
  <2>4. W(i) \in WinT
    BY <2>1, <2>2, <2>3 DEF WinT
  <2> QED BY <2>1, <2>2, <2>3, <2>4 DEF WinT
<1>2. h = [g EXCEPT !.left = left, !.right = right, !.win = [i \in Slots |-> W(i)]]
  BY DEF Buttons
<1> HIDE DEF h, W
<1>3. [i \in Slots |-> W(i)] \in [Slots -> WinT]
  BY <1>1
<1>4. h \in GuiT /\ h.win = [i \in Slots |-> W(i)] /\ h.focus = g.focus /\ h.count = g.count
        /\ h.left = left
  BY <1>0, <1>2, <1>3 DEF GuiT
<1>5. ASSUME NEW i \in Used(g)
      PROVE  /\ h.win[i].shown = g.win[i].shown /\ h.win[i].min = g.win[i].min /\ h.win[i].anim = g.win[i].anim
             /\ h.win[i].title = g.win[i].title
             /\ h.win[i].term = g.win[i].term /\ h.win[i].text = g.win[i].text
             /\ h.win[i].drag = IF ~left /\ g.left THEN "none" ELSE g.win[i].drag
  <2>1. i \in Slots /\ h.win[i] = W(i)
    BY <1>0, <1>4
  <2> QED BY <1>1, <2>1
<1>6. ASSUME NEW i \in Used(g) PROVE WinOK(h.win[i], i = h.focus, h.left)
  <2>1. WinOK(g.win[i], i = g.focus, g.left)
    BY DEF GuiOK
  <2> QED BY <1>4, <1>5, <2>1 DEF WinOK
<1>7. GuiOK(h) /\ Tame(h, g)
  <2>1. h.focus # None => h.focus \in Used(g)
    BY <1>4 DEF GuiOK
  <2> QED BY <1>4, <1>5, <1>6, <2>1, AllWindows
<1>8. Used(h) = Used(g) /\ Shown(h) = Shown(g) /\ Visible(h) = Visible(g)
  BY <1>4, <1>5, SameShown
<1>9. ~g.left => \A i \in Used(g) : h.win[i].drag = "none"
  BY <1>5 DEF GuiOK, WinOK
<1> QED BY <1>4, <1>7, <1>8, <1>9 DEF h

LEMMA MouseClickOK ==
  ASSUME NEW g, GuiOK(g), NEW left \in BOOLEAN, NEW right \in BOOLEAN, NEW rendering \in BOOLEAN,
         NEW hit, \/ hit \in Hits(g)
                  \/ ~RightPressed(g, right) /\ ~LeftPressed(g, left, right)
  PROVE  /\ GuiOK(MouseClick(g, left, right, hit, rendering))
         /\ Tame(MouseClick(g, left, right, hit, rendering), g)
         /\ rendering => MouseClick(g, left, right, hit, rendering) = g
<1> DEFINE b == Buttons(g, left, right, FALSE)
           k == MouseClick(g, left, right, hit, rendering)
<1>1. CASE rendering
  <2>1. k = g
    BY <1>1 DEF MouseClick, Buttons
  <2> QED BY <2>1 DEF Tame
<1>2. CASE ~rendering
  <2>0. k = IF RightPressed(g, right) THEN RightClick(b, hit)
            ELSE IF LeftPressed(g, left, right) THEN LeftClick(b, hit) ELSE b
    BY <1>2 DEF MouseClick, Buttons
  <2>1. /\ GuiOK(b) /\ Tame(b, g) /\ Shown(b) = Shown(g) /\ Visible(b) = Visible(g) /\ Used(b) = Used(g)
        /\ b.left = left
        /\ ~g.left => \A i \in Used(g) : b.win[i].drag = "none"
    BY ButtonsOK
  <2> HIDE DEF b, k
  <2>2. CASE RightPressed(g, right)
    <3>1. PICK c \in BOOLEAN : c = (hit.kind \notin {"window", "tab", "start"})
      OBVIOUS
    <3>2. k = [b EXCEPT !.start = FALSE, !.context = c]
      BY <2>0, <2>2, <3>1, Zenon DEF RightClick
    <3>3. k \in GuiT /\ k.win = b.win /\ k.count = b.count /\ k.focus = b.focus /\ k.left = b.left
      BY <2>1, <3>2 DEF GuiOK, GuiT
    <3> QED BY <1>2, <2>1, <3>3, FlagsOK, TameChain DEF k
  <2>3. CASE ~RightPressed(g, right) /\ LeftPressed(g, left, right)
    <3> DEFINE m == [b EXCEPT !.start = FALSE, !.context = FALSE]
    <3>1. /\ m \in GuiT /\ m.win = b.win /\ m.count = b.count /\ m.focus = b.focus /\ m.left = b.left
          /\ [m EXCEPT !.start = TRUE] \in GuiT /\ [m EXCEPT !.start = TRUE].win = b.win
          /\ [m EXCEPT !.start = TRUE].count = b.count /\ [m EXCEPT !.start = TRUE].focus = b.focus
          /\ [m EXCEPT !.start = TRUE].left = b.left
      BY <2>1 DEF GuiOK, GuiT
    <3>2. k = CASE hit.kind = "window" -> ClickWindow(m, hit.i, hit.what)
                [] hit.kind = "tab"    -> OnlyFocus(m, hit.i)
                [] hit.kind = "start"  -> [m EXCEPT !.start = TRUE]
                [] OTHER -> m
      BY <2>0, <2>3, Zenon DEF LeftClick
    <3> HIDE DEF m
    <3>3. GuiOK(m) /\ Tame(m, b) /\ Shown(m) = Shown(g) /\ Visible(m) = Visible(g) /\ Used(m) = Used(g)
      BY <2>1, <3>1, FlagsOK
    <3>4. m.left /\ \A i \in Used(m) : m.win[i].drag = "none"
      BY <2>1, <2>3, <3>1, <3>3 DEF LeftPressed
    <3>5. hit \in Hits(g)
      BY <2>3
    <3>6. CASE hit.kind = "window"
      <4>1. hit.i \in Visible(m)
        BY <3>3, <3>5, <3>6 DEF Hits
      <4>2. k = ClickWindow(m, hit.i, hit.what)
        BY <3>2, <3>6
      <4> QED BY <1>2, <2>1, <3>3, <3>4, <4>1, <4>2, ClickWindowOK, TameChain DEF k
    <3>7. CASE hit.kind = "tab"
      <4>1. hit.i \in Shown(m)
        BY <3>3, <3>5, <3>7 DEF Hits
      <4>2. k = OnlyFocus(m, hit.i)
        BY <3>2, <3>7
      <4> QED BY <1>2, <2>1, <3>3, <4>1, <4>2, OnlyFocusOK, TameChain DEF k
    <3>8. CASE hit.kind = "start"
      <4>1. k = [m EXCEPT !.start = TRUE]
        BY <3>2, <3>8
      <4> QED BY <1>2, <2>1, <3>1, <4>1, FlagsOK, TameChain DEF k
    <3>9. CASE hit.kind \notin {"window", "tab", "start"}
      <4>1. k = m
        BY <3>2, <3>9
      <4> QED BY <1>2, <2>1, <3>3, <4>1, TameChain DEF k
    <3> QED BY <3>6, <3>7, <3>8, <3>9
  <2>4. CASE ~RightPressed(g, right) /\ ~LeftPressed(g, left, right)
    BY <1>2, <2>0, <2>1, <2>4 DEF k
  <2> QED BY <2>2, <2>3, <2>4
<1> QED BY <1>1, <1>2

\* One frame of one window: the others stay as they are.
LEMMA RenderWindowOK ==
  ASSUME NEW g, GuiOK(g), NEW i \in Used(g)
  PROVE  /\ GuiOK(RenderWindow(g, i)) /\ Tame(RenderWindow(g, i), g)
         /\ RenderWindow(g, i).focus \in {g.focus, None}
         /\ Visible(RenderWindow(g, i)) \subseteq Visible(g)
         /\ \A j \in Used(g) : j # i => (j \in Visible(RenderWindow(g, i)) <=> j \in Visible(g))
<1> DEFINE a == Advanced(g, i)
           r == RenderWindow(g, i)
           Rest(h) == /\ h.focus \in {g.focus, None}
                      /\ h.win \in [Slots -> WinT]
                      /\ \A j \in Used(g) : j # i => h.win[j] = g.win[j]
<1>0. g \in GuiT /\ i \in Slots /\ Used(g) \subseteq Slots /\ g.win[i] \in WinT
  BY UsedSlots, GuiFields DEF GuiOK
<1>1. GuiOK(a) /\ Tame(a, g) /\ Rest(a) /\ a.win[i].anim = g.win[i].anim /\ a.win[i].shown = g.win[i].shown
        /\ a.win[i].min = g.win[i].min
  <2>1. CASE g.win[i].anim = "none"
    BY <1>0, <2>1, GuiFields DEF Advanced, Tame
  <2>2. CASE g.win[i].anim # "none"
    <3>1. PICK n \in Nat : n = g.win[i].frame + 1
      BY <1>0 DEF WinT
    <3>2. a = [g EXCEPT !.win[i].frame = n]
      BY <2>2, <3>1, <1>0 DEF Advanced, GuiT, WinT
    <3>3. GuiOK(a) /\ Tame(a, g)
      BY <3>1, <3>2, FrameSet
    <3> HIDE DEF a
    <3>4. PICK w : w = [g.win[i] EXCEPT !.frame = n]
      OBVIOUS
    <3>5. w.anim = g.win[i].anim /\ w.shown = g.win[i].shown /\ w.min = g.win[i].min
      BY <1>0, <3>4 DEF WinT
    <3>6. a.win = [g.win EXCEPT ![i] = w] /\ a.focus = g.focus
      BY <1>0, <3>2, <3>4 DEF GuiT
    <3>7. \A j \in Slots : a.win[j] = IF j = i THEN w ELSE g.win[j]
      BY <1>0, <3>6, GuiFields
    <3>8. a.win \in [Slots -> WinT]
      BY <3>3, GuiFields DEF GuiOK
    <3> QED BY <1>0, <3>3, <3>5, <3>6, <3>7, <3>8 DEF a
  <2> QED BY <2>1, <2>2
<1> HIDE DEF a
<1>2. i \in Used(a) /\ a \in GuiT /\ a.win[i] \in WinT /\ Used(a) = Used(g) /\ a.win \in [Slots -> WinT]
  BY <1>0, <1>1, GuiFields DEF Tame, Used, GuiOK
<1>3. GuiOK(r) /\ Tame(r, g) /\ Rest(r)
  <2>1. CASE i \notin Visible(g)
    BY <1>0, <2>1, GuiFields DEF RenderWindow, Tame
  <2>2. CASE i \in Visible(g) /\ r = a
    BY <1>1, <2>2
  <2>3. CASE i \in Visible(g) /\ r = [a EXCEPT !.win[i].anim = "none"]
    <3>1. PICK w : w = [a.win[i] EXCEPT !.anim = "none"]
      OBVIOUS
    <3>2. /\ w.shown = a.win[i].shown /\ w.min = a.win[i].min /\ w.drag = a.win[i].drag /\ w.anim = "none"
          /\ w.title = a.win[i].title /\ w.term = a.win[i].term /\ w.text = a.win[i].text
      BY <1>2, <3>1 DEF WinT
    <3>3. w \in WinT
      BY <1>2, <3>1 DEF WinT, Anims
    <3>4. r = [a EXCEPT !.win = [a.win EXCEPT ![i] = w]]
      BY <1>2, <2>3, <3>1 DEF GuiT
    <3>5. r \in GuiT /\ r.win = [a.win EXCEPT ![i] = w] /\ r.focus = a.focus /\ r.count = a.count /\ r.left = a.left
      BY <1>0, <1>2, <3>3, <3>4 DEF GuiT
    <3>6. WinOK(w, i = r.focus, r.left)
      BY <1>1, <1>2, <3>2, <3>5 DEF WinOK, GuiOK
    <3>7. GuiOK(r) /\ Tame(r, a)
      BY <1>1, <1>2, <3>2, <3>3, <3>5, <3>6, OneWindow
    <3>8. \A j \in Slots : r.win[j] = IF j = i THEN w ELSE a.win[j]
      BY <1>0, <1>2, <3>5
    <3>9. r.win \in [Slots -> WinT]
      BY <3>7, GuiFields DEF GuiOK
    <3> QED BY <1>0, <1>1, <3>5, <3>7, <3>8, <3>9, TameChain
  <2>4. CASE i \in Visible(g) /\ r = Ended(a, i) /\ a.win[i].anim = "min"
    <3>1. GuiOK(r) /\ Tame(r, a) /\ r.focus \in {a.focus, None} /\ \A j \in Slots : j # i => r.win[j] = a.win[j]
      BY <1>1, <1>2, <2>4, MinimizedOK
    <3>2. r.win \in [Slots -> WinT]
      BY <3>1, GuiFields DEF GuiOK
    <3> QED BY <1>0, <1>1, <3>1, <3>2, TameChain
  <2>5. CASE i \in Visible(g) /\ r = Gone(a, i)
    <3>1. GuiOK(r) /\ Tame(r, a) /\ r.focus \in {a.focus, None} /\ \A j \in Slots : j # i => r.win[j] = a.win[j]
      BY <1>1, <1>2, <2>5, GoneOK
    <3>2. r.win \in [Slots -> WinT]
      BY <3>1, GuiFields DEF GuiOK
    <3> QED BY <1>0, <1>1, <3>1, <3>2, TameChain
  <2>6. \/ i \notin Visible(g)
        \/ r = a \/ r = [a EXCEPT !.win[i].anim = "none"]
        \/ r = Gone(a, i)
        \/ r = Ended(a, i) /\ a.win[i].anim = "min"
    BY Zenon DEF RenderWindow, Ended, a
  <2> QED BY <2>1, <2>2, <2>3, <2>4, <2>5, <2>6
<1>4. Used(r) = Used(g)
  BY <1>3 DEF Tame, Used
<1>5. \A j \in Used(g) : j # i => (j \in Visible(r) <=> j \in Visible(g))
  BY <1>3, <1>4 DEF Visible, Shown
<1>6. i \in Visible(r) => i \in Visible(g)
  <2>1. CASE i \notin Visible(g)
    BY <2>1 DEF RenderWindow
  <2> QED BY <2>1
<1>7. Visible(r) \subseteq Visible(g)
  BY <1>4, <1>5, <1>6 DEF Visible, Shown
<1> QED BY <1>3, <1>5, <1>7 DEF r

LEMMA TabStepOK ==
  ASSUME NEW g, GuiOK(g), NEW step
  PROVE  GuiOK(TabStep(g, step)) /\ Tame(TabStep(g, step), g)
<1> DEFINE from == IF g.tab THEN g.tabIdx ELSE IF g.focus = None THEN 0 ELSE g.focus
           At(n) == (from + step * n) % g.count
           tries == {n \in 1 .. g.count : At(n) \in Shown(g)}
           to == IF tries = {} THEN from ELSE At(Min(tries))
           h == TabStep(g, step)
<1>0. g \in GuiT /\ Shown(g) \subseteq Slots /\ 0 \in Slots
  BY UsedSlots DEF GuiOK
<1>1. from \in Slots
  BY <1>0 DEF GuiT
<1>2. to \in Slots
  <2>1. CASE tries = {}
    BY <1>1, <2>1
  <2>2. CASE tries # {}
    <3>1. tries \in SUBSET Nat
      OBVIOUS
    <3>2. Min(tries) \in tries
      <4> HIDE DEF tries
      <4> QED BY <3>1, <2>2, MinLeast
    <3>3. At(Min(tries)) \in Shown(g)
      BY <3>2
    <3> HIDE DEF tries, At
    <3> QED BY <1>0, <2>2, <3>3
  <2> QED BY <2>1, <2>2
<1>3. h = [g EXCEPT !.tab = TRUE, !.tabIdx = to]
  BY DEF TabStep
<1> HIDE DEF to, h
<1>4. h \in GuiT /\ h.win = g.win /\ h.count = g.count /\ h.focus = g.focus /\ h.left = g.left
  BY <1>0, <1>2, <1>3 DEF GuiT
<1> QED BY <1>4, FlagsOK DEF h

LEMMA TabSelectOK ==
  ASSUME NEW g, GuiOK(g)
  PROVE  GuiOK(TabSelect(g)) /\ Tame(TabSelect(g), g)
<1> DEFINE h == [g EXCEPT !.tab = FALSE]
<1>1. h \in GuiT /\ h.win = g.win /\ h.count = g.count /\ h.focus = g.focus /\ h.left = g.left
  BY DEF GuiOK, GuiT
<1>2. TabSelect(g) = IF g.tabIdx \in Shown(g) THEN OnlyFocus(h, g.tabIdx) ELSE h
  BY DEF TabSelect
<1> HIDE DEF h
<1>3. GuiOK(h) /\ Tame(h, g) /\ Shown(h) = Shown(g)
  BY <1>1, FlagsOK
<1> QED BY <1>2, <1>3, OnlyFocusOK, TameChain

LEMMA HandleKeyOK ==
  ASSUME NEW g, GuiOK(g), NEW c
  PROVE  GuiOK(HandleKey(g, c)) /\ Tame(HandleKey(g, c), g)
<1> DEFINE h == HandleKey(g, c)
<1>1. CASE g.focus \notin Visible(g)
  BY <1>1 DEF HandleKey, Tame
<1>2. CASE g.focus \in Visible(g)
  <2>0. PICK i \in Used(g) : i = g.focus
    BY <1>2, UsedSlots DEF GuiOK
  <2>1. g \in GuiT /\ i \in Slots /\ g.win[i] \in WinT /\ g.win[i].typed \in {0, 1}
    BY UsedSlots, GuiFields DEF GuiOK, WinT
  <2>2. Max({0, g.win[i].typed - 1}) \in {0, 1} /\ Min({1, g.win[i].typed + 1}) \in {0, 1}
    BY <2>1, MaxOfTwo, MinOfTwo
  <2>3. PICK n \in {0, 1} : n = IF c = "bksp" THEN Max({0, g.win[i].typed - 1}) ELSE Min({1, g.win[i].typed + 1})
    BY <2>2
  <2>4. h = [g EXCEPT !.win[i].typed = n]
    <3>1. CASE c = "bksp"
      <4>1. h = [g EXCEPT !.win[i].typed = Max({0, @ - 1})]
        BY <1>2, <2>0, <3>1 DEF HandleKey
      <4>2. n = Max({0, g.win[i].typed - 1})
        BY <2>3, <3>1
      <4> QED BY <4>1, <4>2
    <3>2. CASE c # "bksp"
      <4>1. h = [g EXCEPT !.win[i].typed = Min({1, @ + 1})]
        BY <1>2, <2>0, <3>2 DEF HandleKey
      <4>2. n = Min({1, g.win[i].typed + 1})
        BY <2>3, <3>2
      <4> QED BY <4>1, <4>2
    <3> QED BY <3>1, <3>2
  <2> HIDE DEF h
  <2>5. PICK w : w = [g.win[i] EXCEPT !.typed = n]
    OBVIOUS
  <2>6. /\ w.shown = g.win[i].shown /\ w.min = g.win[i].min /\ w.drag = g.win[i].drag /\ w.anim = g.win[i].anim
        /\ w.title = g.win[i].title /\ w.term = g.win[i].term /\ w.text = g.win[i].text
    BY <2>1, <2>5 DEF WinT
  <2>7. w \in WinT
    BY <2>1, <2>5 DEF WinT
  <2>8. h = [g EXCEPT !.win = [g.win EXCEPT ![i] = w]]
    BY <2>1, <2>4, <2>5 DEF GuiT
  <2>9. h \in GuiT /\ h.win = [g.win EXCEPT ![i] = w] /\ h.focus = g.focus /\ h.count = g.count /\ h.left = g.left
    BY <2>1, <2>7, <2>8 DEF GuiT
  <2>10. WinOK(w, i = h.focus, h.left)
    <3>1. WinOK(g.win[i], i = g.focus, g.left)
      BY DEF GuiOK
    <3> QED BY <2>6, <2>9, <3>1 DEF WinOK
  <2> QED BY <2>6, <2>7, <2>9, <2>10, OneWindow DEF h
<1> QED BY <1>1, <1>2

(***************************************************************************)
(* A terminal.                                                               *)
(***************************************************************************)
Cells   == {"p", "t", "o"}
Letters == Typing \ {"enter", "bksp"}
TermT == [active : BOOLEAN, win : Slots \cup {None}, rows : Seq(Seq(Cells)), cmd : Seq(Letters),
          dirty : BOOLEAN, ring : [0 .. HistSize - 1 -> Seq(Letters)], count : Nat,
          log : Seq(Seq(Letters))]
Bounds(t) ==
  /\ t \in TermT
  /\ Len(t.rows) <= MaxLines
  /\ \A k \in 1 .. Len(t.rows) : Len(t.rows[k]) <= Cols
  /\ Len(t.cmd) <= CmdMax
\* What writing to the screen leaves alone
SameShell(u, t) ==
  /\ u.active = t.active /\ u.win = t.win /\ u.cmd = t.cmd
  /\ u.ring = t.ring /\ u.count = t.count /\ u.log = t.log
\* A new last row, and the other rows where they were, or one row up.
Lowered(new, old, last) ==
  IF Len(old) < MaxLines
  THEN Len(new) = Len(old) + 1 /\ new[Len(new)] = last /\ \A k \in 1 .. Len(old) : new[k] = old[k]
  ELSE Len(new) = Len(old) /\ new[Len(new)] = last /\ \A k \in 1 .. Len(old) - 1 : new[k] = old[k + 1]
Longer(new, old, c) ==
  /\ Len(new) = Len(old) /\ Len(old) > 0 /\ new[Len(old)] = Append(old[Len(old)], c)
  /\ \A k \in 1 .. Len(old) - 1 : new[k] = old[k]

LEMMA AppendFacts ==
  ASSUME NEW S, NEW s \in Seq(S), NEW e \in S
  PROVE  /\ Append(s, e) \in Seq(S) /\ Len(Append(s, e)) = Len(s) + 1
         /\ Append(s, e)[Len(s) + 1] = e
         /\ \A k \in 1 .. Len(s) : Append(s, e)[k] = s[k]
OBVIOUS

LEMMA TailFacts ==
  ASSUME NEW S, NEW s \in Seq(S), s # <<>>
  PROVE  /\ Tail(s) \in Seq(S) /\ Len(Tail(s)) = Len(s) - 1
         /\ \A k \in 1 .. Len(s) - 1 : Tail(s)[k] = s[k + 1]
OBVIOUS

LEMMA ExceptFacts ==
  ASSUME NEW S, NEW s \in Seq(S), NEW e \in S, NEW n \in 1 .. Len(s)
  PROVE  /\ [s EXCEPT ![n] = e] \in Seq(S) /\ Len([s EXCEPT ![n] = e]) = Len(s)
         /\ \A k \in 1 .. Len(s) : [s EXCEPT ![n] = e][k] = IF k = n THEN e ELSE s[k]
OBVIOUS

LEMMA TermFields ==
  ASSUME NEW t \in TermT
  PROVE  /\ t.rows \in Seq(Seq(Cells)) /\ t.cmd \in Seq(Letters) /\ t.count \in Nat
         /\ t.log \in Seq(Seq(Letters)) /\ t.ring \in [0 .. HistSize - 1 -> Seq(Letters)]
         /\ t.active \in BOOLEAN /\ t.win \in Slots \cup {None} /\ t.dirty \in BOOLEAN
         /\ Len(t.rows) \in Nat /\ Len(t.cmd) \in Nat
         /\ \A k \in 1 .. Len(t.rows) : t.rows[k] \in Seq(Cells) /\ Len(t.rows[k]) \in Nat
BY DEF TermT

LEMMA Sizes ==
  /\ MaxLines \in Nat /\ MaxLines >= 1 /\ Cols \in Nat /\ Cols >= 1 /\ HistSize \in Nat /\ HistSize >= 1
  /\ CmdMax \in Nat
BY TermAssumption

\* The screen is written, and nothing else.
LEMMA RowsSet ==
  ASSUME NEW t, Bounds(t), NEW rows \in Seq(Seq(Cells)), Len(rows) <= MaxLines,
         \A k \in 1 .. Len(rows) : Len(rows[k]) <= Cols,
         NEW u, u = [t EXCEPT !.rows = rows, !.dirty = TRUE]
  PROVE  Bounds(u) /\ SameShell(u, t) /\ u.rows = rows
<1>1. u \in TermT /\ u.rows = rows /\ u.cmd = t.cmd
  BY DEF Bounds, TermT
<1>2. SameShell(u, t)
  BY DEF Bounds, TermT, SameShell
<1> QED BY <1>1, <1>2 DEF Bounds

LEMMA NewLineRows ==
  ASSUME NEW t, Bounds(t)
  PROVE  /\ Bounds(NewLine(t)) /\ SameShell(NewLine(t), t)
         /\ Lowered(NewLine(t).rows, t.rows, <<>>)
<1> DEFINE kept == IF Len(t.rows) < MaxLines THEN t.rows ELSE Tail(t.rows)
           new == Append(kept, <<>>)
<1>0. t.rows \in Seq(Seq(Cells)) /\ Len(t.rows) \in Nat /\ MaxLines \in Nat /\ MaxLines >= 1 /\ Cols \in Nat
        /\ Len(t.rows) <= MaxLines /\ <<>> \in Seq(Cells) /\ Len(<<>>) = 0
  BY TermFields, Sizes DEF Bounds
<1>1. /\ new \in Seq(Seq(Cells)) /\ Lowered(new, t.rows, <<>>) /\ Len(new) <= MaxLines
      /\ \A k \in 1 .. Len(new) : Len(new[k]) <= Cols
  <2>1. CASE Len(t.rows) < MaxLines
    <3>1. new = Append(t.rows, <<>>)
      BY <2>1
    <3>2. new \in Seq(Seq(Cells)) /\ Len(new) = Len(t.rows) + 1 /\ new[Len(new)] = <<>>
            /\ \A k \in 1 .. Len(t.rows) : new[k] = t.rows[k]
      BY <1>0, <3>1
    <3> HIDE DEF new
    <3>3. \A k \in 1 .. Len(new) : Len(new[k]) <= Cols
      <4>1. ASSUME NEW k \in 1 .. Len(new) PROVE Len(new[k]) <= Cols
        <5>1. CASE k = Len(new)
          BY <1>0, <3>2, <5>1
        <5>2. CASE k # Len(new)
          <6>1. k \in 1 .. Len(t.rows)
            BY <1>0, <3>2, <5>2
          <6> QED BY <3>2, <6>1 DEF Bounds
        <5> QED BY <5>1, <5>2
      <4> QED BY <4>1
    <3> QED BY <1>0, <2>1, <3>2, <3>3 DEF Lowered
  <2>2. CASE ~(Len(t.rows) < MaxLines)
    <3>1. new = Append(Tail(t.rows), <<>>) /\ t.rows # <<>> /\ Len(t.rows) = MaxLines
      BY <1>0, <2>2
    <3>2. /\ Tail(t.rows) \in Seq(Seq(Cells)) /\ Len(Tail(t.rows)) = Len(t.rows) - 1
          /\ \A k \in 1 .. Len(t.rows) - 1 : Tail(t.rows)[k] = t.rows[k + 1]
      BY <1>0, <3>1
    <3>3. new \in Seq(Seq(Cells)) /\ Len(new) = Len(t.rows) /\ new[Len(new)] = <<>>
            /\ \A k \in 1 .. Len(t.rows) - 1 : new[k] = t.rows[k + 1]
      BY <1>0, <3>1, <3>2
    <3> HIDE DEF new
    <3>4. \A k \in 1 .. Len(new) : Len(new[k]) <= Cols
      <4>1. ASSUME NEW k \in 1 .. Len(new) PROVE Len(new[k]) <= Cols
        <5>1. CASE k = Len(new)
          BY <1>0, <3>3, <5>1
        <5>2. CASE k # Len(new)
          <6>1. k \in 1 .. Len(t.rows) - 1 /\ k + 1 \in 1 .. Len(t.rows)
            BY <1>0, <3>3, <5>2
          <6> QED BY <3>3, <6>1 DEF Bounds
        <5> QED BY <5>1, <5>2
      <4> QED BY <4>1
    <3> QED BY <1>0, <2>2, <3>1, <3>3, <3>4 DEF Lowered
  <2> QED BY <2>1, <2>2
<1>2. NewLine(t) = [t EXCEPT !.rows = new, !.dirty = TRUE]
  BY DEF NewLine
<1> HIDE DEF new
<1> QED BY <1>1, <1>2, RowsSet

LEMMA PutcRows ==
  ASSUME NEW t, Bounds(t), NEW c \in Cells
  PROVE  /\ Bounds(Putc(t, c)) /\ SameShell(Putc(t, c), t)
         /\ Len(Putc(t, c).rows) > 0
         /\ IF t.rows = <<>> \/ Len(t.rows[Len(t.rows)]) >= Cols
            THEN Lowered(Putc(t, c).rows, t.rows, <<c>>)
            ELSE Longer(Putc(t, c).rows, t.rows, c)
<1> DEFINE full == t.rows = <<>> \/ Len(t.rows[Len(t.rows)]) >= Cols
<1>0. t.rows \in Seq(Seq(Cells)) /\ Len(t.rows) \in Nat /\ MaxLines \in Nat /\ MaxLines >= 1
        /\ Cols \in Nat /\ Cols >= 1 /\ c # "\n"
  BY TermFields, Sizes DEF Bounds, Cells
<1>1. PICK u : u = IF full THEN NewLine(t) ELSE t
  OBVIOUS
<1>2. Putc(t, c) = [u EXCEPT !.rows[Len(u.rows)] = Append(@, c), !.dirty = TRUE]
  BY <1>0, <1>1 DEF Putc, Last
<1>3. /\ Bounds(u) /\ SameShell(u, t) /\ Len(u.rows) > 0
      /\ full => Lowered(u.rows, t.rows, <<>>)
      /\ ~full => u = t
  <2>1. CASE full
    <3>1. u = NewLine(t)
      BY <1>1, <2>1
    <3>2. Bounds(u) /\ SameShell(u, t) /\ Lowered(u.rows, t.rows, <<>>)
      BY <3>1, NewLineRows
    <3> HIDE DEF full
    <3> QED BY <1>0, <2>1, <3>2 DEF Lowered
  <2>2. CASE ~full
    <3>1. u = t /\ t.rows # <<>>
      BY <1>1, <2>2
    <3> HIDE DEF full
    <3> QED BY <1>0, <2>2, <3>1 DEF SameShell
  <2> QED BY <2>1, <2>2
<1>4. PICK L \in Nat : L = Len(u.rows) /\ L > 0 /\ L <= MaxLines
  BY <1>0, <1>3, TermFields DEF Bounds
<1>5. u.rows \in Seq(Seq(Cells)) /\ u.rows[L] \in Seq(Cells) /\ Len(u.rows[L]) \in Nat
  BY <1>3, <1>4, TermFields DEF Bounds
<1>6. Len(u.rows[L]) < Cols
  <2>1. CASE full
    <3>1. u.rows[L] = <<>>
      BY <1>3, <1>4, <2>1 DEF Lowered
    <3> QED BY <1>0, <3>1
  <2>2. CASE ~full
    <3>1. u = t
      BY <1>3, <2>2
    <3> QED BY <1>0, <1>4, <1>5, <2>2, <3>1
  <2> QED BY <2>1, <2>2
<1>7. PICK row \in Seq(Cells) : row = Append(u.rows[L], c) /\ Len(row) = Len(u.rows[L]) + 1
  <2>1. PICK s \in Seq(Cells) : s = u.rows[L]
    BY <1>5
  <2>2. Append(s, c) \in Seq(Cells) /\ Len(Append(s, c)) = Len(s) + 1
    BY AppendFacts
  <2> QED BY <2>1, <2>2
<1>8. Len(row) <= Cols
  BY <1>0, <1>5, <1>6, <1>7
<1>9. PICK rows \in Seq(Seq(Cells)) :
        /\ rows = [u.rows EXCEPT ![L] = row] /\ Len(rows) = Len(u.rows)
        /\ \A k \in 1 .. Len(u.rows) : rows[k] = IF k = L THEN row ELSE u.rows[k]
  <2>1. L \in 1 .. Len(u.rows)
    BY <1>4
  <2>a. PICK S : S = Seq(Cells)
    OBVIOUS
  <2>2. PICK old \in Seq(S) : old = u.rows
    BY <1>5, <2>a
  <2>3. row \in S /\ L \in 1 .. Len(old)
    BY <1>7, <2>1, <2>2, <2>a
  <2>4. /\ [old EXCEPT ![L] = row] \in Seq(S) /\ Len([old EXCEPT ![L] = row]) = Len(old)
        /\ \A k \in 1 .. Len(old) : [old EXCEPT ![L] = row][k] = IF k = L THEN row ELSE old[k]
    BY <2>3, ExceptFacts
  <2> QED BY <2>a, <2>2, <2>4
<1>10. Len(rows) = L /\ rows[L] = row /\ \A k \in 1 .. L - 1 : rows[k] = u.rows[k]
  BY <1>4, <1>9
<1>11. \A k \in 1 .. Len(rows) : Len(rows[k]) <= Cols
  BY <1>3, <1>4, <1>8, <1>9 DEF Bounds
<1>12. Putc(t, c) = [u EXCEPT !.rows = rows, !.dirty = TRUE]
  BY <1>2, <1>3, <1>4, <1>7, <1>9 DEF Bounds, TermT
<1>13. Bounds(Putc(t, c)) /\ SameShell(Putc(t, c), u) /\ Putc(t, c).rows = rows
  <2>1. Len(rows) <= MaxLines
    BY <1>4, <1>10
  <2> QED BY <1>3, <1>11, <1>12, <2>1, RowsSet
<1>14. SameShell(Putc(t, c), t)
  BY <1>3, <1>13 DEF SameShell
<1>15. CASE full
  <2>1. u.rows[L] = <<>>
    BY <1>3, <1>4, <1>15 DEF Lowered
  <2>2. row = <<c>>
    BY <1>7, <2>1
  <2>3. Lowered(rows, t.rows, <<c>>)
    BY <1>0, <1>3, <1>4, <1>10, <1>15, <2>2 DEF Lowered
  <2> QED BY <1>4, <1>10, <1>13, <1>14, <1>15, <2>3
<1>16. CASE ~full
  <2>1. Longer(rows, t.rows, c)
    BY <1>3, <1>4, <1>7, <1>10, <1>16 DEF Longer
  <2> QED BY <1>4, <1>10, <1>13, <1>14, <1>16, <2>1
<1> QED BY <1>15, <1>16

LEMMA PutcKeeps ==
  ASSUME NEW t, Bounds(t), NEW c \in Cells \cup {"\n"}
  PROVE  Bounds(Putc(t, c)) /\ SameShell(Putc(t, c), t)
<1>1. CASE c = "\n"
  BY <1>1, NewLineRows DEF Putc
<1>2. CASE c # "\n"
  BY <1>2, PutcRows
<1> QED BY <1>1, <1>2

Chars == Cells \cup {"\n"}

\* By induction over what is written.
LEMMA PutsKeeps ==
  ASSUME NEW t, Bounds(t), NEW s, NEW n \in Nat, DOMAIN s = 1 .. n, \A k \in 1 .. n : s[k] \in Chars
  PROVE  Bounds(Puts(t, s)) /\ SameShell(Puts(t, s), t)
<1>1. PICK f : /\ f[0] = t
               /\ \A k \in 1 .. n : f[k] = Putc(f[k-1], s[k])
               /\ Puts(t, s) = f[n]
  BY PutsSteps
<1> DEFINE Good(k) == Bounds(f[k]) /\ SameShell(f[k], t)
           Bad == {k \in 0 .. n : ~Good(k)}
<1>2. Bad = {}
  <2> SUFFICES ASSUME Bad # {} PROVE FALSE
    OBVIOUS
  <2>1. PICK m \in Bad : \A b \in Bad : m <= b
    <3>1. Bad \in SUBSET Nat
      OBVIOUS
    <3> HIDE DEF Bad
    <3> QED BY <3>1, LeastNatural
  <2>2. m # 0
    <3>1. Good(0)
      BY <1>1 DEF SameShell
    <3> QED BY <2>1, <3>1
  <2>3. m \in 1 .. n /\ m - 1 \in 0 .. n /\ ~(m <= m - 1)
    BY <2>1, <2>2
  <2>4. Good(m - 1)
    <3> HIDE DEF Good
    <3> QED BY <2>1, <2>3
  <2>5. f[m] = Putc(f[m-1], s[m]) /\ s[m] \in Cells \cup {"\n"}
    BY <1>1, <2>3 DEF Chars
  <2>6. Bounds(f[m]) /\ SameShell(f[m], f[m-1])
    BY <2>4, <2>5, PutcKeeps
  <2>7. Good(m)
    BY <2>4, <2>6 DEF SameShell
  <2> QED BY <2>1, <2>7
<1>3. n \in 0 .. n
  OBVIOUS
<1>4. Good(n)
  <2> HIDE DEF Good
  <2> QED BY <1>2, <1>3
<1> QED BY <1>1, <1>4

LEMMA LineChars == DOMAIN Line = 1 .. 2 /\ \A k \in 1 .. 2 : Line[k] \in Chars
BY DEF Line, Chars, Cells

LEMMA PutLinesKeeps ==
  ASSUME NEW t, Bounds(t), NEW n \in Nat
  PROVE  Bounds(PutLines(t, n)) /\ SameShell(PutLines(t, n), t)
<1>1. PICK f : /\ f[0] = t
               /\ \A k \in 1 .. n : f[k] = Puts(f[k-1], Line)
               /\ PutLines(t, n) = f[n]
  BY LinesSteps
<1> DEFINE Good(k) == Bounds(f[k]) /\ SameShell(f[k], t)
           Bad == {k \in 0 .. n : ~Good(k)}
<1>2. Bad = {}
  <2> SUFFICES ASSUME Bad # {} PROVE FALSE
    OBVIOUS
  <2>1. PICK m \in Bad : \A b \in Bad : m <= b
    <3>1. Bad \in SUBSET Nat
      OBVIOUS
    <3> HIDE DEF Bad
    <3> QED BY <3>1, LeastNatural
  <2>2. m # 0
    <3>1. Good(0)
      BY <1>1 DEF SameShell
    <3> QED BY <2>1, <3>1
  <2>3. m \in 1 .. n /\ m - 1 \in 0 .. n /\ ~(m <= m - 1)
    BY <2>1, <2>2
  <2>4. Good(m - 1)
    <3> HIDE DEF Good
    <3> QED BY <2>1, <2>3
  <2>5. f[m] = Puts(f[m-1], Line)
    BY <1>1, <2>3
  <2>6. Bounds(f[m]) /\ SameShell(f[m], f[m-1])
    <3>1. 2 \in Nat
      OBVIOUS
    <3> QED BY <2>4, <2>5, <3>1, PutsKeeps, LineChars
  <2>7. Good(m)
    BY <2>4, <2>6 DEF SameShell
  <2> QED BY <2>1, <2>7
<1>3. n \in 0 .. n
  OBVIOUS
<1>4. Good(n)
  <2> HIDE DEF Good
  <2> QED BY <1>2, <1>3
<1> QED BY <1>1, <1>4

(***************************************************************************)
(* The history: a ring that holds the last commands.                         *)
(***************************************************************************)
Holds(ring, count, log, size) ==
  /\ Len(log) = IF count < size THEN count ELSE size
  /\ \A i \in 1 .. Len(log) : log[i] = ring[(count - Len(log) + i - 1) % size]
History(t) == Holds(t.ring, t.count, t.log, HistSize)

LEMMA ModRange ==
  ASSUME NEW a \in Nat, NEW h \in Nat, h >= 1
  PROVE  a % h \in 0 .. h - 1 /\ (a < h => a % h = a)
OBVIOUS

LEMMA ModApart ==
  ASSUME NEW a \in Nat, NEW b \in Nat, NEW h \in Nat, h >= 1, a < b, b - a < h
  PROVE  a % h # b % h
<1> SUFFICES ASSUME a % h = b % h PROVE FALSE
  OBVIOUS
<1>1. PICK r \in 0 .. h - 1 : r = a % h /\ r = b % h
  BY ModRange
<1>2. PICK q \in Int : a = (h * q) + r
  <2>1. a = (h * (a \div h)) + r /\ a \div h \in Int
    BY <1>1
  <2> QED BY <2>1
<1>3. PICK p \in Int : b = (h * p) + r
  <2>1. b = (h * (b \div h)) + r /\ b \div h \in Int
    BY <1>1
  <2> QED BY <2>1
<1>4. PICK d \in Int : d = p - q
  OBVIOUS
<1>5. b - a = h * d
  BY <1>1, <1>2, <1>3, <1>4
<1>6. CASE d >= 1
  <2>1. h * d >= h
    BY <1>6
  <2> QED BY <1>5, <2>1
<1>7. CASE d <= 0
  <2>1. h * d <= 0
    BY <1>7
  <2> QED BY <1>5, <2>1
<1> QED BY <1>4, <1>6, <1>7

LEMMA ListedIsLog ==
  ASSUME NEW t, Bounds(t), History(t)
  PROVE  Listed(t) = t.log
<1> DEFINE n == IF t.count > HistSize THEN HistSize ELSE t.count
<1>0. t.count \in Nat /\ t.log \in Seq(Seq(Letters)) /\ HistSize \in Nat
  BY TermFields, Sizes DEF Bounds
<1>1. n = Len(t.log)
  BY <1>0 DEF History, Holds
<1>2. Listed(t) = [i \in 1 .. n |-> t.ring[(t.count - n + i - 1) % HistSize]]
  BY DEF Listed
<1> HIDE DEF n
<1>3. Listed(t) = [i \in 1 .. Len(t.log) |-> t.ring[(t.count - Len(t.log) + i - 1) % HistSize]]
  BY <1>1, <1>2
<1>4. t.log = [i \in 1 .. Len(t.log) |-> t.log[i]]
  BY <1>0
<1> QED BY <1>3, <1>4 DEF History, Holds

\* What is pushed takes the place of what is listed no more.
Keeps(ring, c, log, H, S) ==
  /\ log \in Seq(S) /\ c \in Nat /\ ring \in [0 .. H - 1 -> S] /\ Holds(ring, c, log, H)
Logged(log, e, H) == Append(IF Len(log) < H THEN log ELSE Tail(log), e)
Put(ring, c, e, H) == [ring EXCEPT ![c % H] = e]

LEMMA RingPush ==
  ASSUME NEW S, NEW H, H \in Nat \ {0}, NEW log, NEW c, NEW ring, Keeps(ring, c, log, H, S), NEW e \in S
  PROVE  Keeps(Put(ring, c, e, H), c + 1, Logged(log, e, H), H, S)
<1> H \in Nat /\ H >= 1 /\ log \in Seq(S) /\ c \in Nat /\ c + 1 \in Nat
    /\ ring \in [0 .. H - 1 -> S] /\ Holds(ring, c, log, H)
  BY DEF Keeps
<1> SUFFICES ASSUME NEW new, new = Logged(log, e, H), NEW next, next = Put(ring, c, e, H)
             PROVE  new \in Seq(S) /\ next \in [0 .. H - 1 -> S] /\ Holds(next, c + 1, new, H)
  BY DEF Keeps
<1> new = Append(IF Len(log) < H THEN log ELSE Tail(log), e) /\ next = [ring EXCEPT ![c % H] = e]
  BY DEF Logged, Put
<1>0. /\ Len(log) = IF c < H THEN c ELSE H
      /\ \A i \in 1 .. Len(log) : log[i] = ring[(c - Len(log) + i - 1) % H]
  BY DEF Holds
<1>1. PICK at \in 0 .. H - 1 : at = c % H
  BY ModRange
<1>2. next \in [0 .. H - 1 -> S] /\ \A k \in 0 .. H - 1 : next[k] = IF k = at THEN e ELSE ring[k]
  BY <1>1
<1>5. CASE c < H
  <2>1. new = Append(log, e) /\ Len(log) = c
    BY <1>0, <1>5
  <2>2. /\ new \in Seq(S) /\ Len(new) = c + 1 /\ new[c + 1] = e
        /\ \A k \in 1 .. c : new[k] = log[k]
    BY <2>1, AppendFacts
  <2>3. at = c
    BY <1>1, <1>5, ModRange
  <2>b. Len(new) = c + 1
    BY <2>2
  <2>4. ASSUME NEW i \in 1 .. Len(new) PROVE new[i] = next[((c + 1) - Len(new) + i - 1) % H]
    <3>1. i \in 1 .. c + 1
      BY <2>2
    <3>a. i \in Nat /\ i >= 1 /\ i <= c + 1
      BY ONLY <3>1, c \in Nat
    <3>2. i - 1 \in 0 .. H - 1 /\ (c + 1) - Len(new) + i - 1 = i - 1 /\ i - 1 \in Nat /\ i - 1 < H
      BY ONLY <1>5, <2>b, <3>a, c \in Nat, H \in Nat
    <3>3. (i - 1) % H = i - 1
      BY ONLY <3>2, ModRange, H \in Nat, H >= 1
    <3>4. CASE i = c + 1
      BY ONLY <1>1, <1>2, <2>2, <2>3, <3>2, <3>3, <3>4
    <3>5. CASE i # c + 1
      <4>1. i \in 1 .. c /\ i \in 1 .. Len(log) /\ c - Len(log) + i - 1 = i - 1
        BY <2>1, <3>1, <3>5
      <4>2. log[i] = ring[i - 1]
        BY <1>0, <3>3, <4>1
      <4>3. i - 1 # at
        BY <2>3, <4>1
      <4> QED BY <1>2, <2>2, <3>2, <3>3, <4>1, <4>2, <4>3
    <3> QED BY <3>4, <3>5
  <2>5. Len(new) = IF c + 1 < H THEN c + 1 ELSE H
    BY ONLY <1>5, <2>b, c \in Nat, H \in Nat
  <2>6. Holds(next, c + 1, new, H)
    <3>1. \A i \in 1 .. Len(new) : new[i] = next[((c + 1) - Len(new) + i - 1) % H]
      BY <2>4
    <3> QED BY ONLY <2>5, <3>1, Zenon DEF Holds
  <2> QED BY ONLY <1>2, <2>2, <2>6
<1>6. CASE ~(c < H)
  <2>1. new = Append(Tail(log), e) /\ Len(log) = H /\ c >= H /\ log # <<>>
    BY <1>0, <1>6
  <2>a. PICK tl \in Seq(S) : /\ tl = Tail(log) /\ Len(tl) = H - 1
                             /\ \A k \in 1 .. H - 1 : tl[k] = log[k + 1]
    <3>1. /\ Tail(log) \in Seq(S) /\ Len(Tail(log)) = Len(log) - 1
          /\ \A k \in 1 .. Len(log) - 1 : Tail(log)[k] = log[k + 1]
      BY <2>1, TailFacts
    <3> QED BY <2>1, <3>1
  <2>2. /\ new \in Seq(S) /\ Len(new) = H /\ new[H] = e
        /\ \A k \in 1 .. H - 1 : new[k] = log[k + 1]
    BY <2>1, <2>a, AppendFacts
  <2>4. ASSUME NEW i \in 1 .. Len(new) PROVE new[i] = next[((c + 1) - Len(new) + i - 1) % H]
    <3>0. i \in 1 .. H
      BY <2>2
    <3>1. PICK n \in Nat : n = c - H + i
      BY <2>1, <3>0
    <3>2. (c + 1) - Len(new) + i - 1 = n
      <4>1. Len(new) = H /\ i \in Nat
        BY <2>2, <3>0
      <4> QED BY ONLY <3>1, <4>1, c \in Nat, H \in Nat
    <3>4. CASE i = H
      <4>1. n = c
        BY <3>1, <3>4
      <4> QED BY <1>1, <1>2, <2>2, <3>2, <3>4, <4>1
    <3>5. CASE i # H
      <4>1. i \in 1 .. H - 1 /\ i + 1 \in 1 .. Len(log) /\ c - Len(log) + (i + 1) - 1 = n
        BY <2>1, <3>0, <3>1, <3>5
      <4>2. log[i + 1] = ring[n % H]
        BY <1>0, <4>1
      <4>3. n < c /\ c - n < H
        BY <3>1, <4>1
      <4>4. n % H # c % H /\ n % H \in 0 .. H - 1
        BY ONLY <4>3, ModApart, ModRange, n \in Nat, c \in Nat, H \in Nat, H >= 1
      <4> QED BY <1>1, <1>2, <2>2, <3>2, <4>1, <4>2, <4>4
    <3> QED BY <3>4, <3>5
  <2>5. Len(new) = IF c + 1 < H THEN c + 1 ELSE H
    BY <1>6, <2>2
  <2>6. Holds(next, c + 1, new, H)
    <3>1. \A i \in 1 .. Len(new) : new[i] = next[((c + 1) - Len(new) + i - 1) % H]
      BY <2>4
    <3> QED BY ONLY <2>5, <3>1, Zenon DEF Holds
  <2> QED BY ONLY <1>2, <2>2, <2>6
<1> QED BY <1>5, <1>6

LEMMA PushedOK ==
  ASSUME NEW t, Bounds(t), History(t)
  PROVE  /\ Bounds(Pushed(t)) /\ History(Pushed(t)) /\ Pushed(t).rows = t.rows
         /\ Pushed(t).active = t.active /\ Pushed(t).win = t.win /\ Pushed(t).cmd = t.cmd
<1>0. /\ t \in TermT /\ t.count \in Nat /\ t.log \in Seq(Seq(Letters)) /\ HistSize \in Nat /\ HistSize >= 1
      /\ t.cmd \in Seq(Letters) /\ t.ring \in [0 .. HistSize - 1 -> Seq(Letters)]
  BY TermFields, Sizes DEF Bounds
<1>1. PICK S : S = Seq(Letters)
  OBVIOUS
<1>2. PICK log, c, ring, e : log = t.log /\ c = t.count /\ ring = t.ring /\ e = t.cmd
  OBVIOUS
<1>3. PICK new, next : /\ new = Append(IF Len(log) < HistSize THEN log ELSE Tail(log), e)
                       /\ next = [ring EXCEPT ![c % HistSize] = e]
  OBVIOUS
<1>4. /\ log \in Seq(S) /\ c \in Nat /\ ring \in [0 .. HistSize - 1 -> S] /\ e \in S
      /\ Holds(ring, c, log, HistSize)
  BY <1>0, <1>1, <1>2 DEF History
<1>5. new \in Seq(S) /\ next \in [0 .. HistSize - 1 -> S] /\ Holds(next, c + 1, new, HistSize)
  <2>1. Keeps(ring, c, log, HistSize, S) /\ e \in S
    BY <1>4 DEF Keeps
  <2>2. HistSize \in Nat \ {0}
    BY <1>0
  <2>3. Keeps(Put(ring, c, e, HistSize), c + 1, Logged(log, e, HistSize), HistSize, S)
    BY ONLY <2>1, <2>2, RingPush
  <2>4. new = Logged(log, e, HistSize) /\ next = Put(ring, c, e, HistSize)
    BY <1>3 DEF Logged, Put
  <2> QED BY <2>3, <2>4 DEF Keeps
<1>6. Pushed(t) = [t EXCEPT !.ring = next, !.count = c + 1, !.log = new]
  BY <1>0, <1>2, <1>3 DEF Pushed, TermT
<1>7. c + 1 \in Nat
  BY <1>4
<1>8. /\ Pushed(t) \in TermT /\ Pushed(t).rows = t.rows /\ Pushed(t).cmd = t.cmd
      /\ Pushed(t).active = t.active /\ Pushed(t).win = t.win
      /\ Pushed(t).ring = next /\ Pushed(t).count = c + 1 /\ Pushed(t).log = new
  BY <1>0, <1>1, <1>5, <1>6, <1>7 DEF TermT
<1>9. Bounds(Pushed(t))
  <2>1. Len(t.rows) <= MaxLines /\ (\A k \in 1 .. Len(t.rows) : Len(t.rows[k]) <= Cols) /\ Len(t.cmd) <= CmdMax
    BY DEF Bounds
  <2> QED BY <1>8, <2>1 DEF Bounds
<1> QED BY <1>5, <1>8, <1>9 DEF History


(***************************************************************************)
(* The prompt on the screen.                                                 *)
(***************************************************************************)
Rows(rows) ==
  /\ rows \in Seq(Seq(Cells)) /\ Len(rows) <= MaxLines
  /\ \A k \in 1 .. Len(rows) : Len(rows[k]) <= Cols
At(rows, r, c, m) ==
  LET n == Len(rows) IN
  /\ n > 0 /\ r <= n
  /\ IF r = 0 THEN n = MaxLines /\ c = Cols ELSE c <= Len(rows[r]) /\ rows[r][c] = "p"
  /\ \A k \in 1 .. n : \A j \in 1 .. Len(rows[k]) : k > r \/ (k = r /\ j > c) => rows[k][j] = "t"
  /\ \A k \in 1 .. n - 1 : k >= r => Len(rows[k]) = Cols
  /\ (n - r) * Cols + Len(rows[n]) - c >= m
OnScreen(rows, m) == \E r \in 0 .. MaxLines, c \in 1 .. Cols : At(rows, r, c, m)
Screen(t) == OnScreen(t.rows, Len(t.cmd))

LEMMA PromptIsAt ==
  ASSUME NEW t, NEW r, NEW c
  PROVE  PromptAt(t, r, c) <=> At(t.rows, r, c, Len(t.cmd))
BY DEF PromptAt, At

LEMMA RowsFacts ==
  ASSUME NEW rows, Rows(rows)
  PROVE  /\ Len(rows) \in Nat
         /\ \A k \in 1 .. Len(rows) : rows[k] \in Seq(Cells) /\ Len(rows[k]) \in Nat /\ Len(rows[k]) <= Cols
BY DEF Rows

LEMMA MoreRows ==
  ASSUME NEW n \in Nat, NEW r \in Nat, r <= n
  PROVE  /\ (n + 1 - r) * Cols = (n - r) * Cols + Cols
         /\ (n - r) * Cols \in Nat
<1>1. Cols \in Nat
  BY Sizes
<1>2. PICK x \in Nat : x = n - r
  OBVIOUS
<1>3. (x + 1) * Cols = x * Cols + Cols /\ x * Cols \in Nat
  BY <1>1
<1>4. n + 1 - r = x + 1
  BY <1>2
<1> QED BY <1>2, <1>3, <1>4

\* A cell more in the last row.
LEMMA LongerScreen ==
  ASSUME NEW old, NEW new, Rows(old), Rows(new), NEW m \in Nat, OnScreen(old, m),
         Longer(new, old, "t")
  PROVE  OnScreen(new, m + 1)
<1>1. PICK r \in 0 .. MaxLines, c \in 1 .. Cols : At(old, r, c, m)
  BY DEF OnScreen
<1>2. PICK n \in Nat : n = Len(old) /\ n = Len(new) /\ n > 0 /\ r <= n
  BY <1>1, RowsFacts DEF At, Longer
<1>r. r \in Nat
  BY Sizes
<1>3. PICK l \in Nat : l = Len(old[n]) /\ old[n] \in Seq(Cells) /\ l <= Cols
  <2>1. n \in 1 .. Len(old)
    BY <1>2
  <2> QED BY <2>1, RowsFacts
<1>4. /\ Len(new[n]) = l + 1 /\ new[n][l + 1] = "t"
      /\ \A j \in 1 .. l : new[n][j] = old[n][j]
      /\ \A k \in 1 .. n - 1 : new[k] = old[k]
  <2>1. new[n] = Append(old[n], "t") /\ "t" \in Cells
    BY <1>2 DEF Longer, Cells
  <2> QED BY <1>2, <1>3, <2>1, AppendFacts DEF Longer
<1>5. /\ IF r = 0 THEN n = MaxLines /\ c = Cols ELSE c <= Len(old[r]) /\ old[r][c] = "p"
      /\ \A k \in 1 .. n : \A j \in 1 .. Len(old[k]) : k > r \/ (k = r /\ j > c) => old[k][j] = "t"
      /\ \A k \in 1 .. n - 1 : k >= r => Len(old[k]) = Cols
      /\ (n - r) * Cols + l - c >= m
  BY <1>1, <1>2, <1>3 DEF At
<1>6. IF r = 0 THEN n = MaxLines /\ c = Cols ELSE c <= Len(new[r]) /\ new[r][c] = "p"
  <2>1. CASE r = n
    BY <1>2, <1>3, <1>4, <1>5, <2>1
  <2>2. CASE r # n
    <3>1. n \in Nat /\ r \in Nat /\ r <= n
      BY <1>2, <1>r
    <3>2. r = 0 \/ r \in 1 .. n - 1
      BY ONLY <3>1, <2>2
    <3>3. CASE r = 0
      BY <1>5, <3>3
    <3>4. CASE r \in 1 .. n - 1
      <4>1. new[r] = old[r] /\ r # 0
        BY <1>4, <3>4
      <4> QED BY <1>5, <4>1
    <3> QED BY <3>2, <3>3, <3>4
  <2> QED BY <2>1, <2>2
<1>7. ASSUME NEW k \in 1 .. n, NEW j \in 1 .. Len(new[k]), k > r \/ (k = r /\ j > c)
      PROVE  new[k][j] = "t"
  <2>1. CASE k # n
    <3>1. new[k] = old[k]
      BY <1>4, <2>1
    <3> QED BY <1>5, <1>7, <3>1
  <2>2. CASE k = n
    <3>1. j \in 1 .. l + 1
      BY <1>4, <2>2
    <3>2. CASE j = l + 1
      BY <1>4, <2>2, <3>2
    <3>3. CASE j # l + 1
      <4>1. j \in 1 .. l /\ j \in 1 .. Len(old[n])
        BY <1>3, <3>1, <3>3
      <4> QED BY <1>4, <1>5, <1>7, <2>2, <4>1
    <3> QED BY <3>2, <3>3
  <2> QED BY <2>1, <2>2
<1>8. \A k \in 1 .. n - 1 : k >= r => Len(new[k]) = Cols
  BY <1>4, <1>5
<1>9. (n - r) * Cols + Len(new[n]) - c >= m + 1
  <2>1. PICK a \in Nat : a = (n - r) * Cols
    BY <1>r, <1>2, MoreRows
  <2>2. a + l - c >= m
    BY <1>5, <2>1
  <2>3. a + Len(new[n]) - c >= m + 1
    BY <1>4, <2>2
  <2> QED BY <2>1, <2>3
<1>10. At(new, r, c, m + 1)
  BY <1>2, <1>6, <1>7, <1>8, <1>9 DEF At
<1> QED BY <1>10 DEF OnScreen

\* A new row, with the first cell of it, when the last is full.
LEMMA LoweredScreen ==
  ASSUME NEW old, NEW new, Rows(old), Rows(new), NEW m \in Nat, OnScreen(old, m), m < CmdMax,
         Len(old[Len(old)]) >= Cols, Lowered(new, old, <<"t">>)
  PROVE  OnScreen(new, m + 1)
<1>0. /\ MaxLines \in Nat /\ MaxLines >= 1 /\ Cols \in Nat /\ Cols >= 1 /\ CmdMax \in Nat
      /\ CmdMax <= (MaxLines - 1) * Cols
  BY TermAssumption
<1>1. PICK r \in 0 .. MaxLines, c \in 1 .. Cols : At(old, r, c, m)
  BY DEF OnScreen
<1>2. PICK n \in Nat : n = Len(old) /\ n > 0 /\ r <= n /\ n <= MaxLines
  BY <1>1, RowsFacts DEF At, Rows
<1>r. r \in Nat
  BY <1>0
<1>3. Len(old[n]) = Cols /\ \A k \in 1 .. n : Len(old[k]) \in Nat
  BY <1>0, <1>2, RowsFacts
<1>4. Len(<<"t">>) = 1 /\ \A j \in 1 .. 1 : <<"t">>[j] = "t"
  OBVIOUS
<1>5. /\ IF r = 0 THEN n = MaxLines /\ c = Cols ELSE c <= Len(old[r]) /\ old[r][c] = "p"
      /\ \A k \in 1 .. n : \A j \in 1 .. Len(old[k]) : k > r \/ (k = r /\ j > c) => old[k][j] = "t"
      /\ \A k \in 1 .. n - 1 : k >= r => Len(old[k]) = Cols
      /\ (n - r) * Cols + Cols - c >= m
  BY <1>1, <1>2, <1>3 DEF At
<1>6. \A k \in 1 .. n : k >= r => Len(old[k]) = Cols
  BY <1>3, <1>5
<1>7. CASE n < MaxLines
  <2>1. Len(new) = n + 1 /\ new[n + 1] = <<"t">> /\ \A k \in 1 .. n : new[k] = old[k]
    BY <1>2, <1>7 DEF Lowered
  <2>2. r \in 1 .. n /\ c <= Len(new[r]) /\ new[r][c] = "p"
    BY <1>2, <1>5, <1>7, <2>1
  <2>3. ASSUME NEW k \in 1 .. n + 1, NEW j \in 1 .. Len(new[k]), k > r \/ (k = r /\ j > c)
        PROVE  new[k][j] = "t"
    <3>1. CASE k = n + 1
      BY <1>4, <2>1, <3>1
    <3>2. CASE k # n + 1
      <4>1. k \in 1 .. n /\ new[k] = old[k]
        BY <1>2, <2>1, <3>2
      <4> QED BY <1>5, <2>3, <4>1
    <3> QED BY <3>1, <3>2
  <2>4. \A k \in 1 .. n + 1 - 1 : k >= r => Len(new[k]) = Cols
    BY <1>2, <1>6, <2>1
  <2>5. (n + 1 - r) * Cols + Len(new[n + 1]) - c >= m + 1
    <3>1. PICK a \in Nat : a = (n - r) * Cols
      BY <1>r, <1>2, MoreRows
    <3>2. (n + 1 - r) * Cols = a + Cols
      BY <1>r, <1>2, <3>1, MoreRows
    <3>3. a + Cols - c >= m /\ Len(new[n + 1]) = 1
      BY <1>4, <1>5, <2>1, <3>1
    <3> QED BY <1>0, <3>2, <3>3
  <2>6. At(new, r, c, m + 1)
    BY <1>2, <2>1, <2>2, <2>3, <2>4, <2>5 DEF At
  <2> QED BY <2>6 DEF OnScreen
<1>8. CASE n = MaxLines
  <2>1. Len(new) = n /\ new[n] = <<"t">> /\ \A k \in 1 .. n - 1 : new[k] = old[k + 1]
    BY <1>2, <1>8 DEF Lowered
  <2>2. PICK s \in 0 .. MaxLines : s = IF r = 0 THEN 0 ELSE r - 1
    BY <1>0
  <2>3. PICK d \in 1 .. Cols : d = IF s = 0 THEN Cols ELSE c
    BY <1>0
  <2>4. s <= n /\ IF s = 0 THEN n = MaxLines /\ d = Cols ELSE d <= Len(new[s]) /\ new[s][d] = "p"
    <3>1. CASE s = 0
      BY <1>8, <2>3, <3>1
    <3>2. CASE s # 0
      <4>1. r = s + 1 /\ d = c /\ s \in 1 .. n - 1
        BY <1>2, <2>2, <2>3, <3>2
      <4> QED BY <1>2, <1>5, <2>1, <3>2, <4>1
    <3> QED BY <3>1, <3>2
  <2>5. ASSUME NEW k \in 1 .. n, NEW j \in 1 .. Len(new[k]), k > s \/ (k = s /\ j > d)
        PROVE  new[k][j] = "t"
    <3>1. CASE k = n
      BY <1>4, <2>1, <3>1
    <3>2. CASE k # n
      <4>1. k + 1 \in 1 .. n /\ new[k] = old[k + 1]
        BY <1>2, <2>1, <3>2
      <4>2. k + 1 > r \/ (k + 1 = r /\ j > c)
        <5>1. CASE k > s
          BY <2>2, <5>1
        <5>2. CASE k = s /\ j > d
          BY <2>2, <2>3, <5>2
        <5> QED BY <2>5, <5>1, <5>2
      <4> QED BY <1>5, <4>1, <4>2
    <3> QED BY <3>1, <3>2
  <2>6. \A k \in 1 .. n - 1 : k >= s => Len(new[k]) = Cols
    <3> SUFFICES ASSUME NEW k \in 1 .. n - 1, k >= s PROVE Len(new[k]) = Cols
      OBVIOUS
    <3>1. k + 1 \in 1 .. n /\ k + 1 >= r /\ new[k] = old[k + 1]
      BY <1>2, <2>1, <2>2
    <3> QED BY <1>6, <3>1
  <2>7. (n - s) * Cols + Len(new[n]) - d >= m + 1
    <3>1. CASE s = 0
      <4>1. PICK y \in Nat : y = MaxLines - 1
        BY <1>0
      <4>2. (n - s) * Cols = y * Cols + Cols /\ y * Cols \in Nat
        BY <1>0, <1>8, <3>1, <4>1
      <4>3. m < y * Cols
        BY <1>0, <4>1, <4>2
      <4>4. PICK a \in Nat : a = y * Cols
        BY <4>2
      <4>5. a + Cols + 1 - Cols >= m + 1
        BY <1>0, <4>3, <4>4
      <4> QED BY <1>4, <2>1, <2>3, <3>1, <4>2, <4>4, <4>5
    <3>2. CASE s # 0
      <4>1. s = r - 1 /\ d = c /\ n - s = n + 1 - r
        BY <1>2, <2>2, <2>3, <3>2
      <4>2. PICK a \in Nat : a = (n - r) * Cols
        BY <1>r, <1>2, MoreRows
      <4>a. (n + 1 - r) * Cols = a + Cols
        BY <1>r, <1>2, <4>2, MoreRows
      <4>3. (n - s) * Cols = a + Cols
        BY <4>1, <4>a
      <4>4. a + Cols - c >= m /\ Len(new[n]) = 1
        BY <1>4, <1>5, <2>1, <4>2
      <4> QED BY <1>0, <4>1, <4>3, <4>4
    <3> QED BY <3>1, <3>2
  <2>8. At(new, s, d, m + 1)
    BY <1>2, <2>1, <2>4, <2>5, <2>6, <2>7 DEF At
  <2> QED BY <2>8 DEF OnScreen
<1>9. n < MaxLines \/ n = MaxLines
  BY <1>0, <1>2
<1> QED BY <1>7, <1>8, <1>9

LEMMA FrontFacts ==
  ASSUME NEW S, NEW s \in Seq(S), s # <<>>
  PROVE  /\ Front(s) \in Seq(S) /\ Len(Front(s)) = Len(s) - 1 /\ Len(s) \in Nat /\ Len(s) > 0
         /\ \A k \in 1 .. Len(s) - 1 : Front(s)[k] = s[k]
<1>1. Len(s) \in Nat /\ Len(s) > 0 /\ Front(s) = SubSeq(s, 1, Len(s) - 1)
  BY DEF Front
<1>2. PICK n \in Nat : n = Len(s) - 1
  BY <1>1
<1>3. \A i \in 1 .. n : s[i] \in S
  BY <1>1, <1>2
<1>4. /\ SubSeq(s, 1, n) \in Seq(S) /\ Len(SubSeq(s, 1, n)) = IF 1 <= n THEN n - 1 + 1 ELSE 0
      /\ \A i \in 1 .. n - 1 + 1 : SubSeq(s, 1, n)[i] = s[1 + i - 1]
  BY <1>3, SubSeqProperties
<1>5. ASSUME NEW k \in 1 .. n PROVE SubSeq(s, 1, n)[k] = s[k]
  <2>1. k \in 1 .. n - 1 + 1 /\ 1 + k - 1 = k
    OBVIOUS
  <2> QED BY <1>4, <2>1
<1>6. Len(SubSeq(s, 1, n)) = n
  BY <1>4
<1> QED BY <1>1, <1>2, <1>4, <1>5, <1>6

\* A cell less in the last row, if it has one; the command is shorter as well.
LEMMA ShorterScreen ==
  ASSUME NEW old, NEW new, Rows(old), Rows(new), NEW m \in Nat, m > 0, OnScreen(old, m),
         Len(new) = Len(old),
         \A k \in 1 .. Len(old) - 1 : new[k] = old[k],
         new[Len(old)] = IF old[Len(old)] = <<>> THEN <<>> ELSE Front(old[Len(old)])
  PROVE  OnScreen(new, m - 1)
<1>1. PICK r \in 0 .. MaxLines, c \in 1 .. Cols : At(old, r, c, m)
  BY DEF OnScreen
<1>2. PICK n \in Nat : n = Len(old) /\ n = Len(new) /\ n > 0 /\ r <= n
  BY <1>1, RowsFacts DEF At
<1>r. r \in Nat /\ c \in Nat
  BY Sizes
<1>3. PICK l \in Nat : l = Len(old[n]) /\ old[n] \in Seq(Cells) /\ l <= Cols
  <2>1. n \in 1 .. Len(old)
    BY <1>2
  <2> QED BY <2>1, RowsFacts
<1>4. PICK l2 \in Nat : /\ l2 = Len(new[n]) /\ l2 = IF l = 0 THEN 0 ELSE l - 1
                        /\ \A j \in 1 .. l2 : new[n][j] = old[n][j]
  <2>1. CASE old[n] = <<>>
    BY <1>2, <1>3, <2>1
  <2>2. CASE old[n] # <<>>
    <3>1. /\ Len(Front(old[n])) = l - 1 /\ l > 0
          /\ \A k \in 1 .. l - 1 : Front(old[n])[k] = old[n][k]
      BY <1>3, <2>2, FrontFacts
    <3>2. new[n] = Front(old[n])
      BY <1>2, <2>2
    <3>3. PICK x \in Nat : x = l - 1
      BY <3>1
    <3> QED BY <3>1, <3>2, <3>3
  <2> QED BY <2>1, <2>2
<1>5. /\ IF r = 0 THEN n = MaxLines /\ c = Cols ELSE c <= Len(old[r]) /\ old[r][c] = "p"
      /\ \A k \in 1 .. n : \A j \in 1 .. Len(old[k]) : k > r \/ (k = r /\ j > c) => old[k][j] = "t"
      /\ \A k \in 1 .. n - 1 : k >= r => Len(old[k]) = Cols
      /\ (n - r) * Cols + l - c >= m
  BY <1>1, <1>2, <1>3 DEF At
<1>6. IF r = 0 THEN n = MaxLines /\ c = Cols ELSE c <= Len(new[r]) /\ new[r][c] = "p"
  <2>1. CASE r = n
    <3>1. (n - r) * Cols = 0
      BY <1>2, <2>1, Sizes
    <3>2. l - c >= m
      BY <1>3, <1>5, <1>r, <3>1
    <3>3. c <= l2 /\ c \in 1 .. l2
      BY <1>4, <1>r, <3>2
    <3> QED BY <1>2, <1>3, <1>4, <1>5, <2>1, <3>3
  <2>2. CASE r # n
    <3>1. CASE r = 0
      BY <1>5, <3>1
    <3>2. CASE r # 0
      <4>1. new[r] = old[r]
        BY <1>2, <2>2, <3>2
      <4> QED BY <1>5, <3>2, <4>1
    <3> QED BY <3>1, <3>2
  <2> QED BY <2>1, <2>2
<1>7. ASSUME NEW k \in 1 .. n, NEW j \in 1 .. Len(new[k]), k > r \/ (k = r /\ j > c)
      PROVE  new[k][j] = "t"
  <2>1. CASE k # n
    <3>1. new[k] = old[k]
      BY <1>2, <2>1
    <3> QED BY <1>5, <1>7, <3>1
  <2>2. CASE k = n
    <3>1. j \in 1 .. l2
      BY <1>4, <2>2
    <3>2. j \in 1 .. Len(old[n])
      BY <1>3, <1>4, <3>1
    <3> QED BY <1>4, <1>5, <1>7, <2>2, <3>1, <3>2
  <2> QED BY <2>1, <2>2
<1>8. \A k \in 1 .. n - 1 : k >= r => Len(new[k]) = Cols
  BY <1>2, <1>5
<1>9. (n - r) * Cols + Len(new[n]) - c >= m - 1
  <2>1. PICK a \in Nat : a = (n - r) * Cols
    BY <1>r, <1>2, MoreRows
  <2>2. a + l - c >= m
    BY <1>5, <2>1
  <2>3. a + l2 - c >= m - 1
    BY <1>4, <1>r, <2>2
  <2> QED BY <1>4, <2>1, <2>3
<1>10. At(new, r, c, m - 1)
  BY <1>2, <1>6, <1>7, <1>8, <1>9 DEF At
<1> QED BY <1>10 DEF OnScreen

\* A screen that ends with the prompt.
LEMMA FreshScreen ==
  ASSUME NEW rows, Rows(rows), Len(rows) > 0, Len(rows[Len(rows)]) > 0,
         rows[Len(rows)][Len(rows[Len(rows)])] = "p"
  PROVE  OnScreen(rows, 0)
<1>1. PICK n \in Nat : n = Len(rows) /\ n > 0 /\ n <= MaxLines
  BY RowsFacts DEF Rows
<1>2. PICK c \in Nat : c = Len(rows[n]) /\ c > 0 /\ c <= Cols
  <2>1. n \in 1 .. Len(rows)
    BY <1>1
  <2> QED BY <1>1, <2>1, RowsFacts
<1>3. n \in 0 .. MaxLines /\ c \in 1 .. Cols
  BY <1>1, <1>2, Sizes
<1>4. (n - n) * Cols + Len(rows[n]) - c >= 0
  <2>1. (n - n) * Cols = 0
    BY <1>1, Sizes
  <2> QED BY <1>2, <2>1
<1>5. \A k \in 1 .. n : \A j \in 1 .. Len(rows[k]) : k > n \/ (k = n /\ j > c) => rows[k][j] = "t"
  BY <1>1, <1>2
<1>6. \A k \in 1 .. n - 1 : k >= n => Len(rows[k]) = Cols
  BY <1>1
<1>7. At(rows, n, c, 0)
  BY <1>1, <1>2, <1>4, <1>5, <1>6 DEF At
<1> QED BY <1>3, <1>7 DEF OnScreen

LEMMA BoundsRows ==
  ASSUME NEW t, Bounds(t)
  PROVE  Rows(t.rows)
BY TermFields DEF Bounds, Rows

LEMMA PutsOne ==
  ASSUME NEW t, NEW c
  PROVE  Puts(t, <<c>>) = Putc(t, c)
<1>1. PICK s : s = <<c>>
  OBVIOUS
<1>2. PICK n \in Nat : n = 1
  OBVIOUS
<1>3. DOMAIN s = 1 .. n /\ s[1] = c
  BY <1>1, <1>2
<1>4. PICK f : f[0] = t /\ (\A k \in 1 .. n : f[k] = Putc(f[k-1], s[k])) /\ Puts(t, s) = f[n]
  BY ONLY <1>3, n \in Nat, PutsSteps
<1>5. f[1] = Putc(f[1-1], s[1]) /\ 1 - 1 = 0
  BY <1>2, <1>4
<1> QED BY <1>1, <1>2, <1>3, <1>4, <1>5

LEMMA PromptOK ==
  ASSUME NEW t, Bounds(t), t.cmd = <<>>
  PROVE  Bounds(Prompt(t)) /\ SameShell(Prompt(t), t) /\ Screen(Prompt(t))
<1>1. Prompt(t) = Putc(t, "p") /\ "p" \in Cells
  BY PutsOne DEF Prompt, Cells
<1>2. PICK u : u = Prompt(t)
  OBVIOUS
<1>3. /\ Bounds(u) /\ SameShell(u, t) /\ Len(u.rows) > 0
      /\ IF t.rows = <<>> \/ Len(t.rows[Len(t.rows)]) >= Cols
         THEN Lowered(u.rows, t.rows, <<"p">>)
         ELSE Longer(u.rows, t.rows, "p")
  BY <1>1, <1>2, PutcRows
<1>4. PICK n \in Nat : n = Len(u.rows) /\ n > 0
  BY <1>3, TermFields DEF Bounds
<1>5. Len(u.rows[n]) > 0 /\ u.rows[n][Len(u.rows[n])] = "p"
  <2>1. CASE t.rows = <<>> \/ Len(t.rows[Len(t.rows)]) >= Cols
    <3>1. u.rows[n] = <<"p">>
      BY <1>3, <1>4, <2>1 DEF Lowered
    <3> QED BY <3>1
  <2>2. CASE ~(t.rows = <<>> \/ Len(t.rows[Len(t.rows)]) >= Cols)
    <3>1. u.rows[n] = Append(t.rows[n], "p") /\ n = Len(t.rows)
      BY <1>3, <1>4, <2>2 DEF Longer
    <3>2. t.rows[n] \in Seq(Cells)
      BY <1>4, <3>1, TermFields DEF Bounds
    <3> QED BY <1>1, <3>1, <3>2, AppendFacts
  <2> QED BY <2>1, <2>2
<1>6. Rows(u.rows)
  BY <1>3, BoundsRows
<1>7. OnScreen(u.rows, 0)
  BY <1>4, <1>5, <1>6, FreshScreen
<1>8. u.cmd = <<>> /\ Len(u.cmd) = 0
  BY <1>3 DEF SameShell
<1> QED BY <1>2, <1>3, <1>7, <1>8 DEF Screen

\* What is asked of a terminal that is in use
TermOK(t) == Bounds(t) /\ History(t) /\ Screen(t)

LEMMA TypedOK ==
  ASSUME NEW t, TermOK(t), NEW c \in Letters
  PROVE  TermOK(Typed(t, c)) /\ Typed(t, c).active = t.active /\ Typed(t, c).win = t.win
<1>0. /\ t \in TermT /\ Bounds(t) /\ History(t) /\ Screen(t) /\ t.cmd \in Seq(Letters)
      /\ Len(t.cmd) \in Nat /\ CmdMax \in Nat
  BY TermFields, Sizes DEF TermOK, Bounds
<1>1. CASE ~(Len(t.cmd) < CmdMax)
  BY <1>1 DEF Typed
<1>2. CASE Len(t.cmd) < CmdMax
  <2>1. PICK cmd \in Seq(Letters) : cmd = Append(t.cmd, c) /\ Len(cmd) = Len(t.cmd) + 1
    <3>1. PICK s \in Seq(Letters) : s = t.cmd
      BY <1>0
    <3>2. Append(s, c) \in Seq(Letters) /\ Len(Append(s, c)) = Len(s) + 1
      BY AppendFacts
    <3> QED BY <3>1, <3>2
  <2>2. PICK v : v = [t EXCEPT !.cmd = cmd]
    OBVIOUS
  <2>3. /\ v \in TermT /\ v.cmd = cmd /\ v.rows = t.rows /\ v.active = t.active /\ v.win = t.win
        /\ v.ring = t.ring /\ v.count = t.count /\ v.log = t.log
    BY <1>0, <2>1, <2>2 DEF TermT
  <2>4. Bounds(v)
    <3>1. Len(v.cmd) <= CmdMax
      BY <1>0, <1>2, <2>1, <2>3
    <3> QED BY <1>0, <2>3, <3>1 DEF Bounds
  <2>5. PICK u : u = Typed(t, c) /\ u = Putc(v, "t")
    BY <1>0, <1>2, <2>1, <2>2 DEF Typed, TermT
  <2>6. /\ Bounds(u) /\ SameShell(u, v)
        /\ IF v.rows = <<>> \/ Len(v.rows[Len(v.rows)]) >= Cols
           THEN Lowered(u.rows, v.rows, <<"t">>)
           ELSE Longer(u.rows, v.rows, "t")
    <3>1. "t" \in Cells
      BY DEF Cells
    <3> QED BY <2>4, <2>5, <3>1, PutcRows
  <2>7. OnScreen(t.rows, Len(t.cmd)) /\ Rows(t.rows) /\ Rows(u.rows)
    BY <1>0, <2>6, BoundsRows DEF Screen
  <2>8. t.rows # <<>>
    BY <2>7 DEF OnScreen, At
  <2>9. OnScreen(u.rows, Len(t.cmd) + 1)
    <3>1. CASE Len(t.rows[Len(t.rows)]) >= Cols
      <4>1. Lowered(u.rows, t.rows, <<"t">>)
        BY <2>3, <2>6, <3>1
      <4> QED BY <1>0, <1>2, <2>7, <3>1, <4>1, LoweredScreen
    <3>2. CASE ~(Len(t.rows[Len(t.rows)]) >= Cols)
      <4>1. Longer(u.rows, t.rows, "t")
        BY <2>3, <2>6, <2>8, <3>2
      <4> QED BY <1>0, <2>7, <4>1, LongerScreen
    <3> QED BY <3>1, <3>2
  <2>10. Len(u.cmd) = Len(t.cmd) + 1 /\ u.active = t.active /\ u.win = t.win
    BY <2>1, <2>3, <2>6 DEF SameShell
  <2>11. History(u)
    BY <1>0, <2>3, <2>6 DEF SameShell, History
  <2> QED BY <2>5, <2>6, <2>9, <2>10, <2>11 DEF TermOK, Screen
<1> QED BY <1>1, <1>2

LEMMA BackspaceOK ==
  ASSUME NEW t, TermOK(t)
  PROVE  TermOK(Backspace(t)) /\ Backspace(t).active = t.active /\ Backspace(t).win = t.win
<1>0. /\ t \in TermT /\ Bounds(t) /\ History(t) /\ Screen(t) /\ t.cmd \in Seq(Letters)
      /\ Len(t.cmd) \in Nat /\ CmdMax \in Nat /\ Rows(t.rows)
  BY TermFields, Sizes, BoundsRows DEF TermOK, Bounds
<1>1. CASE t.cmd = <<>>
  BY <1>1 DEF Backspace
<1>2. CASE t.cmd # <<>>
  <2>1. PICK cmd \in Seq(Letters) : cmd = Front(t.cmd) /\ Len(cmd) = Len(t.cmd) - 1 /\ Len(t.cmd) > 0
    BY <1>0, <1>2, FrontFacts
  <2>2. PICK n \in Nat : n = Len(t.rows) /\ n > 0 /\ n <= MaxLines
    BY <1>0, RowsFacts DEF Screen, OnScreen, At, Rows
  <2>3. n \in 1 .. Len(t.rows) /\ t.rows[n] \in Seq(Cells)
    BY <1>0, <2>2, RowsFacts
  <2>4. PICK row \in Seq(Cells) : /\ row = (IF t.rows[n] = <<>> THEN <<>> ELSE Front(t.rows[n]))
                                  /\ Len(row) <= Cols
    <3>1. CASE t.rows[n] = <<>>
      <4>1. <<>> \in Seq(Cells) /\ Len(<<>>) = 0 /\ 0 <= Cols
        BY Sizes
      <4> QED BY <3>1, <4>1
    <3>2. CASE t.rows[n] # <<>>
      <4>1. /\ Front(t.rows[n]) \in Seq(Cells) /\ Len(Front(t.rows[n])) = Len(t.rows[n]) - 1
            /\ Len(t.rows[n]) \in Nat /\ Len(t.rows[n]) <= Cols
        BY <1>0, <2>3, <3>2, FrontFacts, RowsFacts
      <4> QED BY <3>2, <4>1, Sizes
    <3> QED BY <3>1, <3>2
  <2>5. PICK rows \in Seq(Seq(Cells)) :
          /\ rows = [t.rows EXCEPT ![n] = row] /\ Len(rows) = n
          /\ \A k \in 1 .. n : rows[k] = IF k = n THEN row ELSE t.rows[k]
    <3>1. PICK S : S = Seq(Cells)
      OBVIOUS
    <3>2. PICK old \in Seq(S) : old = t.rows
      BY <1>0, <3>1 DEF Rows
    <3>3. row \in S /\ n \in 1 .. Len(old)
      BY <2>3, <2>4, <3>1, <3>2
    <3>4. /\ [old EXCEPT ![n] = row] \in Seq(S) /\ Len([old EXCEPT ![n] = row]) = Len(old)
          /\ \A k \in 1 .. Len(old) : [old EXCEPT ![n] = row][k] = IF k = n THEN row ELSE old[k]
      BY <3>3, ExceptFacts
    <3> QED BY <2>2, <3>1, <3>2, <3>4
  <2>6. PICK u : u = Backspace(t) /\ u = [t EXCEPT !.cmd = cmd, !.dirty = TRUE, !.rows = rows]
    BY <1>0, <1>2, <2>1, <2>2, <2>4, <2>5 DEF Backspace, TermT
  <2>7. /\ u \in TermT /\ u.cmd = cmd /\ u.rows = rows /\ u.active = t.active /\ u.win = t.win
        /\ u.ring = t.ring /\ u.count = t.count /\ u.log = t.log
    BY <1>0, <2>1, <2>5, <2>6 DEF TermT
  <2>8. Rows(rows)
    <3>1. \A k \in 1 .. n : Len(rows[k]) <= Cols
      BY <1>0, <2>2, <2>4, <2>5 DEF Rows
    <3> QED BY <2>2, <2>5, <3>1 DEF Rows
  <2>9. Len(u.cmd) <= CmdMax
    <3>1. Len(t.cmd) <= CmdMax
      BY <1>0 DEF Bounds
    <3> QED BY <1>0, <2>1, <2>7, <3>1
  <2>10. Bounds(u)
    BY <2>7, <2>8, <2>9 DEF Bounds, Rows
  <2>11. OnScreen(rows, Len(t.cmd) - 1)
    <3>1. OnScreen(t.rows, Len(t.cmd))
      BY <1>0 DEF Screen
    <3>2. Len(rows) = Len(t.rows) /\ \A k \in 1 .. Len(t.rows) - 1 : rows[k] = t.rows[k]
      BY <2>2, <2>5
    <3>3. rows[Len(t.rows)] = IF t.rows[Len(t.rows)] = <<>> THEN <<>> ELSE Front(t.rows[Len(t.rows)])
      BY <2>2, <2>3, <2>4, <2>5
    <3> QED BY <1>0, <2>1, <2>8, <3>1, <3>2, <3>3, ShorterScreen
  <2>12. History(u)
    BY <1>0, <2>7 DEF History
  <2> QED BY <2>1, <2>6, <2>7, <2>10, <2>11, <2>12 DEF TermOK, Screen
<1> QED BY <1>1, <1>2

LEMMA ClearedOK ==
  ASSUME NEW t, Bounds(t), History(t)
  PROVE  /\ Bounds(Cleared(t)) /\ SameShell(Cleared(t), t)
<1>1. t \in TermT /\ <<>> \in Seq(Seq(Cells)) /\ Len(<<>>) = 0
  BY DEF Bounds
<1>2. PICK rows \in Seq(Seq(Cells)) : rows = <<>> /\ Len(rows) = 0
  BY <1>1
<1>3. PICK u : u = [t EXCEPT !.rows = rows, !.dirty = TRUE]
  OBVIOUS
<1>4. Cleared(t) = u
  BY <1>2, <1>3 DEF Cleared
<1>5. Len(rows) <= MaxLines /\ \A k \in 1 .. Len(rows) : Len(rows[k]) <= Cols
  BY <1>2, Sizes
<1> QED BY <1>3, <1>4, <1>5, RowsSet

LEMMA ListedCount ==
  ASSUME NEW t, Bounds(t), History(t)
  PROVE  Len(Listed(t)) \in Nat
<1>1. Listed(t) = t.log
  BY ListedIsLog
<1> QED BY <1>1, TermFields DEF Bounds

\* A command leaves the shell of the terminal, its history and its line alone.
LEMMA ExecOK ==
  ASSUME NEW t, Bounds(t), History(t)
  PROVE  Bounds(Exec(t)) /\ SameShell(Exec(t), t)
<1>1. CASE t.cmd[1] = "c"
  <2>1. Exec(t) = Cleared(t)
    BY <1>1 DEF Exec
  <2> QED BY <2>1, ClearedOK
<1>2. CASE t.cmd[1] # "c" /\ t.cmd[1] = "h"
  <2>1. Exec(t) = PutLines(t, Len(Listed(t)))
    BY <1>2 DEF Exec
  <2> QED BY <2>1, PutLinesKeeps, ListedCount
<1>3. CASE t.cmd[1] # "c" /\ t.cmd[1] # "h"
  <2>1. Exec(t) = Puts(t, Line)
    BY <1>3 DEF Exec, Answered
  <2>2. PICK n \in Nat : n = 2
    OBVIOUS
  <2>3. DOMAIN Line = 1 .. n /\ \A k \in 1 .. n : Line[k] \in Chars
    BY <2>2, LineChars
  <2>4. Bounds(Puts(t, Line)) /\ SameShell(Puts(t, Line), t)
    BY ONLY <2>3, Bounds(t), n \in Nat, PutsKeeps
  <2> QED BY <2>1, <2>4
<1> QED BY <1>1, <1>2, <1>3

LEMMA EnterOK ==
  ASSUME NEW t, TermOK(t)
  PROVE  TermOK(Enter(t)) /\ Enter(t).active = t.active /\ Enter(t).win = t.win
<1>0. t \in TermT /\ Bounds(t) /\ History(t)
  BY DEF TermOK, Bounds
<1>1. PICK u : u = Putc(t, "\n")
  OBVIOUS
<1>2. Bounds(u) /\ SameShell(u, t) /\ History(u)
  <2>1. "\n" \in Cells \cup {"\n"}
    OBVIOUS
  <2>2. Bounds(u) /\ SameShell(u, t)
    BY <1>0, <1>1, <2>1, PutcKeeps
  <2> QED BY <1>0, <2>2 DEF SameShell, History
<1>3. PICK v : v = IF t.cmd = <<>> THEN u ELSE Exec(Pushed(u))
  OBVIOUS
<1>4. Bounds(v) /\ History(v) /\ v.active = t.active /\ v.win = t.win
  <2>1. CASE t.cmd = <<>>
    BY <1>2, <1>3, <2>1 DEF SameShell
  <2>2. CASE t.cmd # <<>>
    <3>1. PICK p : p = Pushed(u)
      OBVIOUS
    <3>2. Bounds(p) /\ History(p) /\ p.active = u.active /\ p.win = u.win
      BY <1>2, <3>1, PushedOK
    <3>3. v = Exec(p)
      BY <1>3, <2>2, <3>1
    <3>4. Bounds(v) /\ SameShell(v, p)
      BY <3>2, <3>3, ExecOK
    <3> QED BY <1>2, <3>2, <3>4 DEF SameShell, History
  <2> QED BY <2>1, <2>2
<1>5. PICK w : w = [v EXCEPT !.cmd = <<>>]
  OBVIOUS
<1>6. /\ w \in TermT /\ w.cmd = <<>> /\ w.rows = v.rows /\ w.active = v.active /\ w.win = v.win
      /\ w.ring = v.ring /\ w.count = v.count /\ w.log = v.log
  <2>1. <<>> \in Seq(Letters) /\ v \in TermT
    BY <1>4 DEF Bounds
  <2> QED BY <1>5, <2>1 DEF TermT
<1>7. Bounds(w)
  <2>1. Len(w.cmd) <= CmdMax
    BY <1>6, Sizes
  <2> QED BY <1>4, <1>6, <2>1 DEF Bounds
<1>8. Enter(t) = Prompt(w)
  BY <1>1, <1>3, <1>5 DEF Enter
<1>9. PICK x : x = Prompt(w)
  OBVIOUS
<1>10. Bounds(x) /\ SameShell(x, w) /\ Screen(x)
  BY <1>6, <1>7, <1>9, PromptOK
<1>11. History(x)
  BY <1>4, <1>6, <1>10 DEF SameShell, History
<1> QED BY <1>4, <1>6, <1>8, <1>9, <1>10, <1>11 DEF TermOK, SameShell

LEMMA TermKeyOK ==
  ASSUME NEW t, TermOK(t), NEW c \in Typing
  PROVE  TermOK(TermKey(t, c)) /\ TermKey(t, c).active = t.active /\ TermKey(t, c).win = t.win
<1>1. PICK u : u = CASE c = "enter" -> Enter(t) [] c = "bksp" -> Backspace(t) [] OTHER -> Typed(t, c)
  OBVIOUS
<1>2. TermOK(u) /\ u.active = t.active /\ u.win = t.win
  <2>1. CASE c = "enter"
    <3>1. u = Enter(t)
      BY <1>1, <2>1
    <3> QED BY <3>1, EnterOK
  <2>2. CASE c = "bksp"
    <3>1. u = Backspace(t)
      BY <1>1, <2>2
    <3> QED BY <3>1, BackspaceOK
  <2>3. CASE c # "enter" /\ c # "bksp"
    <3>1. u = Typed(t, c) /\ c \in Letters
      BY <1>1, <2>3 DEF Letters
    <3> QED BY <3>1, TypedOK
  <2> QED BY <2>1, <2>2, <2>3
<1>3. PICK v : v = TermKey(t, c) /\ v = [u EXCEPT !.dirty = TRUE]
  BY <1>1 DEF TermKey
<1>4. /\ v \in TermT /\ v.cmd = u.cmd /\ v.rows = u.rows /\ v.active = u.active /\ v.win = u.win
      /\ v.ring = u.ring /\ v.count = u.count /\ v.log = u.log
  BY <1>2, <1>3 DEF TermOK, Bounds, TermT
<1>5. Bounds(v) /\ History(v) /\ Screen(v)
  BY <1>2, <1>4 DEF TermOK, Bounds, History, Screen
<1> QED BY <1>2, <1>3, <1>4, <1>5 DEF TermOK

LEMMA NoTermOK ==
  Bounds(NoTerm) /\ History(NoTerm) /\ NoTerm.active = FALSE
<1>1. PICK f : f = [i \in 0 .. HistSize - 1 |-> <<>>]
  OBVIOUS
<1>2. f \in [0 .. HistSize - 1 -> Seq(Letters)]
  BY <1>1
<1>3. /\ <<>> \in Seq(Seq(Cells)) /\ <<>> \in Seq(Letters) /\ <<>> \in Seq(Seq(Letters)) /\ 0 \in Nat
      /\ Len(<<>>) = 0
  OBVIOUS
<1>4. PICK u : u = NoTerm /\ u = [active |-> FALSE, win |-> -1, rows |-> <<>>, cmd |-> <<>>, dirty |-> FALSE,
                                  ring |-> f, count |-> 0, log |-> <<>>]
  BY <1>1 DEF NoTerm
<1>5. /\ u \in TermT /\ u.rows = <<>> /\ u.cmd = <<>> /\ u.active = FALSE
      /\ u.ring = f /\ u.count = 0 /\ u.log = <<>>
  BY <1>2, <1>3, <1>4 DEF TermT, None
<1>6. Bounds(u)
  BY <1>3, <1>5, Sizes DEF Bounds
<1>7. Holds(u.ring, u.count, u.log, HistSize)
  <2>1. Len(u.log) = 0 /\ u.count = 0
    BY <1>5
  <2>2. 0 = IF 0 < HistSize THEN 0 ELSE HistSize
    BY Sizes
  <2>3. \A i \in 1 .. 0 : FALSE
    OBVIOUS
  <2> QED BY <2>1, <2>2, <2>3 DEF Holds
<1> QED BY <1>4, <1>5, <1>6, <1>7 DEF History

LEMMA OpenedOK ==
  ASSUME NEW t, Bounds(t), NEW i \in Slots
  PROVE  TermOK(Opened(t, i)) /\ Opened(t, i).active = TRUE /\ Opened(t, i).win = i
<1>0. t \in TermT /\ t.ring \in [0 .. HistSize - 1 -> Seq(Letters)]
  BY TermFields DEF Bounds
<1>1. PICK new : new = [NoTerm EXCEPT !.active = TRUE, !.win = i, !.ring = t.ring]
  OBVIOUS
<1>2. /\ new \in TermT /\ new.active = TRUE /\ new.win = i /\ new.ring = t.ring
      /\ new.rows = NoTerm.rows /\ new.cmd = NoTerm.cmd /\ new.count = NoTerm.count /\ new.log = NoTerm.log
  <2>1. NoTerm \in TermT
    BY NoTermOK DEF Bounds
  <2> HIDE DEF NoTerm
  <2> QED BY <1>0, <1>1, <2>1 DEF TermT
<1>3. NoTerm.rows = <<>> /\ NoTerm.cmd = <<>> /\ NoTerm.count = 0 /\ NoTerm.log = <<>>
  BY DEF NoTerm
<1>4. Bounds(new)
  BY <1>2, NoTermOK DEF Bounds
<1>5. PICK s : s = <<"o", "\n", "o", "\n", "\n">>
  OBVIOUS
<1>6. PICK n \in Nat : n = 5
  OBVIOUS
<1>7. DOMAIN s = 1 .. n /\ \A k \in 1 .. n : s[k] \in Chars
  <2>1. DOMAIN s = 1 .. n
    BY <1>5, <1>6
  <2>2. s[1] \in Chars /\ s[2] \in Chars /\ s[3] \in Chars /\ s[4] \in Chars /\ s[5] \in Chars
    BY <1>5 DEF Chars, Cells
  <2>3. \A k \in 1 .. n : k = 1 \/ k = 2 \/ k = 3 \/ k = 4 \/ k = 5
    BY <1>6
  <2> QED BY <2>1, <2>2, <2>3
<1>8. PICK v : v = Puts(new, s)
  OBVIOUS
<1>9. Bounds(v) /\ SameShell(v, new)
  BY ONLY <1>4, <1>7, <1>8, n \in Nat, PutsKeeps
<1>10. PICK u : u = Prompt(v)
  OBVIOUS
<1>11. Bounds(u) /\ SameShell(u, v) /\ Screen(u)
  <2>1. v.cmd = <<>>
    BY <1>2, <1>3, <1>9 DEF SameShell
  <2> QED BY <1>9, <1>10, <2>1, PromptOK
<1>12. Opened(t, i) = u
  BY <1>1, <1>5, <1>8, <1>10 DEF Opened
<1>13. u.active = TRUE /\ u.win = i /\ u.count = 0 /\ u.log = <<>>
  BY <1>2, <1>3, <1>9, <1>11 DEF SameShell
<1>14. History(u)
  <2>1. Len(u.log) = 0 /\ u.count = 0
    BY <1>13
  <2>2. 0 = IF 0 < HistSize THEN 0 ELSE HistSize
    BY Sizes
  <2>3. \A j \in 1 .. 0 : FALSE
    OBVIOUS
  <2> QED BY <2>1, <2>2, <2>3 DEF Holds, History
<1> QED BY <1>11, <1>12, <1>13, <1>14 DEF TermOK

(***************************************************************************)
(* Opening windows.                                                          *)
(***************************************************************************)
\* What becomes of the window that is opened, and of the others
Fresh(w, title) == w.shown = TRUE /\ w.min = FALSE /\ w.drag = "none" /\ w.title = title
SameWindow(v, w) ==
  /\ v.shown = w.shown /\ v.min = w.min /\ v.anim = w.anim /\ v.drag = w.drag
  /\ v.title = w.title /\ v.term = w.term /\ v.text = w.text

\* gui_create_window, and what desktop.c writes into the window
LEMMA CreatedFields ==
  ASSUME NEW g, GuiOK(g), NEW i \in Slots, i <= g.count, NEW title \in Apps,
         NEW c, c = Created(g, i, title)
  PROVE  /\ c \in GuiT
         /\ c.count = IF i = g.count THEN i + 1 ELSE g.count
         /\ c.focus = i
         /\ c.left = g.left
         /\ Fresh(c.win[i], title)
         /\ \A j \in Slots : j # i => SameWindow(c.win[j], g.win[j])
<1>0. g \in GuiT /\ g.win \in [Slots -> WinT] /\ MaxWindows \in Nat /\ g.count \in 0 .. MaxWindows
        /\ i \in Nat /\ i < MaxWindows
  BY GuiFields, UsedSlots DEF GuiOK, Slots
<1> DEFINE n == IF i = g.count THEN i + 1 ELSE g.count
<1>1. PICK new \in WinT : /\ new = [[NoWindow EXCEPT !.shown = TRUE, !.anim = "open", !.title = title]
                                      EXCEPT !.focused = i >= n - 1]
                          /\ new.shown = TRUE /\ new.min = FALSE /\ new.drag = "none" /\ new.title = title
  <2>1. PICK fo \in BOOLEAN : fo = (i >= n - 1)
    <3>1. CASE i >= n - 1
      BY <3>1
    <3>2. CASE ~(i >= n - 1)
      <4>1. (i >= n - 1) = FALSE
        BY ONLY <3>2
      <4> QED BY ONLY <4>1
    <3> QED BY <3>1, <3>2
  <2>2. NoWindow \in WinT
    BY DEF NoWindow, WinT, Anims, Titles, NoText
  <2>3. NoWindow.min = FALSE /\ NoWindow.drag = "none"
    BY DEF NoWindow
  <2> HIDE DEF NoWindow
  <2>4. PICK v : v = [NoWindow EXCEPT !.shown = TRUE, !.anim = "open", !.title = title]
    OBVIOUS
  <2>5. v \in WinT
    BY <2>2, <2>4 DEF WinT, Anims, Titles
  <2>6. v.shown = TRUE /\ v.min = FALSE /\ v.drag = "none" /\ v.title = title
    BY <2>2, <2>3, <2>4 DEF WinT
  <2>7. PICK w : w = [v EXCEPT !.focused = fo]
    OBVIOUS
  <2>8. w \in WinT
    BY <2>1, <2>5, <2>7 DEF WinT
  <2>9. w.shown = TRUE /\ w.min = FALSE /\ w.drag = "none" /\ w.title = title
    BY <2>5, <2>6, <2>7 DEF WinT
  <2> QED BY <2>1, <2>4, <2>7, <2>8, <2>9
<1> DEFINE Old(j) == [g.win[j] EXCEPT !.focused = j >= n - 1 /\ @]
           W == [j \in Slots |-> IF j = i THEN new ELSE Old(j)]
<1>2. ASSUME NEW j \in Slots
      PROVE  /\ Old(j) \in WinT
             /\ SameWindow(Old(j), g.win[j])
  <2>1. g.win[j] \in WinT
    BY <1>0
  <2>2. PICK fo \in BOOLEAN : fo = (j >= n - 1 /\ g.win[j].focused)
    OBVIOUS
  <2>3. PICK w : w = [g.win[j] EXCEPT !.focused = fo]
    OBVIOUS
  <2>4. Old(j) = w
    BY <2>1, <2>2, <2>3 DEF WinT
  <2>5. w \in WinT
    BY <2>1, <2>2, <2>3 DEF WinT
  <2>6. /\ w.shown = g.win[j].shown /\ w.min = g.win[j].min
        /\ w.anim = g.win[j].anim /\ w.drag = g.win[j].drag /\ w.title = g.win[j].title
        /\ w.term = g.win[j].term /\ w.text = g.win[j].text
    BY <2>1, <2>3 DEF WinT
  <2> QED BY <2>4, <2>5, <2>6 DEF SameWindow
<1> HIDE DEF Old
<1>3. PICK win \in [Slots -> WinT] : win = W
  BY <1>2
<1>4. PICK h : h = Created(g, i, title) /\ h = [g EXCEPT !.count = n, !.focus = i, !.win = win]
  BY <1>1, <1>3 DEF Created, Old
<1>5. n \in 0 .. MaxWindows
  BY <1>0
<1> HIDE DEF n
<1>6. h \in GuiT /\ h.count = n /\ h.focus = i /\ h.left = g.left /\ h.win = win
  BY <1>0, <1>3, <1>4, <1>5 DEF GuiT
<1>7. win[i] = new /\ \A j \in Slots : j # i => win[j] = Old(j)
  BY <1>3
<1>8. h.count = IF i = g.count THEN i + 1 ELSE g.count
  BY <1>6 DEF n
<1>9. \A j \in Slots : j # i => SameWindow(h.win[j], g.win[j])
  BY <1>2, <1>6, <1>7
<1>10. Fresh(h.win[i], title)
  BY <1>1, <1>6, <1>7 DEF Fresh
<1> QED BY ONLY <1>4, <1>6, <1>8, <1>9, <1>10, c = Created(g, i, title)

Taken(h, g, i, term) ==
  /\ Used(g) \subseteq Used(h) /\ i \in Used(h)
  /\ h.win[i].term = term
  /\ \A j \in Shown(h) : j # i => j \in Shown(g) /\ h.win[j].term = g.win[j].term

LEMMA CreatedOK ==
  ASSUME NEW g, GuiOK(g), NEW i \in Slots, i <= g.count, NEW title \in Apps,
         NEW term \in BOOLEAN, NEW own \in Terms \cup {None}, NEW text \in Titles \X (Terms \cup {None}),
         text[1] \in {"none", title}, term => title = "terminal",
         NEW h, h = [Created(g, i, title) EXCEPT !.win[i].term = term, !.win[i].own = own, !.win[i].text = text]
  PROVE  GuiOK(h) /\ Taken(h, g, i, term)
<1>0. g \in GuiT /\ MaxWindows \in Nat /\ g.count \in 0 .. MaxWindows /\ i \in Nat /\ i < MaxWindows
  BY GuiFields, UsedSlots DEF GuiOK, Slots
<1>1. PICK c : c = Created(g, i, title)
  OBVIOUS
<1>2. /\ c \in GuiT /\ c.count = (IF i = g.count THEN i + 1 ELSE g.count) /\ c.focus = i /\ c.left = g.left
      /\ Fresh(c.win[i], title)
      /\ \A j \in Slots : j # i => SameWindow(c.win[j], g.win[j])
  BY ONLY <1>1, GuiOK(g), i \in Slots, i <= g.count, title \in Apps, CreatedFields
<1>3. PICK w : w = [c.win[i] EXCEPT !.term = term, !.own = own, !.text = text]
  OBVIOUS
<1>4. c.win \in [Slots -> WinT] /\ c.win[i] \in WinT
  BY <1>2 DEF GuiT
<1>5. w \in WinT
  BY <1>3, <1>4 DEF WinT
<1>6. /\ w.shown = TRUE /\ w.min = FALSE /\ w.drag = "none" /\ w.title = title
      /\ w.term = term /\ w.text = text
  BY <1>2, <1>3, <1>4 DEF WinT, Fresh
<1>7. h = [c EXCEPT !.win = [c.win EXCEPT ![i] = w]]
  <2>1. PICK w1 : w1 = [c.win[i] EXCEPT !.term = term]
    OBVIOUS
  <2>2. PICK w2 : w2 = [w1 EXCEPT !.own = own]
    OBVIOUS
  <2>3. w = [w2 EXCEPT !.text = text]
    BY <1>3, <2>1, <2>2
  <2>4. PICK v1, v2, v3 : /\ v1 = [c.win EXCEPT ![i] = w1] /\ v2 = [v1 EXCEPT ![i] = w2]
                          /\ v3 = [v2 EXCEPT ![i] = w]
    OBVIOUS
  <2>5. v1[i] = w1 /\ v2[i] = w2
    BY <1>4, <2>4
  <2>6. PICK c1, c2, c3 : /\ c1 = [c EXCEPT !.win = v1] /\ c2 = [c1 EXCEPT !.win = v2]
                          /\ c3 = [c2 EXCEPT !.win = v3]
    OBVIOUS
  <2>7. c1.win = v1 /\ c2.win = v2 /\ c3 = [c EXCEPT !.win = v3]
    BY <1>2, <2>6 DEF GuiT
  <2>8. [c EXCEPT !.win[i].term = term] = c1
    BY <1>2, <1>4, <2>1, <2>4, <2>6
  <2>9. [c1 EXCEPT !.win[i].own = own] = c2
    BY <2>2, <2>4, <2>5, <2>6, <2>7
  <2>10. [c2 EXCEPT !.win[i].text = text] = c3
    BY <2>3, <2>4, <2>5, <2>6, <2>7
  <2>11. h = c3
    BY <1>1, <2>8, <2>9, <2>10
  <2>12. v3 = [c.win EXCEPT ![i] = w]
    BY <1>4, <2>4
  <2> QED BY <2>7, <2>11, <2>12
<1>8. PICK win \in [Slots -> WinT] : win = [c.win EXCEPT ![i] = w]
  BY <1>4, <1>5
<1>9. h \in GuiT /\ h.win = win /\ h.focus = i /\ h.count = c.count /\ h.left = g.left
  BY <1>2, <1>7, <1>8 DEF GuiT
<1>10. win[i] = w /\ \A j \in Slots : j # i => win[j] = c.win[j]
  BY <1>4, <1>8
<1>11. Used(g) \subseteq Used(h) /\ i \in Used(h) /\ \A j \in Used(h) : j \in Slots /\ (j # i => j \in Used(g))
  BY <1>0, <1>2, <1>9 DEF Used, Slots
<1>s. ASSUME NEW j \in Used(h), j # i
      PROVE  j \in Used(g) /\ j \in Slots /\ SameWindow(h.win[j], g.win[j])
  <2>1. j \in Used(g) /\ j \in Slots /\ h.win[j] = c.win[j]
    BY <1>9, <1>10, <1>11, <1>s
  <2> QED BY <1>2, <1>s, <2>1
<1>12. ASSUME NEW j \in Used(h) PROVE WinOK(h.win[j], j = h.focus, h.left)
  <2>1. CASE j = i
    BY <1>6, <1>9, <1>10, <2>1 DEF WinOK
  <2>2. CASE j # i
    <3>1. j \in Used(g) /\ j \in Slots
      BY <1>s, <2>2
    <3>2. WinOK(g.win[j], j = g.focus, g.left)
      BY <3>1 DEF GuiOK
    <3>3. SameWindow(h.win[j], g.win[j])
      BY <1>s, <2>2
    <3> QED BY <1>9, <2>2, <3>2, <3>3 DEF WinOK, SameWindow
  <2> QED BY <2>1, <2>2
<1>13. \A j, k \in Used(h) : h.win[j].drag # "none" /\ h.win[k].drag # "none" => j = k
  <2>1. ASSUME NEW j \in Used(h), h.win[j].drag # "none"
        PROVE  j \in Used(g) /\ g.win[j].drag # "none"
    <3>1. j # i
      BY <1>6, <1>9, <1>10, <2>1
    <3> QED BY <1>s, <2>1, <3>1 DEF SameWindow
  <2> QED BY <2>1 DEF GuiOK
<1>14. GuiOK(h)
  BY <1>9, <1>11, <1>12, <1>13 DEF GuiOK
<1>15. ASSUME NEW j \in Shown(h), j # i PROVE j \in Shown(g) /\ h.win[j].term = g.win[j].term
  <2>1. j \in Used(h) /\ h.win[j].shown
    BY DEF Shown
  <2>2. j \in Used(g) /\ SameWindow(h.win[j], g.win[j])
    BY <1>s, <1>15, <2>1
  <2> QED BY <2>1, <2>2 DEF Shown, SameWindow
<1> QED BY <1>6, <1>9, <1>10, <1>11, <1>14, <1>15 DEF Taken

(***************************************************************************)
(* The desktop.                                                              *)
(***************************************************************************)
DeskT == [gui : GuiT, terms : [Terms -> TermT], monitor : Slots \cup {None}]
DeskOK(d) ==
  /\ d \in DeskT
  /\ GuiOK(d.gui)
  /\ \A t \in Terms : /\ Bounds(d.terms[t]) /\ History(d.terms[t])
                      /\ d.terms[t].active => Screen(d.terms[t])
Answers(d) ==
  \A w \in Shown(d.gui) :
    d.gui.win[w].term => \E t \in Terms : d.terms[t].active /\ d.terms[t].win = w

LEMMA DeskFields ==
  ASSUME NEW d, DeskOK(d)
  PROVE  /\ d = [gui |-> d.gui, terms |-> d.terms, monitor |-> d.monitor]
         /\ d.gui \in GuiT /\ d.terms \in [Terms -> TermT] /\ d.monitor \in Slots \cup {None}
         /\ GuiOK(d.gui)
BY DEF DeskOK, DeskT

LEMMA TermsAreNaturals ==
  Terms \subseteq Nat /\ None \notin Terms
BY DesktopAssumption DEF Terms, None

\* Nothing is opened, and nothing but the table of windows changes.
LEMMA GuiChanges ==
  ASSUME NEW d, DeskOK(d), NEW h, GuiOK(h), NEW e, e = [d EXCEPT !.gui = h]
  PROVE  /\ DeskOK(e) /\ e.gui = h /\ e.terms = d.terms /\ e.monitor = d.monitor
         /\ Tame(h, d.gui) /\ Answers(d) => Answers(e)
<1>1. e.gui = h /\ e.terms = d.terms /\ e.monitor = d.monitor
  BY DEF DeskOK, DeskT
<1>2. e \in DeskT
  BY DEF DeskOK, DeskT, GuiOK
<1>3. DeskOK(e)
  BY <1>1, <1>2 DEF DeskOK
<1>4. Tame(h, d.gui) => \A w \in Shown(h) : w \in Shown(d.gui) /\ h.win[w].term = d.gui.win[w].term
  BY DEF Tame, Shown, Used
<1> QED BY <1>1, <1>3, <1>4 DEF Answers

\* One terminal changes.
LEMMA TermChanges ==
  ASSUME NEW d, DeskOK(d), NEW t \in Terms, NEW u, TermOK(u),
         NEW e, e = [d EXCEPT !.terms[t] = u]
  PROVE  /\ DeskOK(e) /\ e.gui = d.gui /\ e.terms = [d.terms EXCEPT ![t] = u]
         /\ (u.active = d.terms[t].active /\ u.win = d.terms[t].win /\ Answers(d)) => Answers(e)
<1>0. u \in TermT /\ d.terms \in [Terms -> TermT]
  BY DEF TermOK, Bounds, DeskOK, DeskT
<1>1. PICK terms \in [Terms -> TermT] : terms = [d.terms EXCEPT ![t] = u]
  BY <1>0
<1>2. e = [d EXCEPT !.terms = terms]
  BY <1>1 DEF DeskOK, DeskT
<1>3. e.gui = d.gui /\ e.terms = terms /\ e.monitor = d.monitor /\ e \in DeskT
  BY <1>1, <1>2 DEF DeskOK, DeskT
<1>4. terms[t] = u /\ \A s \in Terms : s # t => terms[s] = d.terms[s]
  BY <1>0, <1>1
<1>5. ASSUME NEW s \in Terms
      PROVE  Bounds(terms[s]) /\ History(terms[s]) /\ (terms[s].active => Screen(terms[s]))
  <2>1. CASE s = t
    BY <1>4, <2>1 DEF TermOK
  <2>2. CASE s # t
    BY <1>4, <2>2 DEF DeskOK
  <2> QED BY <2>1, <2>2
<1>6. DeskOK(e)
  BY <1>3, <1>5 DEF DeskOK
<1>7. (u.active = d.terms[t].active /\ u.win = d.terms[t].win /\ Answers(d)) => Answers(e)
  BY <1>3, <1>4 DEF Answers
<1> QED BY <1>1, <1>3, <1>6, <1>7

LEMMA FocusExistingOK ==
  ASSUME NEW d, DeskOK(d), NEW i \in Shown(d.gui)
  PROVE  /\ DeskOK(FocusExisting(d, i)) /\ FocusExisting(d, i).gui.count = d.gui.count
         /\ FocusExisting(d, i).terms = d.terms
         /\ Answers(d) => Answers(FocusExisting(d, i))
<1>0. GuiOK(d.gui) /\ d.gui \in GuiT /\ i \in Used(d.gui) /\ i \in Slots
  BY DeskFields, UsedSlots
<1>1. PICK g : g = Animated(d.gui, i, "none")
  OBVIOUS
<1>2. GuiOK(g) /\ Tame(g, d.gui)
  BY <1>0, <1>1, AnimatedOK DEF Anims
<1>3. i \in Shown(g)
  <2>1. PICK w : w = [d.gui.win[i] EXCEPT !.anim = "none", !.frame = 0]
    OBVIOUS
  <2>2. d.gui.win \in [Slots -> WinT] /\ d.gui.win[i] \in WinT
    BY <1>0, GuiFields
  <2>3. w.shown = d.gui.win[i].shown
    BY <2>1, <2>2 DEF WinT
  <2>4. g.win = [d.gui.win EXCEPT ![i] = w]
    BY <1>0, <1>1, <2>1, <2>2 DEF Animated, GuiT, WinT
  <2>5. g.win[i] = w
    BY <1>0, <2>2, <2>4
  <2>6. g.count = d.gui.count
    BY <1>2 DEF Tame
  <2> QED BY <1>0, <2>3, <2>5, <2>6 DEF Shown, Used
<1>4. PICK h : h = OnlyFocus(g, i)
  OBVIOUS
<1>5. GuiOK(h) /\ Tame(h, g)
  BY <1>2, <1>3, <1>4, OnlyFocusOK
<1>6. Tame(h, d.gui)
  BY <1>2, <1>5, TameChain
<1>7. FocusExisting(d, i) = [d EXCEPT !.gui = h]
  BY <1>1, <1>4 DEF FocusExisting
<1>8. h.count = d.gui.count
  BY <1>6 DEF Tame
<1> QED BY <1>5, <1>6, <1>7, <1>8, GuiChanges

\* What desktop.c has found before it takes it
Found(d, f) ==
  /\ f.app \in Apps
  /\ f.term \in Terms \cup {None} /\ (f.term # None => f.app = "terminal")
  /\ f.slot \in Used(d.gui) \cup {None}
StillIdle(d, f) == f.term # None => ~d.terms[f.term].active

LEMMA FindOK ==
  ASSUME NEW d, DeskOK(d), NEW app \in Apps
  PROVE  Found(d, Find(d, app)) /\ StillIdle(d, Find(d, app)) /\ Find(d, app).app = app
<1>0. PICK f : f = Find(d, app)
  OBVIOUS
<1>1. /\ f.app = app
      /\ f.term = IF app # "terminal" \/ IdleTerms(d) = {} THEN None ELSE Min(IdleTerms(d))
      /\ f.slot = FreeSlot(d.gui)
  BY <1>0 DEF Find
<1>2. /\ f.term \in Terms \cup {None} /\ (f.term # None => f.app = "terminal")
      /\ (f.term # None => ~d.terms[f.term].active)
  <2>1. CASE app # "terminal" \/ IdleTerms(d) = {}
    BY <1>1, <2>1
  <2>2. CASE ~(app # "terminal" \/ IdleTerms(d) = {})
    <3>1. IdleTerms(d) \in SUBSET Nat /\ IdleTerms(d) # {}
      BY <2>2, TermsAreNaturals DEF IdleTerms
    <3>2. Min(IdleTerms(d)) \in IdleTerms(d)
      BY <3>1, MinLeast
    <3> QED BY <1>1, <2>2, <3>2 DEF IdleTerms
  <2> QED BY <2>1, <2>2
<1>3. f.slot \in Used(d.gui) \cup {None}
  <2>1. CASE Reusable(d.gui) = {}
    BY <1>1, <2>1 DEF FreeSlot
  <2>2. CASE Reusable(d.gui) # {}
    <3>1. Reusable(d.gui) \in SUBSET Nat
      BY DeskFields, UsedSlots DEF Reusable
    <3>2. Min(Reusable(d.gui)) \in Reusable(d.gui)
      BY <2>2, <3>1, MinLeast
    <3> QED BY <1>1, <2>2, <3>2 DEF FreeSlot, Reusable
  <2> QED BY <2>1, <2>2
<1> QED BY <1>0, <1>1, <1>2, <1>3 DEF Found, StillIdle

LEMMA PlaceOK ==
  ASSUME NEW g \in GuiT, NEW found \in Used(g) \cup {None}, Place(g, found) # None
  PROVE  Place(g, found) \in Slots /\ Place(g, found) <= g.count
<1>0. g.count \in 0 .. MaxWindows /\ MaxWindows \in Nat
  BY GuiFields, UsedSlots
<1> QED BY <1>0 DEF Place, Used, Slots, None

LEMMA FinishOK ==
  ASSUME NEW d, DeskOK(d), NEW f, Found(d, f)
  PROVE  /\ DeskOK(Finish(d, f)) /\ Used(d.gui) \subseteq Used(Finish(d, f).gui)
         /\ StillIdle(d, f) /\ Answers(d) => Answers(Finish(d, f))
<1>0. /\ GuiOK(d.gui) /\ d.gui \in GuiT /\ d.terms \in [Terms -> TermT] /\ None \notin Terms /\ None \notin Slots
      /\ f.app \in Apps /\ f.term \in Terms \cup {None} /\ (f.term # None => f.app = "terminal")
      /\ f.slot \in Used(d.gui) \cup {None} /\ d.monitor \in Slots \cup {None}
  <2>1. GuiOK(d.gui) /\ d.gui \in GuiT /\ d.terms \in [Terms -> TermT] /\ d.monitor \in Slots \cup {None}
    BY DeskFields
  <2>2. None \notin Terms /\ None \notin Slots
    BY <2>1, TermsAreNaturals, UsedSlots
  <2>3. /\ f.app \in Apps /\ f.term \in Terms \cup {None} /\ (f.term # None => f.app = "terminal")
        /\ f.slot \in Used(d.gui) \cup {None}
    BY DEF Found
  <2> QED BY <2>1, <2>2, <2>3
<1>1. CASE Place(d.gui, f.slot) = None
  BY <1>1 DEF Finish
<1>2. CASE Place(d.gui, f.slot) # None
  <2>1. PICK i \in Slots : i = Place(d.gui, f.slot) /\ i <= d.gui.count /\ i # None
    BY <1>0, <1>2, PlaceOK
  <2>2. PICK term \in BOOLEAN : term = (f.term # None)
    OBVIOUS
  <2>3. PICK text \in Titles \X (Terms \cup {None}) : text = TextOf(f) /\ text[1] \in {"none", f.app}
    <3>1. CASE f.term = None
      <4>1. TextOf(f) = <<f.app, None>>
        BY <3>1 DEF TextOf
      <4> QED BY <1>0, <4>1 DEF Titles
    <3>2. CASE f.term # None
      <4>1. TextOf(f) = <<"none", None>>
        BY <3>2 DEF TextOf, NoText
      <4> QED BY <4>1 DEF Titles
    <3> QED BY <3>1, <3>2
  <2>4. PICK h : h = [Created(d.gui, i, f.app) EXCEPT !.win[i].term = term, !.win[i].own = f.term, !.win[i].text = text]
    OBVIOUS
  <2>5. /\ GuiOK(h) /\ Used(d.gui) \subseteq Used(h) /\ i \in Used(h)
        /\ h.win[i].term = term
        /\ \A j \in Shown(h) : j # i => j \in Shown(d.gui) /\ h.win[j].term = d.gui.win[j].term
    <3>1. term => f.app = "terminal"
      BY <1>0, <2>2
    <3>2. PICK g, own, app : g = d.gui /\ own = f.term /\ app = f.app
      OBVIOUS
    <3>3. /\ GuiOK(g) /\ i \in Slots /\ i <= g.count /\ app \in Apps /\ own \in Terms \cup {None}
          /\ text[1] \in {"none", app} /\ (term => app = "terminal")
      BY <1>0, <2>1, <2>3, <3>1, <3>2
    <3>4. h = [Created(g, i, app) EXCEPT !.win[i].term = term, !.win[i].own = own, !.win[i].text = text]
      BY <2>4, <3>2
    <3>5. GuiOK(h) /\ Taken(h, g, i, term)
      BY ONLY <3>3, <3>4, term \in BOOLEAN, text \in Titles \X (Terms \cup {None}), CreatedOK
    <3> QED BY <3>2, <3>5 DEF Taken
  <2>6. PICK terms : terms = IF f.term = None THEN d.terms ELSE [d.terms EXCEPT ![f.term] = Opened(d.terms[f.term], i)]
    OBVIOUS
  <2>7. PICK mon \in Slots \cup {None} : mon = IF f.app = "monitor" THEN i ELSE d.monitor
    BY <1>0
  <2>8. PICK e : e = Finish(d, f) /\ e = [d EXCEPT !.gui = h, !.terms = terms, !.monitor = mon]
    <3>1. PICK c : c = Created(d.gui, i, f.app)
      OBVIOUS
    <3>2. h = [c EXCEPT !.win[i].term = f.term # None, !.win[i].own = f.term, !.win[i].text = TextOf(f)]
      BY <2>2, <2>3, <2>4, <3>1
    <3>3. Finish(d, f) = [d EXCEPT !.gui = h,
                    !.terms = IF f.term = None THEN @ ELSE [@ EXCEPT ![f.term] = Opened(d.terms[f.term], i)],
                    !.monitor = IF f.app = "monitor" THEN i ELSE @]
      BY <2>1, <3>1, <3>2 DEF Finish
    <3>4. d \in DeskT
      BY DEF DeskOK
    <3>5. [d EXCEPT !.gui = h,
                    !.terms = IF f.term = None THEN @ ELSE [@ EXCEPT ![f.term] = Opened(d.terms[f.term], i)],
                    !.monitor = IF f.app = "monitor" THEN i ELSE @]
          = [d EXCEPT !.gui = h, !.terms = terms, !.monitor = mon]
      <4>1. IF f.term = None THEN terms = d.terms
            ELSE terms = [d.terms EXCEPT ![f.term] = Opened(d.terms[f.term], i)]
        BY <2>6
      <4>2. [d EXCEPT !.gui = h, !.terms = IF f.term = None THEN @ ELSE [@ EXCEPT ![f.term] = Opened(d.terms[f.term], i)]]
            = [d EXCEPT !.gui = h, !.terms = terms]
        <5>1. CASE f.term = None
          BY <3>4, <4>1, <5>1 DEF DeskT
        <5>2. CASE f.term # None
          BY <3>4, <4>1, <5>2 DEF DeskT
        <5> QED BY <5>1, <5>2
      <4>3. PICK e : e = [d EXCEPT !.gui = h, !.terms = terms]
        OBVIOUS
      <4>4. e.monitor = d.monitor
        BY <3>4, <4>3 DEF DeskT
      <4>5. [e EXCEPT !.monitor = IF f.app = "monitor" THEN i ELSE @] = [e EXCEPT !.monitor = mon]
        BY <2>7, <4>4
      <4> QED BY <4>2, <4>3, <4>5
    <3> QED BY <3>3, <3>5
  <2>9. \A t \in Terms : terms[t] = IF t = f.term THEN Opened(d.terms[f.term], i) ELSE d.terms[t]
    BY <1>0, <2>6
  <2>10. ASSUME NEW t \in Terms
         PROVE  /\ Bounds(terms[t]) /\ History(terms[t]) /\ (terms[t].active => Screen(terms[t]))
    <3>1. CASE t = f.term
      <4>1. Bounds(d.terms[t])
        BY DEF DeskOK
      <4>2. TermOK(Opened(d.terms[t], i))
        BY <4>1, OpenedOK
      <4> QED BY <2>9, <3>1, <4>2 DEF TermOK
    <3>2. CASE t # f.term
      BY <2>9, <3>2 DEF DeskOK
    <3> QED BY <3>1, <3>2
  <2>11. terms \in [Terms -> TermT]
    <3>1. CASE f.term = None
      BY <1>0, <2>6, <3>1
    <3>2. CASE f.term # None
      <4>1. terms[f.term] = Opened(d.terms[f.term], i) /\ terms[f.term] \in TermT
        BY <1>0, <2>9, <2>10, <3>2 DEF Bounds
      <4> QED BY <1>0, <2>6, <3>2, <4>1
    <3> QED BY <3>1, <3>2
  <2>12. e \in DeskT /\ e.gui = h /\ e.terms = terms
    BY <2>5, <2>7, <2>8, <2>11 DEF DeskOK, DeskT, GuiOK
  <2>13. DeskOK(e)
    BY <2>5, <2>10, <2>12 DEF DeskOK
  <2>14. ASSUME StillIdle(d, f), Answers(d), NEW w \in Shown(e.gui), e.gui.win[w].term
         PROVE  \E t \in Terms : e.terms[t].active /\ e.terms[t].win = w
    <3>1. CASE w = i
      <4>1. f.term \in Terms
        BY <1>0, <2>2, <2>5, <2>12, <2>14, <3>1
      <4>2. Bounds(d.terms[f.term])
        BY <4>1 DEF DeskOK
      <4>3. Opened(d.terms[f.term], i).active = TRUE /\ Opened(d.terms[f.term], i).win = i
        BY <4>2, OpenedOK
      <4> QED BY <2>9, <2>12, <3>1, <4>1, <4>3
    <3>2. CASE w # i
      <4>1. w \in Shown(d.gui) /\ d.gui.win[w].term
        BY <2>5, <2>12, <2>14, <3>2
      <4>2. PICK t \in Terms : d.terms[t].active /\ d.terms[t].win = w
        BY <2>14, <4>1 DEF Answers
      <4>3. t # f.term
        BY <1>0, <2>14, <4>2 DEF StillIdle
      <4> QED BY <2>9, <2>12, <4>2, <4>3
    <3> QED BY <3>1, <3>2
  <2> QED BY <2>5, <2>8, <2>12, <2>13, <2>14 DEF Answers
<1> QED BY <1>1, <1>2

LEMMA OpenOK ==
  ASSUME NEW d, DeskOK(d), NEW app
  PROVE  /\ DeskOK(Open(d, app)) /\ Used(d.gui) \subseteq Used(Open(d, app).gui)
         /\ Answers(d) => Answers(Open(d, app))
         /\ app \notin Apps => Open(d, app) = d
<1>1. CASE app \notin Apps
  BY <1>1 DEF Open
<1>2. CASE app \in Apps /\ Reuses(d, app)
  <2>1. Existing(d, app) \in SUBSET Nat /\ Existing(d, app) # {}
    BY <1>2, DeskFields, UsedSlots DEF Existing, Reuses
  <2>2. PICK i : i = Min(Existing(d, app))
    OBVIOUS
  <2>3. i \in Shown(d.gui)
    BY <2>1, <2>2, MinLeast DEF Existing
  <2>4. Open(d, app) = FocusExisting(d, i)
    BY <1>2, <2>2 DEF Open
  <2>5. /\ DeskOK(FocusExisting(d, i)) /\ FocusExisting(d, i).gui.count = d.gui.count
        /\ Answers(d) => Answers(FocusExisting(d, i))
    BY <2>3, FocusExistingOK
  <2> QED BY <1>2, <2>4, <2>5 DEF Used
<1>3. CASE app \in Apps /\ ~Reuses(d, app)
  <2>1. PICK f : f = Find(d, app)
    OBVIOUS
  <2>2. Found(d, f) /\ StillIdle(d, f)
    BY <1>3, <2>1, FindOK
  <2>3. Open(d, app) = Finish(d, f)
    BY <1>3, <2>1 DEF Open
  <2> QED BY <1>3, <2>2, <2>3, FinishOK
<1> QED BY <1>1, <1>2, <1>3

\* term_get_by_window
LEMMA ByWindowIs ==
  ASSUME NEW d, NEW w, ByWindow(d, w) # None
  PROVE  /\ ByWindow(d, w) \in Terms /\ d.terms[ByWindow(d, w)].active /\ d.terms[ByWindow(d, w)].win = w
<1>1. Named(d, w) \in SUBSET Nat /\ Named(d, w) # {}
  BY TermsAreNaturals DEF Named, ByWindow
<1>2. Min(Named(d, w)) \in Named(d, w)
  BY <1>1, MinLeast
<1>3. ByWindow(d, w) = Min(Named(d, w))
  BY <1>1 DEF ByWindow
<1> QED BY <1>2, <1>3 DEF Named

LEMMA AnswersFound ==
  ASSUME NEW d, Answers(d), NEW w \in Shown(d.gui), d.gui.win[w].term
  PROVE  ByWindow(d, w) # None
<1>1. PICK t \in Terms : d.terms[t].active /\ d.terms[t].win = w
  BY DEF Answers
<1>2. t \in Named(d, w)
  BY <1>1 DEF Named
<1>3. Named(d, w) \in SUBSET Nat /\ Named(d, w) # {}
  BY <1>2, TermsAreNaturals DEF Named
<1>4. Min(Named(d, w)) \in Terms
  BY <1>3, MinLeast DEF Named
<1> QED BY <1>3, <1>4, TermsAreNaturals DEF ByWindow

LEMMA TypedKeyOK ==
  ASSUME NEW d, DeskOK(d), NEW k \in Typing
  PROVE  DeskOK(TypedKey(d, k)) /\ (Answers(d) => Answers(TypedKey(d, k)))
<1> DEFINE w == d.gui.focus
           t == IF w \in Visible(d.gui) /\ d.gui.win[w].term THEN ByWindow(d, w) ELSE None
<1>1. CASE t # None
  <2>1. t = ByWindow(d, w) /\ ByWindow(d, w) # None
    BY <1>1
  <2>2. t \in Terms /\ d.terms[t].active
    BY <2>1, ByWindowIs
  <2>3. PICK u : u = TermKey(d.terms[t], k)
    OBVIOUS
  <2>4. TypedKey(d, k) = [d EXCEPT !.terms[t] = u]
    BY <1>1, <2>3 DEF TypedKey
  <2> HIDE DEF t
  <2>5. TermOK(d.terms[t])
    BY <2>2 DEF DeskOK, TermOK
  <2>6. TermOK(u) /\ u.active = d.terms[t].active /\ u.win = d.terms[t].win
    BY <2>3, <2>5, TermKeyOK
  <2> QED BY <2>2, <2>4, <2>6, TermChanges
<1>2. CASE t = None
  <2>1. PICK h : h = HandleKey(d.gui, k)
    OBVIOUS
  <2>2. TypedKey(d, k) = [d EXCEPT !.gui = h]
    BY <1>2, <2>1 DEF TypedKey
  <2>3. GuiOK(h) /\ Tame(h, d.gui)
    BY <2>1, DeskFields, HandleKeyOK
  <2> QED BY <2>2, <2>3, GuiChanges
<1> QED BY <1>1, <1>2

(***************************************************************************)
(* desktop_tick: what the windows show.                                      *)
(***************************************************************************)
LEMMA RefreshOK ==
  ASSUME NEW d, DeskOK(d)
  PROVE  /\ DeskOK(Refresh(d)) /\ Refresh(d).gui.focus = d.gui.focus
         /\ Refresh(d).monitor = d.monitor
         /\ Answers(d) => Answers(Refresh(d))
<1> DEFINE Copied(w) == d.gui.win[w].term /\ w \in Shown(d.gui) /\ ByWindow(d, w) # None
                          /\ d.terms[ByWindow(d, w)].dirty
           New(w) == IF Copied(w) THEN [d.gui.win[w] EXCEPT !.text = <<"terminal", ByWindow(d, w)>>]
                     ELSE d.gui.win[w]
           Clean(t) == \E w \in Slots : Copied(w) /\ ByWindow(d, w) = t
           Term(t) == [d.terms[t] EXCEPT !.dirty = @ /\ ~Clean(t)]
<1>0. GuiOK(d.gui) /\ d.gui \in GuiT /\ d.terms \in [Terms -> TermT] /\ d.gui.win \in [Slots -> WinT]
  BY DeskFields, GuiFields
<1>1. ASSUME NEW w \in Slots
      PROVE  /\ New(w) \in WinT /\ New(w).shown = d.gui.win[w].shown /\ New(w).min = d.gui.win[w].min
             /\ New(w).anim = d.gui.win[w].anim /\ New(w).drag = d.gui.win[w].drag
             /\ New(w).title = d.gui.win[w].title /\ New(w).term = d.gui.win[w].term
             /\ New(w).text = d.gui.win[w].text \/ (d.gui.win[w].term /\ New(w).text[1] = "terminal")
  <2>0. d.gui.win[w] \in WinT
    BY <1>0
  <2>1. CASE ~Copied(w)
    BY <2>0, <2>1
  <2>2. CASE Copied(w)
    <3>1. PICK text \in Titles \X (Terms \cup {None}) : text = <<"terminal", ByWindow(d, w)>> /\ text[1] = "terminal"
      <4>1. ByWindow(d, w) \in Terms
        BY <2>2, ByWindowIs
      <4>2. "terminal" \in Titles
        BY DEF Titles, Apps
      <4>3. PICK x \in Terms \cup {None} : x = ByWindow(d, w)
        BY <4>1
      <4>4. <<"terminal", x>> \in Titles \X (Terms \cup {None}) /\ <<"terminal", x>>[1] = "terminal"
        BY ONLY <4>2, x \in Terms \cup {None}
      <4> QED BY <4>3, <4>4
    <3>2. PICK v : v = [d.gui.win[w] EXCEPT !.text = text]
      OBVIOUS
    <3>3. New(w) = v /\ d.gui.win[w].term
      BY <2>2, <3>1, <3>2
    <3>4. v \in WinT
      BY <2>0, <3>2 DEF WinT
    <3>5. /\ v.shown = d.gui.win[w].shown /\ v.min = d.gui.win[w].min
          /\ v.anim = d.gui.win[w].anim /\ v.drag = d.gui.win[w].drag
          /\ v.title = d.gui.win[w].title /\ v.term = d.gui.win[w].term /\ v.text = text
      BY <2>0, <3>2 DEF WinT
    <3> HIDE DEF New, Copied
    <3> QED BY <3>1, <3>3, <3>4, <3>5
  <2> QED BY <2>1, <2>2
<1>2. ASSUME NEW t \in Terms
      PROVE  /\ Term(t) \in TermT /\ Bounds(Term(t)) /\ History(Term(t)) /\ (Term(t).active => Screen(Term(t)))
             /\ Term(t).active = d.terms[t].active /\ Term(t).win = d.terms[t].win
  <2>1. d.terms[t] \in TermT /\ d.terms[t].dirty \in BOOLEAN
    BY <1>0, TermFields
  <2>2. PICK b \in BOOLEAN : b = (d.terms[t].dirty /\ ~Clean(t))
    OBVIOUS
  <2>3. PICK u : u = [d.terms[t] EXCEPT !.dirty = b]
    OBVIOUS
  <2>4. Term(t) = u
    BY <2>2, <2>3
  <2>5. /\ u \in TermT /\ u.cmd = d.terms[t].cmd /\ u.rows = d.terms[t].rows
        /\ u.active = d.terms[t].active /\ u.win = d.terms[t].win
        /\ u.ring = d.terms[t].ring /\ u.count = d.terms[t].count /\ u.log = d.terms[t].log
    BY <2>1, <2>2, <2>3 DEF TermT
  <2>6. /\ Bounds(d.terms[t]) /\ History(d.terms[t]) /\ (d.terms[t].active => Screen(d.terms[t]))
    BY DEF DeskOK
  <2>7. Bounds(u) /\ History(u) /\ (u.active => Screen(u))
    BY <2>5, <2>6 DEF Bounds, History, Screen
  <2> HIDE DEF Term
  <2> QED BY <2>4, <2>5, <2>7
<1>3. PICK e : /\ e = Refresh(d)
               /\ e = [d EXCEPT !.gui.win = [w \in Slots |-> New(w)], !.terms = [t \in Terms |-> Term(t)]]
  BY DEF Refresh
<1> HIDE DEF New, Term
<1>4. PICK win \in [Slots -> WinT] : win = [w \in Slots |-> New(w)]
  BY <1>1
<1>5. PICK terms \in [Terms -> TermT] : terms = [t \in Terms |-> Term(t)]
  BY <1>2
<1>6. PICK h : h = [d.gui EXCEPT !.win = win]
  OBVIOUS
<1>7. /\ h \in GuiT /\ h.win = win /\ h.count = d.gui.count /\ h.focus = d.gui.focus /\ h.left = d.gui.left
  BY <1>0, <1>6 DEF GuiT
<1>8. e = [d EXCEPT !.gui = h, !.terms = terms]
  BY <1>3, <1>4, <1>5, <1>6 DEF DeskOK, DeskT
<1>9. e \in DeskT /\ e.gui = h /\ e.terms = terms /\ e.monitor = d.monitor
  BY <1>5, <1>7, <1>8 DEF DeskOK, DeskT
<1>10. ASSUME NEW i \in Used(d.gui)
       PROVE  /\ WinOK(h.win[i], i = h.focus, h.left)
              /\ h.win[i].drag \in {"none", d.gui.win[i].drag}
              /\ h.win[i].shown => d.gui.win[i].shown
              /\ h.win[i].title = d.gui.win[i].title
              /\ h.win[i].term = d.gui.win[i].term
  <2>1. i \in Slots
    BY <1>0, UsedSlots
  <2>2. WinOK(d.gui.win[i], i = d.gui.focus, d.gui.left)
    BY <1>0 DEF GuiOK
  <2>3. h.win[i] = New(i)
    BY <1>4, <1>7, <2>1
  <2>4. WinOK(h.win[i], i = h.focus, h.left)
    BY <1>1, <1>7, <2>1, <2>2, <2>3 DEF WinOK
  <2> QED BY <1>1, <2>1, <2>3, <2>4
<1>11. h.focus # None => h.focus \in Used(d.gui)
  BY <1>0, <1>7 DEF GuiOK
<1>12. GuiOK(h) /\ Tame(h, d.gui)
  BY <1>0, <1>7, <1>10, <1>11, AllWindows
<1>13. DeskOK(e)
  <2>1. \A t \in Terms : terms[t] = Term(t)
    BY <1>5
  <2> QED BY <1>2, <1>9, <1>12, <2>1 DEF DeskOK
<1>14. Answers(d) => Answers(e)
  <2>1. \A w \in Shown(h) : w \in Shown(d.gui) /\ h.win[w].term = d.gui.win[w].term
    BY <1>12 DEF Tame, Shown, Used
  <2>2. \A t \in Terms : terms[t].active = d.terms[t].active /\ terms[t].win = d.terms[t].win
    BY <1>2, <1>5
  <2> QED BY <1>9, <2>1, <2>2 DEF Answers
<1> QED BY <1>3, <1>7, <1>9, <1>13, <1>14

LEMMA UpdateMonitorOK ==
  ASSUME NEW d, DeskOK(d)
  PROVE  /\ DeskOK(UpdateMonitor(d)) /\ UpdateMonitor(d).gui.focus = d.gui.focus
         /\ Answers(d) => Answers(UpdateMonitor(d))
<1>0. GuiOK(d.gui) /\ d.gui \in GuiT /\ d.gui.win \in [Slots -> WinT]
  BY DeskFields, GuiFields
<1> DEFINE i == d.monitor
<1>1. CASE i \in Shown(d.gui) /\ d.gui.win[i].title = "monitor"
  <2>0. i \in Used(d.gui) /\ i \in Slots /\ d.gui.win[i] \in WinT
    BY <1>0, <1>1, UsedSlots
  <2>1. PICK text \in Titles \X (Terms \cup {None}) : text = <<"monitor", None>> /\ text[1] = "monitor"
    <3>1. "monitor" \in Titles
      BY DEF Titles, Apps
    <3>2. PICK x \in Terms \cup {None} : x = None
      OBVIOUS
    <3>3. <<"monitor", x>> \in Titles \X (Terms \cup {None}) /\ <<"monitor", x>>[1] = "monitor"
      BY ONLY <3>1, x \in Terms \cup {None}
    <3> QED BY <3>2, <3>3
  <2>2. PICK w \in WinT : w = [d.gui.win[i] EXCEPT !.text = text]
    BY <2>0 DEF WinT
  <2>3. /\ w.shown = d.gui.win[i].shown /\ w.min = d.gui.win[i].min
        /\ w.anim = d.gui.win[i].anim /\ w.drag = d.gui.win[i].drag
        /\ w.title = d.gui.win[i].title /\ w.term = d.gui.win[i].term /\ w.text = text
    BY <2>0, <2>2 DEF WinT
  <2>4. PICK h : h = [d.gui EXCEPT !.win = [d.gui.win EXCEPT ![i] = w]]
    OBVIOUS
  <2>5. /\ h \in GuiT /\ h.win = [d.gui.win EXCEPT ![i] = w] /\ h.count = d.gui.count
        /\ h.focus = d.gui.focus /\ h.left = d.gui.left
    BY <1>0, <2>0, <2>2, <2>4 DEF GuiT
  <2>6. UpdateMonitor(d) = [d EXCEPT !.gui = h]
    BY <1>1, <2>1, <2>2, <2>4 DEF UpdateMonitor, DeskOK, DeskT, GuiT
  <2>7. WinOK(w, i = h.focus, h.left)
    <3>1. WinOK(d.gui.win[i], i = d.gui.focus, d.gui.left)
      BY <1>0, <2>0 DEF GuiOK
    <3> QED BY <1>1, <2>1, <2>3, <2>5, <3>1 DEF WinOK
  <2>8. GuiOK(h) /\ Tame(h, d.gui)
    BY <1>0, <2>0, <2>3, <2>5, <2>7, OneWindow
  <2>9. PICK e : e = [d EXCEPT !.gui = h]
    OBVIOUS
  <2>10. DeskOK(e) /\ e.gui = h /\ (Answers(d) => Answers(e))
    BY <2>8, <2>9, GuiChanges
  <2> QED BY <2>5, <2>6, <2>9, <2>10
<1>2. CASE ~(i \in Shown(d.gui) /\ d.gui.win[i].title = "monitor")
  <2>1. PICK e : e = UpdateMonitor(d) /\ e = [d EXCEPT !.monitor = None]
    BY <1>2 DEF UpdateMonitor
  <2>2. e \in DeskT /\ e.gui = d.gui /\ e.terms = d.terms
    BY <2>1 DEF DeskOK, DeskT
  <2> QED BY <2>1, <2>2 DEF DeskOK, Answers
<1> QED BY <1>1, <1>2

(***************************************************************************)
(* The mouse.                                                                *)
(***************************************************************************)
\* What the mouse drags does not change what it points at.
LEMMA SameHits ==
  ASSUME NEW g, GuiOK(g), NEW p \in Places \cup {0}
  PROVE  Hits(MouseMove(g, p)) = Hits(g)
<1>1. PICK h : h = MouseMove(g, p)
  OBVIOUS
<1>2. h.start = g.start /\ h.context = g.context
  BY <1>1 DEF MouseMove, GuiOK, GuiT
<1>3. Shown(h) = Shown(g) /\ Visible(h) = Visible(g)
  BY <1>1, MouseMoveOK
<1> QED BY <1>1, <1>2, <1>3 DEF Hits

\* desktop_mouse_event, but for what it opens
LEMMA MouseEventOK ==
  ASSUME NEW g, GuiOK(g), NEW p \in Places \cup {0}, NEW drawing \in BOOLEAN,
         NEW left \in BOOLEAN, NEW right \in BOOLEAN, NEW hit,
         \/ hit \in Hits(g)
         \/ ~RightPressed(g, right) /\ ~LeftPressed(g, left, right),
         NEW m, m = IF drawing THEN g ELSE MouseMove(g, p)
  PROVE  /\ GuiOK(MouseClick(m, left, right, hit, drawing))
         /\ Tame(MouseClick(m, left, right, hit, drawing), g)
         /\ drawing => MouseClick(m, left, right, hit, drawing) = g
<1>1. GuiOK(m) /\ Tame(m, g) /\ m.left = g.left /\ m.right = g.right /\ Hits(m) = Hits(g)
  <2>1. CASE drawing
    BY <2>1 DEF Tame
  <2>2. CASE ~drawing
    BY <2>2, MouseMoveOK, SameHits
  <2> QED BY <2>1, <2>2
<1>2. \/ hit \in Hits(m)
      \/ ~RightPressed(m, right) /\ ~LeftPressed(m, left, right)
  BY <1>1 DEF RightPressed, LeftPressed
<1>3. PICK h : h = MouseClick(m, left, right, hit, drawing)
  OBVIOUS
<1>4. GuiOK(h) /\ Tame(h, m) /\ (drawing => h = m)
  BY <1>1, <1>2, <1>3, MouseClickOK
<1>5. Tame(h, g)
  BY <1>1, <1>4, TameChain
<1> QED BY <1>3, <1>4, <1>5

(***************************************************************************)
(* gui_render_all.                                                           *)
(***************************************************************************)
\* What the frame has of the windows to be seen, from its beginning to its end
FrameOK(g, f) ==
  /\ f \in [focus : Slots \cup {None}, next : Nat, drawn : Seq(Slots)]
  /\ f.next <= g.count + 1
  /\ g.focus \in {f.focus, None}
  /\ Len(f.drawn) = Cardinality(Range(f.drawn))
  /\ Range(f.drawn) = {i \in Visible(g) : f.next > g.count \/ (i < f.next /\ i # f.focus)}
  /\ (f.next > g.count /\ g.focus # None) => f.drawn # <<>> /\ Last(f.drawn) = g.focus

LEMMA RangeOf ==
  ASSUME NEW S, NEW s \in Seq(S), NEW e \in S
  PROVE  /\ Range(Append(s, e)) = Range(s) \cup {e} /\ Range(s) \subseteq S
         /\ Last(Append(s, e)) = e /\ Append(s, e) # <<>> /\ Append(s, e) \in Seq(S)
         /\ Len(Append(s, e)) = Len(s) + 1 /\ Len(s) \in Nat
<1>1. PICK n \in Nat : n = Len(s) /\ DOMAIN s = 1 .. n
  OBVIOUS
<1>a. PICK t : t = Append(s, e)
  OBVIOUS
<1>b. /\ t \in Seq(S) /\ Len(t) = Len(s) + 1 /\ t[Len(s) + 1] = e
      /\ \A k \in 1 .. Len(s) : t[k] = s[k]
  BY ONLY <1>a, s \in Seq(S), e \in S, AppendFacts
<1>2. /\ t = Append(s, e) /\ Len(t) = n + 1 /\ DOMAIN t = 1 .. n + 1 /\ t[n + 1] = e
      /\ \A k \in 1 .. n : t[k] = s[k]
  BY <1>1, <1>a, <1>b
<1>3. Range(t) = Range(s) \cup {e}
  <2>1. ASSUME NEW x \in Range(t) PROVE x \in Range(s) \cup {e}
    <3>1. PICK k \in 1 .. n + 1 : x = t[k]
      BY <1>2 DEF Range
    <3>2. CASE k = n + 1
      BY <1>2, <3>1, <3>2
    <3>3. CASE k # n + 1
      <4>1. k \in 1 .. n
        BY <3>3
      <4> QED BY <1>1, <1>2, <3>1, <4>1 DEF Range
    <3> QED BY <3>2, <3>3
  <2>2. ASSUME NEW x \in Range(s) PROVE x \in Range(t)
    <3>1. PICK k \in 1 .. n : x = s[k]
      BY <1>1 DEF Range
    <3>2. k \in 1 .. n + 1
      OBVIOUS
    <3> QED BY <1>2, <3>1, <3>2 DEF Range
  <2>3. e \in Range(t)
    <3>1. n + 1 \in 1 .. n + 1
      OBVIOUS
    <3> QED BY <1>2, <3>1 DEF Range
  <2> QED BY <2>1, <2>2, <2>3
<1>4. Range(s) \subseteq S
  BY <1>1 DEF Range
<1>5. Last(t) = e /\ t # <<>>
  BY <1>2 DEF Last
<1> QED BY <1>1, <1>2, <1>3, <1>4, <1>5, <1>b

LEMMA SlotsFinite ==
  ASSUME NEW S, S \subseteq Slots
  PROVE  IsFiniteSet(S) /\ Cardinality(S) \in Nat
<1>1. IsFiniteSet(Slots)
  BY GuiAssumption, FS_Interval DEF Slots
<1>2. IsFiniteSet(S)
  BY <1>1, FS_Subset
<1> QED BY <1>2, FS_CardinalityType

LEMMA BegunOK ==
  ASSUME NEW g, GuiOK(g)
  PROVE  FrameOK(g, [NoFrame EXCEPT !.focus = g.focus])
<1>0. g \in GuiT /\ g.focus \in Slots \cup {None} /\ g.count \in Nat
  BY GuiFields, GuiAssumption DEF GuiOK
<1>1. PICK f : f = [NoFrame EXCEPT !.focus = g.focus]
  OBVIOUS
<1>2. f = [focus |-> g.focus, next |-> 0, drawn |-> <<>>]
  BY <1>1 DEF NoFrame
<1>3. f.focus = g.focus /\ f.next = 0 /\ f.drawn = <<>>
  BY <1>2
<1>4. f \in [focus : Slots \cup {None}, next : Nat, drawn : Seq(Slots)]
  BY <1>0, <1>2
<1>5. Range(f.drawn) = {} /\ Len(f.drawn) = 0
  BY <1>3 DEF Range
<1>6. {i \in Visible(g) : f.next > g.count \/ (i < f.next /\ i # f.focus)} = {}
  <2>1. \A i \in Visible(g) : i \in Nat
    BY <1>0, UsedSlots
  <2> QED BY <1>0, <1>3, <2>1
<1>7. Cardinality({}) = 0
  BY FS_EmptySet
<1>8. ~(f.next > g.count) /\ f.next <= g.count + 1
  BY <1>0, <1>3
<1> QED BY <1>0, <1>1, <1>3, <1>4, <1>5, <1>6, <1>7, <1>8 DEF FrameOK

\* A window of the frame: drawn, or not any more there
LEMMA DrawnFrame ==
  ASSUME NEW g, GuiOK(g), NEW f, FrameOK(g, f), NEW i \in Used(g),
         \/ f.next < g.count /\ i = f.next /\ i # f.focus
         \/ f.next = g.count /\ i = f.focus,
         NEW h, h = RenderWindow(g, i),
         NEW e, e = [f EXCEPT !.next = @ + 1, !.drawn = IF i \in Visible(h) THEN Append(@, i) ELSE @]
  PROVE  FrameOK(h, e)
<1>0. /\ g \in GuiT /\ g.count \in Nat /\ i \in Slots /\ i \in Nat /\ i < g.count /\ None \notin Slots
      /\ Visible(g) \subseteq Used(g) /\ \A j \in Visible(g) : j \in Nat /\ j < g.count
  <2>1. g \in GuiT
    BY DEF GuiOK
  <2>2. g.count \in Nat /\ \A j \in Used(g) : j \in Nat /\ j < g.count
    BY <2>1, GuiFields, GuiAssumption DEF Used
  <2> QED BY <2>1, <2>2, UsedSlots
<1>1. /\ GuiOK(h) /\ Tame(h, g) /\ h.focus \in {g.focus, None} /\ Visible(h) \subseteq Visible(g)
      /\ \A j \in Used(g) : j # i => (j \in Visible(h) <=> j \in Visible(g))
  BY RenderWindowOK
<1>2. h.count = g.count
  BY <1>1 DEF Tame
<1>3. /\ f \in [focus : Slots \cup {None}, next : Nat, drawn : Seq(Slots)]
      /\ f.next \in Nat /\ f.drawn \in Seq(Slots) /\ f.focus \in Slots \cup {None}
      /\ g.focus \in {f.focus, None}
      /\ Len(f.drawn) = Cardinality(Range(f.drawn))
      /\ Range(f.drawn) = {j \in Visible(g) : j < f.next /\ j # f.focus}
  BY <1>0 DEF FrameOK
<1>4. PICK drawn : drawn = IF i \in Visible(h) THEN Append(f.drawn, i) ELSE f.drawn
  OBVIOUS
<1>5. PICK n \in Nat : n = f.next + 1
  BY <1>3
<1>6. e = [f EXCEPT !.next = n, !.drawn = drawn]
  BY <1>3, <1>4, <1>5
<1>7. e.next = n /\ e.drawn = drawn /\ e.focus = f.focus
  BY <1>3, <1>6
<1>8. i \notin Range(f.drawn)
  BY <1>0, <1>3
<1>9. /\ drawn \in Seq(Slots)
      /\ Range(drawn) = Range(f.drawn) \cup (IF i \in Visible(h) THEN {i} ELSE {})
      /\ Len(drawn) = Cardinality(Range(drawn))
      /\ i \in Visible(h) => drawn # <<>> /\ Last(drawn) = i
  <2>1. CASE i \in Visible(h)
    <3>1. drawn = Append(f.drawn, i)
      BY <1>4, <2>1
    <3>2. /\ Range(drawn) = Range(f.drawn) \cup {i} /\ Range(f.drawn) \subseteq Slots
          /\ Last(drawn) = i /\ drawn # <<>> /\ drawn \in Seq(Slots)
          /\ Len(drawn) = Len(f.drawn) + 1
      BY <1>0, <1>3, <3>1, RangeOf
    <3>3. IsFiniteSet(Range(f.drawn))
      BY <3>2, SlotsFinite
    <3>4. Cardinality(Range(f.drawn) \cup {i}) = Cardinality(Range(f.drawn)) + 1
      BY <1>8, <3>3, FS_AddElement
    <3> QED BY <1>3, <2>1, <3>2, <3>4
  <2>2. CASE i \notin Visible(h)
    BY <1>3, <1>4, <2>2
  <2> QED BY <2>1, <2>2
<1>10. e \in [focus : Slots \cup {None}, next : Nat, drawn : Seq(Slots)]
  BY <1>3, <1>6, <1>9
<1>11. e.next <= h.count + 1
  BY <1>0, <1>2, <1>3, <1>5, <1>7
<1>12. Range(drawn) = {j \in Visible(h) : n > h.count \/ (j < n /\ j # f.focus)}
  <2>1. ASSUME NEW j, j # i
        PROVE  j \in Range(drawn) <=> (j \in Visible(h) /\ (n > h.count \/ (j < n /\ j # f.focus)))
    <3>1. j \in Range(drawn) <=> (j \in Visible(g) /\ j < f.next /\ j # f.focus)
      BY <1>3, <1>9, <2>1
    <3>2. j \in Visible(h) <=> j \in Visible(g)
      BY <1>0, <1>1, <2>1
    <3>3. ASSUME j \in Visible(g)
          PROVE  (j < f.next /\ j # f.focus) <=> (n > h.count \/ (j < n /\ j # f.focus))
      <4>1. j \in Nat /\ j < g.count
        BY <1>0, <3>3
      <4> QED BY <1>0, <1>2, <1>3, <1>5, <2>1, <4>1
    <3> QED BY <3>1, <3>2, <3>3
  <2>2. i \in Range(drawn) <=> (i \in Visible(h) /\ (n > h.count \/ (i < n /\ i # f.focus)))
    <3>1. i \in Range(drawn) <=> i \in Visible(h)
      BY <1>8, <1>9
    <3>2. n > h.count \/ (i < n /\ i # f.focus)
      BY <1>0, <1>2, <1>3, <1>5
    <3> QED BY <3>1, <3>2
  <2> QED BY <2>1, <2>2
<1>13. ASSUME n > h.count, h.focus # None PROVE drawn # <<>> /\ Last(drawn) = h.focus
  <2>1. f.next = g.count /\ i = f.focus
    BY <1>0, <1>2, <1>3, <1>5, <1>13
  <2>2. h.focus = i
    BY <1>1, <1>3, <1>13, <2>1
  <2>3. i \in Visible(h)
    <3>1. i \in Used(h)
      BY <1>2 DEF Used
    <3>2. WinOK(h.win[i], i = h.focus, h.left)
      BY <1>1, <3>1 DEF GuiOK
    <3> QED BY <2>2, <3>1, <3>2 DEF WinOK, Visible, Shown
  <2> QED BY <1>9, <2>2, <2>3
<1>14. h.focus \in {e.focus, None}
  BY <1>1, <1>3, <1>7
<1> QED BY <1>7, <1>9, <1>10, <1>11, <1>12, <1>13, <1>14 DEF FrameOK

LEMMA SkippedFrame ==
  ASSUME NEW g, GuiOK(g), NEW f, FrameOK(g, f),
         \/ f.next < g.count /\ f.next = f.focus
         \/ f.next = g.count /\ f.focus \notin Used(g),
         NEW e, e = [f EXCEPT !.next = @ + 1]
  PROVE  FrameOK(g, e)
<1>0. /\ g \in GuiT /\ g.count \in Nat
      /\ \A j \in Visible(g) : j \in Nat /\ j < g.count /\ j \in Used(g)
  <2>1. g \in GuiT
    BY DEF GuiOK
  <2>2. g.count \in Nat /\ \A j \in Used(g) : j \in Nat /\ j < g.count
    BY <2>1, GuiFields, GuiAssumption DEF Used
  <2> QED BY <2>1, <2>2, UsedSlots
<1>3. /\ f \in [focus : Slots \cup {None}, next : Nat, drawn : Seq(Slots)]
      /\ f.next \in Nat /\ f.drawn \in Seq(Slots) /\ f.focus \in Slots \cup {None}
      /\ g.focus \in {f.focus, None}
      /\ Len(f.drawn) = Cardinality(Range(f.drawn))
      /\ Range(f.drawn) = {j \in Visible(g) : j < f.next /\ j # f.focus}
  BY <1>0 DEF FrameOK
<1>4. e.next = f.next + 1 /\ e.drawn = f.drawn /\ e.focus = f.focus
  BY <1>3
<1>5. e \in [focus : Slots \cup {None}, next : Nat, drawn : Seq(Slots)]
  BY <1>3
<1>6. \A j \in Visible(g) : (j < f.next /\ j # f.focus) <=> (e.next > g.count \/ (j < e.next /\ j # f.focus))
  BY <1>0, <1>3, <1>4
<1>7. ~(e.next > g.count /\ g.focus # None)
  <2>1. SUFFICES ASSUME e.next > g.count, g.focus # None PROVE FALSE
    OBVIOUS
  <2>2. f.next = g.count /\ f.focus \notin Used(g)
    BY <1>0, <1>3, <1>4, <2>1
  <2>3. g.focus = f.focus /\ g.focus \in Used(g)
    BY <1>3, <2>1 DEF GuiOK
  <2> QED BY <2>2, <2>3
<1>8. e.next <= g.count + 1
  BY <1>0, <1>3, <1>4
<1> QED BY <1>3, <1>4, <1>5, <1>6, <1>7, <1>8 DEF FrameOK

\* The frame does not see what is neither shown nor hidden nor given the focus.
LEMMA SameFrame ==
  ASSUME NEW g, NEW h, NEW f, FrameOK(g, f), h.count = g.count, h.focus = g.focus,
         Visible(h) = Visible(g)
  PROVE  FrameOK(h, f)
BY DEF FrameOK

(***************************************************************************)
(* The inductive invariant.                                                  *)
(***************************************************************************)
UserT == [inputs : Nat, runs : Nat, raced : BOOLEAN]
DInv ==
  /\ DeskOK(desk)
  /\ user \in UserT
  /\ ~user.raced => Answers(desk)
  /\ pc = "opening" => Found(desk, opening) /\ (~user.raced => StillIdle(desk, opening))
  /\ SpeakerOK(speaker, pc = "note")
  /\ mouse \in MouseT
  /\ Counted(tasks)
  /\ pc = "draw" => FrameOK(desk.gui, frame)

\* The steps that neither open nor draw nor sound anything
LEMMA CalmStep ==
  ASSUME DInv, DeskOK(desk'), Answers(desk) => Answers(desk'),
         user' \in UserT, user'.raced = user.raced,
         pc' \in {"text", "poll", "tick", "tasks"},
         SpeakerOK(speaker', FALSE), mouse' \in MouseT, Counted(tasks')
  PROVE  DInv'
BY DEF DInv, SpeakerOK

LEMMA SpeakerStill ==
  ASSUME NEW s, NEW n, SpeakerOK(s, n)
  PROVE  SpeakerOK(s, FALSE)
BY DEF SpeakerOK

\* What all of the calm steps but a few leave alone
Calm == speaker' = speaker /\ mouse' = mouse /\ tasks' = tasks /\ user' = user

LEMMA CalmDesk ==
  ASSUME DInv, DeskOK(desk'), Answers(desk) => Answers(desk'),
         pc' \in {"text", "poll", "tick", "tasks"}, Calm
  PROVE  DInv'
<1>1. SpeakerOK(speaker', FALSE)
  BY SpeakerStill DEF DInv, Calm
<1>2. user' \in UserT /\ user'.raced = user.raced /\ mouse' \in MouseT /\ Counted(tasks')
  BY DEF DInv, Calm
<1> QED BY <1>1, <1>2, CalmStep

LEMMA CalmSame ==
  ASSUME DInv, desk' = desk, pc' \in {"text", "poll", "tick", "tasks"}, Calm
  PROVE  DInv'
<1>1. DeskOK(desk') /\ (Answers(desk) => Answers(desk'))
  BY DEF DInv
<1> QED BY <1>1, CalmDesk

LEMMA GuiStep ==
  ASSUME DInv, NEW h, GuiOK(h), Tame(h, desk.gui), desk' = [desk EXCEPT !.gui = h],
         pc' \in {"text", "poll", "tick", "tasks"}, Calm
  PROVE  DInv'
<1>1. DeskOK(desk') /\ (Answers(desk) => Answers(desk'))
  BY GuiChanges DEF DInv
<1> QED BY <1>1, CalmDesk

LEMMA GuiStill ==
  DInv => GuiOK(desk.gui) /\ desk = [desk EXCEPT !.gui = desk.gui] /\ Tame(desk.gui, desk.gui)
<1> SUFFICES ASSUME DInv PROVE GuiOK(desk.gui) /\ desk = [desk EXCEPT !.gui = desk.gui] /\ Tame(desk.gui, desk.gui)
  OBVIOUS
<1>1. DeskOK(desk)
  BY DEF DInv
<1>2. desk = [desk EXCEPT !.gui = desk.gui]
  BY <1>1 DEF DeskOK, DeskT
<1> QED BY <1>1, <1>2 DEF DeskOK, Tame

\* Keys that open nothing
LEMMA KeysKeep ==
  ASSUME DInv, NoKey \/ Modifier \/ AltUp \/ AltTab \/ TabKey \/ Esc \/ Release
  PROVE  DInv'
<1>1. CASE NoKey
  BY <1>1, CalmSame DEF NoKey, Calm
<1>2. CASE Modifier
  BY <1>2, CalmSame DEF Modifier, Calm
<1>3. CASE AltUp
  <2>1. PICK h : h = IF desk.gui.tab THEN TabSelect(desk.gui) ELSE desk.gui
    OBVIOUS
  <2>2. GuiOK(h) /\ Tame(h, desk.gui)
    BY <2>1, TabSelectOK, GuiStill
  <2>3. desk' = [desk EXCEPT !.gui = h]
    BY <1>3, <2>1 DEF AltUp
  <2>4. Calm /\ pc' = "tick"
    BY <1>3 DEF AltUp, Calm
  <2> QED BY <2>2, <2>3, <2>4, GuiStep
<1>4. CASE AltTab
  <2>1. PICK h : h = TabStep(desk.gui, IF kbd.shift THEN -1 ELSE 1)
    OBVIOUS
  <2>2. GuiOK(h) /\ Tame(h, desk.gui)
    BY <2>1, TabStepOK, GuiStill
  <2>3. desk' = [desk EXCEPT !.gui = h]
    BY <1>4, <2>1 DEF AltTab
  <2>4. Calm /\ pc' = "tick"
    BY <1>4 DEF AltTab, Goes, Calm
  <2> QED BY <2>2, <2>3, <2>4, GuiStep
<1>5. CASE TabKey
  BY <1>5, CalmSame DEF TabKey, Goes, Calm
<1>6. CASE Esc
  BY <1>6, CalmSame DEF Esc, Calm
<1>7. CASE Release
  BY <1>7, CalmSame DEF Release, Goes, Calm
<1> QED BY <1>1, <1>2, <1>3, <1>4, <1>5, <1>6, <1>7

LEMMA TypeKeeps ==
  ASSUME DInv, Type
  PROVE  DInv'
<1>1. PICK k \in Typing : /\ Goes(k) /\ speaker' = speaker
                          /\ IF Char(k) = "none" THEN UNCHANGED desk ELSE desk' = TypedKey(desk, Char(k))
  BY DEF Type
<1>2. Calm /\ pc' = "tick"
  BY <1>1 DEF Goes, Calm
<1>3. CASE Char(k) = "none"
  BY <1>1, <1>2, <1>3, CalmSame
<1>4. CASE Char(k) # "none"
  <2>1. Char(k) \in Typing
    BY <1>1, <1>4 DEF Char, Typing
  <2>2. DeskOK(desk)
    BY DEF DInv
  <2>3. desk' = TypedKey(desk, Char(k))
    BY <1>1, <1>4
  <2>4. DeskOK(desk') /\ (Answers(desk) => Answers(desk'))
    BY <2>1, <2>2, <2>3, TypedKeyOK
  <2> QED BY <1>2, <2>4, CalmDesk
<1> QED BY <1>3, <1>4

LEMMA KeyKeeps ==
  ASSUME DInv, NEW k, Key(k)
  PROVE  DInv'
<1>1. user' \in UserT /\ user'.raced = user.raced
  <2>1. user \in UserT /\ user' = [user EXCEPT !.inputs = IF k \in Releases THEN @ ELSE @ + 1]
    BY DEF Key, DInv
  <2> QED BY <2>1 DEF UserT
<1>2. /\ pc' = "poll" /\ speaker' = speaker /\ mouse' = mouse /\ tasks' = tasks /\ desk' = desk
  BY DEF Key
<1>3. SpeakerOK(speaker', FALSE) /\ mouse' \in MouseT /\ Counted(tasks') /\ DeskOK(desk')
        /\ (Answers(desk) => Answers(desk'))
  BY <1>2, SpeakerStill DEF DInv
<1> QED BY <1>1, <1>2, <1>3, CalmStep

LEMMA OpenKeyKeeps ==
  ASSUME DInv, OpenKey
  PROVE  DInv'
<1>1. PICK k \in DOMAIN Shortcut :
        /\ IF Reuses(desk, Shortcut[k])
           THEN /\ desk' = FocusExisting(desk, Min(Existing(desk, Shortcut[k])))
                /\ pc' = "tick" /\ UNCHANGED opening
           ELSE opening' = Find(desk, Shortcut[k]) /\ pc' = "opening" /\ UNCHANGED desk
        /\ speaker' = speaker /\ tasks' = tasks /\ mouse' = mouse /\ user' = user
  BY DEF OpenKey
<1>2. PICK app \in Apps : app = Shortcut[k]
  BY <1>1 DEF Shortcut, Apps
<1>3. DeskOK(desk)
  BY DEF DInv
<1>4. CASE Reuses(desk, app)
  <2>1. Existing(desk, app) \in SUBSET Nat /\ Existing(desk, app) # {}
    BY <1>3, <1>4, DeskFields, UsedSlots DEF Existing, Reuses
  <2>2. PICK i : i = Min(Existing(desk, app))
    OBVIOUS
  <2>3. i \in Shown(desk.gui)
    BY <2>1, <2>2, MinLeast DEF Existing
  <2>4. desk' = FocusExisting(desk, i) /\ pc' = "tick" /\ Calm
    BY <1>1, <1>2, <1>4, <2>2 DEF Calm
  <2>5. DeskOK(desk') /\ (Answers(desk) => Answers(desk'))
    BY <1>3, <2>3, <2>4, FocusExistingOK
  <2> QED BY <2>4, <2>5, CalmDesk
<1>5. CASE ~Reuses(desk, app)
  <2>1. opening' = Find(desk, app) /\ pc' = "opening" /\ desk' = desk
    BY <1>1, <1>2, <1>5
  <2>2. Found(desk, opening') /\ StillIdle(desk, opening')
    BY <1>3, <2>1, FindOK
  <2>3. SpeakerOK(speaker', FALSE)
    BY <1>1, SpeakerStill DEF DInv
  <2>4. Found(desk', opening') /\ StillIdle(desk', opening')
    BY <2>1, <2>2
  <2>5. /\ DeskOK(desk') /\ user' \in UserT /\ (~user'.raced => Answers(desk'))
        /\ mouse' \in MouseT /\ Counted(tasks')
    BY <1>1, <2>1 DEF DInv
  <2>6. SpeakerOK(speaker', pc' = "note")
    <3>1. (pc' = "note") = FALSE
      BY <2>1
    <3> QED BY <2>3, <3>1
  <2>7. pc' # "draw"
    BY <2>1
  <2> QED BY <2>4, <2>5, <2>6, <2>7 DEF DInv
<1> QED BY <1>4, <1>5

LEMMA OpenEndKeeps ==
  ASSUME DInv, OpenEnd
  PROVE  DInv'
<1>1. /\ pc = "opening" /\ pc' = "tick" /\ desk' = Finish(desk, opening)
      /\ Plays(desk, opening.app, opening.slot)
      /\ tasks' = tasks /\ mouse' = mouse /\ user' = user
  BY DEF OpenEnd
<1>2. DeskOK(desk) /\ Found(desk, opening) /\ (~user.raced => StillIdle(desk, opening) /\ Answers(desk))
  BY <1>1 DEF DInv
<1>3. DeskOK(desk') /\ (~user.raced => Answers(desk'))
  BY <1>1, <1>2, FinishOK
<1>4. SpeakerOK(speaker', FALSE)
  <2>1. CASE Sounds(desk, opening.app, opening.slot)
    BY <1>1, <2>1, QueuedOK DEF Plays
  <2>2. CASE ~Sounds(desk, opening.app, opening.slot)
    <3>1. speaker' = speaker
      BY <1>1, <2>2 DEF Plays
    <3> QED BY <3>1, SpeakerStill DEF DInv
  <2> QED BY <2>1, <2>2
<1>5. user' \in UserT /\ (~user'.raced => Answers(desk')) /\ mouse' \in MouseT /\ Counted(tasks')
  BY <1>1, <1>3 DEF DInv
<1>6. SpeakerOK(speaker', pc' = "note")
  <2>1. (pc' = "note") = FALSE
    BY <1>1
  <2> QED BY <1>4, <2>1
<1>7. pc' # "draw" /\ pc' # "opening"
  BY <1>1
<1> QED BY <1>3, <1>5, <1>6, <1>7 DEF DInv

LEMMA TickKeeps ==
  ASSUME DInv, Tick
  PROVE  DInv'
<1>1. /\ pc = "tick" /\ tasks' = Elapse(tasks) /\ desk' = desk /\ mouse' = mouse /\ user' = user
      /\ IF ~speaker.on /\ speaker.idx >= speaker.count THEN pc' = "tasks" /\ speaker' = speaker
         ELSE /\ speaker' = [speaker EXCEPT !.left = Max({0, @ - 1})]
              /\ pc' = IF speaker'.left = 0 THEN "note" ELSE "tasks"
  BY DEF Tick
<1>2. SpeakerOK(speaker, FALSE)
  BY SpeakerStill DEF DInv
<1>3. SpeakerOK(speaker', pc' = "note") /\ pc' \in {"note", "tasks"}
  <2>1. CASE ~speaker.on /\ speaker.idx >= speaker.count
    <3>1. pc' = "tasks" /\ speaker' = speaker /\ (pc' = "note") = FALSE
      BY <1>1, <2>1
    <3> QED BY <1>2, <3>1
  <2>2. CASE ~(~speaker.on /\ speaker.idx >= speaker.count)
    <3>1. PICK on, x, c, l : speaker = [on |-> on, idx |-> x, count |-> c, left |-> l]
      BY <1>2 DEF SpeakerOK
    <3>2. on \in BOOLEAN /\ x \in Nat /\ c \in {0, 2, Chime} /\ x <= c /\ (on => x < c) /\ c \in Nat
      BY <1>2, <3>1, DesktopAssumption DEF SpeakerOK
    <3>3. x < c
      BY <2>2, <3>1, <3>2
    <3>4. PICK left : left = Max({0, speaker.left - 1})
      OBVIOUS
    <3>5. speaker' = [on |-> on, idx |-> x, count |-> c, left |-> left]
      BY <1>1, <2>2, <3>1, <3>4
    <3>6. \A b \in BOOLEAN : SpeakerOK(speaker', b)
      BY <3>2, <3>3, <3>5 DEF SpeakerOK
    <3>7. pc' \in {"note", "tasks"} /\ (pc' = "note") \in BOOLEAN
      BY <1>1, <2>2
    <3> QED BY <3>6, <3>7
  <2> QED BY <2>1, <2>2
<1>4. Counted(tasks')
  BY <1>1, ElapseKeeps DEF DInv
<1>5. /\ DeskOK(desk') /\ user' \in UserT /\ (~user'.raced => Answers(desk')) /\ mouse' \in MouseT
  BY <1>1 DEF DInv
<1>6. pc' # "draw" /\ pc' # "opening"
  BY <1>3
<1> QED BY <1>3, <1>4, <1>5, <1>6 DEF DInv

LEMMA NoteKeeps ==
  ASSUME DInv, Note
  PROVE  DInv'
<1>1. /\ pc = "note" /\ pc' = "tasks" /\ speaker' = NextNote(speaker)
      /\ tasks' = tasks /\ desk' = desk /\ mouse' = mouse /\ user' = user
  BY DEF Note
<1>2. SpeakerOK(speaker', FALSE)
  <2>1. (pc = "note") = TRUE
    BY <1>1
  <2>2. SpeakerOK(speaker, TRUE)
    BY <2>1 DEF DInv
  <2> QED BY <1>1, <2>2, NextNoteOK
<1>3. /\ DeskOK(desk') /\ (Answers(desk) => Answers(desk')) /\ user' \in UserT /\ user'.raced = user.raced
      /\ mouse' \in MouseT /\ Counted(tasks')
  BY <1>1 DEF DInv
<1> QED BY <1>1, <1>2, <1>3, CalmStep

LEMMA RunTaskKeeps ==
  ASSUME DInv, RunTask
  PROVE  DInv'
<1>1. /\ pc = "tasks" /\ pc' = "tasks" /\ speaker' = speaker /\ Due(tasks) # {}
      /\ desk' = desk /\ mouse' = mouse /\ user' = user
      /\ \E c \in Callbacks(tasks, Min(Due(tasks))) : tasks' = Ran(c, Min(Due(tasks)))
  BY DEF RunTask
<1>2. Counted(tasks)
  BY DEF DInv
<1>3. PICK i : i = Min(Due(tasks)) /\ i \in Active(tasks)
  BY <1>1, <1>2, DueTaken
<1>4. PICK c \in Callbacks(tasks, i) : tasks' = Ran(c, i)
  BY <1>1, <1>3
<1>5. Counted(tasks')
  BY <1>2, <1>3, <1>4, RanKeeps
<1>6. /\ DeskOK(desk') /\ (Answers(desk) => Answers(desk')) /\ user' \in UserT /\ user'.raced = user.raced
      /\ mouse' \in MouseT /\ SpeakerOK(speaker', FALSE)
  BY <1>1, SpeakerStill DEF DInv
<1> QED BY <1>1, <1>5, <1>6, CalmStep

LEMMA TickEndKeeps ==
  ASSUME DInv, TickEnd
  PROVE  DInv'
<1>1. /\ pc = "tasks" /\ desk' \in {Refresh(desk), UpdateMonitor(Refresh(desk))}
      /\ speaker' = speaker /\ tasks' = tasks /\ mouse' = mouse /\ user' = user
      /\ IF Dragged(desk.gui) \/ beat = 0 THEN BeginFrame(desk.gui) ELSE pc' = "poll"
  BY DEF TickEnd
<1>2. DeskOK(desk)
  BY DEF DInv
<1>3. DeskOK(desk') /\ desk'.gui.focus = desk.gui.focus /\ (Answers(desk) => Answers(desk'))
  <2>1. PICK d : d = Refresh(desk)
    OBVIOUS
  <2>2. DeskOK(d) /\ d.gui.focus = desk.gui.focus /\ (Answers(desk) => Answers(d))
    BY <1>2, <2>1, RefreshOK
  <2>3. PICK e : e = UpdateMonitor(d)
    OBVIOUS
  <2>4. DeskOK(e) /\ e.gui.focus = d.gui.focus /\ (Answers(d) => Answers(e))
    BY <2>2, <2>3, UpdateMonitorOK
  <2>5. desk' = d \/ desk' = e
    BY <1>1, <2>1, <2>3
  <2> QED BY <2>2, <2>4, <2>5
<1>4. CASE Dragged(desk.gui) \/ beat = 0
  <2>1. pc' = "draw" /\ frame' = [NoFrame EXCEPT !.focus = desk'.gui.focus]
    BY <1>1, <1>3, <1>4 DEF BeginFrame
  <2>2. FrameOK(desk'.gui, frame')
    <3>1. GuiOK(desk'.gui)
      BY <1>3 DEF DeskOK
    <3> QED BY <2>1, <3>1, BegunOK
  <2>3. SpeakerOK(speaker', FALSE) /\ (pc' = "note") = FALSE
    BY <1>1, <2>1, SpeakerStill DEF DInv
  <2>4. SpeakerOK(speaker', pc' = "note")
    BY <2>3
  <2>5. user' \in UserT /\ (~user'.raced => Answers(desk')) /\ mouse' \in MouseT /\ Counted(tasks')
    BY <1>1, <1>3 DEF DInv
  <2>6. pc' # "opening"
    BY <2>1
  <2> QED BY <1>3, <2>2, <2>4, <2>5, <2>6 DEF DInv
<1>5. CASE ~(Dragged(desk.gui) \/ beat = 0)
  BY <1>1, <1>3, <1>5, CalmDesk DEF Calm
<1> QED BY <1>4, <1>5

LEMMA DrawKeeps ==
  ASSUME DInv, Draw
  PROVE  DInv'
<1>1. /\ pc = "draw" /\ frame.next <= desk.gui.count
      /\ speaker' = speaker /\ tasks' = tasks /\ mouse' = mouse /\ pc' = pc /\ user' = user
      /\ IF frame.next < desk.gui.count
         THEN IF frame.next # frame.focus THEN Drawn(frame.next) ELSE Skipped
         ELSE IF frame.focus \in Used(desk.gui) THEN Drawn(frame.focus) ELSE Skipped
  BY DEF Draw, AtHand
<1>2. DeskOK(desk) /\ GuiOK(desk.gui) /\ FrameOK(desk.gui, frame) /\ desk.gui \in GuiT
  BY <1>1, DeskFields DEF DInv
<1>3. frame.next \in Nat /\ desk.gui.count \in Nat
  BY <1>2, GuiFields, GuiAssumption DEF FrameOK
<1>4. DeskOK(desk') /\ FrameOK(desk'.gui, frame') /\ (Answers(desk) => Answers(desk'))
  <2>1. ASSUME NEW i \in Used(desk.gui), Drawn(i),
               \/ frame.next < desk.gui.count /\ i = frame.next /\ i # frame.focus
               \/ frame.next = desk.gui.count /\ i = frame.focus
        PROVE  DeskOK(desk') /\ FrameOK(desk'.gui, frame') /\ (Answers(desk) => Answers(desk'))
    <3>1. PICK h : h = RenderWindow(desk.gui, i)
      OBVIOUS
    <3>2. GuiOK(h) /\ Tame(h, desk.gui)
      BY <1>2, <3>1, RenderWindowOK
    <3>3. desk' = [desk EXCEPT !.gui = h]
      BY <2>1, <3>1 DEF Drawn
    <3>4. DeskOK(desk') /\ desk'.gui = h /\ (Answers(desk) => Answers(desk'))
      BY <1>2, <3>2, <3>3, GuiChanges
    <3>5. frame' = [frame EXCEPT !.next = @ + 1, !.drawn = IF i \in Visible(h) THEN Append(@, i) ELSE @]
      BY <2>1, <3>4 DEF Drawn
    <3>6. FrameOK(h, frame')
      BY <1>2, <2>1, <3>1, <3>5, DrawnFrame
    <3> QED BY <3>4, <3>6
  <2>2. ASSUME Skipped,
               \/ frame.next < desk.gui.count /\ frame.next = frame.focus
               \/ frame.next = desk.gui.count /\ frame.focus \notin Used(desk.gui)
        PROVE  DeskOK(desk') /\ FrameOK(desk'.gui, frame') /\ (Answers(desk) => Answers(desk'))
    <3>1. desk' = desk /\ frame' = [frame EXCEPT !.next = @ + 1]
      BY <2>2 DEF Skipped
    <3>2. FrameOK(desk.gui, frame')
      BY <1>2, <2>2, <3>1, SkippedFrame
    <3> QED BY <1>2, <3>1, <3>2
  <2>3. CASE frame.next < desk.gui.count
    <3>1. frame.next \in Used(desk.gui)
      BY <1>3, <2>3 DEF Used
    <3> QED BY <1>1, <2>1, <2>2, <2>3, <3>1
  <2>4. CASE ~(frame.next < desk.gui.count)
    <3>1. frame.next = desk.gui.count
      BY <1>1, <1>3, <2>4
    <3> QED BY <1>1, <2>1, <2>2, <2>4, <3>1
  <2> QED BY <2>3, <2>4
<1>5. SpeakerOK(speaker', pc' = "note") /\ user' \in UserT /\ mouse' \in MouseT /\ Counted(tasks')
        /\ (~user'.raced => Answers(desk'))
  BY <1>1, <1>4 DEF DInv
<1>6. pc' # "opening"
  BY <1>1
<1> QED BY <1>4, <1>5, <1>6 DEF DInv

LEMMA SwapKeeps ==
  ASSUME DInv, Swap
  PROVE  DInv'
<1>1. desk' = [desk EXCEPT !.gui.tab = @ /\ Shown(desk.gui) # {}] /\ pc' = "poll" /\ Calm
  BY DEF Swap, Calm
<1>2. DeskOK(desk) /\ GuiOK(desk.gui) /\ desk.gui \in GuiT /\ desk.gui.tab \in BOOLEAN
  BY DeskFields, GuiFields DEF DInv
<1>3. PICK b \in BOOLEAN : b = (desk.gui.tab /\ Shown(desk.gui) # {})
  BY <1>2
<1>4. PICK h : h = [desk.gui EXCEPT !.tab = b]
  OBVIOUS
<1>5. h \in GuiT /\ h.win = desk.gui.win /\ h.count = desk.gui.count /\ h.focus = desk.gui.focus
        /\ h.left = desk.gui.left
  BY <1>2, <1>3, <1>4 DEF GuiT
<1>6. GuiOK(h) /\ Tame(h, desk.gui)
  BY <1>2, <1>5, FlagsOK
<1>7. desk' = [desk EXCEPT !.gui = h]
  BY <1>1, <1>2, <1>3, <1>4 DEF DeskOK, DeskT
<1> QED BY <1>1, <1>6, <1>7, GuiStep

LEMMA PacketKeeps ==
  ASSUME DInv, NEW b \in Clicks, NEW bytes \in Sent(b), Packet(b, bytes)
  PROVE  DInv'
<1> DEFINE M == HandleBytes([mouse EXCEPT !.event = FALSE, !.held = b], bytes)
           Event(m) ==
             IF ~m.event THEN UNCHANGED <<desk, speaker>> /\ user' = [user EXCEPT !.inputs = @ + 1]
             ELSE \E hit \in Aims(m.flags), p \in IF Dragged(desk.gui) THEN Places ELSE {0} :
                LET left == m.flags.left
                    right == m.flags.right
                    g == IF MoveIgnored THEN desk.gui ELSE MouseMove(desk.gui, p)
                    d == [desk EXCEPT !.gui = MouseClick(g, left, right, hit, ClickIgnored)]
                    app == IF ClickIgnored THEN "none" ELSE Launched(g, left, right, hit)
                IN /\ app \in mix.apps \cup {"none", "gap"}
                   /\ desk' = Open(d, app)
                   /\ Plays(d, app, FreeSlot(d.gui))
                   /\ user' = [user EXCEPT !.inputs = @ + 1,
                                           !.raced = @ \/ (pc = "opening" /\ app \in Apps)]
<1>a. mouse' = [M EXCEPT !.event = FALSE] /\ Event(M)
  BY DEF Packet
<1>b. tasks' = tasks /\ pc' = pc /\ frame' = frame /\ opening' = opening
  BY DEF Packet
<1> HIDE DEF Event
<1>1. PICK m : m = M
  OBVIOUS
<1>2. m \in MouseT
  <2>1. PICK n : n = [mouse EXCEPT !.event = FALSE, !.held = b]
    OBVIOUS
  <2>2. n \in MouseT
    BY <2>1, ClicksAreBytes DEF DInv, MouseT
  <2> QED BY <1>1, <2>1, <2>2, PacketHandled
<1> HIDE DEF M
<1>3. mouse' = [m EXCEPT !.event = FALSE] /\ Event(m)
  BY <1>1, <1>a
<1>4. mouse' \in MouseT
  BY <1>2, <1>3 DEF MouseT
<1>5. DeskOK(desk) /\ GuiOK(desk.gui) /\ user \in UserT /\ Counted(tasks') /\ SpeakerOK(speaker, pc = "note")
  BY <1>b DEF DInv, DeskOK
<1>6. CASE ~m.event
  <2>1. desk' = desk /\ speaker' = speaker /\ user' = [user EXCEPT !.inputs = @ + 1]
    BY <1>3, <1>6 DEF Event
  <2>2. user' \in UserT /\ user'.raced = user.raced
    BY <1>5, <2>1 DEF UserT
  <2> QED BY <1>b, <1>4, <1>5, <2>1, <2>2 DEF DInv
<1>7. CASE m.event
  <2>1. PICK left, right : left = m.flags.left /\ right = m.flags.right
    OBVIOUS
  <2>2. left \in BOOLEAN /\ right \in BOOLEAN
    BY <1>2, <2>1 DEF MouseT, ByteT
  <2>a. PICK hit \in Aims(m.flags), p \in IF Dragged(desk.gui) THEN Places ELSE {0} :
          LET g == IF MoveIgnored THEN desk.gui ELSE MouseMove(desk.gui, p)
              d == [desk EXCEPT !.gui = MouseClick(g, m.flags.left, m.flags.right, hit, ClickIgnored)]
              app == IF ClickIgnored THEN "none" ELSE Launched(g, m.flags.left, m.flags.right, hit)
          IN /\ app \in mix.apps \cup {"none", "gap"}
             /\ desk' = Open(d, app)
             /\ Plays(d, app, FreeSlot(d.gui))
             /\ user' = [user EXCEPT !.inputs = @ + 1,
                                     !.raced = @ \/ (pc = "opening" /\ app \in Apps)]
    <3>1. Event(m)
      BY <1>3
    <3> QED BY ONLY <3>1, <1>7, Zenon DEF Event
  <2>3. PICK g, d, app :
          /\ g = IF MoveIgnored THEN desk.gui ELSE MouseMove(desk.gui, p)
          /\ d = [desk EXCEPT !.gui = MouseClick(g, left, right, hit, ClickIgnored)]
          /\ app = IF ClickIgnored THEN "none" ELSE Launched(g, left, right, hit)
          /\ desk' = Open(d, app)
          /\ Plays(d, app, FreeSlot(d.gui))
          /\ user' = [user EXCEPT !.inputs = @ + 1, !.raced = @ \/ (pc = "opening" /\ app \in Apps)]
    BY <2>1, <2>a, Zenon
  <2>4. PICK drawing \in BOOLEAN : drawing = (pc = "draw") /\ drawing = MoveIgnored /\ drawing = ClickIgnored
    BY DEF MoveIgnored, ClickIgnored
  <2>5. p \in Places \cup {0}
    BY <2>a
  <2>6. hit \in Hits(desk.gui) \/ (~RightPressed(desk.gui, right) /\ ~LeftPressed(desk.gui, left, right))
    BY <2>1, <2>a DEF Aims
  <2>7. PICK h : h = MouseClick(g, left, right, hit, drawing)
    OBVIOUS
  <2>8. g = IF drawing THEN desk.gui ELSE MouseMove(desk.gui, p)
    BY <2>3, <2>4
  <2>9. GuiOK(h) /\ Tame(h, desk.gui) /\ (drawing => h = desk.gui)
    BY <1>5, <2>2, <2>5, <2>6, <2>7, <2>8, MouseEventOK
  <2>10. d = [desk EXCEPT !.gui = h]
    BY <2>3, <2>4, <2>7
  <2>11. DeskOK(d) /\ d.gui = h /\ d.terms = desk.terms /\ (Answers(desk) => Answers(d))
    BY <1>5, <2>9, <2>10, GuiChanges
  <2>12. /\ DeskOK(desk') /\ Used(d.gui) \subseteq Used(desk'.gui)
         /\ (Answers(d) => Answers(desk')) /\ (app \notin Apps => desk' = d)
    BY <2>3, <2>11, OpenOK
  <2>13. user' \in UserT /\ (~user'.raced => ~user.raced /\ ~(pc = "opening" /\ app \in Apps))
    <3>1. PICK r \in BOOLEAN : r = (user.raced \/ (pc = "opening" /\ app \in Apps))
      BY <1>5 DEF UserT
    <3>2. user' = [user EXCEPT !.inputs = @ + 1, !.raced = r]
      BY <2>3, <3>1
    <3>3. user' \in UserT /\ user'.raced = r
      <4>1. PICK n \in Nat : n = user.inputs + 1
        BY <1>5 DEF UserT
      <4>2. PICK v : v = [user EXCEPT !.inputs = n, !.raced = r]
        OBVIOUS
      <4>3. v \in UserT /\ v.raced = r
        BY <1>5, <4>2 DEF UserT
      <4> QED BY <3>2, <4>1, <4>2, <4>3
    <3> QED BY <3>1, <3>3
  <2>14. ~user'.raced => Answers(desk')
    BY <2>11, <2>12, <2>13 DEF DInv
  <2>15. ASSUME pc' = "opening"
         PROVE  Found(desk', opening') /\ (~user'.raced => StillIdle(desk', opening'))
    <3>1. pc = "opening" /\ opening' = opening
      BY <1>b, <2>15
    <3>2. Found(desk, opening) /\ (~user.raced => StillIdle(desk, opening))
      BY <3>1 DEF DInv
    <3>3. Used(desk.gui) \subseteq Used(desk'.gui)
      BY <2>9, <2>11, <2>12 DEF Tame, Used
    <3>4. Found(desk', opening)
      BY <3>2, <3>3 DEF Found
    <3>5. ASSUME ~user'.raced PROVE StillIdle(desk', opening)
      <4>1. ~user.raced /\ app \notin Apps
        BY <2>13, <3>1, <3>5
      <4>2. desk'.terms = desk.terms
        BY <2>11, <2>12, <4>1
      <4> QED BY <3>2, <4>1, <4>2 DEF StillIdle
    <3> QED BY <3>1, <3>4, <3>5
  <2>16. SpeakerOK(speaker', pc' = "note")
    <3>1. CASE Sounds(d, app, FreeSlot(d.gui))
      BY <2>3, <3>1, QueuedOK DEF Plays
    <3>2. CASE ~Sounds(d, app, FreeSlot(d.gui))
      <4>1. speaker' = speaker
        BY <2>3, <3>2 DEF Plays
      <4> QED BY <1>b, <1>5, <4>1
    <3> QED BY <3>1, <3>2
  <2>17. ASSUME pc' = "draw" PROVE FrameOK(desk'.gui, frame')
    <3>1. pc = "draw" /\ frame' = frame /\ drawing
      BY <1>b, <2>4, <2>17
    <3>2. ClickIgnored
      BY <3>1 DEF ClickIgnored
    <3>3. app = "none"
      BY <2>3, <3>2
    <3>4. app \notin Apps
      BY <3>3 DEF Apps
    <3>5. desk'.gui = desk.gui
      BY <2>9, <2>11, <2>12, <3>1, <3>4
    <3> QED BY <3>1, <3>5 DEF DInv
  <2> QED BY <1>4, <1>5, <2>12, <2>13, <2>14, <2>15, <2>16, <2>17 DEF DInv
<1> QED BY <1>6, <1>7

LEMMA GuiInitOK ==
  ASSUME NEW g, g.win \in [Slots -> WinT]
  PROVE  GuiOK(GuiInit(g)) /\ Used(GuiInit(g)) = {}
<1>0. MaxWindows \in Nat /\ MaxWindows >= 1 /\ 0 \in Slots
  BY GuiAssumption DEF Slots
<1>1. PICK win \in [Slots -> WinT] : win = [i \in Slots |-> [g.win[i] EXCEPT !.shown = FALSE]]
  <2>1. ASSUME NEW i \in Slots PROVE [g.win[i] EXCEPT !.shown = FALSE] \in WinT
    <3>1. g.win[i] \in WinT
      OBVIOUS
    <3> QED BY <3>1 DEF WinT
  <2> QED BY <2>1
<1>2. PICK h : /\ h = GuiInit(g)
               /\ h = [win |-> win, count |-> 0, focus |-> None, left |-> FALSE, right |-> FALSE, start |-> FALSE,
                       context |-> FALSE, tab |-> FALSE, tabIdx |-> 0]
  BY <1>1 DEF GuiInit
<1>3. h \in GuiT /\ h.count = 0 /\ h.focus = None
  BY <1>0, <1>2 DEF GuiT
<1>4. Used(h) = {}
  BY <1>3 DEF Used
<1> QED BY <1>2, <1>3, <1>4 DEF GuiOK

LEMMA GuiKeeps ==
  ASSUME DInv, Gui
  PROVE  DInv'
<1> DEFINE start == [gui |-> GuiInit(desk.gui), monitor |-> None,
                     terms |-> [t \in Terms |-> [desk.terms[t] EXCEPT !.active = FALSE]]]
<1>1. /\ desk' = Open(start, "about")
      /\ \E lag \in mix.lags : speaker' = Queued(Chime, lag)
      /\ tasks' \in {NoTasks} \cup IF mix.tasks THEN {TaskCreate(TaskCreate(NoTasks, o), FALSE) : o \in BOOLEAN} ELSE {}
      /\ mouse' = [mouse EXCEPT !.cycle = 0]
      /\ pc' = "draw" /\ frame' = [NoFrame EXCEPT !.focus = desk'.gui.focus]
      /\ user' = [user EXCEPT !.runs = @ + 1]
  BY DEF Gui, BeginFrame
<1>2. DeskOK(desk) /\ desk.gui \in GuiT /\ desk.gui.win \in [Slots -> WinT] /\ desk.terms \in [Terms -> TermT]
  BY DeskFields, GuiFields DEF DInv
<1>3. PICK g : g = GuiInit(desk.gui)
  OBVIOUS
<1>4. GuiOK(g) /\ Used(g) = {} /\ g \in GuiT
  BY <1>2, <1>3, GuiInitOK DEF GuiOK
<1>5. ASSUME NEW t \in Terms
      PROVE  /\ [desk.terms[t] EXCEPT !.active = FALSE] \in TermT
             /\ Bounds([desk.terms[t] EXCEPT !.active = FALSE])
             /\ History([desk.terms[t] EXCEPT !.active = FALSE])
             /\ ~[desk.terms[t] EXCEPT !.active = FALSE].active
  <2>1. PICK u : u = [desk.terms[t] EXCEPT !.active = FALSE]
    OBVIOUS
  <2>2. desk.terms[t] \in TermT /\ Bounds(desk.terms[t]) /\ History(desk.terms[t])
    BY <1>2 DEF DeskOK
  <2>3. /\ u \in TermT /\ u.rows = desk.terms[t].rows /\ u.cmd = desk.terms[t].cmd
        /\ u.ring = desk.terms[t].ring /\ u.count = desk.terms[t].count /\ u.log = desk.terms[t].log
        /\ ~u.active
    BY <2>1, <2>2 DEF TermT
  <2>4. Bounds(u) /\ History(u)
    BY <2>2, <2>3 DEF Bounds, History
  <2> QED BY <2>1, <2>3, <2>4
<1>6. PICK terms \in [Terms -> TermT] : terms = [t \in Terms |-> [desk.terms[t] EXCEPT !.active = FALSE]]
  BY <1>5
<1>7. \A t \in Terms : Bounds(terms[t]) /\ History(terms[t]) /\ ~terms[t].active
  BY <1>5, <1>6
<1>8. PICK d : d = start /\ d = [gui |-> g, monitor |-> None, terms |-> terms]
  BY <1>3, <1>6
<1> HIDE DEF start
<1>9. d \in DeskT /\ d.gui = g /\ d.terms = terms
  BY <1>4, <1>8 DEF DeskT
<1>10. DeskOK(d)
  BY <1>4, <1>7, <1>9 DEF DeskOK
<1>11. Answers(d)
  BY <1>4, <1>9 DEF Answers, Shown
<1>12. DeskOK(desk') /\ Answers(desk')
  BY <1>1, <1>8, <1>10, <1>11, OpenOK
<1>13. FrameOK(desk'.gui, frame')
  <2>1. GuiOK(desk'.gui)
    BY <1>12 DEF DeskOK
  <2> QED BY <1>1, <2>1, BegunOK
<1>14. SpeakerOK(speaker', pc' = "note")
  BY <1>1, QueuedOK
<1>15. Counted(tasks')
  <2>1. CASE tasks' = NoTasks
    BY <2>1, NoTasksCounted
  <2>2. CASE \E o \in BOOLEAN : tasks' = TaskCreate(TaskCreate(NoTasks, o), FALSE)
    <3>1. PICK o \in BOOLEAN : tasks' = TaskCreate(TaskCreate(NoTasks, o), FALSE)
      BY <2>2
    <3>2. PICK k : k = TaskCreate(NoTasks, o)
      OBVIOUS
    <3>3. Counted(k)
      BY <3>2, NoTasksCounted, TaskCreateKeeps
    <3>4. FALSE \in BOOLEAN
      OBVIOUS
    <3> QED BY <3>1, <3>2, <3>3, <3>4, TaskCreateKeeps
  <2> QED BY <1>1, <2>1, <2>2
<1>16. mouse' \in MouseT /\ user' \in UserT
  <2>1. mouse \in MouseT /\ user \in UserT
    BY DEF DInv
  <2> QED BY <1>1, <2>1 DEF MouseT, UserT
<1>17. pc' # "opening"
  BY <1>1
<1> QED BY <1>12, <1>13, <1>14, <1>15, <1>16, <1>17 DEF DInv

LEMMA DInit ==
  Init => DInv
<1> SUFFICES ASSUME Init PROVE DInv
  OBVIOUS
<1>1. PICK g : g = [win |-> [i \in Slots |-> NoWindow]]
  OBVIOUS
<1>2. desk = [gui |-> GuiInit(g), terms |-> [t \in Terms |-> NoTerm], monitor |-> None]
  BY <1>1 DEF Init
<1>3. g.win \in [Slots -> WinT]
  <2>1. NoWindow \in WinT
    BY DEF NoWindow, WinT, Anims, Titles, NoText
  <2> HIDE DEF NoWindow
  <2> QED BY <1>1, <2>1
<1>4. GuiOK(GuiInit(g)) /\ Used(GuiInit(g)) = {}
  BY <1>3, GuiInitOK
<1>5. NoTerm \in TermT /\ Bounds(NoTerm) /\ History(NoTerm) /\ ~NoTerm.active
  BY NoTermOK DEF Bounds
<1> HIDE DEF NoTerm
<1>6. PICK h : h = GuiInit(g)
  OBVIOUS
<1>7. desk \in DeskT /\ desk.gui = h /\ \A t \in Terms : desk.terms[t] = NoTerm
  BY <1>2, <1>4, <1>5, <1>6 DEF DeskT, GuiOK
<1>8. DeskOK(desk)
  BY <1>4, <1>5, <1>6, <1>7 DEF DeskOK
<1>9. Answers(desk)
  BY <1>4, <1>6, <1>7 DEF Answers, Shown
<1>10. user \in UserT /\ pc = "text"
  BY DEF Init, UserT
<1>11. mouse \in MouseT
  BY DEF Init, MouseT, NoMouse, Up, ByteT
<1>12. SpeakerOK(speaker, pc = "note")
  <2>1. (pc = "note") = FALSE
    BY <1>10
  <2>2. SpeakerOK(speaker, FALSE)
    BY DEF Init, Silent, SpeakerOK
  <2> QED BY <2>1, <2>2
<1>13. Counted(tasks)
  BY NoTasksCounted DEF Init
<1> QED BY <1>8, <1>9, <1>10, <1>11, <1>12, <1>13 DEF DInv

LEMMA DStep ==
  DInv /\ [Next]_vars => DInv'
<1> SUFFICES ASSUME DInv, [Next]_vars PROVE DInv'
  OBVIOUS
<1>1. CASE UNCHANGED vars
  BY <1>1 DEF DInv, vars
<1>2. CASE Loop
  <2>1. CASE NoKey \/ Modifier \/ AltUp \/ AltTab \/ TabKey \/ Esc \/ Release
    BY <2>1, KeysKeep
  <2>2. CASE OpenKey
    BY <2>2, OpenKeyKeeps
  <2>3. CASE OpenEnd
    BY <2>3, OpenEndKeeps
  <2>4. CASE Type
    BY <2>4, TypeKeeps
  <2>5. CASE Tick
    BY <2>5, TickKeeps
  <2>6. CASE Note
    BY <2>6, NoteKeeps
  <2>7. CASE RunTask
    BY <2>7, RunTaskKeeps
  <2>8. CASE TickEnd
    BY <2>8, TickEndKeeps
  <2>9. CASE Draw
    BY <2>9, DrawKeeps
  <2>10. CASE Swap
    BY <2>10, SwapKeeps
  <2> QED BY <1>2, <2>1, <2>2, <2>3, <2>4, <2>5, <2>6, <2>7, <2>8, <2>9, <2>10 DEF Loop
<1>3. CASE Gui
  BY <1>3, GuiKeeps
<1>4. CASE \E k \in mix.keys \cup {"up"} : Key(k)
  BY <1>4, KeyKeeps
<1>5. CASE \E b \in Clicks : \E bytes \in Sent(b) : Packet(b, bytes)
  BY <1>5, PacketKeeps
<1> QED BY <1>1, <1>2, <1>3, <1>4, <1>5 DEF Next

\* In every state of every behaviour, whatever the user, the mouse and the callbacks of
\* the tasks do (Mixes): the table of windows, the terminals, the frame being drawn, the
\* speaker, the mouse decoder and the pool of tasks are what DInv says they are.
THEOREM DesktopInvariant == Spec => []DInv
<1>1. Init => DInv
  BY DInit
<1>2. DInv /\ [Next]_vars => DInv'
  BY DStep
<1> QED BY <1>1, <1>2, PTL DEF Spec

(***************************************************************************)
(* What follows from it.                                                     *)
(***************************************************************************)
LEMMA TypesFollow ==
  DInv => TypeOK
<1> SUFFICES ASSUME DInv PROVE TypeOK
  OBVIOUS
<1>1. DeskOK(desk) /\ desk.gui \in GuiT /\ GuiOK(desk.gui) /\ desk.monitor \in Slots \cup {None}
  BY DeskFields DEF DInv
<1>2. /\ desk.gui.count \in 0 .. MaxWindows /\ desk.gui.focus \in Used(desk.gui) \cup {None}
      /\ desk.gui.tabIdx \in Slots
  BY <1>1, GuiFields DEF GuiOK
<1>3. \A i \in Slots : desk.gui.win[i].anim \in Anims /\ desk.gui.win[i].place \in Places \cup {0}
  BY <1>1, GuiFields DEF WinT
<1>4. ASSUME NEW t \in Terms
      PROVE  /\ Len(desk.terms[t].rows) <= MaxLines /\ Len(desk.terms[t].cmd) <= CmdMax
             /\ \A r \in Range(desk.terms[t].rows) : Len(r) <= Cols
  <2>1. Bounds(desk.terms[t])
    BY <1>1 DEF DeskOK
  <2>2. ASSUME NEW r \in Range(desk.terms[t].rows) PROVE Len(r) <= Cols
    <3>1. desk.terms[t].rows \in Seq(Seq(Cells))
      BY <2>1, TermFields DEF Bounds
    <3>2. PICK k \in 1 .. Len(desk.terms[t].rows) : r = desk.terms[t].rows[k]
      BY <3>1 DEF Range
    <3> QED BY <2>1, <3>2 DEF Bounds
  <2> QED BY <2>1, <2>2 DEF Bounds
<1>5. speaker.idx \in 0 .. Max({Chime, 2})
  <2>1. speaker.idx \in Nat /\ speaker.count \in {0, 2, Chime} /\ speaker.idx <= speaker.count
    BY DEF DInv, SpeakerOK
  <2>2. Chime \in Int /\ Max({Chime, 2}) = IF Chime >= 2 THEN Chime ELSE 2
    BY MaxOfTwo, DesktopAssumption
  <2> QED BY <2>1, <2>2
<1>6. mouse.cycle \in 0 .. 2
  BY DEF DInv, MouseT
<1> QED BY <1>1, <1>2, <1>3, <1>4, <1>5, <1>6 DEF TypeOK

LEMMA WindowsFollow ==
  DInv => WindowsOK
<1> SUFFICES ASSUME DInv PROVE WindowsOK
  OBVIOUS
<1>1. GuiOK(desk.gui) /\ desk.gui \in GuiT
  BY DeskFields DEF DInv
<1>2. \A i \in Used(desk.gui) : WinOK(desk.gui.win[i], i = desk.gui.focus, desk.gui.left)
  BY <1>1 DEF GuiOK
<1>3. FocusIsShown
  BY <1>1, <1>2 DEF FocusIsShown, GuiOK, WinOK, Visible, Shown
<1>4. NoSlotLost
  BY <1>2 DEF NoSlotLost, WinOK, Visible, Shown
<1>5. OneDragged
  <2>1. PICK dragged : dragged = {i \in Used(desk.gui) : desk.gui.win[i].drag # "none"}
    OBVIOUS
  <2>2. dragged # {} => desk.gui.left
    BY <1>2, <2>1 DEF WinOK
  <2>3. Cardinality(dragged) <= 1
    <3>1. CASE dragged = {}
      BY <3>1, FS_EmptySet
    <3>2. CASE dragged # {}
      <4>1. PICK i : dragged = {i}
        <5>1. PICK i \in dragged : TRUE
          BY <3>2
        <5>2. \A j \in dragged : j = i
          BY <1>1, <2>1 DEF GuiOK
        <5> QED BY <5>1, <5>2
      <4>2. Cardinality(dragged) = 1
        BY <4>1, FS_Singleton
      <4> QED BY <4>2
    <3> QED BY <3>1, <3>2
  <2> QED BY <2>1, <2>2, <2>3 DEF OneDragged
<1> QED BY <1>3, <1>4, <1>5, TypesFollow DEF WindowsOK

LEMMA FramesFollow ==
  DInv => FrameComplete
<1> SUFFICES ASSUME DInv, pc = "draw", frame.next > desk.gui.count
             PROVE  /\ Range(frame.drawn) = Visible(desk.gui)
                    /\ Len(frame.drawn) = Cardinality(Visible(desk.gui))
                    /\ desk.gui.focus # None => Last(frame.drawn) = desk.gui.focus
  BY DEF FrameComplete
<1>1. FrameOK(desk.gui, frame)
  BY DEF DInv
<1>2. Range(frame.drawn) = Visible(desk.gui)
  BY <1>1 DEF FrameOK
<1> QED BY <1>1, <1>2 DEF FrameOK

LEMMA TerminalsFollow ==
  DInv => TerminalsOK
<1> SUFFICES ASSUME DInv PROVE TerminalsOK
  OBVIOUS
<1>1. DeskOK(desk) /\ GuiOK(desk.gui)
  BY DEF DInv, DeskOK
<1>2. TerminalAnswers
  BY AnswersFound DEF DInv, TerminalAnswers
<1>3. TextIsItsOwn
  <2>1. \A w \in Used(desk.gui) : WinOK(desk.gui.win[w], w = desk.gui.focus, desk.gui.left)
    BY <1>1 DEF GuiOK
  <2> QED BY <2>1 DEF TextIsItsOwn, WinOK, Shown
<1>4. PromptKept
  <2> SUFFICES ASSUME NEW t \in Terms, desk.terms[t].active
               PROVE  \E r \in 0 .. MaxLines, c \in 1 .. Cols : PromptAt(desk.terms[t], r, c)
    BY DEF PromptKept
  <2>1. OnScreen(desk.terms[t].rows, Len(desk.terms[t].cmd))
    BY <1>1 DEF DeskOK, Screen
  <2>2. PICK r \in 0 .. MaxLines, c \in 1 .. Cols : At(desk.terms[t].rows, r, c, Len(desk.terms[t].cmd))
    BY <2>1 DEF OnScreen
  <2>3. PromptAt(desk.terms[t], r, c)
    BY <2>2, PromptIsAt
  <2> QED BY <2>3
<1>5. HistoryKept
  BY <1>1, ListedIsLog DEF HistoryKept, DeskOK
<1> QED BY <1>2, <1>3, <1>4, <1>5 DEF TerminalsOK

\* The focus is on a window the user sees or on none, no slot of the table is lost to
\* an animation, and at most one window is dragged, only while the button is down:
\* for any number of windows and whichever events come between two steps of the loop.
THEOREM WindowsSafe == Spec => []WindowsOK
BY DesktopInvariant, WindowsFollow, PTL

\* A frame that is swapped in shows each visible window once, the one in focus on top,
\* though windows close and minimize while it is drawn and clicks come in.
THEOREM FramesAreComplete == Spec => []FrameComplete
BY DesktopInvariant, FramesFollow, PTL

\* A terminal window has a terminal unless a click raced its opening, no window is
\* written into for another, the command stands after the last prompt through every
\* wrap, scroll and backspace, and history lists the last commands in order.
THEOREM TerminalsSafe == Spec => []TerminalsOK
BY DesktopInvariant, TerminalsFollow, PTL

\* Whatever bytes a bad line has lost or spoilt, one packet of a mouse at rest brings
\* mouse_handle_byte back to the first byte of a packet.
THEOREM MouseResyncs == Spec => []Resyncs
<1>1. DInv => Resyncs
  BY StillPacketResyncs DEF DInv, Resyncs
<1> QED BY <1>1, DesktopInvariant, PTL

\* task_count is the number of the active tasks, and none of them is a one-shot that
\* has run, whatever the callbacks create and remove while tasks_tick is at them.
THEOREM TasksAreCounted == Spec => []TasksCounted
<1>1. DInv => TasksCounted
  BY DEF DInv, Counted, TasksCounted
<1> QED BY <1>1, DesktopInvariant, PTL
=============================================================================
