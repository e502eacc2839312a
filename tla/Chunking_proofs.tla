-------------------------- MODULE Chunking_proofs --------------------------
(***************************************************************************)
(* What the chunks keep of a document, for every document.                 *)
(***************************************************************************)
EXTENDS Chunking, SequenceTheorems, FiniteSetTheorems, WellFoundedInduction,
        TLAPS

(***************************************************************************)
(* Induction.  A set of numbers that has 0, and with a number the next     *)
(* one, has them all; a set of sequences that has the empty one, and with  *)
(* a sequence every sequence of one element more, has them all.            *)
(***************************************************************************)
LEMMA Inductive ==
  ASSUME NEW T, 0 \in T, \A n \in Nat : n \in T => n + 1 \in T
  PROVE  \A n \in Nat : n \in T
<1> DEFINE Bad == Nat \ T
<1> SUFFICES ASSUME Bad # {} PROVE FALSE
  OBVIOUS
<1>1. IsWellFoundedOn(OpToRel(<, Nat), Nat)
  BY NatLessThanWellFounded
<1>2. PICK m \in Bad : \A k \in Bad : <<k, m>> \notin OpToRel(<, Nat)
  <2> HIDE DEF Bad
  <2>1. Bad \subseteq Nat
    BY DEF Bad
  <2> QED
    BY <1>1, <2>1, WFMin
<1>3. \A k \in Bad : ~(k < m)
  BY <1>2 DEF OpToRel
<1>4. m # 0 /\ m - 1 \in Nat /\ m - 1 < m
  OBVIOUS
<1>5. m - 1 \in T
  BY <1>3, <1>4
<1> QED
  BY <1>4, <1>5

LEMMA InductiveTo ==
  ASSUME NEW T, NEW n \in Nat, 0 \in T,
         \A k \in 0..(n - 1) : k \in T => k + 1 \in T
  PROVE  \A k \in 0..n : k \in T
<1> DEFINE U == {k \in Nat : k <= n => k \in T}
<1>1. 0 \in U
  OBVIOUS
<1>2. \A k \in Nat : k \in U => k + 1 \in U
  OBVIOUS
<1>3. \A k \in Nat : k \in U
  <2> HIDE DEF U
  <2> QED BY <1>1, <1>2, Inductive
<1> QED
  BY <1>3

LEMMA InductiveSeq ==
  ASSUME NEW T, NEW S, <<>> \in S,
         \A s \in Seq(T), x \in T : s \in S => Append(s, x) \in S
  PROVE  \A s \in Seq(T) : s \in S
<1> DEFINE U == {n \in Nat : \A s \in Seq(T) : Len(s) = n => s \in S}
<1>1. 0 \in U
  BY EmptySeq
<1>2. ASSUME NEW n \in Nat, n \in U PROVE n + 1 \in U
  <2> SUFFICES ASSUME NEW s \in Seq(T), Len(s) = n + 1 PROVE s \in S
    OBVIOUS
  <2> DEFINE f == SubSeq(s, 1, n)
  <2>1. f \in Seq(T) /\ Len(f) = n /\ s[n + 1] \in T
    OBVIOUS
  <2>2. s = Append(f, s[n + 1])
    <3>1. Len(Append(f, s[n + 1])) = n + 1 /\ Append(f, s[n + 1]) \in Seq(T)
      BY <2>1
    <3>2. \A i \in 1..(n + 1) : Append(f, s[n + 1])[i] = s[i]
      BY <2>1
    <3> QED
      BY <3>1, <3>2, SeqEqual
  <2> HIDE DEF f
  <2> QED
    BY <1>2, <2>1, <2>2
<1>3. \A n \in Nat : n \in U
  <2> HIDE DEF U
  <2> QED BY <1>1, <1>2, Inductive
<1> QED
  BY <1>3

\* The greatest member of a set of positions, as the folds choose it.
LEMMA TopOf ==
  ASSUME NEW m \in Nat, NEW s \in SUBSET (1..m), s # {}
  PROVE  /\ Max(s) \in s
         /\ \A y \in s : Max(s) >= y
<1> DEFINE T == {k \in Nat : \A t \in SUBSET (1..k) :
                    t # {} => \E x \in t : \A y \in t : x >= y}
<1>1. 0 \in T
  <2>1. 1..0 = {}
    OBVIOUS
  <2> QED BY <2>1
<1>2. ASSUME NEW k \in Nat, k \in T PROVE k + 1 \in T
  <2> SUFFICES ASSUME NEW t \in SUBSET (1..(k + 1)), t # {}
               PROVE  \E x \in t : \A y \in t : x >= y
    OBVIOUS
  <2>1. CASE k + 1 \in t
    BY <2>1
  <2>2. CASE k + 1 \notin t
    <3>1. t \in SUBSET (1..k)
      BY <2>2
    <3> QED BY <1>2, <3>1
  <2> QED BY <2>1, <2>2
<1>3. m \in T
  <2> HIDE DEF T
  <2> QED BY <1>1, <1>2, Inductive
<1> QED
  BY <1>3 DEF Max

\* The function a fold is defined by exists.
OnPositions(n, A, step, base, h) ==
    /\ h \in [SUBSET (1..n) -> A]
    /\ \A s \in SUBSET (1..n) :
          h[s] = IF s = {} THEN base ELSE step[<<Max(s), h[s \ {Max(s)}]>>]

LEMMA FoldExists ==
  ASSUME NEW n \in Nat, NEW A, NEW base \in A, NEW step \in [(1..n) \X A -> A]
  PROVE  \E h : OnPositions(n, A, step, base, h)
<1> DEFINE Def(m, h) == \A s \in SUBSET (1..m) :
                 h[s] = IF s = {} THEN base ELSE step[<<Max(s), h[s \ {Max(s)}]>>]
           T == {m \in Nat : \E h \in [SUBSET (1..m) -> A] : Def(m, h)}
<1>1. 0 \in T
  <2>0. SUBSET (1..0) = {{}}
    OBVIOUS
  <2> DEFINE h == [s \in SUBSET (1..0) |-> base]
  <2>1. h \in [SUBSET (1..0) -> A] /\ h[{}] = base
    OBVIOUS
  <2> HIDE DEF h
  <2>2. Def(0, h)
    BY <2>0, <2>1
  <2> QED BY <2>1, <2>2
<1>2. ASSUME NEW m \in 0..(n-1), m \in T PROVE m + 1 \in T
  <2>1. PICK h \in [SUBSET (1..m) -> A] : Def(m, h)
    BY <1>2
  <2> DEFINE g == [s \in SUBSET (1..(m+1)) |->
                     IF m + 1 \in s THEN step[<<m + 1, h[s \ {m + 1}]>>] ELSE h[s]]
  <2>2. ASSUME NEW s \in SUBSET (1..(m+1))
        PROVE /\ m + 1 \in s => s \ {m+1} \in SUBSET (1..m) /\ Max(s) = m + 1
              /\ m + 1 \notin s => s \in SUBSET (1..m)
              /\ s # {} => Max(s) \in s
    <3>0. m + 1 \in Nat
      OBVIOUS
    <3>1. s # {} => Max(s) \in s /\ \A y \in s : Max(s) >= y
      BY <3>0, TopOf
    <3>2. m + 1 \in s => Max(s) = m + 1
      <4> SUFFICES ASSUME m + 1 \in s PROVE Max(s) = m + 1
        OBVIOUS
      <4> DEFINE x == Max(s)
      <4>1. x \in 1..(m + 1) /\ x >= m + 1
        BY <3>1
      <4> HIDE DEF x
      <4>2. x = m + 1
        BY <4>1
      <4> QED BY <4>2 DEF x
    <3> QED
      BY <3>1, <3>2
  <2>3. g \in [SUBSET (1..(m+1)) -> A]
    <3>1. ASSUME NEW s \in SUBSET (1..(m+1)) PROVE g[s] \in A
      <4>1. CASE m + 1 \in s
        <5>1. h[s \ {m + 1}] \in A /\ m + 1 \in 1..n
          BY <2>2, <4>1
        <5> QED BY <5>1, <4>1
      <4>2. CASE m + 1 \notin s
        BY <2>2, <4>2
      <4> QED BY <4>1, <4>2
    <3>2. g = [s \in SUBSET (1..(m+1)) |-> g[s]]
      OBVIOUS
    <3> HIDE DEF g
    <3> QED BY <3>1, <3>2
  <2>4. ASSUME NEW s \in SUBSET (1..(m+1))
        PROVE  g[s] = IF s = {} THEN base ELSE step[<<Max(s), g[s \ {Max(s)}]>>]
    <3>1. CASE m + 1 \in s
      <4>1. g[s] = step[<<m + 1, h[s \ {m + 1}]>>]
        BY <3>1
      <4>2. g[s \ {m+1}] = h[s \ {m+1}]
        BY <2>2, <3>1
      <4> QED
        BY <2>2, <3>1, <4>1, <4>2
    <3>2. CASE m + 1 \notin s
      <4>1. s \in SUBSET (1..m) /\ g[s] = h[s]
        BY <2>2, <3>2
      <4>2. s # {} => s \ {Max(s)} \in SUBSET (1..m) /\ g[s \ {Max(s)}] = h[s \ {Max(s)}]
        BY <2>2, <3>2, <4>1
      <4>3. h[s] = IF s = {} THEN base ELSE step[<<Max(s), h[s \ {Max(s)}]>>]
        BY <2>1, <4>1
      <4> QED
        BY <4>1, <4>2, <4>3
    <3> QED
      BY <3>1, <3>2
  <2> HIDE DEF g
  <2>5. Def(m + 1, g)
    BY <2>4
  <2>6. m + 1 \in Nat
    OBVIOUS
  <2> QED
    BY <2>3, <2>5, <2>6
<1>3. n \in T
  <2> HIDE DEF T
  <2>1. \A k \in 0..n : k \in T
    BY <1>1, <1>2, InductiveTo
  <2> QED BY <2>1
<1> QED
  BY <1>3 DEF OnPositions

\* The positions up to k, as a fold takes them.
LEMMA Positions ==
  ASSUME NEW n \in Nat, NEW k \in 1..n
  PROVE  /\ 1..k \in SUBSET (1..n) /\ 1..k # {}
         /\ Max(1..k) = k
         /\ (1..k) \ {k} = 1..(k - 1)
<1>1. 1..k \in SUBSET (1..n) /\ 1..k # {} /\ (1..k) \ {k} = 1..(k - 1)
  OBVIOUS
<1>2. Max(1..k) \in 1..k /\ \A y \in 1..k : Max(1..k) >= y
  <2>1. k \in Nat /\ 1..k \in SUBSET (1..k)
    OBVIOUS
  <2> QED BY <1>1, <2>1, TopOf
<1> QED
  BY <1>1, <1>2

\* A fold in A of the members of T.
IsStep(T, A, step, base) == base \in A /\ step \in [A \X T -> A]

\* v is the fold of s by step, from base, in A.
Folded(A, step, base, s, v) ==
    \E h \in [0..Len(s) -> A] :
        /\ h[0] = base
        /\ \A k \in 1..Len(s) : h[k] = step[<<h[k - 1], s[k]>>]
        /\ v = h[Len(s)]

\* h defines the fold of s.
FoldBy(A, step, base, s, h) ==
    /\ h \in [SUBSET (1..Len(s)) -> A]
    /\ \A S \in SUBSET (1..Len(s)) :
          h[S] = IF S = {} THEN base ELSE step[<<h[S \ {Max(S)}], s[Max(S)]>>]

\* The function that defines a fold, when the step is a function.
LEMMA FoldDefined ==
  ASSUME NEW T, NEW A, NEW step, NEW base, IsStep(T, A, step, base), NEW s \in Seq(T)
  PROVE  \E h : FoldBy(A, step, base, s, h)
<1> DEFINE n == Len(s)
           at == [ia \in (1..n) \X A |-> step[<<ia[2], s[ia[1]]>>]]
<1>1. n \in Nat /\ base \in A
  BY DEF IsStep
<1>2. at \in [(1..n) \X A -> A]
  BY DEF IsStep
<1>3. PICK h \in [SUBSET (1..n) -> A] : \A S \in SUBSET (1..n) :
           h[S] = IF S = {} THEN base ELSE at[<<Max(S), h[S \ {Max(S)}]>>]
  <2> HIDE DEF at, n
  <2>1. PICK h : OnPositions(n, A, at, base, h)
    BY <1>1, <1>2, FoldExists
  <2> QED BY <2>1 DEF OnPositions
<1>4. ASSUME NEW S \in SUBSET (1..n)
      PROVE  h[S] = IF S = {} THEN base ELSE step[<<h[S \ {Max(S)}], s[Max(S)]>>]
  <2>1. CASE S = {}
    BY <1>3, <2>1
  <2>2. CASE S # {}
    <3>1. Max(S) \in 1..n /\ S \ {Max(S)} \in SUBSET (1..n)
      BY <1>1, <2>2, TopOf
    <3>2. <<Max(S), h[S \ {Max(S)}]>> \in (1..n) \X A
      BY <3>1
    <3>3. at[<<Max(S), h[S \ {Max(S)}]>>] = step[<<h[S \ {Max(S)}], s[Max(S)]>>]
      BY <3>2
    <3> HIDE DEF at
    <3> QED BY <1>3, <2>2, <3>3
  <2> QED BY <2>1, <2>2
<1>5. FoldBy(A, step, base, s, h)
  BY <1>4 DEF FoldBy
<1> QED
  BY <1>5

\* Such a function, from the first member of the sequence to the last.
LEMMA FoldFolds ==
  ASSUME NEW T, NEW A, NEW step, NEW base, IsStep(T, A, step, base), NEW s \in Seq(T),
         NEW f, f[{}] = base,
         \A k \in 1..Len(s) : f[1..(k - 1)] \in A
            => f[1..k] = step[<<f[1..(k - 1)], s[k]>>]
  PROVE  Folded(A, step, base, s, f[1..Len(s)])
<1> DEFINE n == Len(s)
           g == [k \in 0..n |-> f[1..k]]
           E == {k \in Nat : k <= n => f[1..k] \in A}
<1>0. /\ n \in Nat /\ \A k \in 1..n : s[k] \in T
      /\ base \in A /\ step \in [A \X T -> A]
  BY DEF IsStep
<1>1. 0 \in E /\ 1..0 = {}
  BY <1>0
<1>2. ASSUME NEW k \in Nat, k \in E PROVE k + 1 \in E
  <2> SUFFICES ASSUME k + 1 <= n PROVE f[1..(k + 1)] \in A
    OBVIOUS
  <2>1. f[1..k] \in A /\ k + 1 \in 1..n /\ (k + 1) - 1 = k
    BY <1>0, <1>2
  <2>2. f[1..(k + 1)] = step[<<f[1..k], s[k + 1]>>]
    BY <2>1
  <2> QED BY <1>0, <2>1, <2>2
<1>3. \A k \in Nat : k \in E
  <2> HIDE DEF E
  <2> QED BY <1>1, <1>2, Inductive
<1>4. ASSUME NEW k \in 0..n PROVE f[1..k] \in A
  <2>1. k \in Nat /\ k <= n
    BY <1>0
  <2>2. k \in E
    BY <1>3, <2>1
  <2> QED BY <2>1, <2>2
<1>5. g \in [0..n -> A]
  <2>1. \A k \in 0..n : f[1..k] \in A
    BY <1>4
  <2> QED BY <2>1
<1>6. g[0] = base /\ g[n] = f[1..n]
  BY <1>0, <1>1
<1>7. ASSUME NEW k \in 1..n PROVE g[k] = step[<<g[k - 1], s[k]>>]
  <2>1. k \in 0..n /\ k - 1 \in 0..n
    BY <1>0
  <2>2. f[1..k] = step[<<f[1..(k - 1)], s[k]>>]
    BY <1>4, <2>1
  <2> QED BY <2>1, <2>2
<1> HIDE DEF g
<1> QED
  BY <1>5, <1>6, <1>7 DEF Folded

\* A fold of one element more is one step more.
LEMMA FoldGrows ==
  ASSUME NEW T, NEW A, NEW step, NEW base, IsStep(T, A, step, base),
         NEW s \in Seq(T), NEW x \in T, NEW v, NEW w,
         Folded(A, step, base, s, v), Folded(A, step, base, Append(s, x), w)
  PROVE  v \in A /\ w = step[<<v, x>>]
<1> DEFINE n == Len(s)
<1>0. /\ n \in Nat /\ Len(Append(s, x)) = n + 1
      /\ Append(s, x)[n + 1] = x
      /\ \A k \in 1..n : Append(s, x)[k] = s[k]
  OBVIOUS
<1>1. PICK h \in [0..n -> A] : /\ h[0] = base
                               /\ \A k \in 1..n : h[k] = step[<<h[k - 1], s[k]>>]
                               /\ v = h[n]
  BY DEF Folded
<1>2. PICK g \in [0..(n + 1) -> A] :
          /\ g[0] = base
          /\ \A k \in 1..(n + 1) : g[k] = step[<<g[k - 1], Append(s, x)[k]>>]
          /\ w = g[n + 1]
  BY <1>0 DEF Folded
<1> DEFINE E == {k \in Nat : k <= n => g[k] = h[k]}
<1>3. 0 \in E
  BY <1>1, <1>2
<1>4. ASSUME NEW k \in Nat, k \in E PROVE k + 1 \in E
  <2> SUFFICES ASSUME k + 1 <= n PROVE g[k + 1] = h[k + 1]
    OBVIOUS
  <2>1. g[k] = h[k] /\ k + 1 \in 1..n /\ k + 1 \in 1..(n + 1) /\ (k + 1) - 1 = k
    BY <1>0, <1>4
  <2>2. /\ g[k + 1] = step[<<g[k], Append(s, x)[k + 1]>>]
        /\ h[k + 1] = step[<<h[k], s[k + 1]>>]
    BY <1>1, <1>2, <2>1
  <2> QED BY <1>0, <2>1, <2>2
<1>5. n \in E
  <2> HIDE DEF E, n
  <2> QED BY <1>0, <1>3, <1>4, Inductive
<1>6. g[n] = h[n] /\ n + 1 \in 1..(n + 1) /\ (n + 1) - 1 = n /\ h[n] \in A
  BY <1>0, <1>5
<1>7. g[n + 1] = step[<<g[n], Append(s, x)[n + 1]>>]
  BY <1>2, <1>6
<1> QED
  BY <1>0, <1>1, <1>2, <1>6, <1>7 DEF IsStep

\* The fold of the empty sequence; every fold is in A.
LEMMA FoldBase ==
  ASSUME NEW A, NEW step, NEW base, NEW v, Folded(A, step, base, <<>>, v)
  PROVE  v = base
BY DEF Folded

LEMMA FoldType ==
  ASSUME NEW T, NEW A, NEW step, NEW base, NEW s \in Seq(T), NEW v,
         Folded(A, step, base, s, v)
  PROVE  v \in A
<1>1. Len(s) \in 0..Len(s)
  OBVIOUS
<1> QED
  BY <1>1 DEF Folded

-----------------------------------------------------------------------------
(***************************************************************************)
(* The folds of the model, one step at a time.                             *)
(***************************************************************************)
Text == Seq(Words \union {Line, Para})
UnitSet == [page : Nat, text : Text]

UnitTokensStep == [p \in Nat \X UnitSet |-> p[1] + Len(p[2].text)]

LEMMA UnitTokensIsStep == IsStep(UnitSet, Nat, UnitTokensStep, 0)
BY DEF IsStep, UnitTokensStep, UnitSet, Text

LEMMA UnitTokensFolds ==
  ASSUME NEW us \in Seq(UnitSet)
  PROVE  Folded(Nat, UnitTokensStep, 0, us, UnitTokens(us))
<1> DEFINE n == Len(us)
           Is(h) == h = [S \in SUBSET (1..n) |->
                 IF S = {} THEN 0 ELSE h[S \ {Max(S)}] + Len(us[Max(S)].text)]
           fold == CHOOSE h : Is(h)
<1>0. n \in Nat /\ DOMAIN us = 1..n /\ \A k \in 1..n : us[k] \in UnitSet
  OBVIOUS
<1>1. IsStep(UnitSet, Nat, UnitTokensStep, 0)
  BY UnitTokensIsStep
<1>2. PICK h : FoldBy(Nat, UnitTokensStep, 0, us, h)
  BY <1>1, FoldDefined
<1>3. Is(h)
  <2>1. ASSUME NEW S \in SUBSET (1..n)
        PROVE  h[S] =  IF S = {} THEN 0 ELSE h[S \ {Max(S)}] + Len(us[Max(S)].text)
    <3>1. S # {} => Max(S) \in 1..n /\ S \ {Max(S)} \in SUBSET (1..n)
      BY <1>0, TopOf
    <3> QED BY <1>0, <1>2, <3>1 DEF UnitTokensStep, FoldBy
  <2>2. h \in [SUBSET (1..n) -> Nat]
    BY <1>2 DEF FoldBy
  <2> QED
    BY <2>1, <2>2
<1>4. Is(fold)
  <2> HIDE DEF Is
  <2> QED BY <1>3
<1>5. UnitTokens(us) = fold[1..n]
  BY <1>0 DEF UnitTokens, count_tokens, FoldLeft, MapThenFoldSet
<1> HIDE DEF fold
<1>6. fold[{}] = 0
  BY <1>4
<1>7. ASSUME NEW k \in 1..n, fold[1..(k - 1)] \in Nat
      PROVE  fold[1..k] = UnitTokensStep[<<fold[1..(k - 1)], us[k]>>]
  <2>0. /\ 1..k \in SUBSET (1..n) /\ 1..k # {}
        /\ Max(1..k) = k /\ (1..k) \ {k} = 1..(k - 1)
    BY <1>0, Positions
  <2>1. fold[1..k] = fold[1..(k - 1)] + Len(us[k].text)
    BY <1>4, <2>0
  <2> QED BY <1>0, <1>7, <2>1 DEF UnitTokensStep
<1> QED
  <2>2. Folded(Nat, UnitTokensStep, 0, us, fold[1..Len(us)])
    BY <1>1, <1>6, <1>7, FoldFolds
  <2> QED BY <1>5, <2>2

\* What the units hold, unit by unit.
LEMMA UnitTokensGrows ==
  /\ UnitTokens(<<>>) = 0
  /\ \A us \in Seq(UnitSet) :
       /\ UnitTokens(us) \in Nat
       /\ \A u \in UnitSet :
            UnitTokens(Append(us, u)) = UnitTokens(us) + Len(u.text)
<1>1. UnitTokens(<<>>) = 0
  <2>1. <<>> \in Seq(UnitSet)
    BY EmptySeq
  <2> QED BY <2>1, UnitTokensFolds, FoldBase
<1>2. ASSUME NEW us \in Seq(UnitSet), NEW u \in UnitSet
      PROVE  /\ UnitTokens(us) \in Nat
             /\ UnitTokens(Append(us, u)) = UnitTokens(us) + Len(u.text)
  <2>1. Append(us, u) \in Seq(UnitSet)
    OBVIOUS
  <2>2. /\ UnitTokens(us) \in Nat
        /\ UnitTokens(Append(us, u)) = UnitTokensStep[<<UnitTokens(us), u>>]
    <3>2. /\ Folded(Nat, UnitTokensStep, 0, us, UnitTokens(us))
          /\ Folded(Nat, UnitTokensStep, 0, Append(us, u), UnitTokens(Append(us, u)))
      BY <2>1, UnitTokensFolds
    <3> QED BY <3>2, UnitTokensIsStep, FoldGrows
  <2> QED BY <2>2 DEF UnitTokensStep
<1>3. ASSUME NEW us \in Seq(UnitSet) PROVE UnitTokens(us) \in Nat
  BY UnitTokensFolds, FoldType
<1> QED
  BY <1>1, <1>2, <1>3

\* What is left of a sequence.
WithoutStep(T, out) == [p \in Seq(T) \X T |->
                          IF p[2] \in out THEN p[1] ELSE Append(p[1], p[2])]

LEMMA WithoutIsStep ==
  ASSUME NEW T, NEW out
  PROVE  IsStep(T, Seq(T), WithoutStep(T, out), <<>>)
<1>1. ASSUME NEW t \in Seq(T), NEW x \in T
      PROVE  (IF x \in out THEN t ELSE Append(t, x)) \in Seq(T)
  OBVIOUS
<1>2. WithoutStep(T, out) \in [Seq(T) \X T -> Seq(T)]
  BY <1>1 DEF WithoutStep
<1>3. <<>> \in Seq(T)
  BY EmptySeq
<1> QED
  BY <1>2, <1>3 DEF IsStep

LEMMA WithoutFolds ==
  ASSUME NEW T, NEW out, NEW s \in Seq(T)
  PROVE  Folded(Seq(T), WithoutStep(T, out), <<>>, s, Without(s, out))
<1> DEFINE n == Len(s)
           Is(h) == h = [S \in SUBSET (1..n) |->
                 IF S = {} THEN <<>> ELSE IF s[Max(S)] \in out THEN h[S \ {Max(S)}] ELSE Append(h[S \ {Max(S)}], s[Max(S)])]
           fold == CHOOSE h : Is(h)
<1>0. n \in Nat /\ DOMAIN s = 1..n /\ \A k \in 1..n : s[k] \in T
  OBVIOUS
<1>1. IsStep(T, Seq(T), WithoutStep(T, out), <<>>)
  BY WithoutIsStep
<1>2. PICK h : FoldBy(Seq(T), WithoutStep(T, out), <<>>, s, h)
  BY <1>1, FoldDefined
<1>3. Is(h)
  <2>1. h \in [SUBSET (1..n) -> Seq(T)]
    BY <1>2 DEF FoldBy
  <2>2. ASSUME NEW S \in SUBSET (1..n)
        PROVE  h[S] = IF S = {} THEN <<>> ELSE IF s[Max(S)] \in out THEN h[S \ {Max(S)}] ELSE Append(h[S \ {Max(S)}], s[Max(S)])
    <3>1. S # {} => Max(S) \in 1..n /\ S \ {Max(S)} \in SUBSET (1..n)
      BY <1>0, TopOf
    <3>2. h[S] = IF S = {} THEN <<>> ELSE WithoutStep(T, out)[<<h[S \ {Max(S)}], s[Max(S)]>>]
      BY <1>2 DEF FoldBy
    <3>3. S # {} => h[S \ {Max(S)}] \in Seq(T) /\ s[Max(S)] \in T
      BY <1>0, <2>1, <3>1
    <3> QED BY <3>2, <3>3 DEF WithoutStep
  <2> QED
    BY <2>1, <2>2
<1>4. Is(fold)
  <2> HIDE DEF Is
  <2> QED BY <1>3
<1>5. Without(s, out) = fold[1..n]
  BY <1>0 DEF Without, FoldLeft, MapThenFoldSet
<1> HIDE DEF fold
<1>6. fold[{}] = <<>>
  BY <1>4
<1>7. ASSUME NEW k \in 1..n, fold[1..(k - 1)] \in Seq(T)
      PROVE  fold[1..k] = WithoutStep(T, out)[<<fold[1..(k - 1)], s[k]>>]
  <2>0. /\ 1..k \in SUBSET (1..n) /\ 1..k # {}
        /\ Max(1..k) = k /\ (1..k) \ {k} = 1..(k - 1)
    BY <1>0, Positions
  <2>1. s[k] \in T
    BY <1>0
  <2>2. fold[1..k] = IF s[k] \in out THEN fold[1..(k - 1)] ELSE Append(fold[1..(k - 1)], s[k])
    BY <1>4, <2>0
  <2> QED BY <1>7, <2>1, <2>2 DEF WithoutStep
<1> QED
  <2>1. Folded(Seq(T), WithoutStep(T, out), <<>>, s, fold[1..Len(s)])
    BY <1>1, <1>6, <1>7, FoldFolds
  <2>2. Without(s, out) = fold[1..Len(s)]
    BY <1>5
  <2> HIDE DEF n
  <2> QED BY <2>1, <2>2

LEMMA WithoutType ==
  ASSUME NEW T, NEW out, NEW s \in Seq(T)
  PROVE  Without(s, out) \in Seq(T)
BY WithoutFolds, FoldType

LEMMA WithoutGrows ==
  ASSUME NEW T, NEW out, NEW s \in Seq(T), NEW x \in T
  PROVE  Without(Append(s, x), out) = IF x \in out THEN Without(s, out)
                                      ELSE Append(Without(s, out), x)
<1>1. Append(s, x) \in Seq(T)
  OBVIOUS
<1>2. /\ Folded(Seq(T), WithoutStep(T, out), <<>>, s, Without(s, out))
      /\ Folded(Seq(T), WithoutStep(T, out), <<>>, Append(s, x), Without(Append(s, x), out))
  BY <1>1, WithoutFolds
<1>3. /\ Without(s, out) \in Seq(T)
      /\ Without(Append(s, x), out) = WithoutStep(T, out)[<<Without(s, out), x>>]
  BY <1>1, <1>2, WithoutIsStep, FoldGrows
<1> DEFINE w == Without(s, out)
<1>4. w \in Seq(T) /\ Without(Append(s, x), out) = WithoutStep(T, out)[<<w, x>>]
  BY <1>3
<1> HIDE DEF w
<1>5. <<w, x>> \in Seq(T) \X T
  BY <1>4
<1>6. WithoutStep(T, out)[<<w, x>>] = IF x \in out THEN w ELSE Append(w, x)
  BY <1>5 DEF WithoutStep
<1> QED
  BY <1>4, <1>6 DEF w

LEMMA WithoutNone ==
  ASSUME NEW out
  PROVE  Without(<<>>, out) = <<>>
<1>1. <<>> \in Seq({})
  BY EmptySeq
<1> QED
  BY <1>1, WithoutFolds, FoldBase

Symbols == Words \union {Line, Para}

\* A text without its line breaks and blank lines, word by word.
LEMMA NormalGrows ==
  /\ normalize_text(<<>>) = <<>>
  /\ \A t \in Text :
       /\ normalize_text(t) \in Text
       /\ \A w \in Symbols :
            normalize_text(Append(t, w)) =
              IF w \notin {Line, Para} THEN Append(normalize_text(t), w)
              ELSE normalize_text(t)
<1>1. Text = Seq(Symbols)
  BY DEF Text, Symbols
<1> QED
  BY <1>1, WithoutType, WithoutGrows, WithoutNone DEF normalize_text

\* Texts joined by a separator, text by text.
JoinedStep(sep) == [p \in Text \X Text |->
                      IF p[1] = <<>> THEN p[2] ELSE p[1] \o <<sep>> \o p[2]]

LEMMA JoinedIsStep ==
  ASSUME NEW sep \in Symbols
  PROVE  IsStep(Text, Text, JoinedStep(sep), <<>>)
<1>1. <<sep>> \in Text /\ <<>> \in Text
  BY EmptySeq DEF Text, Symbols
<1>2. ASSUME NEW a \in Text, NEW b \in Text PROVE a \o <<sep>> \o b \in Text
  BY <1>1, ConcatProperties DEF Text
<1> QED
  BY <1>1, <1>2 DEF IsStep, JoinedStep

LEMMA JoinedFolds ==
  ASSUME NEW sep \in Symbols, NEW s \in Seq(Text)
  PROVE  Folded(Text, JoinedStep(sep), <<>>, s, Joined(s, sep))
<1> DEFINE n == Len(s)
           Is(h) == h = [S \in SUBSET (1..n) |->
                 IF S = {} THEN <<>> ELSE IF h[S \ {Max(S)}] = <<>> THEN s[Max(S)] ELSE h[S \ {Max(S)}] \o <<sep>> \o s[Max(S)]]
           fold == CHOOSE h : Is(h)
<1>0. n \in Nat /\ DOMAIN s = 1..n /\ \A k \in 1..n : s[k] \in Text
  OBVIOUS
<1>1. IsStep(Text, Text, JoinedStep(sep), <<>>)
  BY JoinedIsStep
<1>2. PICK h : FoldBy(Text, JoinedStep(sep), <<>>, s, h)
  BY <1>1, FoldDefined
<1>3. Is(h)
  <2>1. h \in [SUBSET (1..n) -> Text]
    BY <1>2 DEF FoldBy
  <2>2. ASSUME NEW S \in SUBSET (1..n)
        PROVE  h[S] = IF S = {} THEN <<>> ELSE IF h[S \ {Max(S)}] = <<>> THEN s[Max(S)] ELSE h[S \ {Max(S)}] \o <<sep>> \o s[Max(S)]
    <3>1. S # {} => Max(S) \in 1..n /\ S \ {Max(S)} \in SUBSET (1..n)
      BY <1>0, TopOf
    <3>2. h[S] = IF S = {} THEN <<>> ELSE JoinedStep(sep)[<<h[S \ {Max(S)}], s[Max(S)]>>]
      BY <1>2 DEF FoldBy
    <3>3. S # {} => h[S \ {Max(S)}] \in Text /\ s[Max(S)] \in Text
      BY <1>0, <2>1, <3>1
    <3> QED BY <3>2, <3>3 DEF JoinedStep
  <2> QED
    BY <2>1, <2>2
<1>4. Is(fold)
  <2> HIDE DEF Is
  <2> QED BY <1>3
<1>5. Joined(s, sep) = fold[1..n]
  BY <1>0 DEF Joined, FoldLeft, MapThenFoldSet
<1> HIDE DEF fold
<1>6. fold[{}] = <<>>
  BY <1>4
<1>7. ASSUME NEW k \in 1..n, fold[1..(k - 1)] \in Text
      PROVE  fold[1..k] = JoinedStep(sep)[<<fold[1..(k - 1)], s[k]>>]
  <2>0. /\ 1..k \in SUBSET (1..n) /\ 1..k # {}
        /\ Max(1..k) = k /\ (1..k) \ {k} = 1..(k - 1)
    BY <1>0, Positions
  <2>1. s[k] \in Text
    BY <1>0
  <2>2. fold[1..k] = IF fold[1..(k - 1)] = <<>> THEN s[k] ELSE fold[1..(k - 1)] \o <<sep>> \o s[k]
    BY <1>4, <2>0
  <2> QED BY <1>7, <2>1, <2>2 DEF JoinedStep
<1> QED
  <2>1. Folded(Text, JoinedStep(sep), <<>>, s, fold[1..Len(s)])
    BY <1>1, <1>6, <1>7, FoldFolds
  <2> QED BY <1>5, <2>1

LEMMA JoinedGrows ==
  ASSUME NEW sep \in Symbols
  PROVE  /\ Joined(<<>>, sep) = <<>>
         /\ \A ts \in Seq(Text) :
              /\ Joined(ts, sep) \in Text
              /\ \A t \in Text :
                   Joined(Append(ts, t), sep) =
                     IF Joined(ts, sep) = <<>> THEN t
                     ELSE Joined(ts, sep) \o <<sep>> \o t
<1>1. Joined(<<>>, sep) = <<>>
  <2>1. <<>> \in Seq(Text)
    BY EmptySeq
  <2> QED BY <2>1, JoinedFolds, FoldBase
<1>2. ASSUME NEW ts \in Seq(Text), NEW t \in Text
      PROVE  /\ Joined(ts, sep) \in Text
             /\ Joined(Append(ts, t), sep) = JoinedStep(sep)[<<Joined(ts, sep), t>>]
  <2>1. Append(ts, t) \in Seq(Text)
    OBVIOUS
  <2>2. /\ Folded(Text, JoinedStep(sep), <<>>, ts, Joined(ts, sep))
        /\ Folded(Text, JoinedStep(sep), <<>>, Append(ts, t), Joined(Append(ts, t), sep))
    BY <2>1, JoinedFolds
  <2> QED BY <2>1, <2>2, JoinedIsStep, FoldGrows
<1>3. ASSUME NEW ts \in Seq(Text) PROVE Joined(ts, sep) \in Text
  BY JoinedFolds, FoldType
<1> QED
  BY <1>1, <1>2, <1>3 DEF JoinedStep

-----------------------------------------------------------------------------
(***************************************************************************)
(* Texts: what stands in them, with and without the white space.           *)
(***************************************************************************)
LEMMA TextSeq == Text = Seq(Symbols) /\ <<>> \in Text
BY EmptySeq DEF Text, Symbols

LEMMA TextConcat ==
  ASSUME NEW x \in Text, NEW y \in Text, NEW z \in Text
  PROVE  /\ x \o y \in Text
         /\ Len(x \o y) = Len(x) + Len(y) /\ Len(x) \in Nat /\ Len(y) \in Nat
         /\ (x \o y) \o z = x \o (y \o z)
         /\ x \o <<>> = x /\ <<>> \o x = x
<1>1. x \o y \in Text /\ Len(x \o y) = Len(x) + Len(y) /\ Len(x) \in Nat /\ Len(y) \in Nat
  BY TextSeq, ConcatProperties, LenProperties
<1>2. (x \o y) \o z = x \o (y \o z)
  BY TextSeq, ConcatAssociative
<1>3. x \o <<>> = x /\ <<>> \o x = x
  BY TextSeq, ConcatEmptySeq
<1> QED
  BY <1>1, <1>2, <1>3

LEMMA TextAssociative ==
  ASSUME NEW x \in Text, NEW y \in Text, NEW z \in Text
  PROVE  (x \o y) \o z = x \o (y \o z)
BY TextSeq, ConcatAssociative

LEMMA TextAppend ==
  ASSUME NEW x \in Text, NEW y \in Text, NEW w \in Symbols
  PROVE  Append(x \o y, w) = x \o Append(y, w)
<1>1. x \in Seq(Symbols) /\ y \in Seq(Symbols) /\ x \o y \in Seq(Symbols)
  BY TextSeq, TextConcat
<1>2. <<w>> \in Text
  BY TextSeq
<1>3. Append(x \o y, w) = (x \o y) \o <<w>> /\ Append(y, w) = y \o <<w>>
  BY <1>1, AppendIsConcat
<1>4. (x \o y) \o <<w>> = x \o (y \o <<w>>)
  BY <1>2, TextAssociative
<1> QED
  BY <1>3, <1>4

\* p stands somewhere in t.
Occurs(p, t) == \E x, y \in Text : t = (x \o p) \o y

LEMMA OccursSelf ==
  ASSUME NEW t \in Text
  PROVE  Occurs(t, t) /\ Occurs(<<>>, t)
<1>1. t = (<<>> \o t) \o <<>> /\ t = (<<>> \o <<>>) \o t
  BY TextSeq, TextConcat
<1> QED
  BY <1>1, TextSeq DEF Occurs

LEMMA OccursTransitive ==
  ASSUME NEW p \in Text, NEW q \in Text, NEW t \in Text, Occurs(p, q), Occurs(q, t)
  PROVE  Occurs(p, t)
<1>1. PICK a \in Text, b \in Text : q = (a \o p) \o b
  BY DEF Occurs
<1>2. PICK c \in Text, d \in Text : t = (c \o q) \o d
  BY DEF Occurs
<1>3. PICK u \in Text : u = a \o p
  BY TextConcat
<1>4. PICK r \in Text : r = c \o u
  BY TextConcat
<1>5. r = (c \o a) \o p
  BY <1>3, <1>4, TextSeq, SMTT(40)
<1>6. c \o (u \o b) = r \o b
  BY <1>4, TextAssociative, SMTT(40) DEF Text
<1>7. (r \o b) \o d = r \o (b \o d)
  BY TextAssociative, ZenonT(120)
<1>8. t = ((c \o a) \o p) \o (b \o d)
  BY <1>1, <1>2, <1>3, <1>5, <1>6, <1>7
<1>9. c \o a \in Text /\ b \o d \in Text
  BY TextConcat
<1> QED
  BY <1>8, <1>9 DEF Occurs

\* White space goes from a text as it goes from its parts.
LEMMA NormalConcat ==
  ASSUME NEW x \in Text, NEW y \in Text
  PROVE  normalize_text(x \o y) = normalize_text(x) \o normalize_text(y)
<1> DEFINE S == {t \in Text : normalize_text(x \o t) = normalize_text(x) \o normalize_text(t)}
<1>1. <<>> \in S
  BY TextSeq, TextConcat, NormalGrows
<1>2. ASSUME NEW t \in Seq(Symbols), NEW w \in Symbols, t \in S
      PROVE  Append(t, w) \in S
  <2>1. t \in Text /\ Append(t, w) \in Text /\ x \o t \in Text
    BY TextSeq, TextConcat
  <2>2. x \o Append(t, w) = Append(x \o t, w)
    BY <2>1, TextSeq
  <2>3. normalize_text(x \o t) = normalize_text(x) \o normalize_text(t)
    BY <1>2
  <2>4. normalize_text(x) \in Text /\ normalize_text(t) \in Text
    BY <2>1, NormalGrows
  <2>5. CASE w \in {Line, Para}
    BY <2>1, <2>2, <2>3, <2>5, NormalGrows
  <2>6. CASE w \notin {Line, Para}
    <3>1. normalize_text(x \o Append(t, w)) = Append(normalize_text(x) \o normalize_text(t), w)
      BY <2>1, <2>2, <2>3, <2>6, NormalGrows
    <3>2. normalize_text(Append(t, w)) = Append(normalize_text(t), w)
      BY <2>1, <2>6, NormalGrows
    <3>3. Append(normalize_text(x) \o normalize_text(t), w)
            = normalize_text(x) \o Append(normalize_text(t), w)
      BY <2>4, TextAppend
    <3> QED BY <2>1, <3>1, <3>2, <3>3
  <2> QED BY <2>5, <2>6
<1>3. \A t \in Seq(Symbols) : t \in S
  <2> HIDE DEF S
  <2> QED BY <1>1, <1>2, InductiveSeq
<1> QED
  BY <1>3, TextSeq

LEMMA NormalOccurs ==
  ASSUME NEW p \in Text, NEW t \in Text, Occurs(p, t)
  PROVE  Occurs(normalize_text(p), normalize_text(t))
<1>1. PICK x \in Text, y \in Text : t = (x \o p) \o y
  BY DEF Occurs
<1>2. x \o p \in Text
  BY TextConcat
<1>3. normalize_text(t) = (normalize_text(x) \o normalize_text(p)) \o normalize_text(y)
  BY <1>1, <1>2, NormalConcat
<1> QED
  BY <1>3, NormalGrows DEF Occurs

\* The least of a set of numbers that has one.
LEMMA LeastOf ==
  ASSUME NEW S \in SUBSET Nat, S # {}
  PROVE  Least(S) \in S /\ \A y \in S : Least(S) <= y
<1>1. IsWellFoundedOn(OpToRel(<, Nat), Nat)
  BY NatLessThanWellFounded
<1>2. PICK m \in S : \A k \in S : <<k, m>> \notin OpToRel(<, Nat)
  BY <1>1, WFMin
<1>3. \A k \in S : ~(k < m)
  BY <1>2 DEF OpToRel
<1>4. \A k \in S : m <= k
  BY <1>3
<1> QED
  BY <1>4 DEF Least

\* p is in t behind the first n words.
At(p, t, n) == \E x, y \in Text : t = (x \o p) \o y /\ Len(x) = n

LEMMA AtWhere ==
  ASSUME NEW p \in Text, NEW t \in Text, NEW i \in Nat \ {0}
  PROVE  At(p, t, i - 1) <=> /\ i \in 1..(Len(t) - Len(p) + 1)
                             /\ SubSeq(t, i, i + Len(p) - 1) = p
<1> DEFINE at == {k \in 1..(Len(t) - Len(p) + 1) :
                    SubSeq(t, k, k + Len(p) - 1) = p}
<1>0. Len(t) \in Nat /\ Len(p) \in Nat /\ t \in Seq(Symbols) /\ p \in Seq(Symbols)
  BY TextSeq
<1>1. ASSUME i \in at PROVE At(p, t, i - 1)
  <2> DEFINE x == SubSeq(t, 1, i - 1)
             y == SubSeq(t, i + Len(p), Len(t))
  <2>0. i \in Nat \ {0} /\ i + Len(p) - 1 <= Len(t)
    BY <1>0, <1>1
  <2>1. /\ x \in Seq(Symbols) /\ y \in Seq(Symbols)
        /\ Len(x) = i - 1 /\ Len(y) = Len(t) - (i + Len(p)) + 1
    BY <1>0, <2>0
  <2>a. /\ x \o p \in Seq(Symbols) /\ Len(x \o p) = i - 1 + Len(p)
        /\ \A k \in 1..(i - 1) : (x \o p)[k] = x[k]
        /\ \A k \in i..(i - 1 + Len(p)) : (x \o p)[k] = p[k - i + 1]
    <3> HIDE DEF x
    <3>1. /\ x \o p \in Seq(Symbols) /\ Len(x \o p) = Len(x) + Len(p)
          /\ \A k \in 1..(Len(x) + Len(p)) :
               (x \o p)[k] = IF k <= Len(x) THEN x[k] ELSE p[k - Len(x)]
      BY <1>0, <2>1, ConcatProperties
    <3>2. \A k \in 1..(i - 1) : k \in 1..(Len(x) + Len(p)) /\ k <= Len(x)
      BY <1>0, <2>0, <2>1
    <3>3. \A k \in i..(i - 1 + Len(p)) : /\ k \in 1..(Len(x) + Len(p)) /\ ~(k <= Len(x))
                                          /\ k - Len(x) = k - i + 1
      BY <1>0, <2>0, <2>1
    <3> QED BY <2>1, <3>1, <3>2, <3>3
  <2> DEFINE xp == x \o p
  <2>2. /\ xp \o y \in Seq(Symbols) /\ Len(xp \o y) = Len(t)
        /\ \A k \in 1..(i - 1 + Len(p)) : (xp \o y)[k] = xp[k]
        /\ \A k \in (i + Len(p))..Len(t) : (xp \o y)[k] = y[k - (i + Len(p)) + 1]
    <3>1. xp \in Seq(Symbols) /\ Len(xp) = i - 1 + Len(p)
      BY <2>a
    <3> HIDE DEF x, y, xp
    <3> QED BY <1>0, <2>1, <3>1, SMTT(40)
  <2>3. ASSUME NEW k \in 1..Len(t) PROVE ((x \o p) \o y)[k] = t[k]
    <3>1. CASE k < i
      <4>1. x[k] = t[k]
        BY <1>0, <3>1
      <4> HIDE DEF x, y
      <4> QED BY <1>0, <2>a, <2>2, <3>1, <4>1
    <3>2. CASE k >= i /\ k < i + Len(p)
      <4>1. ((x \o p) \o y)[k] = p[k - i + 1]
        <5> HIDE DEF x, y
        <5> QED BY <1>0, <2>a, <2>2, <3>2
      <4>2. SubSeq(t, i, i + Len(p) - 1)[k - i + 1] = t[k]
        BY <1>0, <3>2
      <4>3. SubSeq(t, i, i + Len(p) - 1) = p
        BY <1>1
      <4> HIDE DEF x, y
      <4> QED BY <4>1, <4>2, <4>3
    <3>3. CASE k >= i + Len(p)
      <4>1. ((x \o p) \o y)[k] = y[k - (i + Len(p)) + 1]
        <5> HIDE DEF x, y
        <5> QED BY <1>0, <2>2, <3>3
      <4>2. y[k - (i + Len(p)) + 1] = t[k]
        BY <1>0, <3>3
      <4> HIDE DEF x, y
      <4> QED BY <4>1, <4>2
    <3> HIDE DEF x, y
    <3>4. k < i \/ (k >= i /\ k < i + Len(p)) \/ k >= i + Len(p)
      BY <1>0, <2>0
    <3> QED BY <3>1, <3>2, <3>3, <3>4
  <2>4. t = (x \o p) \o y
    <3> HIDE DEF x, y, at
    <3> QED BY <1>0, <2>2, <2>3, SeqEqual DEF xp
  <2> HIDE DEF x, y
  <2> QED BY <2>1, <2>4, TextSeq DEF At
<1>2. ASSUME At(p, t, i - 1) PROVE i \in at
  <2>1. PICK x \in Text, y \in Text : t = (x \o p) \o y /\ Len(x) = i - 1
    BY <1>2 DEF At
  <2>2. x \in Seq(Symbols) /\ y \in Seq(Symbols) /\ Len(x) \in Nat /\ Len(y) \in Nat
    BY TextSeq
  <2>3. Len(t) = Len(x) + Len(p) + Len(y)
    <3>1. Len((x \o p) \o y) = Len(x) + Len(p) + Len(y)
      BY <1>0, <2>2
    <3> QED BY <2>1, <3>1
  <2>4. SubSeq(t, Len(x) + 1, Len(x) + 1 + Len(p) - 1) = p
    <3> DEFINE s == SubSeq(t, Len(x) + 1, Len(x) + 1 + Len(p) - 1)
    <3>1. s \in Seq(Symbols) /\ Len(s) = Len(p)
      BY <1>0, <2>2, <2>3
    <3>2. ASSUME NEW k \in 1..Len(p) PROVE s[k] = p[k]
      <4>1. s[k] = t[Len(x) + k]
        BY <1>0, <2>2, <2>3
      <4>2. ((x \o p) \o y)[Len(x) + k] = p[k]
        <5>1. /\ x \o p \in Seq(Symbols) /\ Len(x \o p) = Len(x) + Len(p)
              /\ (x \o p)[Len(x) + k] = p[k]
          BY <1>0, <2>2
        <5> DEFINE xp == x \o p
        <5> HIDE DEF xp
        <5>2. Len(x) + k \in 1..Len(xp)
          BY <1>0, <2>2, <5>1 DEF xp
        <5>3. (xp \o y)[Len(x) + k] = xp[Len(x) + k]
          BY <2>2, <5>1, <5>2, ConcatProperties DEF xp
        <5> QED BY <5>1, <5>3 DEF xp
      <4> QED BY <2>1, <4>1, <4>2
    <3> HIDE DEF s
    <3>3. Len(s) = Len(p) /\ \A k \in 1..Len(s) : s[k] = p[k]
      BY <3>1, <3>2
    <3>4. s = p
      BY <1>0, <3>1, <3>3, SeqEqual
    <3> QED BY <3>4 DEF s
  <2>5. Len(x) + 1 \in at
    BY <1>0, <2>2, <2>3, <2>4
  <2> QED BY <2>1, <2>5
<1> QED
  BY <1>1, <1>2

\* text.find finds the first place behind from where the piece stands.
LEMMA FindFirst ==
  ASSUME NEW p \in Text, NEW t \in Text, NEW from \in Nat \ {0}
  PROVE  /\ find(t, p, from) \in Nat
         /\ find(t, p, from) # 0 =>
              find(t, p, from) >= from /\ At(p, t, find(t, p, from) - 1)
         /\ \A i \in Nat \ {0} : i >= from /\ At(p, t, i - 1) =>
              find(t, p, from) # 0 /\ find(t, p, from) <= i
<1> DEFINE at == {i \in from..(Len(t) - Len(p) + 1) :
                    SubSeq(t, i, i + Len(p) - 1) = p}
<1>0. Len(t) \in Nat /\ Len(p) \in Nat
  BY TextSeq
<1>1. \A i \in Nat \ {0} : i \in at <=> i >= from /\ At(p, t, i - 1)
  BY <1>0, AtWhere
<1>2. at \in SUBSET (Nat \ {0}) /\ \A i \in at : i >= from
  BY <1>0
<1>3. find(t, p, from) = IF at = {} THEN 0 ELSE Least(at)
  BY DEF find
<1> HIDE DEF at
<1>4. CASE at = {}
  BY <1>1, <1>3, <1>4
<1>5. CASE at # {}
  <2>1. at \in SUBSET Nat
    BY <1>2
  <2>2. Least(at) \in at /\ \A y \in at : Least(at) <= y
    BY <1>5, <2>1, LeastOf
  <2>3. find(t, p, from) \in at /\ \A y \in at : find(t, p, from) <= y
    BY <1>3, <1>5, <2>2
  <2> QED BY <1>1, <1>2, <2>3
<1> QED
  BY <1>4, <1>5

LEMMA FindOccurs ==
  ASSUME NEW p \in Text, NEW t \in Text
  PROVE  find(t, p, 1) # 0 <=> Occurs(p, t)
<1>1. ASSUME Occurs(p, t) PROVE find(t, p, 1) # 0
  <2>1. PICK x \in Text, y \in Text : t = (x \o p) \o y
    BY <1>1 DEF Occurs
  <2>2. PICK n \in Nat : n = Len(x)
    BY TextSeq
  <2> DEFINE i == n + 1
  <2>3. i \in Nat \ {0} /\ i >= 1 /\ i - 1 = n
    OBVIOUS
  <2> HIDE DEF i
  <2>4. At(p, t, i - 1)
    BY <2>1, <2>2, <2>3 DEF At
  <2>5. 1 \in Nat \ {0}
    OBVIOUS
  <2>6. \A k \in Nat \ {0} : k >= 1 /\ At(p, t, k - 1) => find(t, p, 1) # 0
    BY <2>5, FindFirst
  <2> QED BY <2>3, <2>4, <2>6
<1>2. ASSUME find(t, p, 1) # 0 PROVE Occurs(p, t)
  <2>1. At(p, t, find(t, p, 1) - 1)
    BY <1>2, FindFirst
  <2> QED BY <2>1 DEF At, Occurs
<1> QED
  BY <1>1, <1>2

-----------------------------------------------------------------------------
(***************************************************************************)
(* Sequences of sequences, one after the other.                            *)
(***************************************************************************)
FlattenStep(T) == [p \in Seq(T) \X Seq(T) |-> p[1] \o p[2]]

LEMMA FlattenIsStep ==
  ASSUME NEW T
  PROVE  IsStep(Seq(T), Seq(T), FlattenStep(T), <<>>)
BY EmptySeq DEF IsStep, FlattenStep

LEMMA FlattenFolds ==
  ASSUME NEW T, NEW ss \in Seq(Seq(T))
  PROVE  Folded(Seq(T), FlattenStep(T), <<>>, ss, FlattenSeq(ss))
<1> DEFINE n == Len(ss)
           Is(f) == f = [i \in 1..n |-> IF i = 1 THEN ss[i] ELSE f[i - 1] \o ss[i]]
           fold == CHOOSE f : Is(f)
<1>0. n \in Nat /\ <<>> \in Seq(T) /\ \A i \in 1..n : ss[i] \in Seq(T)
  BY EmptySeq
<1>1. PICK h : FoldBy(Seq(T), FlattenStep(T), <<>>, ss, h)
  BY FlattenIsStep, FoldDefined
<1>2. ASSUME NEW k \in 1..n PROVE h[1..k] = h[1..(k - 1)] \o ss[k] /\ h[1..k] \in Seq(T)
  <2>0. /\ 1..k \in SUBSET (1..n) /\ 1..k # {}
        /\ Max(1..k) = k /\ (1..k) \ {k} = 1..(k - 1)
    BY <1>0, Positions
  <2>1. h[1..k] = FlattenStep(T)[<<h[1..(k - 1)], ss[k]>>] /\ h[1..k] \in Seq(T)
    BY <1>1, <2>0 DEF FoldBy
  <2>2. 1..(k - 1) \in SUBSET (1..n)
    BY <1>0
  <2>3. h[1..(k - 1)] \in Seq(T)
    BY <1>1, <2>2 DEF FoldBy
  <2> QED BY <1>0, <2>1, <2>3 DEF FlattenStep
<1>3. h[{}] = <<>> /\ 1..0 = {}
  <2>1. {} \in SUBSET (1..Len(ss)) /\ 1..0 = {}
    OBVIOUS
  <2> QED BY <1>1, <2>1 DEF FoldBy
<1>4. Is([k \in 1..n |-> h[1..k]])
  <2>1. ASSUME NEW i \in 1..n
        PROVE  h[1..i] = IF i = 1 THEN ss[i] ELSE [k \in 1..n |-> h[1..k]][i - 1] \o ss[i]
    <3>1. CASE i = 1
      <4>1. h[1..i] = h[1..(i - 1)] \o ss[i] /\ ss[i] \in Seq(T)
        BY <1>0, <1>2
      <4>2. i - 1 = 0
        BY <3>1
      <4>3. h[1..i] = <<>> \o ss[i]
        BY <1>3, <4>1, <4>2
      <4>4. <<>> \o ss[i] = ss[i]
        BY <4>1, ConcatEmptySeq
      <4> QED BY <3>1, <4>3, <4>4
    <3>2. CASE i # 1
      <4>1. i - 1 \in 1..n
        BY <1>0, <3>2
      <4> QED BY <1>2, <3>2, <4>1
    <3> QED BY <3>1, <3>2
  <2> QED BY <2>1
<1>5. Is(fold)
  <2> HIDE DEF Is
  <2> QED BY <1>4
<1>6. FlattenSeq(ss) = IF n = 0 THEN ss ELSE fold[n]
  BY <1>0 DEF FlattenSeq
<1> HIDE DEF fold
<1> DEFINE g == [k \in 0..n |-> IF k = 0 THEN <<>> ELSE fold[k]]
           E == {k \in Nat : k <= n => g[k] \in Seq(T)}
<1>7. ASSUME NEW k \in 1..n PROVE fold[k] = IF k = 1 THEN ss[k] ELSE fold[k - 1] \o ss[k]
  BY <1>5
<1>8. 0 \in E
  BY <1>0
<1>9. ASSUME NEW k \in Nat, k \in E PROVE k + 1 \in E
  <2> SUFFICES ASSUME k + 1 <= n PROVE fold[k + 1] \in Seq(T)
    BY <1>0
  <2>1. k + 1 \in 1..n /\ (k + 1) - 1 = k /\ ss[k + 1] \in Seq(T)
    BY <1>0
  <2>2. CASE k = 0
    BY <1>7, <2>1, <2>2
  <2>3. CASE k # 0
    <3>1. fold[k] \in Seq(T)
      BY <1>0, <1>9, <2>1, <2>3
    <3>2. fold[k + 1] = fold[k] \o ss[k + 1]
      <4>1. k + 1 # 1
        BY <2>3
      <4>2. fold[k + 1] = IF k + 1 = 1 THEN ss[k + 1] ELSE fold[(k + 1) - 1] \o ss[k + 1]
        BY <1>7, <2>1
      <4> QED BY <2>1, <4>1, <4>2
    <3> QED BY <2>1, <3>1, <3>2
  <2> QED BY <2>2, <2>3
<1>10. \A k \in Nat : k \in E
  <2> HIDE DEF E
  <2> QED BY <1>8, <1>9, Inductive
<1>11. ASSUME NEW k \in 0..n PROVE g[k] \in Seq(T)
  <2>1. k \in Nat /\ k <= n
    BY <1>0
  <2>2. k \in E
    BY <1>10, <2>1
  <2> QED BY <2>1, <2>2
<1>12. g \in [0..n -> Seq(T)] /\ g[0] = <<>>
  <2>1. \A k \in 0..n : g[k] \in Seq(T)
    BY <1>11
  <2>2. g[0] = <<>>
    BY <1>0
  <2>3. g = [k \in 0..n |-> g[k]]
    OBVIOUS
  <2> HIDE DEF g
  <2> QED BY <2>1, <2>2, <2>3
<1>13. ASSUME NEW k \in 1..n PROVE g[k] = FlattenStep(T)[<<g[k - 1], ss[k]>>]
  <2>1. k \in 0..n /\ k - 1 \in 0..n /\ ss[k] \in Seq(T)
    BY <1>0
  <2>2. g[k - 1] \in Seq(T)
    BY <1>11, <2>1
  <2>3. g[k] = g[k - 1] \o ss[k]
    <3>1. CASE k = 1
      <4>1. g[k] = ss[k] /\ g[k - 1] = <<>>
        BY <1>7, <2>1, <3>1
      <4> HIDE DEF g
      <4> QED BY <2>1, <4>1
    <3>2. CASE k # 1
      <4>1. g[k] = fold[k] /\ g[k - 1] = fold[k - 1]
        BY <1>0, <2>1, <3>2
      <4> HIDE DEF g
      <4> QED BY <1>7, <3>2, <4>1
    <3> QED BY <3>1, <3>2
  <2> HIDE DEF g
  <2> QED BY <2>1, <2>2, <2>3 DEF FlattenStep
<1>14. FlattenSeq(ss) = g[n]
  <2>1. n = 0 => ss = <<>>
    OBVIOUS
  <2>2. g[n] = IF n = 0 THEN <<>> ELSE fold[n]
    BY <1>0
  <2> HIDE DEF g
  <2> QED BY <1>6, <2>1, <2>2
<1> HIDE DEF g
<1> QED
  BY <1>12, <1>13, <1>14 DEF Folded

LEMMA FlattenGrows ==
  ASSUME NEW T
  PROVE  /\ FlattenSeq(<<>>) = <<>>
         /\ \A ss \in Seq(Seq(T)) :
              /\ FlattenSeq(ss) \in Seq(T)
              /\ \A s \in Seq(T) : FlattenSeq(Append(ss, s)) = FlattenSeq(ss) \o s
<1>1. FlattenSeq(<<>>) = <<>>
  <2>1. <<>> \in Seq(Seq(T))
    BY EmptySeq
  <2> QED BY <2>1, FlattenFolds, FoldBase
<1>2. ASSUME NEW ss \in Seq(Seq(T)), NEW s \in Seq(T)
      PROVE  /\ FlattenSeq(ss) \in Seq(T)
             /\ FlattenSeq(Append(ss, s)) = FlattenStep(T)[<<FlattenSeq(ss), s>>]
  <2>1. Append(ss, s) \in Seq(Seq(T))
    OBVIOUS
  <2>2. /\ Folded(Seq(T), FlattenStep(T), <<>>, ss, FlattenSeq(ss))
        /\ Folded(Seq(T), FlattenStep(T), <<>>, Append(ss, s), FlattenSeq(Append(ss, s)))
    BY <2>1, FlattenFolds
  <2> QED BY <2>1, <2>2, FlattenIsStep, FoldGrows
<1>3. ASSUME NEW ss \in Seq(Seq(T)) PROVE FlattenSeq(ss) \in Seq(T)
  BY FlattenFolds, FoldType
<1> QED
  BY <1>1, <1>2, <1>3 DEF FlattenStep

-----------------------------------------------------------------------------
(***************************************************************************)
(* Units and the chunks they are merged into.                              *)
(***************************************************************************)
Spans == UnitSet \union [page : Nat, first : Int, last : Int]
Chunk == [text : Text, pages : (SUBSET Nat) \ {{}}, spans : SUBSET Spans,
          reference : BOOLEAN]

MergedText(us) == Joined([i \in DOMAIN us |-> us[i].text], Para)

LEMMA ParaSymbol == Para \in Symbols /\ <<Para>> \in Text
BY TextSeq DEF Symbols

LEMMA MergedGrows ==
  /\ MergedText(<<>>) = <<>>
  /\ \A us \in Seq(UnitSet) :
       /\ MergedText(us) \in Text
       /\ \A u \in UnitSet :
            MergedText(Append(us, u)) =
              IF MergedText(us) = <<>> THEN u.text
              ELSE MergedText(us) \o <<Para>> \o u.text
<1>1. MergedText(<<>>) = <<>>
  <2>1. [i \in DOMAIN <<>> |-> <<>>[i].text] = <<>>
    OBVIOUS
  <2> QED BY <2>1, ParaSymbol, JoinedGrows DEF MergedText
<1>2. ASSUME NEW us \in Seq(UnitSet)
      PROVE  [i \in DOMAIN us |-> us[i].text] \in Seq(Text)
  <2>1. ASSUME NEW i \in DOMAIN us PROVE us[i].text \in Text
    <3>1. us[i] \in UnitSet
      OBVIOUS
    <3> QED BY <3>1 DEF UnitSet
  <2>2. DOMAIN us = 1..Len(us) /\ Len(us) \in Nat
    OBVIOUS
  <2> QED BY <2>1, <2>2
<1>3. ASSUME NEW us \in Seq(UnitSet), NEW u \in UnitSet
      PROVE  [i \in DOMAIN Append(us, u) |-> Append(us, u)[i].text]
               = Append([i \in DOMAIN us |-> us[i].text], u.text)
  <2> DEFINE a == [i \in DOMAIN Append(us, u) |-> Append(us, u)[i].text]
             t == [i \in DOMAIN us |-> us[i].text]
             b == Append(t, u.text)
  <2>0. Append(us, u) \in Seq(UnitSet) /\ u.text \in Text
    BY DEF UnitSet
  <2>1. a \in Seq(Text)
    BY <1>2, <2>0
  <2>2. t \in Seq(Text) /\ Len(t) = Len(us) /\ \A i \in 1..Len(us) : t[i] = us[i].text
    BY <1>2
  <2>3. Len(a) = Len(us) + 1 /\ \A i \in 1..(Len(us) + 1) : a[i] = Append(us, u)[i].text
    OBVIOUS
  <2>4. b \in Seq(Text) /\ Len(b) = Len(us) + 1
    <3> HIDE DEF t
    <3> QED BY <2>0, <2>2
  <2>5. ASSUME NEW i \in 1..Len(a) PROVE a[i] = b[i]
    <3>1. CASE i = Len(us) + 1
      <4>1. Append(us, u)[i] = u
        BY <3>1
      <4>2. b[i] = u.text
        <5> HIDE DEF t
        <5> QED BY <2>2, <3>1
      <4>3. a[i] = u.text
        BY <2>3, <3>1, <4>1
      <4> QED BY <4>2, <4>3
    <3>2. CASE i # Len(us) + 1
      <4>0. i \in 1..Len(us)
        BY <2>3, <3>2
      <4>1. Append(us, u)[i] = us[i]
        BY <4>0
      <4>2. b[i] = t[i]
        <5> HIDE DEF t
        <5> QED BY <2>2, <4>0
      <4> HIDE DEF a, b, t
      <4> QED BY <2>2, <2>3, <4>0, <4>1, <4>2
    <3> QED BY <3>1, <3>2
  <2> HIDE DEF a, b
  <2>6. a = b
    BY <2>1, <2>3, <2>4, <2>5, SeqEqual
  <2> QED BY <2>6 DEF a, b
<1>4. ASSUME NEW us \in Seq(UnitSet)
      PROVE  MergedText(us) \in Text
  BY <1>2, ParaSymbol, JoinedGrows DEF MergedText
<1>5. ASSUME NEW us \in Seq(UnitSet), NEW u \in UnitSet
      PROVE  MergedText(Append(us, u)) =
               IF MergedText(us) = <<>> THEN u.text
               ELSE MergedText(us) \o <<Para>> \o u.text
  <2>1. u.text \in Text
    BY DEF UnitSet
  <2> DEFINE t == [i \in DOMAIN us |-> us[i].text]
  <2>2. t \in Seq(Text)
    BY <1>2
  <2>3. MergedText(Append(us, u)) = Joined(Append(t, u.text), Para) /\ MergedText(us) = Joined(t, Para)
    BY <1>3 DEF MergedText
  <2> HIDE DEF t
  <2>4. Joined(Append(t, u.text), Para) =
          IF Joined(t, Para) = <<>> THEN u.text ELSE Joined(t, Para) \o <<Para>> \o u.text
    BY <2>1, <2>2, ParaSymbol, JoinedGrows
  <2> QED BY <2>3, <2>4
<1> QED
  BY <1>1, <1>4, <1>5

\* A chunk of one unit more has all of the text it had.
LEMMA MergedLonger ==
  ASSUME NEW us \in Seq(UnitSet), NEW u \in UnitSet
  PROVE  /\ Occurs(MergedText(us), MergedText(Append(us, u)))
         /\ Occurs(u.text, MergedText(Append(us, u)))
         /\ Len(MergedText(us)) + Len(u.text) <= Len(MergedText(Append(us, u)))
         /\ Len(MergedText(us)) \in Nat /\ Len(u.text) \in Nat
<1> DEFINE t == MergedText(us)
           v == MergedText(Append(us, u))
<1>0. t \in Text /\ u.text \in Text /\ v = IF t = <<>> THEN u.text ELSE t \o <<Para>> \o u.text
  BY MergedGrows DEF UnitSet
<1> HIDE DEF t, v
<1>1. CASE t = <<>>
  <2>1. Len(<<>>) = 0 /\ Len(u.text) \in Nat
    BY <1>0, TextSeq
  <2> QED BY <1>0, <1>1, <2>1, OccursSelf DEF t, v
<1>2. CASE t # <<>>
  <2>1. v = (t \o <<Para>>) \o u.text
    BY <1>0, <1>2
  <2>2. t \o <<Para>> \in Text /\ <<Para>> \o u.text \in Text
    BY <1>0, ParaSymbol, TextConcat
  <2>3. v = (<<>> \o t) \o (<<Para>> \o u.text)
    <3>1. <<>> \o t = t
      BY <1>0, TextSeq, ConcatEmptySeq
    <3>2. (t \o <<Para>>) \o u.text = t \o (<<Para>> \o u.text)
      BY <1>0, ParaSymbol, TextAssociative
    <3> QED BY <2>1, <3>1, <3>2
  <2>4. v = ((t \o <<Para>>) \o u.text) \o <<>>
    <3>1. v \in Text
      BY <1>0, <2>1, <2>2, TextConcat
    <3> QED BY <2>1, <3>1, TextSeq, ConcatEmptySeq
  <2>5. Occurs(t, v) /\ Occurs(u.text, v)
    BY <2>2, <2>3, <2>4, TextSeq DEF Occurs
  <2>6. Len(v) = Len(t) + 1 + Len(u.text) /\ Len(t) \in Nat /\ Len(u.text) \in Nat
    <3>1. Len(<<Para>>) = 1
      OBVIOUS
    <3>2. Len(t \o <<Para>>) = Len(t) + 1 /\ Len(t) \in Nat
      BY <1>0, <3>1, ParaSymbol, TextConcat
    <3> QED BY <1>0, <2>1, <2>2, <3>2, TextConcat, ZenonT(60)
  <2> QED BY <2>5, <2>6 DEF t, v
<1> QED
  BY <1>1, <1>2

LEMMA MergedHolds ==
  ASSUME NEW us \in Seq(UnitSet)
  PROVE  /\ UnitTokens(us) <= Len(MergedText(us))
         /\ \A i \in DOMAIN us : Occurs(us[i].text, MergedText(us))
<1> DEFINE S == {s \in Seq(UnitSet) :
                   /\ UnitTokens(s) <= Len(MergedText(s))
                   /\ \A i \in DOMAIN s : Occurs(s[i].text, MergedText(s))}
<1>1. <<>> \in S
  <2>1. <<>> \in Seq(UnitSet) /\ Len(<<>>) = 0 /\ DOMAIN <<>> = {}
    BY EmptySeq
  <2> QED BY <2>1, UnitTokensGrows, MergedGrows
<1>2. ASSUME NEW s \in Seq(UnitSet), NEW u \in UnitSet, s \in S
      PROVE  Append(s, u) \in S
  <2>0. Append(s, u) \in Seq(UnitSet)
    OBVIOUS
  <2>1. UnitTokens(Append(s, u)) <= Len(MergedText(Append(s, u)))
    <3>1. UnitTokens(s) \in Nat /\ UnitTokens(Append(s, u)) = UnitTokens(s) + Len(u.text)
      BY UnitTokensGrows
    <3>2. UnitTokens(s) <= Len(MergedText(s))
      BY <1>2
    <3>3. /\ Len(MergedText(s)) + Len(u.text) <= Len(MergedText(Append(s, u)))
          /\ Len(MergedText(s)) \in Nat /\ Len(u.text) \in Nat
      BY MergedLonger
    <3>4. Len(MergedText(Append(s, u))) \in Nat
      BY <2>0, MergedGrows, TextSeq
    <3> QED BY <3>1, <3>2, <3>3, <3>4
  <2>2. ASSUME NEW i \in DOMAIN Append(s, u)
        PROVE  Occurs(Append(s, u)[i].text, MergedText(Append(s, u)))
    <3>1. CASE i = Len(s) + 1
      <4>1. Append(s, u)[i] = u
        BY <3>1
      <4> QED BY <4>1, MergedLonger
    <3>2. CASE i # Len(s) + 1
      <4>1. i \in DOMAIN s /\ Append(s, u)[i] = s[i]
        BY <3>2
      <4>2. Occurs(s[i].text, MergedText(s))
        BY <1>2, <4>1
      <4>3. s[i].text \in Text /\ MergedText(s) \in Text /\ MergedText(Append(s, u)) \in Text
        <5>1. s[i] \in UnitSet
          BY <4>1
        <5> QED BY <2>0, <5>1, MergedGrows DEF UnitSet
      <4>4. Occurs(MergedText(s), MergedText(Append(s, u)))
        BY MergedLonger
      <4> QED BY <4>1, <4>2, <4>3, <4>4, OccursTransitive
    <3> QED BY <3>1, <3>2
  <2> QED BY <2>0, <2>1, <2>2
<1>3. \A s \in Seq(UnitSet) : s \in S
  <2> HIDE DEF S
  <2> QED BY <1>1, <1>2, InductiveSeq
<1> QED
  BY <1>3

LEMMA UnitTokensConcat ==
  ASSUME NEW x \in Seq(UnitSet), NEW y \in Seq(UnitSet)
  PROVE  UnitTokens(x \o y) = UnitTokens(x) + UnitTokens(y)
<1> DEFINE S == {s \in Seq(UnitSet) : UnitTokens(x \o s) = UnitTokens(x) + UnitTokens(s)}
<1>1. <<>> \in S
  <2>1. <<>> \in Seq(UnitSet) /\ x \o <<>> = x
    BY EmptySeq, ConcatEmptySeq
  <2> QED BY <2>1, UnitTokensGrows
<1>2. ASSUME NEW s \in Seq(UnitSet), NEW u \in UnitSet, s \in S
      PROVE  Append(s, u) \in S
  <2>0. Append(s, u) \in Seq(UnitSet) /\ x \o s \in Seq(UnitSet)
    OBVIOUS
  <2>1. x \o Append(s, u) = Append(x \o s, u)
    OBVIOUS
  <2>2. UnitTokens(Append(x \o s, u)) = UnitTokens(x \o s) + Len(u.text)
    BY <2>0, UnitTokensGrows
  <2>3. UnitTokens(Append(s, u)) = UnitTokens(s) + Len(u.text)
    BY UnitTokensGrows
  <2>4. UnitTokens(x) \in Nat /\ UnitTokens(s) \in Nat /\ Len(u.text) \in Nat
    <3>1. u.text \in Text
      BY DEF UnitSet
    <3>2. Len(u.text) \in Nat
      BY <3>1, TextSeq
    <3> QED BY <3>2, UnitTokensGrows
  <2>5. UnitTokens(x \o s) = UnitTokens(x) + UnitTokens(s)
    BY <1>2
  <2>6. UnitTokens(x \o Append(s, u)) = UnitTokens(x) + UnitTokens(Append(s, u))
    BY <2>1, <2>2, <2>3, <2>4, <2>5
  <2> QED BY <2>0, <2>6
<1>3. \A s \in Seq(UnitSet) : s \in S
  <2> HIDE DEF S
  <2> QED BY <1>1, <1>2, InductiveSeq
<1> QED
  BY <1>3

\* The last units have no more than all of them.
LEMMA UnitTokensOfRest ==
  ASSUME NEW us \in Seq(UnitSet), NEW k \in 1..Len(us)
  PROVE  /\ SubSeq(us, k, Len(us)) \in Seq(UnitSet)
         /\ UnitTokens(SubSeq(us, k, Len(us))) <= UnitTokens(us)
<1> DEFINE a == SubSeq(us, 1, k - 1)
           b == SubSeq(us, k, Len(us))
<1>1. a \in Seq(UnitSet) /\ b \in Seq(UnitSet)
  OBVIOUS
<1>2. a \o b = us
  <2>1. /\ 1 \in 1..(Len(us) + 1) /\ k - 1 \in (1 - 1)..Len(us)
        /\ Len(us) \in (k - 1)..Len(us) /\ (k - 1) + 1 = k
    OBVIOUS
  <2>2. SubSeq(us, 1, k - 1) \o SubSeq(us, (k - 1) + 1, Len(us)) = SubSeq(us, 1, Len(us))
    BY <2>1, ConcatAdjacentSubSeq
  <2> QED BY <2>1, <2>2, SubSeqFull
<1> HIDE DEF a, b
<1>3. UnitTokens(us) = UnitTokens(a) + UnitTokens(b) /\ UnitTokens(a) \in Nat /\ UnitTokens(b) \in Nat
  BY <1>1, <1>2, UnitTokensConcat, UnitTokensGrows
<1>4. UnitTokens(b) <= UnitTokens(us)
  BY <1>3
<1> QED
  BY <1>1, <1>4 DEF b

LEMMA MergeUnits ==
  ASSUME NEW us \in Seq(UnitSet), us # <<>>
  PROVE  /\ merge_units(us) \in Chunk
         /\ merge_units(us).text = MergedText(us)
         /\ merge_units(us).pages = {us[i].page : i \in DOMAIN us}
<1>1. MergedText(us) \in Text
  BY MergedGrows
<1>2. {us[i].page : i \in DOMAIN us} \in (SUBSET Nat) \ {{}}
  <2>1. \A i \in DOMAIN us : us[i] \in UnitSet
    OBVIOUS
  <2>2. 1 \in DOMAIN us
    OBVIOUS
  <2>3. \A i \in DOMAIN us : us[i].page \in Nat
    BY <2>1 DEF UnitSet
  <2>4. us[1].page \in {us[i].page : i \in DOMAIN us}
    BY <2>2
  <2>5. {us[i].page : i \in DOMAIN us} \subseteq Nat
    BY <2>3
  <2> HIDE DEF UnitSet
  <2> QED BY <2>4, <2>5
<1>3. ToSet(us) \in SUBSET Spans
  BY DEF ToSet, Spans
<1>4. Contains(MergedText(us), Citation) \in BOOLEAN
  BY DEF Contains
<1> QED
  BY <1>1, <1>2, <1>3, <1>4
  DEF merge_units, MergedText, Chunk, PagesOf, is_reference_section

-----------------------------------------------------------------------------
(***************************************************************************)
(* The units of a document are in the order of its pages.                  *)
(***************************************************************************)
PageUnits(p) == [page : {p}, text : Text]

LEMMA LeastOfTwo ==
  ASSUME NEW m \in Nat, NEW n \in Nat
  PROVE  /\ Least({m, n}) \in {m, n}
         /\ Least({m, n}) <= m /\ Least({m, n}) <= n
<1>1. {m, n} \in SUBSET Nat /\ {m, n} # {}
  OBVIOUS
<1> QED
  BY <1>1, LeastOf

LEMMA DivType ==
  ASSUME NEW x \in Nat, NEW y \in Nat \ {0}
  PROVE  x \div y \in Nat
<1>1. x \div y \in Int
  OBVIOUS
<1>2. x \div y >= 0
  OBVIOUS
<1> QED
  BY <1>1, <1>2

LEMMA PageUnitsType ==
  ASSUME NEW p \in Nat, NEW blocks \in Seq(Seq(Words))
  PROVE  split_page_into_units(p, blocks) \in Seq(PageUnits(p))
<1> DEFINE cut(b) == [k \in 1..((Len(b) + PieceWords - 1) \div PieceWords) |->
                        Unit(p, SubSeq(b, (k - 1) * PieceWords + 1,
                               Least({k * PieceWords, Len(b)})))]
<1>0. PieceWords \in Nat \ {0}
  BY ChunkingAssumption
<1>1. ASSUME NEW b \in Seq(Words) PROVE cut(b) \in Seq(PageUnits(p))
  <2> DEFINE m == (Len(b) + PieceWords - 1) \div PieceWords
  <2>1. m \in Nat
    <3>1. Len(b) + PieceWords - 1 \in Nat
      BY <1>0
    <3> QED BY <1>0, <3>1, DivType
  <2>2. ASSUME NEW k \in 1..m
        PROVE  Unit(p, SubSeq(b, (k - 1) * PieceWords + 1, Least({k * PieceWords, Len(b)})))
                 \in PageUnits(p)
    <3> DEFINE from == (k - 1) * PieceWords + 1
               to == Least({k * PieceWords, Len(b)})
    <3>0. \A x, y \in Nat : x * y \in Nat
      OBVIOUS
    <3>1. k - 1 \in Nat /\ k \in Nat
      BY <2>1
    <3>2. (k - 1) * PieceWords \in Nat /\ k * PieceWords \in Nat
      <4> HIDE DEF m
      <4> QED BY <1>0, <3>0, <3>1
    <3>3. from \in Nat /\ from >= 1
      <4> DEFINE x == (k - 1) * PieceWords
      <4>1. x \in Nat
        BY <3>2
      <4> HIDE DEF x
      <4>2. x + 1 \in Nat /\ x + 1 >= 1
        BY <4>1
      <4> QED BY <4>2 DEF x
    <3>4. to \in Nat /\ to <= Len(b)
      <4> DEFINE x == k * PieceWords
      <4>1. x \in Nat /\ Len(b) \in Nat
        BY <3>2
      <4> HIDE DEF x
      <4>2. Least({x, Len(b)}) \in {x, Len(b)} /\ Least({x, Len(b)}) <= Len(b)
        BY <4>1, LeastOfTwo
      <4>3. Least({x, Len(b)}) \in Nat
        BY <4>1, <4>2
      <4> QED BY <4>2, <4>3 DEF x
    <3> HIDE DEF from, to, m
    <3>5. \A i \in from..to : b[i] \in Symbols
      BY <3>3, <3>4 DEF Symbols
    <3>6. SubSeq(b, from, to) \in Text
      BY <3>3, <3>4, <3>5, TextSeq, SubSeqProperties
    <3> QED BY <3>6 DEF Unit, PageUnits, from, to
  <2>3. \A k \in 1..m : cut(b)[k] \in PageUnits(p)
    BY <2>2
  <2> DEFINE c == cut(b)
  <2>4. c = [k \in 1..m |-> c[k]] /\ \A k \in 1..m : c[k] \in PageUnits(p)
    BY <2>3
  <2> HIDE DEF c, m
  <2>5. c \in [1..m -> PageUnits(p)]
    BY <2>4
  <2>6. c \in Seq(PageUnits(p))
    BY <2>1, <2>5, SeqDef
  <2> QED BY <2>6 DEF c
<1>2. [i \in DOMAIN blocks |-> cut(blocks[i])] \in Seq(Seq(PageUnits(p)))
  <2>1. ASSUME NEW i \in DOMAIN blocks PROVE cut(blocks[i]) \in Seq(PageUnits(p))
    <3>1. blocks[i] \in Seq(Words)
      OBVIOUS
    <3> HIDE DEF cut
    <3> QED BY <1>1, <3>1
  <2>2. DOMAIN blocks = 1..Len(blocks) /\ Len(blocks) \in Nat
    OBVIOUS
  <2> HIDE DEF cut
  <2> QED BY <2>1, <2>2
<1>3. split_page_into_units(p, blocks) = FlattenSeq([i \in DOMAIN blocks |-> cut(blocks[i])])
  BY DEF split_page_into_units
<1> HIDE DEF cut
<1> QED
  BY <1>2, <1>3, FlattenGrows

\* Later units are of later pages, or of the same.
InPageOrder(us) == \A i, j \in DOMAIN us : i <= j => us[i].page <= us[j].page

LEMMA PagesOneAfterTheOther ==
  ASSUME NEW ss \in Seq(Seq(UnitSet)),
         \A p \in DOMAIN ss : \A i \in DOMAIN ss[p] : ss[p][i].page = p
  PROVE  InPageOrder(FlattenSeq(ss))
<1> DEFINE ByPage(t) == \A p \in DOMAIN t : \A i \in DOMAIN t[p] : t[p][i].page = p
           S == {t \in Seq(Seq(UnitSet)) : ByPage(t) =>
                   /\ InPageOrder(FlattenSeq(t))
                   /\ \A i \in DOMAIN FlattenSeq(t) : FlattenSeq(t)[i].page <= Len(t)}
<1>1. <<>> \in S
  <2>1. <<>> \in Seq(Seq(UnitSet)) /\ DOMAIN <<>> = {}
    BY EmptySeq
  <2> QED BY <2>1, FlattenGrows DEF InPageOrder
<1>2. ASSUME NEW t \in Seq(Seq(UnitSet)), NEW s \in Seq(UnitSet), t \in S
      PROVE  Append(t, s) \in S
  <2> DEFINE v == Append(t, s)
             f == FlattenSeq(t)
             n == Len(f)
  <2>0. v \in Seq(Seq(UnitSet)) /\ Len(v) = Len(t) + 1 /\ Len(t) \in Nat
    OBVIOUS
  <2>1. f \in Seq(UnitSet) /\ FlattenSeq(v) = f \o s
    BY FlattenGrows
  <2>2. /\ n \in Nat /\ Len(f \o s) = n + Len(s) /\ Len(s) \in Nat
        /\ DOMAIN f = 1..n /\ DOMAIN s = 1..Len(s)
        /\ DOMAIN (f \o s) = 1..(n + Len(s))
    <3> HIDE DEF f
    <3>1. f \o s \in Seq(UnitSet) /\ Len(f \o s) = Len(f) + Len(s)
      BY <2>1, ConcatProperties
    <3> QED BY <2>1, <3>1, LenProperties
  <2>3. \A i \in 1..(n + Len(s)) : (f \o s)[i] = IF i <= n THEN f[i] ELSE s[i - n]
    <3> HIDE DEF f
    <3> QED BY <2>1, ConcatProperties
  <2> SUFFICES ASSUME ByPage(v)
               PROVE  /\ InPageOrder(f \o s)
                      /\ \A i \in DOMAIN (f \o s) : (f \o s)[i].page <= Len(v)
    BY <2>0, <2>1
  <2>4. ByPage(t)
    <3>1. \A p \in DOMAIN t : p \in DOMAIN v /\ v[p] = t[p]
      OBVIOUS
    <3> HIDE DEF v
    <3> QED BY <3>1
  <2>5. /\ \A i, j \in 1..n : i <= j => f[i].page <= f[j].page
        /\ \A i \in 1..n : f[i].page <= Len(t)
    BY <1>2, <2>2, <2>4 DEF InPageOrder
  <2>6. \A i \in 1..Len(s) : s[i].page = Len(t) + 1
    <3>1. Len(t) + 1 \in DOMAIN v /\ v[Len(t) + 1] = s
      OBVIOUS
    <3> HIDE DEF v
    <3> QED BY <2>2, <3>1
  <2>7. \A i \in 1..n : f[i].page \in Nat
    <3> HIDE DEF f
    <3>1. \A i \in 1..n : f[i] \in UnitSet
      BY <2>1, <2>2
    <3> QED BY <3>1 DEF UnitSet
  <2> HIDE DEF f, v, n
  <2>8. ASSUME NEW i \in 1..(n + Len(s))
        PROVE  /\ i <= n => (f \o s)[i] = f[i] /\ i \in 1..n
               /\ ~(i <= n) => (f \o s)[i].page = Len(t) + 1
    <3>1. CASE i <= n
      BY <2>2, <2>3, <3>1
    <3>2. CASE ~(i <= n)
      <4>1. i - n \in 1..Len(s) /\ (f \o s)[i] = s[i - n]
        BY <2>2, <2>3, <3>2
      <4> QED BY <2>6, <3>2, <4>1
    <3> QED BY <3>1, <3>2
  <2>9. ASSUME NEW i \in 1..(n + Len(s)) PROVE (f \o s)[i].page <= Len(v)
    <3>1. CASE i <= n
      <4>1. f[i].page <= Len(t) /\ f[i].page \in Nat
        BY <2>5, <2>7, <2>8, <3>1
      <4>2. (f \o s)[i] = f[i]
        BY <2>8, <3>1
      <4> QED BY <2>0, <4>1, <4>2
    <3>2. CASE ~(i <= n)
      <4>1. (f \o s)[i].page = Len(t) + 1
        BY <2>8, <3>2
      <4> QED BY <2>0, <4>1
    <3> QED BY <3>1, <3>2
  <2>10. ASSUME NEW i \in 1..(n + Len(s)), NEW j \in 1..(n + Len(s)), i <= j
         PROVE  (f \o s)[i].page <= (f \o s)[j].page
    <3>1. CASE j <= n
      <4>1. i <= n
        BY <2>2, <2>10, <3>1
      <4> QED BY <2>5, <2>8, <2>10, <3>1, <4>1
    <3>2. CASE ~(j <= n)
      <4>1. (f \o s)[j].page = Len(t) + 1
        BY <2>8, <3>2
      <4>2. (f \o s)[i].page <= Len(v)
        BY <2>9
      <4> QED BY <2>0, <4>1, <4>2
    <3> QED BY <3>1, <3>2
  <2> QED BY <2>2, <2>9, <2>10 DEF InPageOrder
<1>3. \A t \in Seq(Seq(UnitSet)) : t \in S
  <2> HIDE DEF S
  <2> QED BY <1>1, <1>2, InductiveSeq
<1> QED
  BY <1>3

\* The units of the document.
LEMMA UnitsInOrder ==
  ASSUME doc \in Documents
  PROVE  units \in Seq(UnitSet) /\ InPageOrder(units)
<1> DEFINE ss == [p \in DOMAIN doc |-> split_page_into_units(p, doc[p])]
<1>1. doc \in Seq(Seq(Seq(Words)))
  BY DocumentsAssumption
<1>2. DOMAIN doc = 1..Len(doc) /\ Len(doc) \in Nat
  BY <1>1
<1>3. ASSUME NEW p \in DOMAIN doc
      PROVE  /\ ss[p] \in Seq(PageUnits(p)) /\ ss[p] \in Seq(UnitSet)
             /\ \A i \in DOMAIN ss[p] : ss[p][i].page = p
  <2>1. p \in Nat /\ doc[p] \in Seq(Seq(Words))
    BY <1>1, <1>2
  <2>2. ss[p] \in Seq(PageUnits(p))
    BY <2>1, PageUnitsType
  <2> HIDE DEF ss
  <2>3. PageUnits(p) \subseteq UnitSet
    BY <2>1 DEF PageUnits, UnitSet
  <2>4. ss[p] \in Seq(UnitSet)
    BY <2>2, <2>3, SeqMonotonic
  <2>5. ASSUME NEW i \in DOMAIN ss[p] PROVE ss[p][i].page = p
    <3>1. ss[p][i] \in PageUnits(p)
      BY <2>2
    <3> QED BY <3>1 DEF PageUnits
  <2> QED BY <2>2, <2>4, <2>5
<1>4. ss \in Seq(Seq(UnitSet)) /\ DOMAIN ss = DOMAIN doc
  <2>1. ss = [p \in 1..Len(doc) |-> ss[p]] /\ DOMAIN ss = DOMAIN doc
    BY <1>2
  <2>2. \A p \in 1..Len(doc) : ss[p] \in Seq(UnitSet)
    BY <1>2, <1>3
  <2> HIDE DEF ss
  <2> QED BY <1>2, <2>1, <2>2
<1>5. units = FlattenSeq(ss)
  BY DEF units
<1>6. \A p \in DOMAIN ss : \A i \in DOMAIN ss[p] : ss[p][i].page = p
  BY <1>3, <1>4
<1> HIDE DEF ss
<1> QED
  BY <1>4, <1>5, <1>6, PagesOneAfterTheOther, FlattenGrows

-----------------------------------------------------------------------------
(***************************************************************************)
(* The passes over the chunks at the end.                                  *)
(***************************************************************************)
\* What _dedupe_chunks has kept and dropped so far.
SiftState == [kept : Seq(Chunk), dropped : Seq(Chunk),
              seen : SUBSET {signature(c) : c \in Chunk}]
SiftBase  == [kept |-> <<>>, dropped |-> <<>>, seen |-> {}]

Sifted(acc, c) ==
    IF signature(c) \in acc.seen THEN [acc EXCEPT !.dropped = Append(@, c)]
    ELSE IF acc.kept # <<>> /\ contained(c, Last(acc.kept)) THEN acc
    ELSE [acc EXCEPT !.kept = Append(@, c), !.seen = @ \union {signature(c)}]

SiftStep == [p \in SiftState \X Chunk |-> Sifted(p[1], p[2])]

LEMMA SiftIsStep == IsStep(Chunk, SiftState, SiftStep, SiftBase)
<1>1. SiftBase \in SiftState
  BY EmptySeq DEF SiftBase, SiftState
<1>2. ASSUME NEW acc \in SiftState, NEW c \in Chunk PROVE Sifted(acc, c) \in SiftState
  <2>1. /\ Append(acc.dropped, c) \in Seq(Chunk)
        /\ Append(acc.kept, c) \in Seq(Chunk)
        /\ acc.seen \union {signature(c)} \in SUBSET {signature(d) : d \in Chunk}
    BY DEF SiftState
  <2>2. [acc EXCEPT !.dropped = Append(@, c)] \in SiftState
    BY <2>1 DEF SiftState
  <2>3. [acc EXCEPT !.kept = Append(@, c), !.seen = @ \union {signature(c)}] \in SiftState
    BY <2>1 DEF SiftState
  <2> QED BY <2>2, <2>3 DEF Sifted
<1> QED
  BY <1>1, <1>2 DEF IsStep, SiftStep

LEMMA SiftFolds ==
  ASSUME NEW s \in Seq(Chunk)
  PROVE  Folded(SiftState, SiftStep, SiftBase, s, _dedupe_chunks(s))
<1> DEFINE n == Len(s)
           Is(h) == h = [S \in SUBSET (1..n) |->
                 IF S = {} THEN SiftBase ELSE Sifted(h[S \ {Max(S)}], s[Max(S)])]
           fold == CHOOSE h : Is(h)
<1>0. n \in Nat /\ DOMAIN s = 1..n /\ \A k \in 1..n : s[k] \in Chunk
  OBVIOUS
<1>1. IsStep(Chunk, SiftState, SiftStep, SiftBase)
  BY SiftIsStep
<1>2. PICK h : FoldBy(SiftState, SiftStep, SiftBase, s, h)
  BY <1>1, FoldDefined
<1>3. Is(h)
  <2>1. h \in [SUBSET (1..n) -> SiftState]
    BY <1>2 DEF FoldBy
  <2>2. ASSUME NEW S \in SUBSET (1..n)
        PROVE  h[S] = IF S = {} THEN SiftBase ELSE Sifted(h[S \ {Max(S)}], s[Max(S)])
    <3>1. S # {} => Max(S) \in 1..n /\ S \ {Max(S)} \in SUBSET (1..n)
      BY <1>0, TopOf
    <3>2. h[S] = IF S = {} THEN SiftBase ELSE SiftStep[<<h[S \ {Max(S)}], s[Max(S)]>>]
      BY <1>2 DEF FoldBy
    <3>3. S # {} => h[S \ {Max(S)}] \in SiftState /\ s[Max(S)] \in Chunk
      BY <1>0, <2>1, <3>1
    <3> QED BY <3>2, <3>3 DEF SiftStep
  <2> QED
    BY <2>1, <2>2
<1>4. Is(fold)
  <2> HIDE DEF Is
  <2> QED BY <1>3
<1>5. _dedupe_chunks(s) = fold[1..n]
  BY <1>0 DEF _dedupe_chunks, Sifted, SiftBase, FoldLeft, MapThenFoldSet
<1> HIDE DEF fold
<1>6. fold[{}] = SiftBase
  BY <1>4
<1>7. ASSUME NEW k \in 1..n, fold[1..(k - 1)] \in SiftState
      PROVE  fold[1..k] = SiftStep[<<fold[1..(k - 1)], s[k]>>]
  <2>0. /\ 1..k \in SUBSET (1..n) /\ 1..k # {}
        /\ Max(1..k) = k /\ (1..k) \ {k} = 1..(k - 1)
    BY <1>0, Positions
  <2>1. s[k] \in Chunk
    BY <1>0
  <2>2. fold[1..k] = Sifted(fold[1..(k - 1)], s[k])
    BY <1>4, <2>0
  <2> QED BY <1>7, <2>1, <2>2 DEF SiftStep
<1> QED
  <2>1. Folded(SiftState, SiftStep, SiftBase, s, fold[1..Len(s)])
    BY <1>1, <1>6, <1>7, FoldFolds
  <2> QED BY <1>5, <2>1

LEMMA SiftGrows ==
  /\ _dedupe_chunks(<<>>) = SiftBase
  /\ \A cs \in Seq(Chunk) :
       /\ _dedupe_chunks(cs) \in SiftState
       /\ \A c \in Chunk :
            _dedupe_chunks(Append(cs, c)) = Sifted(_dedupe_chunks(cs), c)
<1>1. _dedupe_chunks(<<>>) = SiftBase
  <2>1. <<>> \in Seq(Chunk)
    BY EmptySeq
  <2> QED BY <2>1, SiftFolds, FoldBase
<1>2. ASSUME NEW cs \in Seq(Chunk), NEW c \in Chunk
      PROVE  /\ _dedupe_chunks(cs) \in SiftState
             /\ _dedupe_chunks(Append(cs, c)) = SiftStep[<<_dedupe_chunks(cs), c>>]
  <2>1. Append(cs, c) \in Seq(Chunk)
    OBVIOUS
  <2>2. /\ Folded(SiftState, SiftStep, SiftBase, cs, _dedupe_chunks(cs))
        /\ Folded(SiftState, SiftStep, SiftBase, Append(cs, c), _dedupe_chunks(Append(cs, c)))
    BY <2>1, SiftFolds
  <2> QED BY <2>1, <2>2, SiftIsStep, FoldGrows
<1>3. ASSUME NEW cs \in Seq(Chunk) PROVE _dedupe_chunks(cs) \in SiftState
  <2>1. Folded(SiftState, SiftStep, SiftBase, cs, _dedupe_chunks(cs))
    BY SiftFolds
  <2> QED BY <2>1, FoldType
<1> QED
  BY <1>1, <1>2, <1>3 DEF SiftStep

\* Two chunks in one.
MergedChunks(prev, c) ==
    [text      |-> Joined(<<prev.text, c.text>>, Para),
     pages     |-> prev.pages \union c.pages,
     spans     |-> prev.spans \union c.spans,
     reference |-> prev.reference]

LEMMA MergedChunksType ==
  ASSUME NEW b \in Chunk, NEW c \in Chunk
  PROVE  /\ MergedChunks(b, c) \in Chunk
         /\ MergedChunks(b, c).pages = b.pages \union c.pages
         /\ Occurs(b.text, MergedChunks(b, c).text)
         /\ Occurs(c.text, MergedChunks(b, c).text)
<1> DEFINE x == b.text
           y == c.text
           t == Joined(<<x, y>>, Para)
<1>0. x \in Text /\ y \in Text
  BY DEF Chunk
<1>1. /\ <<>> \in Seq(Text) /\ <<x>> \in Seq(Text) /\ <<x, y>> \in Seq(Text)
      /\ <<x>> = Append(<<>>, x) /\ <<x, y>> = Append(<<x>>, y)
  <2> HIDE DEF x, y
  <2> QED BY <1>0
<1>2. Joined(<<x>>, Para) = x
  <2> HIDE DEF x
  <2>1. Joined(Append(<<>>, x), Para) =
          IF Joined(<<>>, Para) = <<>> THEN x ELSE Joined(<<>>, Para) \o <<Para>> \o x
    BY <1>0, <1>1, ParaSymbol, JoinedGrows
  <2>2. Joined(<<>>, Para) = <<>>
    BY ParaSymbol, JoinedGrows
  <2>3. <<x>> = Append(<<>>, x)
    BY <1>1
  <2> QED BY <2>1, <2>2, <2>3
<1>3. t \in Text /\ t = IF x = <<>> THEN y ELSE x \o <<Para>> \o y
  <2> HIDE DEF x, y
  <2>1. Joined(Append(<<x>>, y), Para) =
          IF Joined(<<x>>, Para) = <<>> THEN y ELSE Joined(<<x>>, Para) \o <<Para>> \o y
    BY <1>0, <1>1, ParaSymbol, JoinedGrows
  <2>2. Joined(<<x, y>>, Para) \in Text
    BY <1>1, ParaSymbol, JoinedGrows
  <2> QED BY <1>1, <1>2, <2>1, <2>2
<1> HIDE DEF x, y, t
<1>4. Occurs(x, t) /\ Occurs(y, t)
  <2>1. CASE x = <<>>
    BY <1>0, <1>3, <2>1, OccursSelf
  <2>2. CASE x # <<>>
    <3>1. t = (x \o <<Para>>) \o y
      BY <1>3, <2>2
    <3>2. x \o <<Para>> \in Text /\ <<Para>> \o y \in Text
      BY <1>0, ParaSymbol, TextConcat
    <3>3. <<>> \o x = x /\ t \o <<>> = t
      BY <1>0, <1>3, TextSeq, ConcatEmptySeq
    <3>4. (x \o <<Para>>) \o y = x \o (<<Para>> \o y)
      BY <1>0, ParaSymbol, TextAssociative
    <3>5. t = (<<>> \o x) \o (<<Para>> \o y)
      BY <3>1, <3>3, <3>4
    <3>6. t = ((x \o <<Para>>) \o y) \o <<>>
      BY <3>1, <3>3
    <3> QED BY <3>2, <3>5, <3>6, TextSeq DEF Occurs
  <2> QED BY <2>1, <2>2
<1>5. /\ b.pages \union c.pages \in (SUBSET Nat) \ {{}}
      /\ b.spans \union c.spans \in SUBSET Spans
      /\ b.reference \in BOOLEAN
  BY DEF Chunk
<1>6. MergedChunks(b, c) = [text |-> t, pages |-> b.pages \union c.pages,
                            spans |-> b.spans \union c.spans, reference |-> b.reference]
  BY DEF MergedChunks, t, x, y
<1>7. MergedChunks(b, c) \in Chunk
  BY <1>3, <1>5, <1>6 DEF Chunk
<1> QED
  BY <1>4, <1>6, <1>7 DEF x, y

MergeStep == [p \in Seq(Chunk) \X Chunk |->
                IF p[1] # <<>> /\ mergeable(Last(p[1]), p[2])
                THEN Append(Front(p[1]), MergedChunks(Last(p[1]), p[2]))
                ELSE Append(p[1], p[2])]

\* A sequence is all but its last member, and its last member.
LEMMA FrontLast ==
  ASSUME NEW T, NEW s \in Seq(T), s # <<>>
  PROVE  Front(s) \in Seq(T) /\ Last(s) \in T /\ s = Append(Front(s), Last(s))
<1>0. Len(s) \in Nat \ {0}
  OBVIOUS
<1>1. Front(s) \in Seq(T) /\ Len(Front(s)) = Len(s) - 1 /\ Last(s) \in T
      /\ Len(s) \in Nat \ {0} /\ Last(s) = s[Len(s)]
  <2>1. Last(s) = s[Len(s)] /\ Front(s) = SubSeq(s, 1, Len(s) - 1)
    BY DEF Front, Last
  <2>2. s[Len(s)] \in T
    BY <1>0
  <2>3. SubSeq(s, 1, Len(s) - 1) \in Seq(T) /\ Len(SubSeq(s, 1, Len(s) - 1)) = Len(s) - 1
    <3>1. PICK m \in Nat : Len(s) = m + 1
      <4>1. Len(s) - 1 \in Nat /\ Len(s) = (Len(s) - 1) + 1
        BY <1>0
      <4> QED BY <4>1
    <3>2. \A i \in 1..m : s[i] \in T
      BY <3>1
    <3>3. /\ SubSeq(s, 1, m) \in Seq(T)
          /\ Len(SubSeq(s, 1, m)) = IF 1 <= m THEN m - 1 + 1 ELSE 0
      BY <3>2, SubSeqProperties
    <3>4. Len(SubSeq(s, 1, m)) = m
      BY <3>3
    <3>5. Len(s) - 1 = m
      BY <3>1
    <3> QED BY <3>3, <3>4, <3>5
  <2> QED BY <1>0, <2>1, <2>2, <2>3
<1>2. \A i \in 1..(Len(s) - 1) : Front(s)[i] = s[i]
  BY DEF Front
<1> DEFINE a == Append(Front(s), Last(s))
<1>3. a \in Seq(T) /\ Len(a) = Len(s)
  BY <1>1
<1>4. ASSUME NEW i \in 1..Len(s) PROVE a[i] = s[i]
  <2>1. CASE i = Len(s)
    BY <1>1, <2>1
  <2>2. CASE i # Len(s)
    <3>1. i \in 1..(Len(s) - 1)
      BY <1>1, <2>2
    <3>2. a[i] = Front(s)[i]
      BY <1>1, <3>1
    <3> QED BY <1>2, <3>1, <3>2
  <2> QED BY <2>1, <2>2
<1> HIDE DEF a
<1>5. a = s
  BY <1>3, <1>4, SeqEqual
<1> QED
  BY <1>1, <1>5 DEF a

LEMMA MergeIsStep == IsStep(Chunk, Seq(Chunk), MergeStep, <<>>)
<1>1. <<>> \in Seq(Chunk)
  BY EmptySeq
<1>2. ASSUME NEW cs \in Seq(Chunk), NEW c \in Chunk
      PROVE  (IF cs # <<>> /\ mergeable(Last(cs), c)
              THEN Append(Front(cs), MergedChunks(Last(cs), c)) ELSE Append(cs, c))
                \in Seq(Chunk)
  <2>1. Append(cs, c) \in Seq(Chunk)
    OBVIOUS
  <2>2. ASSUME cs # <<>> PROVE Append(Front(cs), MergedChunks(Last(cs), c)) \in Seq(Chunk)
    <3>1. Front(cs) \in Seq(Chunk) /\ Last(cs) \in Chunk
      BY <2>2, FrontLast
    <3>2. MergedChunks(Last(cs), c) \in Chunk
      BY <3>1, MergedChunksType
    <3> QED BY <3>1, <3>2
  <2> QED BY <2>1, <2>2
<1> QED
  BY <1>1, <1>2 DEF IsStep, MergeStep

LEMMA MergeFolds ==
  ASSUME NEW s \in Seq(Chunk)
  PROVE  Folded(Seq(Chunk), MergeStep, <<>>, s, _merge_adjacent_chunks(s))
<1> DEFINE n == Len(s)
           Is(h) == h = [S \in SUBSET (1..n) |->
                 IF S = {} THEN <<>> ELSE IF h[S \ {Max(S)}] # <<>> /\ mergeable(Last(h[S \ {Max(S)}]), s[Max(S)]) THEN Append(Front(h[S \ {Max(S)}]), MergedChunks(Last(h[S \ {Max(S)}]), s[Max(S)])) ELSE Append(h[S \ {Max(S)}], s[Max(S)])]
           fold == CHOOSE h : Is(h)
<1>0. n \in Nat /\ DOMAIN s = 1..n /\ \A k \in 1..n : s[k] \in Chunk
  OBVIOUS
<1>1. IsStep(Chunk, Seq(Chunk), MergeStep, <<>>)
  BY MergeIsStep
<1>2. PICK h : FoldBy(Seq(Chunk), MergeStep, <<>>, s, h)
  BY <1>1, FoldDefined
<1>3. Is(h)
  <2>1. h \in [SUBSET (1..n) -> Seq(Chunk)]
    BY <1>2 DEF FoldBy
  <2>2. ASSUME NEW S \in SUBSET (1..n)
        PROVE  h[S] = IF S = {} THEN <<>> ELSE IF h[S \ {Max(S)}] # <<>> /\ mergeable(Last(h[S \ {Max(S)}]), s[Max(S)]) THEN Append(Front(h[S \ {Max(S)}]), MergedChunks(Last(h[S \ {Max(S)}]), s[Max(S)])) ELSE Append(h[S \ {Max(S)}], s[Max(S)])
    <3>1. S # {} => Max(S) \in 1..n /\ S \ {Max(S)} \in SUBSET (1..n)
      BY <1>0, TopOf
    <3>2. h[S] = IF S = {} THEN <<>> ELSE MergeStep[<<h[S \ {Max(S)}], s[Max(S)]>>]
      BY <1>2 DEF FoldBy
    <3>3. S # {} => h[S \ {Max(S)}] \in Seq(Chunk) /\ s[Max(S)] \in Chunk
      BY <1>0, <2>1, <3>1
    <3> QED BY <3>2, <3>3 DEF MergeStep
  <2> QED
    BY <2>1, <2>2
<1>4. Is(fold)
  <2> HIDE DEF Is
  <2> QED BY <1>3
<1>5. _merge_adjacent_chunks(s) = fold[1..n]
  BY <1>0 DEF _merge_adjacent_chunks, MergedChunks, FoldLeft, MapThenFoldSet
<1> HIDE DEF fold
<1>6. fold[{}] = <<>>
  BY <1>4
<1>7. ASSUME NEW k \in 1..n, fold[1..(k - 1)] \in Seq(Chunk)
      PROVE  fold[1..k] = MergeStep[<<fold[1..(k - 1)], s[k]>>]
  <2>0. /\ 1..k \in SUBSET (1..n) /\ 1..k # {}
        /\ Max(1..k) = k /\ (1..k) \ {k} = 1..(k - 1)
    BY <1>0, Positions
  <2>1. s[k] \in Chunk
    BY <1>0
  <2>2. fold[1..k] = IF fold[1..(k - 1)] # <<>> /\ mergeable(Last(fold[1..(k - 1)]), s[k]) THEN Append(Front(fold[1..(k - 1)]), MergedChunks(Last(fold[1..(k - 1)]), s[k])) ELSE Append(fold[1..(k - 1)], s[k])
    BY <1>4, <2>0
  <2> QED BY <1>7, <2>1, <2>2 DEF MergeStep
<1> QED
  <2>1. Folded(Seq(Chunk), MergeStep, <<>>, s, fold[1..Len(s)])
    BY <1>1, <1>6, <1>7, FoldFolds
  <2> QED BY <1>5, <2>1

LEMMA MergeGrows ==
  /\ _merge_adjacent_chunks(<<>>) = <<>>
  /\ \A cs \in Seq(Chunk) :
       /\ _merge_adjacent_chunks(cs) \in Seq(Chunk)
       /\ \A c \in Chunk :
            _merge_adjacent_chunks(Append(cs, c)) =
              MergeStep[<<_merge_adjacent_chunks(cs), c>>]
<1>1. _merge_adjacent_chunks(<<>>) = <<>>
  <2>1. <<>> \in Seq(Chunk)
    BY EmptySeq
  <2> QED BY <2>1, MergeFolds, FoldBase
<1>2. ASSUME NEW cs \in Seq(Chunk), NEW c \in Chunk
      PROVE  _merge_adjacent_chunks(Append(cs, c)) =
               MergeStep[<<_merge_adjacent_chunks(cs), c>>]
  <2>1. Append(cs, c) \in Seq(Chunk)
    OBVIOUS
  <2>2. /\ Folded(Seq(Chunk), MergeStep, <<>>, cs, _merge_adjacent_chunks(cs))
        /\ Folded(Seq(Chunk), MergeStep, <<>>, Append(cs, c),
                  _merge_adjacent_chunks(Append(cs, c)))
    BY <2>1, MergeFolds
  <2> QED BY <2>1, <2>2, MergeIsStep, FoldGrows
<1>3. ASSUME NEW cs \in Seq(Chunk) PROVE _merge_adjacent_chunks(cs) \in Seq(Chunk)
  BY MergeFolds, FoldType
<1> QED
  BY <1>1, <1>2, <1>3

\* What the passes leave of the order of the chunks.
InOrder(cs) == \A i, j \in DOMAIN cs :
                  i < j => page_start(cs[i]) <= page_start(cs[j])

LEMMA ToSetAppend ==
  ASSUME NEW T, NEW s \in Seq(T), NEW x \in T
  PROVE  ToSet(Append(s, x)) = ToSet(s) \union {x}
<1>1. /\ Len(Append(s, x)) = Len(s) + 1 /\ Len(s) \in Nat
      /\ DOMAIN Append(s, x) = 1..(Len(s) + 1) /\ DOMAIN s = 1..Len(s)
      /\ Append(s, x)[Len(s) + 1] = x
      /\ \A i \in 1..Len(s) : Append(s, x)[i] = s[i]
  OBVIOUS
<1>2. ASSUME NEW y \in ToSet(Append(s, x)) PROVE y \in ToSet(s) \union {x}
  <2>1. PICK i \in 1..(Len(s) + 1) : y = Append(s, x)[i]
    BY <1>1 DEF ToSet
  <2>2. i = Len(s) + 1 \/ i \in 1..Len(s)
    BY <1>1
  <2> QED BY <1>1, <2>1, <2>2 DEF ToSet
<1>3. ASSUME NEW y \in ToSet(s) PROVE y \in ToSet(Append(s, x))
  <2>1. PICK i \in 1..Len(s) : y = s[i]
    BY <1>1 DEF ToSet
  <2>2. i \in 1..(Len(s) + 1) /\ y = Append(s, x)[i]
    BY <1>1, <2>1
  <2> QED BY <1>1, <2>2 DEF ToSet
<1>4. x \in ToSet(Append(s, x))
  <2>1. Len(s) + 1 \in DOMAIN Append(s, x)
    BY <1>1
  <2> QED BY <1>1, <2>1 DEF ToSet
<1> QED
  BY <1>2, <1>3, <1>4

LEMMA ToSetType ==
  ASSUME NEW T, NEW s \in Seq(T)
  PROVE  ToSet(s) \subseteq T /\ ToSet(<<>>) = {}
BY DEF ToSet

LEMMA StartType ==
  ASSUME NEW c \in Chunk
  PROVE  /\ page_start(c) \in Nat /\ page_start(c) \in c.pages
         /\ \A p \in c.pages : page_start(c) <= p
<1>1. c.pages \in SUBSET Nat /\ c.pages # {}
  BY DEF Chunk
<1> QED
  BY <1>1, LeastOf DEF page_start

LEMMA InOrderAppend ==
  ASSUME NEW cs \in Seq(Chunk), NEW c \in Chunk
  PROVE  InOrder(Append(cs, c)) <=>
           InOrder(cs) /\ \A x \in ToSet(cs) : page_start(x) <= page_start(c)
<1> DEFINE n == Len(cs)
           a == Append(cs, c)
<1>1. /\ n \in Nat /\ DOMAIN a = 1..(n + 1) /\ DOMAIN cs = 1..n
      /\ a[n + 1] = c /\ \A i \in 1..n : a[i] = cs[i]
  OBVIOUS
<1>2. ToSet(cs) = {cs[i] : i \in 1..n}
  BY <1>1 DEF ToSet
<1> HIDE DEF a, n
<1>3. ASSUME InOrder(a)
      PROVE  InOrder(cs) /\ \A x \in ToSet(cs) : page_start(x) <= page_start(c)
  <2>1. ASSUME NEW i \in 1..n, NEW j \in 1..n, i < j
        PROVE  page_start(cs[i]) <= page_start(cs[j])
    <3>1. i \in 1..(n + 1) /\ j \in 1..(n + 1) /\ a[i] = cs[i] /\ a[j] = cs[j]
      BY <1>1
    <3>2. page_start(a[i]) <= page_start(a[j])
      BY <1>1, <1>3, <2>1, <3>1 DEF InOrder
    <3> QED BY <3>1, <3>2
  <2>2. ASSUME NEW i \in 1..n PROVE page_start(cs[i]) <= page_start(c)
    <3>1. i \in 1..(n + 1) /\ n + 1 \in 1..(n + 1) /\ i < n + 1 /\ a[i] = cs[i]
      BY <1>1
    <3>2. page_start(a[i]) <= page_start(a[n + 1])
      BY <1>1, <1>3, <3>1 DEF InOrder
    <3> QED BY <1>1, <3>1, <3>2
  <2> QED BY <1>1, <1>2, <2>1, <2>2 DEF InOrder
<1>4. ASSUME InOrder(cs), \A x \in ToSet(cs) : page_start(x) <= page_start(c)
      PROVE  InOrder(a)
  <2>1. ASSUME NEW i \in 1..(n + 1), NEW j \in 1..(n + 1), i < j
        PROVE  page_start(a[i]) <= page_start(a[j])
    <3>0. i \in 1..n /\ a[i] = cs[i]
      BY <1>1, <2>1
    <3>1. CASE j = n + 1
      <4>1. page_start(cs[i]) <= page_start(c)
        BY <1>2, <1>4, <3>0
      <4> QED BY <1>1, <3>0, <3>1, <4>1
    <3>2. CASE j # n + 1
      <4>1. j \in 1..n /\ a[j] = cs[j]
        BY <1>1, <3>2
      <4>2. page_start(cs[i]) <= page_start(cs[j])
        BY <1>1, <1>4, <2>1, <3>0, <4>1 DEF InOrder
      <4> QED BY <3>0, <4>1, <4>2
    <3> QED BY <3>1, <3>2
  <2> QED BY <1>1, <2>1 DEF InOrder
<1> QED
  BY <1>3, <1>4 DEF a

LEMMA WithoutSet ==
  ASSUME NEW T, NEW out, NEW s \in Seq(T)
  PROVE  ToSet(Without(s, out)) = ToSet(s) \ out
<1> DEFINE S == {t \in Seq(T) : ToSet(Without(t, out)) = ToSet(t) \ out}
<1>1. <<>> \in S
  <2>1. <<>> \in Seq(T) /\ ToSet(<<>>) = {}
    BY EmptySeq, ToSetType
  <2> QED BY <2>1, WithoutNone
<1>2. ASSUME NEW t \in Seq(T), NEW x \in T, t \in S PROVE Append(t, x) \in S
  <2>0. Append(t, x) \in Seq(T) /\ Without(t, out) \in Seq(T)
    BY WithoutType
  <2>1. ToSet(Append(t, x)) = ToSet(t) \union {x}
    BY ToSetAppend
  <2>2. ToSet(Append(Without(t, out), x)) = ToSet(Without(t, out)) \union {x}
    BY <2>0, ToSetAppend
  <2>3. Without(Append(t, x), out) = IF x \in out THEN Without(t, out)
                                     ELSE Append(Without(t, out), x)
    BY WithoutGrows
  <2>4. ToSet(Without(t, out)) = ToSet(t) \ out
    BY <1>2
  <2> QED BY <2>0, <2>1, <2>2, <2>3, <2>4
<1>3. \A t \in Seq(T) : t \in S
  <2> HIDE DEF S
  <2> QED BY <1>1, <1>2, InductiveSeq
<1> QED
  BY <1>3

LEMMA WithoutInOrder ==
  ASSUME NEW out, NEW cs \in Seq(Chunk), InOrder(cs)
  PROVE  Without(cs, out) \in Seq(Chunk) /\ InOrder(Without(cs, out))
<1> DEFINE S == {s \in Seq(Chunk) : InOrder(s) => InOrder(Without(s, out))}
<1>1. <<>> \in S
  <2>1. <<>> \in Seq(Chunk)
    BY EmptySeq
  <2> QED BY <2>1, WithoutNone
<1>2. ASSUME NEW s \in Seq(Chunk), NEW c \in Chunk, s \in S PROVE Append(s, c) \in S
  <2>0. Append(s, c) \in Seq(Chunk) /\ Without(s, out) \in Seq(Chunk)
    BY WithoutType
  <2>1. ToSet(Without(s, out)) \subseteq ToSet(s)
    BY WithoutSet
  <2>2. InOrder(Append(s, c)) =>
          /\ InOrder(Without(s, out))
          /\ \A x \in ToSet(Without(s, out)) : page_start(x) <= page_start(c)
    BY <1>2, <2>1, InOrderAppend
  <2>3. InOrder(Append(s, c)) => InOrder(Append(Without(s, out), c))
    BY <2>0, <2>2, InOrderAppend
  <2>4. Without(Append(s, c), out) = IF c \in out THEN Without(s, out)
                                     ELSE Append(Without(s, out), c)
    BY WithoutGrows
  <2> QED BY <2>0, <2>2, <2>3, <2>4
<1>3. \A s \in Seq(Chunk) : s \in S
  <2> HIDE DEF S
  <2> QED BY <1>1, <1>2, InductiveSeq
<1> QED
  BY <1>3, WithoutType

\* Of every chunk _dedupe_chunks keeps it, a chunk it is contained in, or
\* reports it.
LEMMA SiftKeeps ==
  ASSUME NEW cs \in Seq(Chunk)
  PROVE  LET d == _dedupe_chunks(cs)
         IN  /\ d.kept \in Seq(Chunk) /\ d.dropped \in Seq(Chunk)
             /\ ToSet(d.kept) \subseteq ToSet(cs)
             /\ \A c \in ToSet(cs) : \/ c \in ToSet(d.dropped)
                                     \/ \E k \in ToSet(d.kept) : k = c \/ contained(c, k)
             /\ InOrder(cs) => InOrder(d.kept)
<1> DEFINE Fine(s, d) ==
             /\ ToSet(d.kept) \subseteq ToSet(s)
             /\ \A c \in ToSet(s) : \/ c \in ToSet(d.dropped)
                                    \/ \E k \in ToSet(d.kept) : k = c \/ contained(c, k)
             /\ InOrder(s) => InOrder(d.kept)
           S == {s \in Seq(Chunk) : Fine(s, _dedupe_chunks(s))}
<1>1. <<>> \in S
  <2>1. <<>> \in Seq(Chunk) /\ DOMAIN <<>> = {}
    BY EmptySeq
  <2>2. ToSet(<<>>) = {} /\ InOrder(<<>>)
    BY <2>1, ToSetType DEF InOrder
  <2> QED BY <2>1, <2>2, SiftGrows DEF SiftBase
<1>2. ASSUME NEW s \in Seq(Chunk), NEW c \in Chunk, s \in S PROVE Append(s, c) \in S
  <2> DEFINE d == _dedupe_chunks(s)
             e == _dedupe_chunks(Append(s, c))
  <2>0. /\ Append(s, c) \in Seq(Chunk) /\ d \in SiftState
        /\ d.kept \in Seq(Chunk) /\ d.dropped \in Seq(Chunk)
        /\ e = Sifted(d, c)
    BY SiftGrows DEF SiftState
  <2>1. ToSet(Append(s, c)) = ToSet(s) \union {c}
    BY ToSetAppend
  <2>2. Fine(s, d)
    BY <1>2
  <2> HIDE DEF d, e
  <2>3. InOrder(Append(s, c)) => /\ InOrder(d.kept)
                                 /\ \A x \in ToSet(d.kept) : page_start(x) <= page_start(c)
    BY <2>2, InOrderAppend
  <2>4. /\ ToSet(Append(d.dropped, c)) = ToSet(d.dropped) \union {c}
        /\ ToSet(Append(d.kept, c)) = ToSet(d.kept) \union {c}
    BY <2>0, ToSetAppend
  <2>5. CASE signature(c) \in d.seen
    <3>1. e.kept = d.kept /\ e.dropped = Append(d.dropped, c)
      BY <2>0, <2>5 DEF Sifted, SiftState
    <3> QED BY <2>0, <2>1, <2>2, <2>3, <2>4, <3>1 DEF e
  <2>6. CASE signature(c) \notin d.seen /\ d.kept # <<>> /\ contained(c, Last(d.kept))
    <3>1. e = d
      BY <2>0, <2>6 DEF Sifted
    <3>2. Last(d.kept) \in ToSet(d.kept)
      <4>1. Len(d.kept) \in DOMAIN d.kept
        BY <2>0, <2>6
      <4> QED BY <4>1 DEF Last, ToSet
    <3>3. \E k \in ToSet(e.kept) : k = c \/ contained(c, k)
      BY <2>6, <3>1, <3>2
    <3> QED BY <2>0, <2>1, <2>2, <2>3, <3>1, <3>3 DEF e
  <2>7. CASE signature(c) \notin d.seen /\ ~(d.kept # <<>> /\ contained(c, Last(d.kept)))
    <3>1. e.kept = Append(d.kept, c) /\ e.dropped = d.dropped
      BY <2>0, <2>7 DEF Sifted, SiftState
    <3>2. InOrder(Append(s, c)) => InOrder(Append(d.kept, c))
      BY <2>0, <2>3, InOrderAppend
    <3>3. c \in ToSet(e.kept)
      BY <2>4, <3>1
    <3>4. Fine(Append(s, c), e)
      <4>1. ToSet(e.kept) \subseteq ToSet(Append(s, c))
        BY <2>1, <2>2, <2>4, <3>1
      <4>2. ASSUME NEW x \in ToSet(Append(s, c))
            PROVE  \/ x \in ToSet(e.dropped)
                   \/ \E k \in ToSet(e.kept) : k = x \/ contained(x, k)
        <5>1. CASE x = c
          BY <3>3, <5>1
        <5>2. CASE x \in ToSet(s)
          BY <2>2, <2>4, <3>1, <5>2
        <5> QED BY <2>1, <5>1, <5>2
      <4> QED BY <3>1, <3>2, <4>1, <4>2
    <3> QED BY <2>0, <3>4 DEF e
  <2> QED BY <2>5, <2>6, <2>7
<1>3. \A s \in Seq(Chunk) : s \in S
  <2> HIDE DEF S
  <2> QED BY <1>1, <1>2, InductiveSeq
<1> QED
  BY <1>3, SiftGrows DEF SiftState

\* Every chunk is in one of the merged chunks, with its pages; a merged chunk
\* begins on the page of one of them.
LEMMA MergeKeeps ==
  ASSUME NEW cs \in Seq(Chunk)
  PROVE  LET m == _merge_adjacent_chunks(cs)
         IN  /\ m \in Seq(Chunk)
             /\ \A c \in ToSet(cs) : \E x \in ToSet(m) :
                   c.pages \subseteq x.pages /\ Occurs(c.text, x.text)
             /\ InOrder(cs) => InOrder(m)
<1> DEFINE In(c, x) == c.pages \subseteq x.pages /\ Occurs(c.text, x.text)
           Fine(s, m) ==
             /\ \A c \in ToSet(s) : \E x \in ToSet(m) : In(c, x)
             /\ InOrder(s) => /\ InOrder(m)
                              /\ \A x \in ToSet(m) : \E c \in ToSet(s) :
                                    page_start(x) = page_start(c)
           S == {s \in Seq(Chunk) : Fine(s, _merge_adjacent_chunks(s))}
<1>1. <<>> \in S
  <2>1. <<>> \in Seq(Chunk) /\ DOMAIN <<>> = {}
    BY EmptySeq
  <2>2. ToSet(<<>>) = {} /\ InOrder(<<>>)
    BY <2>1, ToSetType DEF InOrder
  <2> QED BY <2>1, <2>2, MergeGrows
<1>2. ASSUME NEW s \in Seq(Chunk), NEW c \in Chunk, s \in S PROVE Append(s, c) \in S
  <2> DEFINE m == _merge_adjacent_chunks(s)
             e == _merge_adjacent_chunks(Append(s, c))
  <2>0. /\ Append(s, c) \in Seq(Chunk) /\ m \in Seq(Chunk)
        /\ e = IF m # <<>> /\ mergeable(Last(m), c)
               THEN Append(Front(m), MergedChunks(Last(m), c))
               ELSE Append(m, c)
    <3>1. m \in Seq(Chunk) /\ e = MergeStep[<<m, c>>]
      BY MergeGrows
    <3>2. Append(s, c) \in Seq(Chunk)
      OBVIOUS
    <3> HIDE DEF m, e
    <3>3. <<m, c>> \in Seq(Chunk) \X Chunk
      BY <3>1
    <3>4. MergeStep[<<m, c>>] = IF m # <<>> /\ mergeable(Last(m), c)
                                THEN Append(Front(m), MergedChunks(Last(m), c))
                                ELSE Append(m, c)
      BY <3>3 DEF MergeStep
    <3> QED BY <3>1, <3>2, <3>4
  <2>1. ToSet(Append(s, c)) = ToSet(s) \union {c}
    BY ToSetAppend
  <2>2. Fine(s, m)
    BY <1>2
  <2> HIDE DEF m, e
  <2>3. InOrder(Append(s, c)) =>
          /\ InOrder(s) /\ InOrder(m)
          /\ \A x \in ToSet(s) : page_start(x) <= page_start(c)
          /\ \A x \in ToSet(m) : page_start(x) <= page_start(c)
    BY <2>2, InOrderAppend
  <2>4. In(c, c)
    <3>1. c.text \in Text
      BY DEF Chunk
    <3> QED BY <3>1, OccursSelf
  <2>5. CASE m # <<>> /\ mergeable(Last(m), c)
    <3> DEFINE f == Front(m)
               l == Last(m)
               x == MergedChunks(l, c)
    <3>1. f \in Seq(Chunk) /\ l \in Chunk /\ m = Append(f, l)
      BY <2>0, <2>5, FrontLast
    <3>2. e = Append(f, x)
      BY <2>0, <2>5
    <3> HIDE DEF f, l
    <3>3. x \in Chunk /\ In(l, x) /\ In(c, x) /\ x.pages = l.pages \union c.pages
      BY <3>1, MergedChunksType
    <3> HIDE DEF x
    <3>4. ToSet(m) = ToSet(f) \union {l} /\ ToSet(e) = ToSet(f) \union {x}
      BY <3>1, <3>2, <3>3, ToSetAppend
    <3>5. ASSUME NEW y \in ToSet(Append(s, c)) PROVE \E z \in ToSet(e) : In(y, z)
      <4>1. CASE y = c
        BY <3>3, <3>4, <4>1
      <4>2. CASE y \in ToSet(s)
        <5>1. PICK z \in ToSet(m) : In(y, z)
          BY <2>2, <4>2
        <5>2. CASE z \in ToSet(f)
          BY <3>4, <5>1, <5>2
        <5>3. CASE z = l
          <6>1. y \in Chunk
            BY <4>2, ToSetType
          <6>2. y.text \in Text /\ l.text \in Text /\ x.text \in Text
            BY <3>1, <3>3, <6>1 DEF Chunk
          <6>3. Occurs(y.text, x.text)
            BY <3>3, <5>1, <5>3, <6>2, OccursTransitive
          <6>4. In(y, x)
            BY <3>3, <5>1, <5>3, <6>3
          <6> QED BY <3>4, <6>4
        <5> QED BY <3>4, <5>2, <5>3
      <4> QED BY <2>1, <4>1, <4>2
    <3>6. ASSUME InOrder(Append(s, c))
          PROVE  InOrder(e) /\ \A z \in ToSet(e) : \E y \in ToSet(Append(s, c)) :
                                  page_start(z) = page_start(y)
      <4>0. page_start(l) <= page_start(c)
        BY <2>3, <3>4, <3>6
      <4>1. page_start(x) = page_start(l)
        <5>1. /\ page_start(l) \in Nat /\ page_start(l) \in l.pages
              /\ \A p \in l.pages : page_start(l) <= p
              /\ page_start(c) \in Nat /\ \A p \in c.pages : page_start(c) <= p
              /\ page_start(x) \in Nat /\ page_start(x) \in x.pages
              /\ \A p \in x.pages : page_start(x) <= p
          BY <3>1, <3>3, StartType
        <5>2. page_start(x) <= page_start(l)
          BY <3>3, <5>1
        <5>3. page_start(l) <= page_start(x)
          BY <3>3, <4>0, <5>1
        <5> QED BY <5>1, <5>2, <5>3
      <4>2. InOrder(f) /\ \A y \in ToSet(f) : page_start(y) <= page_start(l)
        BY <2>3, <3>1, <3>6, InOrderAppend
      <4>3. InOrder(e)
        BY <3>1, <3>2, <3>3, <4>1, <4>2, InOrderAppend
      <4>4. ASSUME NEW z \in ToSet(e)
            PROVE  \E y \in ToSet(Append(s, c)) : page_start(z) = page_start(y)
        <5>1. \E z2 \in ToSet(m) : page_start(z) = page_start(z2)
          BY <3>4, <4>1
        <5>2. InOrder(s)
          BY <2>3, <3>6
        <5> QED BY <2>1, <2>2, <5>1, <5>2
      <4> QED BY <4>3, <4>4
    <3>7. Fine(Append(s, c), e)
      BY <3>5, <3>6
    <3> QED BY <2>0, <3>7 DEF e
  <2>6. CASE ~(m # <<>> /\ mergeable(Last(m), c))
    <3>1. e = Append(m, c)
      BY <2>0, <2>6
    <3>2. ToSet(e) = ToSet(m) \union {c}
      <4>1. m \in Seq(Chunk)
        BY <2>0
      <4>2. ToSet(Append(m, c)) = ToSet(m) \union {c}
        BY <4>1, ToSetAppend
      <4> QED BY <3>1, <4>2
    <3>3. ASSUME NEW y \in ToSet(Append(s, c)) PROVE \E z \in ToSet(e) : In(y, z)
      BY <2>1, <2>2, <2>4, <3>2
    <3>4. ASSUME InOrder(Append(s, c))
          PROVE  InOrder(e) /\ \A z \in ToSet(e) : \E y \in ToSet(Append(s, c)) :
                                  page_start(z) = page_start(y)
      <4>1. InOrder(e)
        BY <2>0, <2>3, <3>1, <3>4, InOrderAppend
      <4>2. InOrder(s)
        BY <2>3, <3>4
      <4> QED BY <2>1, <2>2, <3>2, <4>1, <4>2
    <3>5. Fine(Append(s, c), e)
      BY <3>3, <3>4
    <3> QED BY <2>0, <3>5 DEF e
  <2> QED BY <2>5, <2>6
<1>3. \A s \in Seq(Chunk) : s \in S
  <2> HIDE DEF S
  <2> QED BY <1>1, <1>2, InductiveSeq
<1> QED
  BY <1>3, MergeGrows

-----------------------------------------------------------------------------
(***************************************************************************)
(* The deterministic provider, unit by unit.                               *)
(***************************************************************************)
Carries(c, u) == u.page \in c.pages /\ Occurs(u.text, c.text)

\* A chunk that is a run of the units us.
RunOf(us, c) == \E a, b \in 1..Len(us) : a <= b /\ c = merge_units(SubSeq(us, a, b))

\* The provider has been through the first n of the units us: cur begins with
\* unit f, the chunks cs have the units before it.
Running(us, n, f, cur, cs) ==
  /\ cur = SubSeq(us, f, n)
  /\ cs \in Seq(Chunk)
  /\ \A i \in 1..(f - 1) : \E c \in ToSet(cs) :
       Len(c.text) >= MinTokens /\ Carries(c, us[i])
  /\ f > 1 => UnitTokens(cur) >= MinTokens
  /\ f = 1 => \A c \in ToSet(cs) : Len(c.text) <= Len(MergedText(cur))
  /\ \A c \in ToSet(cs) : RunOf(us, c) /\ page_start(c) <= us[f].page
  /\ InOrder(cs)

LEMMA PartOf ==
  ASSUME NEW T, NEW s \in Seq(T), NEW a \in 1..Len(s), NEW b \in a..Len(s)
  PROVE  LET p == SubSeq(s, a, b)
         IN  /\ p \in Seq(T) /\ p # <<>> /\ Len(p) = b - a + 1
             /\ DOMAIN p = 1..(b - a + 1)
             /\ \A i \in 1..(b - a + 1) : p[i] = s[a + i - 1]
             /\ \A i \in a..b : i - a + 1 \in DOMAIN p /\ p[i - a + 1] = s[i]
<1>1. /\ SubSeq(s, a, b) \in Seq(T) /\ Len(SubSeq(s, a, b)) = b - a + 1
      /\ \A i \in 1..(b - a + 1) : SubSeq(s, a, b)[i] = s[a + i - 1]
  BY SubSeqProperties
<1>2. SubSeq(s, a, b) # <<>> /\ DOMAIN SubSeq(s, a, b) = 1..(b - a + 1)
  BY <1>1
<1>3. ASSUME NEW i \in a..b
      PROVE  i - a + 1 \in 1..(b - a + 1) /\ SubSeq(s, a, b)[i - a + 1] = s[i]
  <2>1. i - a + 1 \in 1..(b - a + 1) /\ a + (i - a + 1) - 1 = i
    OBVIOUS
  <2> QED BY <1>1, <2>1
<1> QED
  BY <1>1, <1>2, <1>3

\* The chunk of a run of units has their pages and their texts.
LEMMA RunCarries ==
  ASSUME NEW us \in Seq(UnitSet), NEW a \in 1..Len(us), NEW b \in a..Len(us)
  PROVE  LET c == merge_units(SubSeq(us, a, b))
         IN  /\ c \in Chunk /\ c.pages = {us[i].page : i \in a..b}
             /\ c.text = MergedText(SubSeq(us, a, b))
             /\ \A i \in a..b : Carries(c, us[i])
             /\ RunOf(us, c)
<1> DEFINE p == SubSeq(us, a, b)
           c == merge_units(p)
<1>1. /\ p \in Seq(UnitSet) /\ p # <<>> /\ DOMAIN p = 1..(b - a + 1)
      /\ \A i \in 1..(b - a + 1) : p[i] = us[a + i - 1]
      /\ \A i \in a..b : i - a + 1 \in DOMAIN p /\ p[i - a + 1] = us[i]
  BY PartOf
<1>0. RunOf(us, c)
  BY DEF RunOf
<1> HIDE DEF p
<1>2. c \in Chunk /\ c.text = MergedText(p) /\ c.pages = {p[i].page : i \in DOMAIN p}
  BY <1>1, MergeUnits
<1>3. \A i \in DOMAIN p : Occurs(p[i].text, MergedText(p))
  BY <1>1, MergedHolds
<1>4. c.pages = {us[i].page : i \in a..b}
  <2>1. ASSUME NEW i \in DOMAIN p PROVE a + i - 1 \in a..b /\ p[i] = us[a + i - 1]
    BY <1>1
  <2>2. \A i \in DOMAIN p : p[i].page \in {us[j].page : j \in a..b}
    <3> TAKE i \in DOMAIN p
    <3>1. a + i - 1 \in a..b /\ p[i].page = us[a + i - 1].page
      BY <2>1
    <3> DEFINE j == a + i - 1
    <3> HIDE DEF j
    <3> QED BY <3>1 DEF j
  <2>3. \A j \in a..b : us[j].page \in {p[i].page : i \in DOMAIN p}
    <3> TAKE j \in a..b
    <3>1. j - a + 1 \in DOMAIN p /\ p[j - a + 1].page = us[j].page
      BY <1>1
    <3> DEFINE i == j - a + 1
    <3> HIDE DEF i
    <3> QED BY <3>1 DEF i
  <2> QED BY <1>2, <2>2, <2>3
<1> HIDE DEF c
<1>5. ASSUME NEW i \in a..b PROVE Carries(c, us[i])
  <2>1. us[i].page \in c.pages
    BY <1>4
  <2>2. Occurs(us[i].text, c.text)
    BY <1>1, <1>2, <1>3
  <2> QED BY <2>1, <2>2 DEF Carries
<1> QED
  BY <1>0, <1>2, <1>4, <1>5 DEF c, p

LEMMA RunningStarts ==
  ASSUME NEW us \in Seq(UnitSet), us # <<>>
  PROVE  Running(us, 1, 1, Append(<<>>, us[1]), <<>>)
<1>1. Append(<<>>, us[1]) = SubSeq(us, 1, 1)
  OBVIOUS
<1>2. <<>> \in Seq(Chunk) /\ ToSet(<<>>) = {}
  BY EmptySeq, ToSetType
<1>3. InOrder(<<>>)
  BY DEF InOrder
<1> QED
  BY <1>1, <1>2, <1>3 DEF Running

\* A unit more.
LEMMA RunningGoesOn ==
  ASSUME NEW us \in Seq(UnitSet), NEW n \in 1..(Len(us) - 1), NEW f \in 1..n,
         NEW cur, NEW cs, Running(us, n, f, cur, cs)
  PROVE  Running(us, n + 1, f, Append(cur, us[n + 1]), cs)
<1> DEFINE u == us[n + 1]
           cur2 == Append(cur, u)
<1>1. cur = SubSeq(us, f, n) /\ cur \in Seq(UnitSet) /\ u \in UnitSet
  <2>1. n \in f..Len(us) /\ f \in 1..Len(us) /\ n + 1 \in 1..Len(us)
    OBVIOUS
  <2>2. SubSeq(us, f, n) \in Seq(UnitSet)
    BY <2>1, PartOf
  <2> QED BY <2>1, <2>2 DEF Running
<1>2. cur2 = SubSeq(us, f, n + 1)
  <2> DEFINE p == SubSeq(us, f, n)
             q == SubSeq(us, f, n + 1)
  <2>1. /\ p \in Seq(UnitSet) /\ Len(p) = n - f + 1
        /\ \A i \in 1..(n - f + 1) : p[i] = us[f + i - 1]
    <3>1. f \in 1..Len(us) /\ n \in f..Len(us)
      OBVIOUS
    <3> QED BY <3>1, PartOf
  <2>2. /\ q \in Seq(UnitSet) /\ Len(q) = n - f + 2
        /\ \A i \in 1..(n - f + 2) : q[i] = us[f + i - 1]
    <3>1. f \in 1..Len(us) /\ n + 1 \in f..Len(us) /\ (n + 1) - f + 1 = n - f + 2
      OBVIOUS
    <3> QED BY <3>1, PartOf
  <2> HIDE DEF p, q
  <2>0. n \in Nat /\ f \in Nat /\ n - f + 1 \in Nat
    <3>1. Len(us) \in Nat
      OBVIOUS
    <3> QED BY <3>1
  <2>3. /\ Append(p, u) \in Seq(UnitSet) /\ Len(Append(p, u)) = n - f + 2
        /\ Append(p, u)[Len(p) + 1] = u
        /\ \A i \in 1..Len(p) : Append(p, u)[i] = p[i]
    BY <1>1, <2>0, <2>1, AppendProperties
  <2>4. ASSUME NEW i \in 1..(n - f + 2) PROVE Append(p, u)[i] = q[i]
    <3>1. CASE i \in 1..(n - f + 1)
      BY <2>0, <2>1, <2>2, <2>3, <3>1
    <3>2. CASE i = n - f + 2
      <4>1. Append(p, u)[n - f + 2] = u
        <5>1. Len(p) + 1 = n - f + 2
          BY <2>0, <2>1
        <5> QED BY <2>3, <5>1
      <4>2. q[n - f + 2] = us[n + 1]
        <5>1. n - f + 2 \in 1..(n - f + 2) /\ f + (n - f + 2) - 1 = n + 1
          OBVIOUS
        <5> QED BY <2>2, <5>1
      <4> QED BY <3>2, <4>1, <4>2
    <3>3. i \in 1..(n - f + 1) \/ i = n - f + 2
      BY <2>0
    <3> QED BY <3>1, <3>2, <3>3
  <2>5. Append(p, u) = q
    BY <2>2, <2>3, <2>4, SeqEqual
  <2> QED BY <1>1, <2>5 DEF p, q
<1> HIDE DEF u
<1>3. Len(MergedText(cur)) <= Len(MergedText(cur2))
      /\ Len(MergedText(cur)) \in Nat /\ Len(MergedText(cur2)) \in Nat
  <2>1. cur2 \in Seq(UnitSet)
    BY <1>1
  <2>2. MergedText(cur2) \in Text
    BY <2>1, MergedGrows
  <2>3. Len(MergedText(cur2)) \in Nat
    BY <2>2, TextSeq
  <2>4. /\ Len(MergedText(cur)) + Len(u.text) <= Len(MergedText(cur2))
        /\ Len(MergedText(cur)) \in Nat /\ Len(u.text) \in Nat
    BY <1>1, MergedLonger
  <2> HIDE DEF cur2
  <2> QED BY <2>3, <2>4
<1>4. UnitTokens(cur) \in Nat /\ UnitTokens(cur) <= UnitTokens(cur2) /\ UnitTokens(cur2) \in Nat
  <2>1. Len(u.text) \in Nat
    BY <1>1 DEF UnitSet, Text
  <2>2. UnitTokens(cur) \in Nat /\ UnitTokens(cur2) = UnitTokens(cur) + Len(u.text)
    BY <1>1, UnitTokensGrows
  <2> QED BY <2>1, <2>2
<1>5. MinTokens \in Nat
  BY ChunkingAssumption
<1>6. ASSUME f = 1, NEW c \in ToSet(cs) PROVE Len(c.text) <= Len(MergedText(cur2))
  <2>1. c \in Chunk
    BY ToSetType DEF Running
  <2>2. Len(c.text) \in Nat
    BY <2>1 DEF Chunk, Text
  <2>3. Len(c.text) <= Len(MergedText(cur))
    BY <1>6 DEF Running
  <2> HIDE DEF cur2
  <2> QED BY <1>3, <2>2, <2>3
<1>7. f > 1 => UnitTokens(cur2) >= MinTokens
  <2> HIDE DEF cur2
  <2> QED BY <1>4, <1>5 DEF Running
<1> HIDE DEF cur2
<1>8. Running(us, n + 1, f, cur2, cs)
  BY <1>2, <1>6, <1>7 DEF Running
<1> QED
  BY <1>8 DEF cur2, u

\* A chunk is closed: cand is there when it is of the least size, and where it
\* is too small everything of it is in the overlap.
LEMMA RunningCloses ==
  ASSUME NEW us \in Seq(UnitSet), InPageOrder(us),
         NEW n \in 1..Len(us), NEW f \in 1..n, NEW cur, NEW cs, NEW cs2,
         Running(us, n, f, cur, cs),
         cs2 = cs \/ cs2 = Append(cs, merge_units(cur)),
         Len(merge_units(cur).text) >= MinTokens => cs2 = Append(cs, merge_units(cur))
  PROVE  \E g \in 1..n : Running(us, n, g, _select_overlap_units(cur), cs2)
<1> DEFINE cand == merge_units(cur)
           over == _select_overlap_units(cur)
<1>0. /\ n \in f..Len(us) /\ f \in 1..Len(us) /\ n \in Nat /\ f \in Nat
      /\ MinTokens \in Nat /\ OverlapTokens \in Nat /\ MinTokens <= OverlapTokens
  <2>1. Len(us) \in Nat
    OBVIOUS
  <2> QED BY <2>1, ChunkingAssumption
<1>1. /\ cur = SubSeq(us, f, n) /\ cur \in Seq(UnitSet) /\ cur # <<>>
      /\ Len(cur) = n - f + 1
  <2>1. cur = SubSeq(us, f, n)
    BY DEF Running
  <2> QED BY <1>0, <2>1, PartOf, ZenonT(60)
<1>2. /\ cand \in Chunk /\ cand.pages = {us[i].page : i \in f..n}
      /\ cand.text = MergedText(cur) /\ RunOf(us, cand)
      /\ \A i \in f..n : Carries(cand, us[i])
  BY <1>0, <1>1, RunCarries
<1>3. \A c \in ToSet(cs) : c \in Chunk
  BY ToSetType DEF Running
<1>4. cs \in Seq(Chunk) /\ InOrder(cs) /\ cs2 \in Seq(Chunk)
      /\ ToSet(cs) \subseteq ToSet(cs2) /\ ToSet(cs2) \subseteq ToSet(cs) \union {cand}
  <2>1. cs \in Seq(Chunk) /\ InOrder(cs)
    BY DEF Running
  <2>2. Append(cs, cand) \in Seq(Chunk) /\ ToSet(Append(cs, cand)) = ToSet(cs) \union {cand}
    <3> HIDE DEF cand
    <3> QED BY <1>2, <2>1, ToSetAppend
  <2> QED BY <2>1, <2>2
<1> HIDE DEF cand
<1>5. \A i \in 1..Len(us) : us[i].page \in Nat
  <2>1. \A i \in 1..Len(us) : us[i] \in UnitSet
    OBVIOUS
  <2> QED BY <2>1 DEF UnitSet
<1>6. page_start(cand) \in Nat /\ page_start(cand) \in cand.pages
      /\ \A p \in cand.pages : page_start(cand) <= p
  BY <1>2, StartType
<1>7. \A g \in f..n : page_start(cand) <= us[g].page
  BY <1>2, <1>6
<1>8. \A g \in f..n : us[f].page <= us[g].page
  <2> TAKE g \in f..n
  <2>1. f \in DOMAIN us /\ g \in DOMAIN us /\ f <= g
    BY <1>0
  <2> QED BY <2>1 DEF InPageOrder
<1>9. us[f].page <= page_start(cand)
  BY <1>2, <1>6, <1>8
<1>10. InOrder(cs2)
  <2>1. \A x \in ToSet(cs) : page_start(x) <= page_start(cand)
    <3> TAKE x \in ToSet(cs)
    <3>1. page_start(x) <= us[f].page
      BY DEF Running
    <3>2. page_start(x) \in Nat
      BY <1>3, StartType
    <3> QED BY <1>0, <1>5, <1>6, <1>9, <3>1, <3>2
  <2>2. InOrder(Append(cs, cand))
    BY <1>2, <1>4, <2>1, InOrderAppend
  <2> QED BY <1>4, <2>2 DEF cand
<1>11. ASSUME NEW g \in f..n, NEW c \in ToSet(cs2)
       PROVE  RunOf(us, c) /\ page_start(c) <= us[g].page
  <2>1. CASE c = cand
    BY <1>2, <1>7, <2>1
  <2>2. CASE c \in ToSet(cs)
    <3>1. RunOf(us, c) /\ page_start(c) <= us[f].page
      BY <2>2 DEF Running
    <3>2. page_start(c) \in Nat
      BY <1>3, <2>2, StartType
    <3>3. us[f].page <= us[g].page /\ us[f].page \in Nat /\ us[g].page \in Nat
      BY <1>0, <1>5, <1>8
    <3> QED BY <3>1, <3>2, <3>3
  <2> QED BY <1>4, <2>1, <2>2
<1>12. MergedText(cur) \in Text /\ Len(MergedText(cur)) \in Nat
       /\ UnitTokens(cur) \in Nat /\ UnitTokens(cur) <= Len(MergedText(cur))
  <2>1. MergedText(cur) \in Text
    BY <1>1, MergedGrows
  <2>2. Len(MergedText(cur)) \in Nat
    BY <2>1, TextSeq
  <2>3. UnitTokens(cur) \in Nat
    BY <1>1, UnitTokensGrows
  <2>4. UnitTokens(cur) <= Len(MergedText(cur))
    BY <1>1, MergedHolds
  <2> QED BY <2>1, <2>2, <2>3, <2>4
<1>13. \E g \in f..n : /\ over = SubSeq(us, g, n)
                       /\ g = f => over = cur
                       /\ g # f => UnitTokens(over) >= MinTokens
                                   /\ UnitTokens(cur) >= MinTokens
  <2> DEFINE enough == {k \in DOMAIN cur :
                     UnitTokens(SubSeq(cur, k, Len(cur))) >= OverlapTokens}
             k == Greatest(enough)
  <2>1. over = IF enough = {} THEN cur ELSE SubSeq(cur, k, Len(cur))
    BY DEF _select_overlap_units
  <2>2. CASE enough = {}
    <3>1. over = cur
      BY <2>1, <2>2
    <3>2. f \in f..n
      BY <1>0
    <3> HIDE DEF over
    <3> QED BY <1>1, <3>1, <3>2
  <2>3. CASE enough # {}
    <3>1. enough \in SUBSET (1..Len(cur)) /\ Len(cur) \in Nat
      BY <1>1
    <3>2. k \in enough
      <4> HIDE DEF enough
      <4>1. \E x \in enough : \A y \in enough : y <= x
        BY <2>3, <3>1, TopOf
      <4> QED BY <4>1 DEF Greatest
    <3> HIDE DEF k
    <3>3. /\ k \in 1..Len(cur) /\ UnitTokens(SubSeq(cur, k, Len(cur))) >= OverlapTokens
          /\ over = SubSeq(cur, k, Len(cur))
      <4>1. k \in DOMAIN cur /\ UnitTokens(SubSeq(cur, k, Len(cur))) >= OverlapTokens
        BY <3>2
      <4>2. over = SubSeq(cur, k, Len(cur))
        <5> HIDE DEF over, enough
        <5> QED BY <2>1, <2>3
      <4>3. DOMAIN cur = 1..Len(cur)
        BY <1>1
      <4> HIDE DEF over, enough
      <4> QED BY <4>1, <4>2, <4>3
    <3> HIDE DEF over, enough
    <3>4. UnitTokens(SubSeq(cur, k, Len(cur))) <= UnitTokens(cur)
          /\ SubSeq(cur, k, Len(cur)) \in Seq(UnitSet)
      BY <1>1, <3>3, UnitTokensOfRest
    <3>5. UnitTokens(over) >= MinTokens /\ UnitTokens(cur) >= MinTokens
      <4>1. UnitTokens(over) \in Nat
        BY <3>3, <3>4, UnitTokensGrows
      <4> QED BY <1>0, <1>12, <3>3, <3>4, <4>1
    <3> DEFINE g == f + k - 1
    <3>6. g \in f..n
      BY <1>0, <1>1, <3>3
    <3>7. over = SubSeq(us, g, n)
      <4>1. /\ SubSeq(us, g, n) \in Seq(UnitSet) /\ Len(SubSeq(us, g, n)) = n - g + 1
            /\ \A i \in 1..(n - g + 1) : SubSeq(us, g, n)[i] = us[g + i - 1]
        <5>1. g \in 1..Len(us) /\ n \in g..Len(us)
          BY <1>0, <3>6
        <5> HIDE DEF g
        <5> QED BY <5>1, PartOf
      <4>2. /\ over \in Seq(UnitSet) /\ Len(over) = Len(cur) - k + 1
            /\ \A i \in 1..(Len(cur) - k + 1) : over[i] = cur[k + i - 1]
        <5>1. Len(cur) \in k..Len(cur)
          BY <3>1, <3>3
        <5> DEFINE e == Len(cur)
        <5>2. k \in 1..Len(cur) /\ e \in k..Len(cur)
          BY <3>3, <5>1
        <5> HIDE DEF e
        <5>3. LET p == SubSeq(cur, k, e)
              IN  /\ p \in Seq(UnitSet) /\ Len(p) = e - k + 1
                  /\ \A i \in 1..(e - k + 1) : p[i] = cur[k + i - 1]
          BY <1>1, <5>2, PartOf
        <5> QED BY <3>3, <5>3 DEF e
      <4>3. n - g + 1 = Len(cur) - k + 1
        BY <1>0, <1>1, <3>3
      <4>4. \A i \in 1..(n - f + 1) : cur[i] = us[f + i - 1]
        BY <1>0, <1>1, PartOf
      <4>5. ASSUME NEW i \in 1..(n - g + 1) PROVE over[i] = SubSeq(us, g, n)[i]
        <5>1. over[i] = cur[k + i - 1]
          BY <4>2, <4>3
        <5>2. k + i - 1 \in 1..(n - f + 1) /\ f + (k + i - 1) - 1 = g + i - 1
          BY <1>0, <1>1, <3>3
        <5>3. cur[k + i - 1] = us[g + i - 1]
          BY <4>4, <5>2
        <5> HIDE DEF g
        <5> QED BY <4>1, <5>1, <5>3
      <4> HIDE DEF g
      <4> QED BY <4>1, <4>2, <4>3, <4>5, SeqEqual
    <3>8. g = f => over = cur
      BY <1>1, <3>7
    <3> HIDE DEF g
    <3> QED BY <3>5, <3>6, <3>7, <3>8
  <2> QED BY <2>2, <2>3
<1>14. PICK g \in f..n : /\ over = SubSeq(us, g, n)
                         /\ g = f => over = cur
                         /\ g # f => UnitTokens(over) >= MinTokens
                                     /\ UnitTokens(cur) >= MinTokens
  BY <1>13
<1> HIDE DEF over
<1>15. ASSUME NEW i \in 1..(g - 1)
       PROVE  \E c \in ToSet(cs2) : Len(c.text) >= MinTokens /\ Carries(c, us[i])
  <2>1. CASE i \in 1..(f - 1)
    BY <1>4, <2>1 DEF Running
  <2>2. CASE i \in f..(g - 1)
    <3>1. g # f /\ i \in f..n
      BY <1>0, <2>2
    <3>2. Len(cand.text) >= MinTokens
      BY <1>0, <1>2, <1>12, <1>14, <3>1
    <3>3. cand \in ToSet(cs2)
      <4>1. cs2 = Append(cs, cand)
        BY <3>2 DEF cand
      <4>2. ToSet(Append(cs, cand)) = ToSet(cs) \union {cand}
        BY <1>2, <1>4, ToSetAppend
      <4> QED BY <4>1, <4>2
    <3> QED BY <1>2, <3>1, <3>2, <3>3
  <2>3. i \in 1..(f - 1) \/ i \in f..(g - 1)
    BY <1>0
  <2> QED BY <2>1, <2>2, <2>3
<1>16. g > 1 => UnitTokens(over) >= MinTokens
  <2>1. CASE g = f
    BY <1>14, <2>1 DEF Running
  <2> QED BY <1>14, <2>1
<1>17. g = 1 => \A c \in ToSet(cs2) : Len(c.text) <= Len(MergedText(over))
  <2> HAVE g = 1
  <2>1. f = 1 /\ over = cur
    BY <1>0, <1>14
  <2> TAKE c \in ToSet(cs2)
  <2>2. CASE c = cand
    BY <1>2, <1>12, <2>1, <2>2
  <2>3. CASE c \in ToSet(cs)
    BY <2>1, <2>3 DEF Running
  <2> QED BY <1>4, <2>2, <2>3
<1>18. g \in 1..n
  BY <1>0
<1>19. Running(us, n, g, over, cs2)
  BY <1>4, <1>10, <1>11, <1>14, <1>15, <1>16, <1>17 DEF Running
<1> QED
  BY <1>18, <1>19 DEF over

\* The last chunk is closed and those that are too small are let go: what is
\* left has every unit, or the document is smaller than a chunk.
LEMMA RunningEnds ==
  ASSUME NEW us \in Seq(UnitSet), InPageOrder(us), us # <<>>,
         NEW f \in 1..Len(us), NEW cur, NEW cs, Running(us, Len(us), f, cur, cs)
  PROVE  LET kept == filtered_chunks(Append(cs, merge_units(cur)))
         IN  /\ kept \in Seq(Chunk) /\ InOrder(kept)
             /\ \A c \in ToSet(kept) : RunOf(us, c)
             /\ \/ kept = <<>> /\ UnitTokens(us) < MinTokens
                \/ \A i \in 1..Len(us) : \E c \in ToSet(kept) : Carries(c, us[i])
<1> DEFINE n == Len(us)
           cand == merge_units(cur)
           all == Append(cs, cand)
           kept == filtered_chunks(all)
<1>0. n \in 1..n /\ n \in f..n /\ f \in 1..n /\ n \in Nat /\ f \in Nat /\ MinTokens \in Nat
  BY ChunkingAssumption
<1>1. cur = SubSeq(us, f, n) /\ cs \in Seq(Chunk)
  BY DEF Running
<1>2. /\ cand \in Chunk /\ cand.text = MergedText(cur) /\ RunOf(us, cand)
      /\ \A i \in f..n : Carries(cand, us[i])
      /\ \A p \in cand.pages : \E i \in f..n : p = us[i].page
  <2>1. LET c == merge_units(SubSeq(us, f, n))
        IN  /\ c \in Chunk /\ c.pages = {us[i].page : i \in f..n}
            /\ c.text = MergedText(SubSeq(us, f, n))
            /\ \A i \in f..n : Carries(c, us[i])
            /\ RunOf(us, c)
    <3> HIDE DEF n
    <3> QED BY <1>0, RunCarries DEF n
  <2> QED BY <1>1, <2>1
<1>3. cur \in Seq(UnitSet)
  BY <1>0, <1>1, PartOf
<1>4. all \in Seq(Chunk) /\ ToSet(all) = ToSet(cs) \union {cand}
  <2> HIDE DEF cand
  <2> QED BY <1>1, <1>2, ToSetAppend
<1>5. \A c \in ToSet(all) : RunOf(us, c)
  <2>1. \A c \in ToSet(cs) : RunOf(us, c)
    BY DEF Running
  <2> QED BY <1>2, <1>4, <2>1
<1>6. InOrder(all)
  <2>1. ASSUME NEW x \in ToSet(cs) PROVE page_start(x) <= page_start(cand)
    <3>1. page_start(x) <= us[f].page
      BY DEF Running
    <3>2. page_start(x) \in Nat
      <4>1. x \in Chunk
        BY <1>1, ToSetType
      <4> QED BY <4>1, StartType
    <3>3. page_start(cand) \in Nat /\ page_start(cand) \in cand.pages
      BY <1>2, StartType
    <3>4. PICK i \in f..n : page_start(cand) = us[i].page
      BY <1>2, <3>3
    <3>5. us[f].page <= us[i].page
      <4>1. f \in DOMAIN us /\ i \in DOMAIN us /\ f <= i
        BY <1>0
      <4> QED BY <4>1 DEF InPageOrder
    <3>6. us[f] \in UnitSet
      BY <1>0
    <3>7. us[f].page \in Nat
      BY <3>6 DEF UnitSet
    <3> HIDE DEF cand
    <3> QED BY <3>1, <3>2, <3>3, <3>4, <3>5, <3>7
  <2>2. InOrder(cs)
    BY DEF Running
  <2> HIDE DEF cand
  <2> QED BY <1>1, <1>2, <2>1, <2>2, InOrderAppend
<1>7. MergedText(cur) \in Text /\ Len(MergedText(cur)) \in Nat
      /\ UnitTokens(cur) \in Nat /\ UnitTokens(cur) <= Len(MergedText(cur))
  <2>1. MergedText(cur) \in Text
    BY <1>3, MergedGrows
  <2>2. Len(MergedText(cur)) \in Nat
    BY <2>1, TextSeq
  <2>3. UnitTokens(cur) \in Nat
    BY <1>3, UnitTokensGrows
  <2>4. UnitTokens(cur) <= Len(MergedText(cur))
    BY <1>3, MergedHolds
  <2> QED BY <2>1, <2>2, <2>3, <2>4
<1> HIDE DEF cand
<1>8. ASSUME NEW i \in 1..n, Len(cand.text) >= MinTokens \/ Len(all) = 1
      PROVE  \E c \in ToSet(all) : /\ Carries(c, us[i])
                                   /\ Len(c.text) >= MinTokens \/ Len(all) = 1
  <2>1. CASE i \in 1..(f - 1)
    BY <1>4, <2>1 DEF Running
  <2>2. CASE i \in f..n
    BY <1>2, <1>4, <1>8, <2>2
  <2>3. i \in 1..(f - 1) \/ i \in f..n
    BY <1>0
  <2> QED BY <2>1, <2>2, <2>3
<1> HIDE DEF all
<1>9. CASE Len(all) = 1
  <2>1. kept = all
    BY <1>9 DEF filtered_chunks
  <2>2. \A i \in 1..n : \E c \in ToSet(kept) : Carries(c, us[i])
    BY <1>8, <1>9, <2>1
  <2> QED BY <1>4, <1>5, <1>6, <2>1, <2>2 DEF all, cand
<1>10. CASE Len(all) # 1
  <2> DEFINE out == {c \in ToSet(all) : Len(c.text) < MinTokens}
  <2>1. kept = Without(all, out)
    BY <1>10 DEF filtered_chunks, count_tokens
  <2> HIDE DEF out, kept
  <2>a. kept \in Seq(Chunk) /\ InOrder(kept) /\ ToSet(kept) = ToSet(all) \ out
    BY <1>4, <1>6, <2>1, WithoutSet, WithoutInOrder
  <2>b. \A c \in ToSet(all) : Len(c.text) \in Nat
    <3>1. \A c \in ToSet(all) : c \in Chunk
      BY <1>4, ToSetType
    <3> QED BY <3>1 DEF Chunk, Text
  <2>2. /\ kept \in Seq(Chunk) /\ InOrder(kept)
        /\ ToSet(kept) = {c \in ToSet(all) : Len(c.text) >= MinTokens}
    <3>1. ToSet(all) \ out = {c \in ToSet(all) : Len(c.text) >= MinTokens}
      BY <1>0, <2>b DEF out
    <3> QED BY <2>a, <3>1
  <2> HIDE DEF kept
  <2>3. \A c \in ToSet(kept) : RunOf(us, c)
    BY <1>5, <2>2
  <2>4. CASE Len(cand.text) >= MinTokens
    <3>1. \A i \in 1..n : \E c \in ToSet(kept) : Carries(c, us[i])
      BY <1>8, <1>10, <2>2, <2>4
    <3> QED BY <2>2, <2>3, <3>1 DEF kept, all, cand
  <2>5. CASE ~(Len(cand.text) >= MinTokens)
    <3>1. f = 1
      <4>1. f > 1 => UnitTokens(cur) >= MinTokens
        BY DEF Running
      <4> QED BY <1>0, <1>2, <1>7, <2>5, <4>1
    <3>2. cur = us
      <4>1. cur = SubSeq(us, 1, Len(us))
        BY <1>1, <3>1
      <4> QED BY <4>1
    <3>3. UnitTokens(us) < MinTokens
      BY <1>0, <1>2, <1>7, <2>5, <3>2
    <3>4. ASSUME NEW c \in ToSet(all) PROVE ~(Len(c.text) >= MinTokens)
      <4>1. CASE c = cand
        BY <2>5, <4>1
      <4>2. CASE c \in ToSet(cs)
        <5>1. Len(c.text) <= Len(MergedText(cur))
          BY <3>1, <4>2 DEF Running
        <5>2. c \in Chunk
          BY <1>1, <4>2, ToSetType
        <5>3. Len(c.text) \in Nat
          BY <5>2 DEF Chunk, Text
        <5> QED BY <1>0, <1>2, <1>7, <2>5, <5>1, <5>3
      <4> QED BY <1>4, <4>1, <4>2
    <3>5. ToSet(kept) = {}
      BY <2>2, <3>4
    <3>6. kept = <<>>
      <4>1. DOMAIN kept = {}
        BY <3>5 DEF ToSet
      <4> QED BY <2>2, <4>1
    <3> QED BY <2>2, <2>3, <3>3, <3>6 DEF kept, all, cand
  <2> QED BY <2>4, <2>5
<1> QED
  BY <1>9, <1>10

\* The pages of a run are those between its first and its last.
LEMMA EndOf ==
  ASSUME NEW us \in Seq(UnitSet), InPageOrder(us), NEW a \in 1..Len(us), NEW b \in a..Len(us),
         NEW c, c = merge_units(SubSeq(us, a, b))
  PROVE  /\ page_start(c) = us[a].page /\ page_end(c) = us[b].page
         /\ c.pages = {us[i].page : i \in a..b}
<1>1. c \in Chunk /\ c.pages = {us[i].page : i \in a..b}
  BY RunCarries
<1>2. \A i \in 1..Len(us) : us[i].page \in Nat
  <2>1. \A i \in 1..Len(us) : us[i] \in UnitSet
    OBVIOUS
  <2> QED BY <2>1 DEF UnitSet
<1>3. \A i \in a..b : us[a].page <= us[i].page /\ us[i].page <= us[b].page
  <2> TAKE i \in a..b
  <2>1. a \in DOMAIN us /\ i \in DOMAIN us /\ b \in DOMAIN us /\ a <= i /\ i <= b
    OBVIOUS
  <2> QED BY <2>1 DEF InPageOrder
<1>4. a \in a..b /\ b \in a..b /\ a \in 1..Len(us) /\ b \in 1..Len(us)
  OBVIOUS
<1>5. page_start(c) = us[a].page
  <2>1. page_start(c) \in Nat /\ page_start(c) \in c.pages
        /\ \A p \in c.pages : page_start(c) <= p
    BY <1>1, StartType
  <2>2. us[a].page \in c.pages /\ us[a].page \in Nat
    BY <1>1, <1>2, <1>4
  <2>3. us[a].page <= page_start(c)
    BY <1>1, <1>3, <2>1
  <2> QED BY <2>1, <2>2, <2>3
<1>6. page_end(c) = us[b].page
  <2>1. us[b].page \in c.pages /\ \A p \in c.pages : p <= us[b].page
    BY <1>1, <1>3, <1>4
  <2>2. page_end(c) \in c.pages /\ \A p \in c.pages : p <= page_end(c)
    <3>1. \E x \in c.pages : \A y \in c.pages : y <= x
      BY <2>1
    <3> QED BY <3>1 DEF page_end, Greatest
  <2>3. page_end(c) \in Nat
    BY <1>1, <2>2 DEF Chunk
  <2> QED BY <1>2, <1>4, <2>1, <2>2, <2>3
<1> QED
  BY <1>1, <1>5, <1>6

\* A unit in a chunk is in the chunk that contained finds it in.
LEMMA ContainedHolds ==
  ASSUME NEW us \in Seq(UnitSet), InPageOrder(us), NEW c, NEW d, NEW i \in 1..Len(us),
         RunOf(us, c), RunOf(us, d), Carries(c, us[i]), contained(c, d)
  PROVE  Holds(d, us[i])
<1>1. PICK a, b \in 1..Len(us) : a <= b /\ c = merge_units(SubSeq(us, a, b))
  BY DEF RunOf
<1>2. PICK x, y \in 1..Len(us) : x <= y /\ d = merge_units(SubSeq(us, x, y))
  BY DEF RunOf
<1>3. b \in a..Len(us) /\ y \in x..Len(us)
  BY <1>1, <1>2
<1>4. /\ page_start(c) = us[a].page /\ page_end(c) = us[b].page
      /\ c.pages = {us[j].page : j \in a..b}
  BY <1>1, <1>3, EndOf
<1>5. /\ page_start(d) = us[x].page /\ page_end(d) = us[y].page
      /\ d.pages = {us[j].page : j \in x..y}
  BY <1>2, <1>3, EndOf
<1>6. us[x].page = us[a].page /\ us[y].page = us[b].page
  BY <1>4, <1>5 DEF contained, SamePages
<1>7. \A k \in 1..Len(us) : us[k].page \in Nat
  <2>1. \A k \in 1..Len(us) : us[k] \in UnitSet
    OBVIOUS
  <2> QED BY <2>1 DEF UnitSet
<1>8. us[a].page <= us[i].page /\ us[i].page <= us[b].page
  <2>1. PICK j \in a..b : us[i].page = us[j].page
    BY <1>4 DEF Carries
  <2>2. a \in DOMAIN us /\ j \in DOMAIN us /\ b \in DOMAIN us /\ a <= j /\ j <= b
    OBVIOUS
  <2> QED BY <2>1, <2>2 DEF InPageOrder
<1>9. us[i].page \in d.pages
  <2>1. CASE i \in x..y
    BY <1>5, <2>1
  <2>2. CASE i < x
    <3>1. us[i].page <= us[x].page
      <4>1. i \in DOMAIN us /\ x \in DOMAIN us /\ i <= x
        BY <2>2
      <4> QED BY <4>1 DEF InPageOrder
    <3>2. us[i].page = us[x].page
      BY <1>6, <1>7, <1>8, <3>1
    <3>3. x \in x..y
      BY <1>3
    <3> QED BY <1>5, <3>2, <3>3
  <2>3. CASE i > y
    <3>1. us[y].page <= us[i].page
      <4>1. i \in DOMAIN us /\ y \in DOMAIN us /\ y <= i
        BY <2>3
      <4> QED BY <4>1 DEF InPageOrder
    <3>2. us[i].page = us[y].page
      BY <1>6, <1>7, <1>8, <3>1
    <3>3. y \in x..y
      BY <1>3
    <3> QED BY <1>5, <3>2, <3>3
  <2>4. i \in x..y \/ i < x \/ i > y
    OBVIOUS
  <2> QED BY <2>1, <2>2, <2>3, <2>4
<1>10. us[i].text \in Text /\ c.text \in Text /\ d.text \in Text
  <2>1. us[i] \in UnitSet
    OBVIOUS
  <2>2. c \in Chunk /\ d \in Chunk
    BY <1>1, <1>2, <1>3, RunCarries
  <2> QED BY <2>1, <2>2 DEF UnitSet, Chunk
<1>11. /\ normalize_text(us[i].text) \in Text /\ normalize_text(c.text) \in Text
       /\ normalize_text(d.text) \in Text
  BY <1>10, NormalGrows
<1>12. Occurs(normalize_text(us[i].text), normalize_text(c.text))
  BY <1>10, NormalOccurs DEF Carries
<1>13. Occurs(normalize_text(c.text), normalize_text(d.text))
  BY <1>11, FindOccurs DEF contained
<1>14. Occurs(normalize_text(us[i].text), normalize_text(d.text))
  BY <1>11, <1>12, <1>13, OccursTransitive
<1>15. find(normalize_text(d.text), normalize_text(us[i].text), 1) # 0
  BY <1>11, <1>14, FindOccurs
<1> QED
  BY <1>9, <1>15 DEF Holds

LEMMA CarriesHolds ==
  ASSUME NEW u \in UnitSet, NEW c \in Chunk, Carries(c, u)
  PROVE  Holds(c, u)
<1>1. u.text \in Text /\ c.text \in Text
  BY DEF UnitSet, Chunk
<1>2. normalize_text(u.text) \in Text /\ normalize_text(c.text) \in Text
  BY <1>1, NormalGrows
<1>3. Occurs(normalize_text(u.text), normalize_text(c.text))
  BY <1>1, NormalOccurs DEF Carries
<1> QED
  BY <1>2, <1>3, FindOccurs DEF Holds, Carries

\* What holds a unit still does when the next chunks are put to it.
LEMMA HoldsMore ==
  ASSUME NEW u \in UnitSet, NEW c \in Chunk, NEW x \in Chunk, Holds(c, u),
         c.pages \subseteq x.pages, Occurs(c.text, x.text)
  PROVE  Holds(x, u)
<1>1. u.text \in Text /\ c.text \in Text /\ x.text \in Text
  BY DEF UnitSet, Chunk
<1>2. normalize_text(u.text) \in Text /\ normalize_text(c.text) \in Text
      /\ normalize_text(x.text) \in Text
  BY <1>1, NormalGrows
<1>3. Occurs(normalize_text(c.text), normalize_text(x.text))
  BY <1>1, NormalOccurs
<1>4. Occurs(normalize_text(u.text), normalize_text(c.text))
  BY <1>2, FindOccurs DEF Holds
<1>5. Occurs(normalize_text(u.text), normalize_text(x.text))
  BY <1>2, <1>3, <1>4, OccursTransitive
<1> QED
  BY <1>2, <1>5, FindOccurs DEF Holds

\* Sifted and merged, the chunks still have every unit they had, but for those
\* of the chunks dropped because another begins alike.
LEMMA SiftedHolds ==
  ASSUME NEW us \in Seq(UnitSet), InPageOrder(us), NEW cs \in Seq(Chunk),
         \A c \in ToSet(cs) : RunOf(us, c)
  PROVE  LET d == _dedupe_chunks(cs)
             m == _merge_adjacent_chunks(d.kept)
         IN  /\ m \in Seq(Chunk) /\ d.dropped \in Seq(Chunk)
             /\ cs = <<>> => m = <<>>
             /\ InOrder(cs) => InOrder(m)
             /\ \A i \in 1..Len(us) :
                  (\E c \in ToSet(cs) : Carries(c, us[i]))
                    => \E c \in ToSet(m \o d.dropped) : Holds(c, us[i])
<1> DEFINE d == _dedupe_chunks(cs)
           m == _merge_adjacent_chunks(d.kept)
<1>1. /\ d.kept \in Seq(Chunk) /\ d.dropped \in Seq(Chunk)
      /\ ToSet(d.kept) \subseteq ToSet(cs)
      /\ \A c \in ToSet(cs) : \/ c \in ToSet(d.dropped)
                              \/ \E k \in ToSet(d.kept) : k = c \/ contained(c, k)
      /\ InOrder(cs) => InOrder(d.kept)
  BY SiftKeeps
<1>2. cs = <<>> => m = <<>>
  <2>1. cs = <<>> => d.kept = <<>>
    BY SiftGrows DEF SiftBase
  <2> HIDE DEF d
  <2> QED BY <2>1, MergeGrows
<1> HIDE DEF d
<1>3. /\ m \in Seq(Chunk)
      /\ \A c \in ToSet(d.kept) : \E x \in ToSet(m) :
            c.pages \subseteq x.pages /\ Occurs(c.text, x.text)
      /\ InOrder(d.kept) => InOrder(m)
  BY <1>1, MergeKeeps
<1> HIDE DEF m
<1>4. ToSet(m) \subseteq ToSet(m \o d.dropped) /\ ToSet(d.dropped) \subseteq ToSet(m \o d.dropped)
  <2> DEFINE e == d.dropped
             all == m \o e
  <2>1. /\ all \in Seq(Chunk) /\ DOMAIN all = 1..(Len(m) + Len(e))
        /\ DOMAIN m = 1..Len(m) /\ DOMAIN e = 1..Len(e)
        /\ Len(m) \in Nat /\ Len(e) \in Nat
        /\ \A i \in 1..Len(m) : all[i] = m[i]
        /\ \A i \in 1..Len(e) : all[Len(m) + i] = e[i]
    <3> HIDE DEF e
    <3>1. e \in Seq(Chunk)
      BY <1>1 DEF e
    <3> QED BY <1>3, <3>1
  <2> HIDE DEF e, all
  <2>2. ToSet(m) \subseteq ToSet(all)
    <3>1. \A i \in DOMAIN m : i \in DOMAIN all /\ all[i] = m[i]
      BY <2>1
    <3> QED BY <3>1 DEF ToSet
  <2>3. ToSet(e) \subseteq ToSet(all)
    <3>1. \A i \in DOMAIN e : Len(m) + i \in DOMAIN all /\ all[Len(m) + i] = e[i]
      BY <2>1
    <3> QED BY <3>1 DEF ToSet
  <2> QED BY <2>2, <2>3 DEF e, all
<1>5. ASSUME NEW i \in 1..Len(us), NEW c \in ToSet(cs), Carries(c, us[i])
      PROVE  \E x \in ToSet(m \o d.dropped) : Holds(x, us[i])
  <2>1. us[i] \in UnitSet /\ c \in Chunk
    BY ToSetType
  <2>2. Holds(c, us[i])
    BY <1>5, <2>1, CarriesHolds
  <2>3. CASE c \in ToSet(d.dropped)
    BY <1>4, <2>2, <2>3
  <2>4. ASSUME NEW k \in ToSet(d.kept), k = c \/ contained(c, k)
        PROVE  \E x \in ToSet(m \o d.dropped) : Holds(x, us[i])
    <3>1. RunOf(us, c) /\ RunOf(us, k) /\ k \in Chunk
      BY <1>1, <2>4, ToSetType
    <3>2. Holds(k, us[i])
      <4>1. CASE k = c
        BY <2>2, <4>1
      <4>2. CASE contained(c, k)
        BY <1>5, <3>1, <4>2, ContainedHolds
      <4> QED BY <2>4, <4>1, <4>2
    <3>3. PICK x \in ToSet(m) : k.pages \subseteq x.pages /\ Occurs(k.text, x.text)
      BY <1>3
    <3>4. x \in Chunk
      BY <1>3, ToSetType
    <3>5. Holds(x, us[i])
      BY <2>1, <3>1, <3>2, <3>3, <3>4, HoldsMore
    <3> QED BY <1>4, <3>5
  <2> QED BY <1>1, <2>3, <2>4
<1> QED
  BY <1>1, <1>2, <1>3, <1>5 DEF d, m

-----------------------------------------------------------------------------
(***************************************************************************)
(* chunk_pages.  While the deterministic provider works, the chunk it is   *)
(* making begins with some unit f, and the chunks made have the units      *)
(* before f.                                                               *)
(***************************************************************************)
KeepsAll(us, cs, ds) ==
  \/ cs = <<>> /\ UnitTokens(us) < MinTokens
  \/ \A i \in 1..Len(us) : \E c \in ToSet(cs \o ds) : Holds(c, us[i])

DeterministicInv ==
  /\ doc \in Documents
  /\ config \in [provider : PROVIDERS, fallback_provider : PROVIDERS \union {Nobody}]
  /\ provider = Deterministic /\ status = "running" =>
       /\ taken \in 0..Len(units)
       /\ taken = 0 => current = <<>> /\ chunks = <<>>
       /\ taken > 0 => \E f \in 1..taken : Running(units, taken, f, current, chunks)
  /\ Ended(Deterministic) => KeepsAll(units, chunks, dropped) /\ InOrder(chunks)

LEMMA InitDeterministic == Init => DeterministicInv
<1> SUFFICES ASSUME Init PROVE DeterministicInv
  OBVIOUS
<1>1. doc \in Documents /\ config \in [provider : PROVIDERS,
                                       fallback_provider : PROVIDERS \union {Nobody}]
      /\ taken = 0 /\ current = <<>> /\ chunks = <<>> /\ status = "running"
  BY DEF Init
<1>2. Len(units) \in Nat
  BY <1>1, UnitsInOrder
<1> QED
  BY <1>1, <1>2 DEF DeterministicInv, Ended

LEMMA TakeUnitDeterministic ==
  ASSUME DeterministicInv, TakeUnit
  PROVE  DeterministicInv'
<1> DEFINE us == units
<1>0. us' = us
  BY DEF TakeUnit, units
<1>1. /\ status = "running" /\ provider = Deterministic /\ taken < Len(us)
      /\ taken \in 0..Len(us) /\ doc \in Documents
      /\ taken = 0 => current = <<>> /\ chunks = <<>>
      /\ taken > 0 => \E f \in 1..taken : Running(us, taken, f, current, chunks)
  BY DEF TakeUnit, DeterministicInv
<1>2. us \in Seq(UnitSet) /\ InPageOrder(us) /\ Len(us) \in Nat
  BY <1>1, UnitsInOrder
<1>3. PICK full \in BOOLEAN :
        /\ full => \/ Cardinality(PagesOf(current) \union {us[taken + 1].page}) > MaxPages
                   \/ current # <<>>
        /\ chunks' = IF full THEN flush_chunk(UnitTokens(current) >= MinTokens) ELSE chunks
        /\ current' = Append(IF full THEN _select_overlap_units(current) ELSE current,
                             us[taken + 1])
        /\ taken' = taken + 1
        /\ doc' = doc /\ config' = config /\ provider' = provider /\ status' = status
  BY DEF TakeUnit
<1> HIDE DEF us
<1>4. full => current # <<>>
  <2> SUFFICES ASSUME full, current = <<>> PROVE FALSE
    OBVIOUS
  <2>1. PagesOf(current) = {}
    BY DEF PagesOf
  <2>2. Cardinality({us[taken + 1].page}) = 1
    BY FS_Singleton
  <2>3. PagesOf(current) \union {us[taken + 1].page} = {us[taken + 1].page}
    BY <2>1
  <2>4. MaxPages \in Nat \ {0}
    BY ChunkingAssumption
  <2>5. Cardinality(PagesOf(current) \union {us[taken + 1].page}) = 1
    BY <2>2, <2>3
  <2>6. ~(Cardinality(PagesOf(current) \union {us[taken + 1].page}) > MaxPages)
    BY <2>4, <2>5
  <2> QED BY <1>3, <2>6
<1>5. taken' \in 1..Len(us)
  BY <1>1, <1>2, <1>3
<1>6. \E f \in 1..taken' : Running(us, taken', f, current', chunks')
  <2>1. CASE taken = 0
    <3>1. current' = Append(<<>>, us[1]) /\ chunks' = <<>> /\ taken' = 1
      <4>1. taken + 1 = 1 /\ current = <<>> /\ chunks = <<>> /\ ~full
        BY <1>1, <1>4, <2>1
      <4> QED BY <1>3, <4>1
    <3>2. us # <<>>
      BY <1>1, <1>2, <2>1
    <3>3. Running(us, 1, 1, Append(<<>>, us[1]), <<>>)
      BY <1>2, <3>2, RunningStarts
    <3>4. 1 \in 1..taken'
      BY <3>1
    <3> QED BY <3>1, <3>3, <3>4
  <2>2. CASE taken # 0
    <3> DEFINE n == taken
    <3>1. n \in 1..(Len(us) - 1) /\ n \in 1..Len(us)
      BY <1>1, <1>2, <2>2
    <3>2. PICK f \in 1..n : Running(us, n, f, current, chunks)
      BY <1>1, <3>1
    <3>3. ASSUME NEW g \in 1..n, NEW cur, NEW cs, Running(us, n, g, cur, cs),
                 current' = Append(cur, us[n + 1]), chunks' = cs
          PROVE  \E h \in 1..taken' : Running(us, taken', h, current', chunks')
      <4>1. Running(us, n + 1, g, Append(cur, us[n + 1]), cs)
        BY <1>2, <3>1, <3>3, RunningGoesOn
      <4>2. g \in 1..taken'
        BY <1>3, <3>1
      <4> QED BY <1>3, <3>3, <4>1, <4>2
    <3>4. CASE ~full
      <4>1. current' = Append(current, us[n + 1]) /\ chunks' = chunks
        BY <1>3, <3>4
      <4> QED BY <3>2, <3>3, <4>1
    <3>5. CASE full
      <4> DEFINE cand == merge_units(current)
      <4>1. /\ chunks' = flush_chunk(UnitTokens(current) >= MinTokens)
            /\ current' = Append(_select_overlap_units(current), us[n + 1])
        BY <1>3, <3>5
      <4>2. /\ chunks' = chunks \/ chunks' = Append(chunks, cand)
            /\ Len(cand.text) >= MinTokens => chunks' = Append(chunks, cand)
        BY <4>1 DEF flush_chunk, count_tokens
      <4> HIDE DEF n
      <4>3. \E g \in 1..n : Running(us, n, g, _select_overlap_units(current), chunks')
        BY <1>2, <3>1, <3>2, <4>2, RunningCloses
      <4>4. PICK g \in 1..n : Running(us, n, g, _select_overlap_units(current), chunks')
        BY <4>3
      <4> QED BY <3>3, <4>1, <4>4
    <3> QED BY <1>3, <3>4, <3>5
  <2> QED BY <2>1, <2>2
<1> QED
  BY <1>0, <1>1, <1>3, <1>5, <1>6 DEF DeterministicInv, Ended, us

LEMMA EndDeterministicKeeps ==
  ASSUME DeterministicInv, EndDeterministic
  PROVE  DeterministicInv'
<1> DEFINE us == units
           all == IF current = <<>> THEN chunks ELSE flush_chunk(TRUE)
           kept == filtered_chunks(all)
           d == _dedupe_chunks(kept)
           m == _merge_adjacent_chunks(d.kept)
<1>0. us' = us
  BY DEF EndDeterministic, units
<1>1. /\ status = "running" /\ provider = Deterministic /\ taken = Len(us)
      /\ doc \in Documents
      /\ taken = 0 => current = <<>> /\ chunks = <<>>
      /\ taken > 0 => \E f \in 1..taken : Running(us, taken, f, current, chunks)
      /\ config \in [provider : PROVIDERS, fallback_provider : PROVIDERS \union {Nobody}]
  BY DEF EndDeterministic, DeterministicInv
<1>2. us \in Seq(UnitSet) /\ InPageOrder(us) /\ Len(us) \in Nat
  BY <1>1, UnitsInOrder
<1>3. /\ chunks' = m /\ dropped' = d.dropped /\ status' = "done"
      /\ doc' = doc /\ config' = config /\ provider' = provider
  BY DEF EndDeterministic
<1> HIDE DEF us, d, m
<1>4. /\ kept \in Seq(Chunk) /\ InOrder(kept)
      /\ \A c \in ToSet(kept) : RunOf(us, c)
      /\ \/ kept = <<>> /\ UnitTokens(us) < MinTokens
         \/ \A i \in 1..Len(us) : \E c \in ToSet(kept) : Carries(c, us[i])
  <2>1. CASE taken = 0
    <3>1. all = <<>>
      BY <1>1, <2>1
    <3>3. kept = <<>>
      <4>1. Len(<<>>) # 1
        OBVIOUS
      <4>2. kept = filtered_chunks(<<>>)
        BY <3>1
      <4>3. \A out : Without(<<>>, out) = <<>>
        BY WithoutNone
      <4> HIDE DEF kept
      <4> QED BY <4>1, <4>2, <4>3 DEF filtered_chunks
    <3>4. us = <<>>
      <4>1. Len(us) = 0
        BY <1>1, <2>1
      <4> QED BY <1>2, <4>1
    <3>5. UnitTokens(us) < MinTokens
      <4>1. UnitTokens(us) = 0
        BY <3>4, UnitTokensGrows
      <4> QED BY <4>1, ChunkingAssumption
    <3>6. <<>> \in Seq(Chunk) /\ ToSet(<<>>) = {} /\ InOrder(<<>>)
      <4>1. <<>> \in Seq(Chunk) /\ DOMAIN <<>> = {}
        BY EmptySeq
      <4> QED BY <4>1, ToSetType DEF InOrder
    <3> HIDE DEF kept
    <3> QED BY <3>3, <3>5, <3>6
  <2>2. CASE taken # 0
    <3>1. us # <<>> /\ taken > 0 /\ Len(us) \in 1..Len(us)
      BY <1>1, <1>2, <2>2
    <3>2. PICK f \in 1..Len(us) : Running(us, Len(us), f, current, chunks)
      BY <1>1, <3>1
    <3>3. current # <<>>
      <4>1. current = SubSeq(us, f, Len(us))
        BY <3>2 DEF Running
      <4>2. Len(us) \in f..Len(us)
        BY <1>2
      <4> DEFINE e == Len(us)
                 p == SubSeq(us, f, e)
      <4>3. f \in 1..Len(us) /\ e \in f..Len(us)
        BY <1>2
      <4> HIDE DEF e
      <4>4. p # <<>>
        BY <1>2, <4>3, PartOf
      <4> QED BY <4>1, <4>4 DEF e
    <3>4. all = Append(chunks, merge_units(current))
      BY <3>3 DEF flush_chunk
    <3> HIDE DEF all
    <3>5. LET k == filtered_chunks(Append(chunks, merge_units(current)))
          IN  /\ k \in Seq(Chunk) /\ InOrder(k)
              /\ \A c \in ToSet(k) : RunOf(us, c)
              /\ \/ k = <<>> /\ UnitTokens(us) < MinTokens
                 \/ \A i \in 1..Len(us) : \E c \in ToSet(k) : Carries(c, us[i])
      BY <1>2, <3>1, <3>2, RunningEnds
    <3> QED BY <3>4, <3>5
  <2> QED BY <2>1, <2>2
<1> HIDE DEF all, kept
<1>5. /\ m \in Seq(Chunk) /\ d.dropped \in Seq(Chunk)
      /\ kept = <<>> => m = <<>>
      /\ InOrder(kept) => InOrder(m)
      /\ \A i \in 1..Len(us) :
           (\E c \in ToSet(kept) : Carries(c, us[i]))
             => \E c \in ToSet(m \o d.dropped) : Holds(c, us[i])
  BY <1>2, <1>4, SiftedHolds DEF d, m
<1>6. InOrder(m)
  BY <1>4, <1>5
<1>7. KeepsAll(us, m, d.dropped)
  <2> SUFFICES \/ m = <<>> /\ UnitTokens(us) < MinTokens
               \/ \A i \in 1..Len(us) : \E c \in ToSet(m \o d.dropped) : Holds(c, us[i])
    BY DEF KeepsAll
  <2>1. CASE kept = <<>> /\ UnitTokens(us) < MinTokens
    BY <1>5, <2>1
  <2>2. CASE \A i \in 1..Len(us) : \E c \in ToSet(kept) : Carries(c, us[i])
    BY <1>5, <2>2
  <2> QED BY <1>4, <2>1, <2>2
<1>8. KeepsAll(units', chunks', dropped') /\ InOrder(chunks')
  BY <1>0, <1>3, <1>6, <1>7 DEF us
<1> QED
  BY <1>1, <1>3, <1>8 DEF DeterministicInv, Ended

LEMMA NextDeterministic == DeterministicInv /\ [Next]_vars => DeterministicInv'
<1> SUFFICES ASSUME DeterministicInv, [Next]_vars PROVE DeterministicInv'
  OBVIOUS
<1>0. Recursive # Deterministic /\ doc \in Documents
      /\ config \in [provider : PROVIDERS, fallback_provider : PROVIDERS \union {Nobody}]
  BY DEF Recursive, Deterministic, DeterministicInv
<1>1. CASE TakeWindow
  <2>1. provider' = Recursive /\ doc' = doc /\ config' = config
    BY <1>1 DEF TakeWindow
  <2> QED BY <1>0, <2>1 DEF DeterministicInv, Ended
<1>2. CASE EndRecursive
  <2>1. provider' = Recursive /\ doc' = doc /\ config' = config
    BY <1>2 DEF EndRecursive
  <2> QED BY <1>0, <2>1 DEF DeterministicInv, Ended
<1>3. CASE TakeUnit
  BY <1>3, TakeUnitDeterministic
<1>4. CASE EndDeterministic
  BY <1>4, EndDeterministicKeeps
<1>5. CASE Raise
  <2>1. /\ doc' = doc /\ config' = config /\ taken' = 0 /\ current' = <<>> /\ chunks' = <<>>
        /\ status' = "running" \/ status' = "raised"
    BY <1>5 DEF Raise
  <2>2. Len(units) \in Nat /\ units' = units
    BY <1>0, <2>1, UnitsInOrder DEF units
  <2>3. taken' \in 0..Len(units')
    BY <2>1, <2>2
  <2> QED BY <1>0, <2>1, <2>3 DEF DeterministicInv, Ended
<1>6. CASE UNCHANGED vars
  <2>1. units' = units
    BY <1>6 DEF vars, units
  <2>2. /\ doc' = doc /\ config' = config /\ provider' = provider /\ status' = status
        /\ taken' = taken /\ current' = current /\ chunks' = chunks /\ dropped' = dropped
    BY <1>6 DEF vars
  <2> QED BY <2>1, <2>2 DEF DeterministicInv, Ended
<1> QED
  BY <1>1, <1>2, <1>3, <1>4, <1>5, <1>6 DEF Next

\* Every unit of a document that the deterministic provider has chunked is in a
\* chunk of the result, or in one dropped because a chunk of its pages begins
\* alike; only a document smaller than a chunk may have none.
THEOREM EveryUnitIsKept == Spec => []NothingLost
<1>1. DeterministicInv => NothingLost
  <2> SUFFICES ASSUME DeterministicInv, Ended(Deterministic),
                      ~(chunks = <<>> /\ UnitTokens(units) < MinTokens),
                      NEW u \in ToSet(units)
               PROVE  \E c \in ToSet(chunks \o dropped) : Holds(c, u)
    BY DEF NothingLost
  <2>1. units \in Seq(UnitSet)
    BY UnitsInOrder DEF DeterministicInv
  <2>2. PICK i \in 1..Len(units) : u = units[i]
    BY <2>1 DEF ToSet
  <2> QED BY <2>2 DEF DeterministicInv, KeepsAll
<1> QED
  BY <1>1, InitDeterministic, NextDeterministic, PTL DEF Spec
=============================================================================
